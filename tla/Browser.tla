------------------------------- MODULE Browser -------------------------------
(***************************************************************************)
(* The browser of the macOS app (macos/FluxBar/BrowserStore.swift): what   *)
(* it shows while its requests to the core are under way.                  *)
(*                                                                         *)
(* The store is one actor.  Each operation changes its state and starts a  *)
(* task; a task reads the state again when it begins, its request runs on  *)
(* a thread of its own, and its answer is handled by the actor later, in   *)
(* any order.  Generations tell old answers: a counter that goes up is     *)
(* modelled by the requests that stop being current.                       *)
(*                                                                         *)
(* External: the core answers a request in one step, with the rows of the  *)
(* view that are unread or retained, all of them: what its limit of 200    *)
(* cuts off is in Selections.  Starring moves no rows and is left          *)
(* out, and so is the time before the core is configured.  The popover may *)
(* be shown or hidden before any step: a guard that looks at               *)
(* isPopoverVisible is a choice.                                           *)
(***************************************************************************)
EXTENDS Naturals, FiniteSets

CONSTANTS
    View, Article,
    ArticlesOf,     \* the articles of a view; every view is unread-only
    FirstView,
    MinUndo,        \* automaticReadUndoMinimumCount
    Slot,           \* bound: one for each request under way, discards apart
    MaxEvents       \* bound: receipts given and requests that fail, together

ASSUME BrowserAssumption ==
    /\ FirstView \in View /\ ArticlesOf \in [View -> SUBSET Article]
    /\ MinUndo \in Nat /\ MaxEvents \in Nat

VARIABLES
    read,           \* the core: the articles that are read
    batches,        \* the core: the articles of every undo batch; {} if gone
    receipts,       \* the core: receipts given so far
    selection, shown, navigating, retained, undo,
    requests,       \* the tasks with a request, by slot
    discards,       \* the batches that are being discarded
    wanted,         \* history: the view the user asked for last
    failures,       \* history: how many requests failed
    lost            \* history: batches whose receipt or request was lost

coreVars == <<read, batches, receipts>>
appVars == <<selection, shown, navigating, retained, undo>>
historyVars == <<wanted, failures, lost>>
vars == <<coreVars, appVars, requests, discards, historyVars>>

Receipt == 1 .. MaxEvents
NoReceipt == 0
Free == [op |-> "none"]
Rows(view, retain) == {e \in ArticlesOf[view] : e \notin read \/ e \in retain}

Init ==
    /\ read = {}
    /\ batches = [b \in Receipt |-> {}]
    /\ receipts = 0
    /\ selection = FirstView
    /\ shown = [view |-> FirstView, rows |-> ArticlesOf[FirstView], read |-> {}]
    /\ navigating = FALSE
    /\ retained = {}
    /\ undo = NoReceipt
    /\ requests = [i \in Slot |-> Free]
    /\ discards = {}
    /\ wanted = FirstView
    /\ failures = 0
    /\ lost = {}

-----------------------------------------------------------------------------
(* A task: what it asks for, the generations it heeds that are still the   *)
(* ones it was started under, how far it is, and what it was answered.     *)
Heeds(op) == CASE op \in {"local", "reload"} -> {"route"}
               [] op = "refresh" -> {"route", "refresh"}
               [] op \in {"read", "auto", "undo"} -> {"route", "mutation"}

Task(op, stage, view, retain, ids, value) ==
    [op |-> op, stage |-> stage, view |-> view, retain |-> retain, ids |-> ids,
     value |-> value, current |-> Heeds(op), receipt |-> NoReceipt,
     rows |-> {}, read |-> {}]

(* A generation goes up: no task that is under way is current any more.    *)
(* The rows of an answer that will not be shown are forgotten.             *)
Forget(task) == IF task.current = Heeds(task.op) THEN task
                ELSE [task EXCEPT !.rows = {}, !.read = {}]
Outdate(tasks, generation) ==
    [i \in Slot |-> IF tasks[i] = Free THEN Free
                    ELSE Forget([tasks[i] EXCEPT !.current = @ \ {generation}])]

Started(tasks, task) ==
    \E i \in Slot : tasks[i] = Free /\ requests' = [tasks EXCEPT ![i] = task]

-----------------------------------------------------------------------------
(* navigate, loadLocalThenRefresh.                                         *)
Navigate(view) ==
    /\ Started(Outdate(requests, "route"), Task("local", "queued", view, {}, {}, TRUE))
    /\ selection' = view
    /\ retained' = {}
    /\ navigating' = TRUE
    /\ wanted' = view
    /\ UNCHANGED <<coreVars, shown, undo, discards, failures, lost>>

(* setRead: the request is built at once.                                  *)
SetRead(e, value) ==
    /\ e \in shown.rows /\ (e \in shown.read) # value
    /\ retained' = IF value THEN retained \cup {e} ELSE retained \ {e}
    /\ Started(Outdate(requests, "mutation"),
               Task("read", "sent", selection, retained', {e}, value))
    /\ UNCHANGED <<coreVars, selection, shown, navigating, undo, discards,
                   historyVars>>

(* The bound: a batch on its way to the core counts as its receipt.        *)
Batches == {i \in Slot : requests[i] # Free /\ requests[i].op = "auto"
                           /\ requests[i].stage # "answered"}
WithinBound == receipts + Cardinality(Batches) + failures < MaxEvents

(* markReadAutomatically: the request is built when the task begins.       *)
MarkReadAutomatically(ids) ==
    /\ WithinBound
    /\ ids # {} /\ ids \subseteq shown.rows \ shown.read
    /\ retained' = retained \cup ids
    /\ Started(Outdate(requests, "mutation"),
               Task("auto", "queued", selection, {}, ids, TRUE))
    /\ UNCHANGED <<coreVars, selection, shown, navigating, undo, discards,
                   historyVars>>

UndoAutomaticRead ==
    /\ undo # NoReceipt
    /\ undo' = NoReceipt
    /\ Started(Outdate(requests, "mutation"),
               [Task("undo", "queued", selection, {}, {}, FALSE) EXCEPT !.receipt = undo])
    /\ UNCHANGED <<coreVars, selection, shown, navigating, retained, discards,
                   historyVars>>

(* refresh, by hand and by the timer or after the popover has closed.      *)
ManualRefresh ==
    /\ retained' = {}
    /\ Started(Outdate(Outdate(requests, "mutation"), "refresh"),
               Task("refresh", "sent", selection, {}, {}, TRUE))
    /\ UNCHANGED <<coreVars, selection, shown, navigating, undo, discards,
                   historyVars>>

RefreshInBackground ==
    /\ Started(Outdate(requests, "refresh"),
               Task("refresh", "sent", selection, retained, {}, TRUE))
    /\ UNCHANGED <<coreVars, appVars, discards, historyVars>>

(* The eight seconds of the affordance pass, or scrollover is switched off.*)
UndoExpires ==
    /\ undo # NoReceipt
    /\ undo' = NoReceipt
    /\ discards' = discards \cup {undo}
    /\ UNCHANGED <<coreVars, selection, shown, navigating, retained, requests,
                   historyVars>>

-----------------------------------------------------------------------------
(* A queued task begins: it reads what is retained, and the automatic ones *)
(* the selection too.                                                      *)
Begin(i) ==
    /\ requests[i] # Free /\ requests[i].stage = "queued"
    /\ requests' = [requests EXCEPT
         ![i].stage = "sent", ![i].retain = retained,
         ![i].view = IF requests[i].op \in {"auto", "undo"} THEN selection ELSE @]
    /\ UNCHANGED <<coreVars, appVars, discards, historyVars>>

(* External: the core executes a request and answers it.                   *)
Answer(i, task, receipt) ==
    requests' = [requests EXCEPT ![i] =
        Forget([task EXCEPT !.stage = "answered", !.receipt = receipt, !.retain = {},
           !.ids = IF task.op = "auto" THEN task.ids \ read ELSE {},
           !.rows = {e \in ArticlesOf[task.view] : e \notin read' \/ e \in task.retain},
           !.read = read' \cap ArticlesOf[task.view]])]

Execute(i) ==
    LET task == requests[i]
        changed == task.ids \ read
        given == task.op = "auto" /\ changed # {}
    IN  /\ task # Free /\ task.stage = "sent"
        /\ read' = CASE task.op \in {"read", "auto"} /\ task.value -> read \cup task.ids
                     [] task.op = "read" /\ ~task.value -> read \ task.ids
                     [] task.op = "undo" -> read \ batches[task.receipt]
                     [] OTHER -> read
        /\ receipts' = IF given THEN receipts + 1 ELSE receipts
        /\ batches' = [b \in Receipt |->
             CASE given /\ b = receipts + 1 -> changed
               [] task.op = "read" -> batches[b] \ task.ids
               [] task.op = "undo" /\ b = task.receipt -> {}
               [] OTHER -> batches[b]]
        /\ Answer(i, task, IF given THEN receipts + 1 ELSE NoReceipt)
        /\ UNCHANGED <<appVars, discards, historyVars>>

ExecuteDiscard(b) ==
    /\ b \in discards
    /\ discards' = discards \ {b}
    /\ \/ batches' = [batches EXCEPT ![b] = {}] /\ UNCHANGED <<failures, lost>>
       \/ /\ WithinBound
          /\ failures' = failures + 1
          /\ lost' = lost \cup {b}
          /\ UNCHANGED batches
    /\ UNCHANGED <<read, receipts, appVars, requests, wanted>>

-----------------------------------------------------------------------------
(* The answers, handled by the actor.                                      *)
Apply(task) ==
    /\ shown' = [view |-> task.view, rows |-> task.rows, read |-> task.read]
    /\ selection' = task.view
    /\ navigating' = FALSE
Ignore == UNCHANGED <<shown, selection, navigating>>

Over(i) == requests' = [requests EXCEPT ![i] = Free]
Becomes(i, tasks, task) == requests' = [tasks EXCEPT ![i] = task]
Waiting(i, op) == requests[i] # Free /\ requests[i].stage = "answered" /\ requests[i].op = op

(* The guards that tell old answers.                                       *)
OfRoute(task) == "route" \in task.current
RefreshIsRecent(task) == "refresh" \in task.current
RefreshIsCurrent(task) == OfRoute(task) /\ "refresh" \in task.current
MutationOfRoute(task) == OfRoute(task)
MutationIsCurrent(task) == OfRoute(task) /\ "mutation" \in task.current

(* The local rows come first, then a refresh unless the popover is open.   *)
ThenRefresh(i) ==
    LET task == requests[i]
    IN  \/ OfRoute(task)
           /\ Becomes(i, Outdate(requests, "refresh"),
                      Task("refresh", "sent", task.view, retained, {}, TRUE))
        \/ Over(i)

LocalAnswer(i) ==
    /\ Waiting(i, "local")
    /\ IF OfRoute(requests[i]) THEN Apply(requests[i]) ELSE Ignore
    /\ ThenRefresh(i)
    /\ UNCHANGED <<coreVars, retained, undo, discards, historyVars>>

RefreshAnswer(i) ==
    /\ Waiting(i, "refresh")
    /\ IF RefreshIsCurrent(requests[i]) THEN Apply(requests[i]) ELSE Ignore
    /\ Over(i)
    /\ UNCHANGED <<coreVars, retained, undo, discards, historyVars>>

(* mutate: an answer that a later mutation has outdated is not shown, the  *)
(* rows are loaded again instead.                                          *)
ShowOrReload(i) ==
    LET task == requests[i]
        current == MutationIsCurrent(task)
    IN  /\ IF current THEN Apply(task) ELSE Ignore
        /\ IF ~current /\ OfRoute(task)
           THEN Becomes(i, requests, Task("reload", "queued", selection, {}, {}, TRUE))
           ELSE Over(i)

ReadAnswer(i) ==
    /\ Waiting(i, "read")
    /\ ShowOrReload(i)
    /\ UNCHANGED <<coreVars, retained, undo, discards, historyVars>>

(* The receipt is offered if the answer is current and marks enough, in    *)
(* place of an older one; receipts that are not offered are discarded.     *)
Offered(task) ==
    MutationIsCurrent(task) /\ Cardinality(task.ids) >= MinUndo
NotOfferedOutdated(task, previous) ==
    IF Offered(task) THEN {previous} ELSE IF "mutation" \in task.current THEN {task.receipt} ELSE {}
NotOffered(task, previous) == IF Offered(task) THEN {previous} ELSE {task.receipt}

AutomaticAnswer(i) ==
    LET task == requests[i]
        given == task.receipt # NoReceipt
    IN  /\ Waiting(i, "auto")
        /\ ShowOrReload(i)
        /\ undo' = IF given /\ Offered(task) THEN task.receipt ELSE undo
        /\ discards' = IF given THEN discards \cup (NotOffered(task, undo) \ {NoReceipt})
                       ELSE discards
        /\ UNCHANGED <<coreVars, retained, historyVars>>

UndoAnswer(i) ==
    /\ Waiting(i, "undo")
    /\ IF MutationIsCurrent(requests[i]) THEN Apply(requests[i]) ELSE Ignore
    /\ Over(i)
    /\ UNCHANGED <<coreVars, retained, undo, discards, historyVars>>

ReloadAnswer(i) ==
    /\ Waiting(i, "reload")
    /\ IF OfRoute(requests[i]) THEN Apply(requests[i]) ELSE Ignore
    /\ Over(i)
    /\ UNCHANGED <<coreVars, retained, undo, discards, historyVars>>

(* A request fails, before the core has acted or when it has: the error is  *)
(* shown, and a view that was asked for is refreshed all the same.         *)
Fail(i) ==
    LET task == requests[i]
    IN  /\ WithinBound
        /\ failures' = failures + 1
        /\ task # Free /\ task.stage \in {"sent", "answered"}
        /\ IF task.op = "local" /\ OfRoute(task)
           THEN navigating' = FALSE /\ ThenRefresh(i)
           ELSE Over(i) /\ UNCHANGED navigating
        /\ lost' = lost \cup ({task.receipt} \ {NoReceipt})
        /\ UNCHANGED <<coreVars, selection, shown, retained, undo, discards, wanted>>

MutationAnswer(i) == ReadAnswer(i) \/ AutomaticAnswer(i) \/ UndoAnswer(i)

Next ==
    \/ \E view \in View : Navigate(view)
    \/ \E e \in Article, value \in BOOLEAN : SetRead(e, value)
    \/ \E ids \in SUBSET Article : MarkReadAutomatically(ids)
    \/ UndoAutomaticRead \/ UndoExpires
    \/ RefreshInBackground \/ ManualRefresh
    \/ \E i \in Slot :
         \/ Begin(i) \/ Execute(i) \/ Fail(i)
         \/ LocalAnswer(i) \/ RefreshAnswer(i) \/ MutationAnswer(i) \/ ReloadAnswer(i)
    \/ \E b \in Receipt : ExecuteDiscard(b)

Spec == Init /\ [][Next]_vars

-----------------------------------------------------------------------------
Quiet == \A i \in Slot : requests[i] = Free

(* The browser never falls back to a view the user has left, in whatever   *)
(* order answers arrive; and when all have arrived it shows the view that  *)
(* was asked for last, unless a request failed.                            *)
ShowsWhatIsWanted ==
    /\ selection = wanted
    /\ Quiet /\ failures = 0 => shown.view = wanted /\ ~navigating

(* Every undo batch of the core is offered to the user, or a task knows    *)
(* its receipt, or it is being discarded: old answers, newer offers and    *)
(* expiry leave none behind, but for requests that failed.                 *)
ReceiptsAccounted ==
    \A b \in Receipt : batches[b] # {} /\ b \notin lost =>
        b = undo \/ b \in discards \/ \E i \in Slot :
            requests[i] # Free /\ requests[i].receipt = b

(* The answer of a mutation takes no row away that was marked read in this *)
(* presentation: the list does not collapse while the user scrolls.        *)
MutationsKeepRows ==
    [][(\E i \in Slot : MutationAnswer(i)) /\ shown'.view = shown.view
         => retained \cap shown.rows \subseteq shown'.rows]_vars

(* "Rows marked read locally remain visible in the current unread-only     *)
(* list until the user explicitly refreshes it. Pending flushes, scheduled *)
(* background sync, and subsequent scrollover batches retain those rows."  *)
(* (SYNC_AND_DATA.md): when all answers have arrived, none is missing.     *)
RowsRetained == Quiet /\ failures = 0 => retained \cap ArticlesOf[selection] \subseteq shown.rows
=============================================================================
