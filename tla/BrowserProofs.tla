---------------------------- MODULE BrowserProofs ----------------------------
(***************************************************************************)
(* Proofs about the app's browser, for any views, articles and number of   *)
(* requests under way: it shows the view that is wanted, knows every undo  *)
(* receipt, and no mutation's answer takes a retained row away.            *)
(***************************************************************************)
EXTENDS Browser, TLAPS

Ops == {"local", "reload", "refresh", "read", "auto", "undo"}
Mutations == {"read", "auto", "undo"}
Generations == {"route", "refresh", "mutation"}
Tasks ==
    [op : Ops, stage : {"queued", "sent", "answered"}, view : View,
     retain : SUBSET Article, ids : SUBSET Article, value : BOOLEAN,
     current : SUBSET Generations, receipt : Nat,
     rows : SUBSET Article, read : SUBSET Article]

Types ==
    /\ read \in SUBSET Article /\ retained \in SUBSET Article
    /\ batches \in [Receipt -> SUBSET Article] /\ receipts \in Nat
    /\ selection \in View /\ wanted \in View
    /\ shown \in [view : View, rows : SUBSET Article, read : SUBSET Article]
    /\ navigating \in BOOLEAN /\ undo \in Nat
    /\ discards \in SUBSET Nat /\ lost \in SUBSET Nat /\ failures \in Nat
    /\ requests \in [Slot -> Tasks \cup {Free}]

(* A task heeds its own generations only; one that heeds the route is for  *)
(* the view that is selected; an undo receipt is asked back by a task that *)
(* has not been executed or comes with the answer to an automatic batch;   *)
(* only answers have rows.                                                 *)
TaskOK(t, sel) ==
    /\ t.current \subseteq Heeds(t.op)
    /\ "route" \in t.current => t.view = sel
    /\ t.receipt # NoReceipt => \/ t.op = "undo" /\ t.stage # "answered"
                                \/ t.op = "auto" /\ t.stage = "answered"
    /\ t.rows \subseteq ArticlesOf[t.view]
    /\ t.stage # "answered" => t.rows = {}

(* The request of a mutation that will be shown has all that is retained,  *)
(* and so has its answer.                                                  *)
TaskRetains(t, ret) ==
    t.op \in Mutations /\ MutationIsCurrent(t) =>
        /\ t.stage = "queued" => t.op # "read"
        /\ t.stage = "sent" => ret \subseteq t.retain
        /\ t.stage = "answered" => ret \cap ArticlesOf[t.view] \subseteq t.rows

TasksOK ==
    \A i \in Slot : requests[i] # Free =>
        TaskOK(requests[i], selection) /\ TaskRetains(requests[i], retained)

(* A view that is not shown yet has its local rows under way.              *)
ViewComes ==
    /\ selection = wanted
    /\ failures = 0 =>
         \/ shown.view = wanted /\ ~navigating
         \/ \E i \in Slot : /\ requests[i] # Free /\ requests[i].op = "local"
                            /\ OfRoute(requests[i])

RowsOfView == shown.rows \subseteq ArticlesOf[shown.view]

BInv == Types /\ TasksOK /\ ViewComes /\ RowsOfView /\ ReceiptsAccounted

-----------------------------------------------------------------------------
(* A task that is told that a generation went up.                          *)
Told(t, generation) == Forget([t EXCEPT !.current = @ \ {generation}])

LEMMA FreeIsNoTask == \A t \in Tasks : t # Free
<1> SUFFICES ASSUME NEW t \in Tasks, t = Free PROVE FALSE
  OBVIOUS
<1>1. t.op \in Ops
  BY DEF Tasks
<1>2. t.op = "none"
  BY DEF Free
<1> QED BY <1>1, <1>2 DEF Ops

(* Forgetting the rows changes nothing else, and nothing that is current.  *)
LEMMA ForgetKeeps ==
    ASSUME NEW t \in Tasks
    PROVE  /\ Forget(t) \in Tasks
           /\ Forget(t).op = t.op /\ Forget(t).stage = t.stage
           /\ Forget(t).view = t.view /\ Forget(t).retain = t.retain
           /\ Forget(t).receipt = t.receipt /\ Forget(t).current = t.current
           /\ Forget(t).rows \subseteq t.rows
           /\ t.current = Heeds(t.op) => Forget(t) = t
<1>1. CASE t.current = Heeds(t.op)
  BY <1>1 DEF Forget
<1>2. CASE t.current # Heeds(t.op)
  BY <1>2 DEF Forget, Tasks
<1> QED BY <1>1, <1>2

(* A task that was told is still right, and one that is outdated retains   *)
(* whatever one likes.                                                     *)
LEMMA ToldKeeps ==
    ASSUME NEW t \in Tasks, NEW generation \in Generations,
           NEW sel, TaskOK(t, sel)
    PROVE  LET u == Told(t, generation)
           IN  /\ u \in Tasks /\ u.op = t.op /\ u.receipt = t.receipt
               /\ u.current = t.current \ {generation}
               /\ TaskOK(u, sel)
               /\ \A ret : TaskRetains(t, ret) => TaskRetains(u, ret)
               /\ generation = "mutation" => \A ret : TaskRetains(u, ret)
               /\ generation = "route" => \A other : TaskOK(u, other)
                                                       /\ \A ret : TaskRetains(u, ret)
<1> DEFINE v == [t EXCEPT !.current = @ \ {generation}]
           u == Told(t, generation)
<1>1. /\ v \in Tasks /\ v.op = t.op /\ v.stage = t.stage /\ v.view = t.view
      /\ v.retain = t.retain /\ v.receipt = t.receipt /\ v.rows = t.rows
      /\ v.current = t.current \ {generation}
  BY DEF Tasks
<1> HIDE DEF v
<1>2. /\ u \in Tasks /\ u.op = t.op /\ u.stage = t.stage /\ u.view = t.view
      /\ u.retain = t.retain /\ u.receipt = t.receipt
      /\ u.current = t.current \ {generation}
      /\ u.rows \subseteq t.rows
      /\ u.current = Heeds(u.op) => u.rows = t.rows
  <2>1. u = Forget(v)
    BY DEF Told, v
  <2> HIDE DEF u
  <2>2. /\ Forget(v).op = v.op /\ Forget(v).rows \subseteq v.rows
        /\ v.current = Heeds(v.op) => Forget(v) = v
    BY <1>1, ForgetKeeps
  <2> QED BY <1>1, <2>1, <2>2, ForgetKeeps
<1> HIDE DEF u
<1>3. TaskOK(u, sel)
  BY <1>2 DEF TaskOK
<1>4. ASSUME NEW ret, TaskRetains(t, ret) PROVE TaskRetains(u, ret)
  <2> SUFFICES ASSUME u.op \in Mutations, MutationIsCurrent(u)
               PROVE  TaskRetains(u, ret)
    BY DEF TaskRetains
  <2>1. u.current = Heeds(u.op) /\ MutationIsCurrent(t)
    BY <1>2, <1>3 DEF TaskOK, MutationIsCurrent, OfRoute, Heeds, Mutations
  <2> QED BY <1>2, <1>4, <2>1 DEF TaskRetains
<1>5. generation = "mutation" => \A ret : TaskRetains(u, ret)
  BY <1>2 DEF TaskRetains, MutationIsCurrent
<1>6. generation = "route" => \A other : TaskOK(u, other) /\ \A ret : TaskRetains(u, ret)
  BY <1>2, <1>3 DEF TaskOK, TaskRetains, MutationIsCurrent, OfRoute
<1> QED BY <1>2, <1>3, <1>4, <1>5, <1>6 DEF u

-----------------------------------------------------------------------------
(* The tasks after one or two generations went up: tasks where there were  *)
(* some, with their operations and receipts.                               *)
Same(tasks) ==
    /\ tasks \in [Slot -> Tasks \cup {Free}]
    /\ \A i \in Slot : requests[i] = Free <=> tasks[i] = Free
    /\ \A i \in Slot : requests[i] # Free =>
         tasks[i].op = requests[i].op /\ tasks[i].receipt = requests[i].receipt
SameRoute(tasks) ==
    \A i \in Slot : requests[i] # Free => (OfRoute(tasks[i]) <=> OfRoute(requests[i]))
Good(tasks, sel, ret) ==
    \A i \in Slot : tasks[i] # Free => TaskOK(tasks[i], sel) /\ TaskRetains(tasks[i], ret)

LEMMA NothingOutdated ==
    ASSUME BInv
    PROVE  Same(requests) /\ SameRoute(requests) /\ Good(requests, selection, retained)
BY DEF BInv, Types, TasksOK, Same, SameRoute, Good

LEMMA OutdateKeeps ==
    ASSUME NEW old, Same(old), NEW sel, NEW ret, Good(old, sel, ret),
           NEW generation \in Generations
    PROVE  LET tasks == Outdate(old, generation)
           IN  /\ Same(tasks)
               /\ Good(tasks, sel, ret)
               /\ generation = "mutation" => \A r : Good(tasks, sel, r)
               /\ generation = "route" => \A s, r : Good(tasks, s, r)
               /\ generation # "route" /\ SameRoute(old) => SameRoute(tasks)
<1> DEFINE tasks == Outdate(old, generation)
<1>1. \A i \in Slot : old[i] # Free => old[i] \in Tasks
  BY DEF Same
<1>2. \A i \in Slot : tasks[i] = IF old[i] = Free THEN Free ELSE Told(old[i], generation)
  BY DEF Outdate, Told
<1>3. \A i \in Slot : old[i] # Free =>
        LET t == old[i]  u == Told(t, generation)
        IN  /\ u \in Tasks /\ u.op = t.op /\ u.receipt = t.receipt
            /\ u.current = t.current \ {generation}
            /\ TaskOK(u, sel) /\ TaskRetains(u, ret)
            /\ generation = "mutation" => \A r : TaskRetains(u, r)
            /\ generation = "route" => \A s : TaskOK(u, s) /\ \A r : TaskRetains(u, r)
  BY <1>1, ToldKeeps DEF Good
<1>4. tasks \in [Slot -> Tasks \cup {Free}]
  <2>1. tasks = [i \in Slot |-> tasks[i]]
    BY DEF Outdate
  <2>2. \A i \in Slot : tasks[i] \in Tasks \cup {Free}
    BY <1>2, <1>3
  <2> HIDE DEF tasks
  <2> QED BY <2>1, <2>2
<1> HIDE DEF tasks
<1>5. \A i \in Slot : old[i] = Free <=> tasks[i] = Free
  BY <1>2, <1>3, FreeIsNoTask
<1>6. Same(tasks)
  BY <1>2, <1>3, <1>4, <1>5 DEF Same
<1>7. Good(tasks, sel, ret)
  BY <1>2, <1>3 DEF Good
<1>8. generation = "mutation" => \A r : Good(tasks, sel, r)
  BY <1>2, <1>3 DEF Good
<1>9. generation = "route" => \A s, r : Good(tasks, s, r)
  BY <1>2, <1>3 DEF Good
<1>10. generation # "route" /\ SameRoute(old) => SameRoute(tasks)
  BY <1>2, <1>3, <1>5 DEF SameRoute, OfRoute, Same
<1> QED BY <1>6, <1>7, <1>8, <1>9, <1>10 DEF tasks

(* One task takes a slot, a free one or its own, and leaves the others.    *)
LEMMA ReplaceKeeps ==
    ASSUME NEW tasks, Same(tasks), Good(tasks, selection', retained'),
           NEW k \in Slot, NEW x \in Tasks \cup {Free},
           x # Free => TaskOK(x, selection') /\ TaskRetains(x, retained'),
           requests' = [tasks EXCEPT ![k] = x]
    PROVE  /\ requests' \in [Slot -> Tasks \cup {Free}]
           /\ TasksOK'
           /\ requests'[k] = x
           /\ \A i \in Slot \ {k} : requests'[i] = tasks[i]
<1>1. /\ requests' \in [Slot -> Tasks \cup {Free}]
      /\ requests'[k] = x /\ \A i \in Slot \ {k} : requests'[i] = tasks[i]
  BY DEF Same
<1>2. \A i \in Slot : requests'[i] # Free =>
        TaskOK(requests'[i], selection') /\ TaskRetains(requests'[i], retained')
  BY <1>1 DEF Good
<1>3. TasksOK'
  BY <1>2 DEF TasksOK, TaskOK, TaskRetains, MutationIsCurrent, OfRoute
<1> QED BY <1>1, <1>3

(* A task as it is made.                                                   *)
Made(t, op, stage, view, retain) ==
    /\ t \in Tasks /\ t.op = op /\ t.stage = stage /\ t.view = view
    /\ t.retain = retain /\ t.receipt = NoReceipt /\ t.rows = {}
    /\ OfRoute(t) /\ TaskOK(t, view)

LEMMA TaskIsMade ==
    ASSUME NEW op \in Ops, NEW stage \in {"queued", "sent"}, NEW view \in View,
           NEW retain \in SUBSET Article, NEW ids \in SUBSET Article,
           NEW value \in BOOLEAN
    PROVE  Made(Task(op, stage, view, retain, ids, value), op, stage, view, retain)
<1>1. Heeds(op) \in SUBSET Generations /\ "route" \in Heeds(op)
  BY DEF Heeds, Ops, Generations
<1> DEFINE t == Task(op, stage, view, retain, ids, value)
<1>2. t \in Tasks
  BY <1>1 DEF Task, Tasks, NoReceipt
<1>3. /\ t.op = op /\ t.stage = stage /\ t.view = view
      /\ t.retain = retain /\ t.receipt = NoReceipt /\ t.rows = {}
      /\ t.current = Heeds(op)
  BY DEF Task
<1> HIDE DEF t
<1>4. OfRoute(t) /\ TaskOK(t, view)
  BY <1>1, <1>3 DEF TaskOK, OfRoute
<1>5. Made(t, op, stage, view, retain)
  BY <1>2, <1>3, <1>4 DEF Made
<1> QED BY <1>5 DEF t

-----------------------------------------------------------------------------
(* What the operations of the user have in common: a new task in a free    *)
(* slot, for the view that is selected then.                               *)
LEMMA StarterKeeps ==
    ASSUME BInv, NEW tasks, Same(tasks), NEW task \in Tasks, Started(tasks, task),
           Good(tasks, selection', retained'),
           TaskOK(task, selection'), TaskRetains(task, retained'),
           retained' \in SUBSET Article, selection' \in View, navigating' \in BOOLEAN,
           \/ task.op = "local" /\ OfRoute(task) /\ wanted' = selection'
           \/ SameRoute(tasks) /\ UNCHANGED <<selection, wanted, navigating>>,
           undo' = undo \/ (undo' = NoReceipt /\ task.receipt = undo),
           UNCHANGED <<coreVars, shown, discards, failures, lost>>
    PROVE  BInv'
<1>1. PICK k \in Slot : tasks[k] = Free /\ requests' = [tasks EXCEPT ![k] = task]
  BY DEF Started
<1>2. task # Free
  BY FreeIsNoTask
<1>3. /\ requests' \in [Slot -> Tasks \cup {Free}] /\ TasksOK'
      /\ requests'[k] = task /\ \A i \in Slot \ {k} : requests'[i] = tasks[i]
  BY <1>1, ReplaceKeeps
<1>4. \A i \in Slot : requests[i] # Free =>
        /\ requests'[i] = tasks[i] /\ requests'[i] # Free
        /\ tasks[i].op = requests[i].op /\ tasks[i].receipt = requests[i].receipt
  BY <1>1, <1>3 DEF Same
<1>5. Types'
  BY <1>3 DEF BInv, Types, coreVars, NoReceipt
<1>6. RowsOfView'
  BY DEF BInv, RowsOfView
<1>7. ViewComes'
  <2>1. CASE task.op = "local" /\ OfRoute(task) /\ wanted' = selection'
    BY <1>2, <1>3, <2>1 DEF ViewComes
  <2>2. CASE SameRoute(tasks) /\ UNCHANGED <<selection, wanted, navigating>>
    <3>1. \A i \in Slot : requests[i] # Free => (OfRoute(requests'[i]) <=> OfRoute(requests[i]))
      BY <1>4, <2>2 DEF SameRoute
    <3> QED BY <1>4, <2>2, <3>1 DEF BInv, ViewComes
  <2> QED BY <2>1, <2>2
<1>8. ReceiptsAccounted'
  <2> SUFFICES ASSUME NEW b \in Receipt, batches[b] # {}, b \notin lost
               PROVE  \/ b = undo' \/ b \in discards
                      \/ \E i \in Slot : requests'[i] # Free /\ requests'[i].receipt = b
    BY DEF ReceiptsAccounted, coreVars
  <2>1. CASE b = undo
    BY <1>2, <1>3, <2>1
  <2>2. CASE b # undo
    BY <1>4, <2>2 DEF BInv, ReceiptsAccounted
  <2> QED BY <2>1, <2>2
<1> QED BY <1>3, <1>5, <1>6, <1>7, <1>8 DEF BInv

(* What the answers have in common: the rows of a task of this route are   *)
(* shown, or nothing is; its receipt is offered or discarded.              *)
LEMMA AnswerKeeps ==
    ASSUME BInv, NEW k \in Slot, requests[k] \in Tasks,
           NEW tasks, Same(tasks), SameRoute(tasks), Good(tasks, selection, retained),
           NEW x \in Tasks \cup {Free},
           x # Free => TaskOK(x, selection) /\ TaskRetains(x, retained),
           requests' = [tasks EXCEPT ![k] = x],
           \/ OfRoute(requests[k]) /\ Apply(requests[k])
           \/ ~(requests[k].op = "local" /\ OfRoute(requests[k])) /\ Ignore,
           undo' \in Nat, discards' \in SUBSET Nat,
           \A b \in Receipt : b = undo \/ b \in discards \/ b = requests[k].receipt
                                => b = undo' \/ b \in discards',
           UNCHANGED <<coreVars, retained, historyVars>>
    PROVE  BInv'
<1> DEFINE task == requests[k]
<1>1. /\ task # Free /\ TaskOK(task, selection)
      /\ task.view \in View /\ task.rows \in SUBSET Article /\ task.read \in SUBSET Article
  BY FreeIsNoTask DEF BInv, TasksOK, Tasks
<1>2. selection' = selection
  BY <1>1 DEF Apply, Ignore, OfRoute, TaskOK
<1>3. /\ requests' \in [Slot -> Tasks \cup {Free}] /\ TasksOK'
      /\ \A i \in Slot \ {k} : requests'[i] = tasks[i]
  BY <1>2, ReplaceKeeps
<1>4. \A i \in Slot \ {k} : requests[i] # Free =>
        /\ requests'[i] # Free /\ requests'[i].op = requests[i].op
        /\ requests'[i].receipt = requests[i].receipt
        /\ OfRoute(requests'[i]) <=> OfRoute(requests[i])
  BY <1>3 DEF Same, SameRoute
<1>5. \/ /\ OfRoute(task) /\ navigating' = FALSE
         /\ shown' = [view |-> task.view, rows |-> task.rows, read |-> task.read]
      \/ ~(task.op = "local" /\ OfRoute(task)) /\ UNCHANGED <<shown, navigating>>
  BY DEF Apply, Ignore
<1>6. Types'
  <2>1. /\ shown \in [view : View, rows : SUBSET Article, read : SUBSET Article]
        /\ navigating \in BOOLEAN
    BY DEF BInv, Types
  <2>2. /\ shown' \in [view : View, rows : SUBSET Article, read : SUBSET Article]
        /\ navigating' \in BOOLEAN
    <3>1. [view |-> task.view, rows |-> task.rows, read |-> task.read]
            \in [view : View, rows : SUBSET Article, read : SUBSET Article]
      BY <1>1
    <3> HIDE DEF task
    <3>2. shown' \in [view : View, rows : SUBSET Article, read : SUBSET Article]
      BY <1>5, <2>1, <3>1
    <3>3. navigating' \in BOOLEAN
      BY <1>5, <2>1
    <3> QED BY <3>2, <3>3
  <2>3. requests' \in [Slot -> Tasks \cup {Free}] /\ selection' = selection
    BY <1>2, <1>3
  <2> HIDE DEF task
  <2> QED BY <2>2, <2>3 DEF BInv, Types, coreVars, historyVars
<1>7. RowsOfView'
  BY <1>1, <1>5 DEF BInv, RowsOfView, TaskOK
<1>8. ViewComes'
  <2>1. CASE OfRoute(task) /\ navigating' = FALSE
             /\ shown' = [view |-> task.view, rows |-> task.rows, read |-> task.read]
    BY <1>1, <1>2, <2>1 DEF BInv, ViewComes, TaskOK, OfRoute, historyVars
  <2>2. CASE ~(task.op = "local" /\ OfRoute(task)) /\ UNCHANGED <<shown, navigating>>
    <3>1. \A i \in Slot : requests[i] # Free /\ requests[i].op = "local" /\ OfRoute(requests[i])
            => /\ requests'[i] # Free /\ requests'[i].op = "local"
               /\ OfRoute(requests'[i])
      BY <1>4, <2>2
    <3> QED BY <1>2, <2>2, <3>1 DEF BInv, ViewComes, historyVars
  <2> QED BY <1>5, <2>1, <2>2
<1>9. ReceiptsAccounted'
  <2> SUFFICES ASSUME NEW b \in Receipt, batches[b] # {}, b \notin lost
               PROVE  \/ b = undo' \/ b \in discards'
                      \/ \E i \in Slot : requests'[i] # Free /\ requests'[i].receipt = b
    BY DEF ReceiptsAccounted, coreVars, historyVars
  <2>1. CASE b = undo \/ b \in discards \/ b = task.receipt
    BY <2>1
  <2>2. CASE ~(b = undo \/ b \in discards \/ b = task.receipt)
    <3>1. PICK i \in Slot : requests[i] # Free /\ requests[i].receipt = b
      BY <2>2 DEF BInv, ReceiptsAccounted
    <3>2. i # k
      BY <2>2, <3>1
    <3> QED BY <1>4, <3>1, <3>2
  <2> QED BY <2>1, <2>2
<1> QED BY <1>3, <1>6, <1>7, <1>8, <1>9 DEF BInv

-----------------------------------------------------------------------------
(* The user's operations.                                                  *)
LEMMA NavigateKeeps ==
    ASSUME BInv, NEW view \in View, Navigate(view) PROVE BInv'
<1> DEFINE tasks == Outdate(requests, "route")
           task == Task("local", "queued", view, {}, {}, TRUE)
<1>1. Same(tasks) /\ Good(tasks, view, {})
  BY NothingOutdated, OutdateKeeps DEF Generations
<1>2. /\ task \in Tasks /\ task.op = "local" /\ OfRoute(task)
      /\ TaskOK(task, view) /\ TaskRetains(task, {})
  <2>1. Made(task, "local", "queued", view, {})
    BY TaskIsMade DEF Ops
  <2> HIDE DEF task
  <2> QED BY <2>1 DEF Made, TaskRetains, Mutations
<1>3. /\ Started(tasks, task)
      /\ selection' = view /\ retained' = {} /\ navigating' = TRUE /\ wanted' = view
      /\ UNCHANGED <<coreVars, shown, undo, discards, failures, lost>>
  BY DEF Navigate
<1> HIDE DEF tasks, task
<1>4. /\ Good(tasks, selection', retained') /\ TaskOK(task, selection')
      /\ TaskRetains(task, retained')
  BY <1>1, <1>2, <1>3
<1>5. /\ retained' \in SUBSET Article /\ selection' \in View /\ wanted' = selection'
      /\ undo' = undo /\ UNCHANGED <<coreVars, shown, discards, failures, lost>>
  BY <1>3
<1>6. navigating' \in BOOLEAN
  BY <1>3
<1>7. Started(tasks, task)
  BY <1>3
<1>8. task.op = "local" /\ OfRoute(task) /\ wanted' = selection'
  BY <1>2, <1>5
<1>9. task \in Tasks /\ Same(tasks)
  BY <1>1, <1>2
<1> QED BY <1>4, <1>5, <1>6, <1>7, <1>8, <1>9, StarterKeeps

LEMMA MutationStarts ==
    ASSUME BInv, NEW task \in Tasks, Started(Outdate(requests, "mutation"), task),
           TaskOK(task, selection), TaskRetains(task, retained'),
           retained' \in SUBSET Article,
           undo' = undo \/ (undo' = NoReceipt /\ task.receipt = undo),
           UNCHANGED <<coreVars, selection, shown, navigating, discards, historyVars>>
    PROVE  BInv'
<1> DEFINE tasks == Outdate(requests, "mutation")
<1>1. Same(tasks) /\ SameRoute(tasks) /\ Good(tasks, selection, retained')
  BY NothingOutdated, OutdateKeeps DEF Generations
<1>2. Started(tasks, task)
  OBVIOUS
<1>3. selection' \in View /\ navigating' \in BOOLEAN
  BY DEF BInv, Types
<1>4. /\ UNCHANGED <<selection, wanted, navigating>>
      /\ UNCHANGED <<coreVars, shown, discards, failures, lost>>
  BY DEF historyVars
<1>5. Good(tasks, selection', retained') /\ TaskOK(task, selection')
  BY <1>1, <1>4
<1> HIDE DEF tasks
<1> QED BY <1>1, <1>2, <1>3, <1>4, <1>5, StarterKeeps

LEMMA SetReadKeeps ==
    ASSUME BInv, NEW e \in Article, NEW value \in BOOLEAN, SetRead(e, value)
    PROVE  BInv'
<1> DEFINE task == Task("read", "sent", selection, retained', {e}, value)
<1>1. retained' \in SUBSET Article /\ selection \in View
  BY DEF SetRead, BInv, Types
<1>2. task \in Tasks /\ TaskOK(task, selection) /\ TaskRetains(task, retained')
  <2>1. Made(task, "read", "sent", selection, retained')
    BY <1>1, TaskIsMade DEF Ops
  <2> HIDE DEF task
  <2> QED BY <2>1 DEF Made, TaskRetains
<1>3. /\ Started(Outdate(requests, "mutation"), task)
      /\ undo' = undo
      /\ UNCHANGED <<coreVars, selection, shown, navigating, discards, historyVars>>
  BY DEF SetRead
<1> HIDE DEF task
<1> QED BY <1>1, <1>2, <1>3, MutationStarts

LEMMA MarkReadKeeps ==
    ASSUME BInv, NEW ids \in SUBSET Article, MarkReadAutomatically(ids)
    PROVE  BInv'
<1> DEFINE task == Task("auto", "queued", selection, {}, ids, TRUE)
<1>1. retained' \in SUBSET Article /\ selection \in View
  BY DEF MarkReadAutomatically, BInv, Types
<1>2. task \in Tasks /\ TaskOK(task, selection) /\ TaskRetains(task, retained')
  <2>1. Made(task, "auto", "queued", selection, {})
    BY <1>1, TaskIsMade DEF Ops
  <2> HIDE DEF task
  <2> QED BY <2>1 DEF Made, TaskRetains
<1>3. /\ Started(Outdate(requests, "mutation"), task)
      /\ undo' = undo
      /\ UNCHANGED <<coreVars, selection, shown, navigating, discards, historyVars>>
  BY DEF MarkReadAutomatically
<1> HIDE DEF task
<1> QED BY <1>1, <1>2, <1>3, MutationStarts

LEMMA UndoKeeps ==
    ASSUME BInv, UndoAutomaticRead PROVE BInv'
<1> DEFINE plain == Task("undo", "queued", selection, {}, {}, FALSE)
           task == [plain EXCEPT !.receipt = undo]
<1>1. retained \in SUBSET Article /\ selection \in View /\ undo \in Nat
  BY DEF BInv, Types
<1>2. Made(plain, "undo", "queued", selection, {})
  BY <1>1, TaskIsMade DEF Ops
<1>3. /\ Started(Outdate(requests, "mutation"), task)
      /\ undo' = NoReceipt /\ retained' = retained
      /\ UNCHANGED <<coreVars, selection, shown, navigating, discards, historyVars>>
  BY DEF UndoAutomaticRead
<1> HIDE DEF plain
<1>4. /\ task \in Tasks /\ task.op = "undo" /\ task.stage = "queued"
      /\ task.rows = {} /\ task.receipt = undo
      /\ task.current = plain.current /\ task.view = plain.view
  BY <1>1, <1>2 DEF Tasks, Made
<1> HIDE DEF task
<1>5. TaskOK(task, selection) /\ TaskRetains(task, retained')
  BY <1>2, <1>4 DEF TaskOK, TaskRetains, Made
<1> QED BY <1>1, <1>3, <1>4, <1>5, MutationStarts

LEMMA RefreshKeeps ==
    ASSUME BInv, ManualRefresh \/ RefreshInBackground PROVE BInv'
<1>1. selection \in View /\ retained \in SUBSET Article
  BY DEF BInv, Types
<1>2. /\ retained' \in {retained, {}}
      /\ UNCHANGED <<coreVars, selection, shown, navigating, undo, discards, historyVars>>
  BY DEF ManualRefresh, RefreshInBackground, appVars
<1>3. PICK tasks :
        /\ Same(tasks) /\ SameRoute(tasks) /\ Good(tasks, selection, retained')
        /\ \E retain \in SUBSET Article :
             Started(tasks, Task("refresh", "sent", selection, retain, {}, TRUE))
  <2>1. CASE ManualRefresh
    <3> DEFINE half == Outdate(requests, "mutation")  tasks == Outdate(half, "refresh")
    <3>1. Same(half) /\ SameRoute(half) /\ Good(half, selection, {})
      BY NothingOutdated, OutdateKeeps DEF Generations
    <3> HIDE DEF half
    <3>2. Same(tasks) /\ SameRoute(tasks) /\ Good(tasks, selection, {})
      BY <3>1, OutdateKeeps DEF Generations
    <3>3. retained' = {}
          /\ Started(tasks, Task("refresh", "sent", selection, {}, {}, TRUE))
      BY <2>1 DEF ManualRefresh, half
    <3> QED BY <3>2, <3>3
  <2>2. CASE RefreshInBackground
    <3> DEFINE tasks == Outdate(requests, "refresh")
    <3>1. Same(tasks) /\ SameRoute(tasks) /\ Good(tasks, selection, retained)
      BY NothingOutdated, OutdateKeeps DEF Generations
    <3>2. retained' = retained
          /\ Started(tasks, Task("refresh", "sent", selection, retained, {}, TRUE))
      BY <2>2 DEF RefreshInBackground, appVars
    <3> QED BY <1>1, <3>1, <3>2
  <2> QED BY <2>1, <2>2
<1>4. PICK retain \in SUBSET Article :
        Started(tasks, Task("refresh", "sent", selection, retain, {}, TRUE))
  BY <1>3
<1> DEFINE task == Task("refresh", "sent", selection, retain, {}, TRUE)
<1>5. task \in Tasks /\ TaskOK(task, selection) /\ TaskRetains(task, retained')
  <2>1. Made(task, "refresh", "sent", selection, retain)
    BY <1>1, TaskIsMade DEF Ops
  <2> HIDE DEF task
  <2> QED BY <2>1 DEF Made, TaskRetains, Mutations
<1>6. Started(tasks, task)
  BY <1>4
<1> HIDE DEF task
<1>7. /\ UNCHANGED <<selection, wanted, navigating>> /\ undo' = undo
      /\ UNCHANGED <<coreVars, shown, discards, failures, lost>>
  BY <1>2 DEF historyVars
<1>8. /\ retained' \in SUBSET Article /\ selection' \in View
      /\ Good(tasks, selection', retained') /\ TaskOK(task, selection')
  BY <1>1, <1>2, <1>3, <1>5, <1>7
<1>9. navigating' \in BOOLEAN
  BY <1>7 DEF BInv, Types
<1> QED BY <1>3, <1>5, <1>6, <1>7, <1>8, <1>9, StarterKeeps

-----------------------------------------------------------------------------
(* The answers.  A slot is given up, or taken by the task that follows.    *)
Replaced(k) ==
    \E tasks : \E x \in Tasks \cup {Free} :
        /\ Same(tasks) /\ SameRoute(tasks) /\ Good(tasks, selection, retained)
        /\ x # Free => TaskOK(x, selection) /\ TaskRetains(x, retained)
        /\ requests' = [tasks EXCEPT ![k] = x]

LEMMA OverReplaces ==
    ASSUME BInv, NEW k \in Slot, Over(k) PROVE Replaced(k)
BY NothingOutdated DEF Over, Replaced

LEMMA ThenRefreshReplaces ==
    ASSUME BInv, NEW k \in Slot, requests[k] \in Tasks, ThenRefresh(k)
    PROVE  Replaced(k)
<1>1. CASE Over(k)
  BY <1>1, OverReplaces
<1>2. CASE ~Over(k)
  <2> DEFINE tasks == Outdate(requests, "refresh")
             x == Task("refresh", "sent", requests[k].view, retained, {}, TRUE)
  <2>1. OfRoute(requests[k]) /\ requests' = [tasks EXCEPT ![k] = x]
    BY <1>2 DEF ThenRefresh, Becomes
  <2>2. Same(tasks) /\ SameRoute(tasks) /\ Good(tasks, selection, retained)
    BY NothingOutdated, OutdateKeeps DEF Generations
  <2>3. requests[k].view = selection /\ selection \in View /\ retained \in SUBSET Article
    BY <2>1, FreeIsNoTask DEF BInv, Types, TasksOK, TaskOK, OfRoute
  <2>4. x \in Tasks /\ TaskOK(x, selection) /\ TaskRetains(x, retained)
    <3>1. Made(x, "refresh", "sent", selection, retained)
      BY <2>3, TaskIsMade DEF Ops
    <3> HIDE DEF x
    <3> QED BY <3>1 DEF Made, TaskRetains, Mutations
  <2> HIDE DEF tasks, x
  <2> QED BY <2>1, <2>2, <2>4 DEF Replaced
<1> QED BY <1>1, <1>2

LEMMA ReloadReplaces ==
    ASSUME BInv, NEW k \in Slot, requests[k] \in Tasks, ShowOrReload(k)
    PROVE  Replaced(k)
<1>1. CASE Over(k)
  BY <1>1, OverReplaces
<1>2. CASE ~Over(k)
  <2> DEFINE x == Task("reload", "queued", selection, {}, {}, TRUE)
  <2>1. requests' = [requests EXCEPT ![k] = x]
    BY <1>2 DEF ShowOrReload, Becomes
  <2>2. selection \in View
    BY DEF BInv, Types
  <2>3. x \in Tasks /\ TaskOK(x, selection) /\ TaskRetains(x, retained)
    <3>1. Made(x, "reload", "queued", selection, {})
      BY <2>2, TaskIsMade DEF Ops
    <3> HIDE DEF x
    <3> QED BY <3>1 DEF Made, TaskRetains, Mutations
  <2> HIDE DEF x
  <2> QED BY <2>1, <2>3, NothingOutdated DEF Replaced
<1> QED BY <1>1, <1>2

LEMMA WaitingTask ==
    ASSUME BInv, NEW k \in Slot, NEW op, Waiting(k, op)
    PROVE  /\ requests[k] \in Tasks /\ requests[k].op = op
           /\ requests[k].stage = "answered"
           /\ TaskOK(requests[k], selection) /\ TaskRetains(requests[k], retained)
           /\ op # "auto" => requests[k].receipt = NoReceipt
<1>1. /\ requests[k] \in Tasks /\ requests[k].op = op
      /\ requests[k].stage = "answered"
  BY DEF Waiting, BInv, Types
<1>2. TaskOK(requests[k], selection) /\ TaskRetains(requests[k], retained)
  BY <1>1, FreeIsNoTask DEF BInv, TasksOK
<1>3. op # "auto" => requests[k].receipt = NoReceipt
  BY <1>1, <1>2 DEF TaskOK
<1> QED BY <1>1, <1>2, <1>3

(* An answer without a receipt.                                            *)
LEMMA PlainAnswer ==
    ASSUME BInv, NEW k \in Slot, NEW op, Waiting(k, op), op # "auto",
           Replaced(k),
           \/ OfRoute(requests[k]) /\ Apply(requests[k])
           \/ ~(op = "local" /\ OfRoute(requests[k])) /\ Ignore,
           UNCHANGED <<coreVars, retained, undo, discards, historyVars>>
    PROVE  BInv'
<1>1. /\ requests[k] \in Tasks /\ requests[k].op = op
      /\ requests[k].receipt = NoReceipt
  BY WaitingTask
<1>2. undo' = undo /\ discards' = discards
      /\ UNCHANGED <<coreVars, retained, historyVars>>
  OBVIOUS
<1>3. undo' \in Nat /\ discards' \in SUBSET Nat
  BY <1>2 DEF BInv, Types
<1>4. \A b \in Receipt : b = undo \/ b \in discards \/ b = requests[k].receipt
                           => b = undo' \/ b \in discards'
  BY <1>1, <1>2 DEF Receipt, NoReceipt
<1>5. \/ OfRoute(requests[k]) /\ Apply(requests[k])
      \/ ~(requests[k].op = "local" /\ OfRoute(requests[k])) /\ Ignore
  BY <1>1
<1>6. PICK tasks : \E x \in Tasks \cup {Free} :
        /\ Same(tasks) /\ SameRoute(tasks) /\ Good(tasks, selection, retained)
        /\ x # Free => TaskOK(x, selection) /\ TaskRetains(x, retained)
        /\ requests' = [tasks EXCEPT ![k] = x]
  BY DEF Replaced
<1>9. PICK x \in Tasks \cup {Free} :
        /\ Same(tasks) /\ SameRoute(tasks) /\ Good(tasks, selection, retained)
        /\ x # Free => TaskOK(x, selection) /\ TaskRetains(x, retained)
        /\ requests' = [tasks EXCEPT ![k] = x]
  BY <1>6
<1> QED BY <1>1, <1>2, <1>3, <1>4, <1>5, <1>9, AnswerKeeps

LEMMA PlainAnswersKeep ==
    ASSUME BInv, NEW k \in Slot,
           LocalAnswer(k) \/ RefreshAnswer(k) \/ ReadAnswer(k) \/ UndoAnswer(k)
             \/ ReloadAnswer(k)
    PROVE  BInv'
<1>1. CASE LocalAnswer(k)
  <2>1. Waiting(k, "local")
        /\ UNCHANGED <<coreVars, retained, undo, discards, historyVars>>
        /\ IF OfRoute(requests[k]) THEN Apply(requests[k]) ELSE Ignore
    BY <1>1 DEF LocalAnswer
  <2>2. Replaced(k)
    BY <1>1, <2>1, WaitingTask, ThenRefreshReplaces DEF LocalAnswer
  <2> QED BY <2>1, <2>2, PlainAnswer
<1>2. CASE RefreshAnswer(k)
  <2>1. Waiting(k, "refresh")
        /\ UNCHANGED <<coreVars, retained, undo, discards, historyVars>>
        /\ IF RefreshIsCurrent(requests[k]) THEN Apply(requests[k]) ELSE Ignore
    BY <1>2 DEF RefreshAnswer
  <2>2. Replaced(k)
    BY <1>2, OverReplaces DEF RefreshAnswer
  <2>3. RefreshIsCurrent(requests[k]) => OfRoute(requests[k])
    BY DEF RefreshIsCurrent
  <2> QED BY <2>1, <2>2, <2>3, PlainAnswer
<1>3. CASE ReadAnswer(k)
  <2>1. Waiting(k, "read")
        /\ UNCHANGED <<coreVars, retained, undo, discards, historyVars>>
        /\ IF MutationIsCurrent(requests[k]) THEN Apply(requests[k]) ELSE Ignore
    BY <1>3 DEF ReadAnswer, ShowOrReload
  <2>2. Replaced(k)
    BY <1>3, <2>1, WaitingTask, ReloadReplaces DEF ReadAnswer
  <2>3. MutationIsCurrent(requests[k]) => OfRoute(requests[k])
    BY DEF MutationIsCurrent
  <2> QED BY <2>1, <2>2, <2>3, PlainAnswer
<1>4. CASE UndoAnswer(k)
  <2>1. Waiting(k, "undo")
        /\ UNCHANGED <<coreVars, retained, undo, discards, historyVars>>
        /\ IF MutationIsCurrent(requests[k]) THEN Apply(requests[k]) ELSE Ignore
    BY <1>4 DEF UndoAnswer
  <2>2. Replaced(k)
    BY <1>4, OverReplaces DEF UndoAnswer
  <2>3. MutationIsCurrent(requests[k]) => OfRoute(requests[k])
    BY DEF MutationIsCurrent
  <2> QED BY <2>1, <2>2, <2>3, PlainAnswer
<1>5. CASE ReloadAnswer(k)
  <2>1. Waiting(k, "reload")
        /\ UNCHANGED <<coreVars, retained, undo, discards, historyVars>>
        /\ IF OfRoute(requests[k]) THEN Apply(requests[k]) ELSE Ignore
    BY <1>5 DEF ReloadAnswer
  <2>2. Replaced(k)
    BY <1>5, OverReplaces DEF ReloadAnswer
  <2> QED BY <2>1, <2>2, PlainAnswer
<1> QED BY <1>1, <1>2, <1>3, <1>4, <1>5

(* The answer to an automatic batch offers its receipt or discards it.     *)
LEMMA AutomaticAnswerKeeps ==
    ASSUME BInv, NEW k \in Slot, AutomaticAnswer(k) PROVE BInv'
<1> DEFINE task == requests[k]
<1>1. /\ Waiting(k, "auto") /\ ShowOrReload(k)
      /\ undo' = IF task.receipt # NoReceipt /\ Offered(task) THEN task.receipt ELSE undo
      /\ discards' = IF task.receipt # NoReceipt
                     THEN discards \cup (NotOffered(task, undo) \ {NoReceipt})
                     ELSE discards
      /\ UNCHANGED <<coreVars, retained, historyVars>>
  BY DEF AutomaticAnswer
<1>2. task \in Tasks /\ task.op = "auto" /\ task.receipt \in Nat
  BY <1>1, WaitingTask DEF Tasks
<1>3. undo \in Nat /\ discards \in SUBSET Nat
  BY DEF BInv, Types
<1>4. Replaced(k)
  BY <1>1, <1>2, ReloadReplaces
<1>5. \/ OfRoute(task) /\ Apply(task)
      \/ ~(task.op = "local" /\ OfRoute(task)) /\ Ignore
  BY <1>1, <1>2 DEF ShowOrReload, MutationIsCurrent
<1>6. PICK tasks : \E x \in Tasks \cup {Free} :
        /\ Same(tasks) /\ SameRoute(tasks) /\ Good(tasks, selection, retained)
        /\ x # Free => TaskOK(x, selection) /\ TaskRetains(x, retained)
        /\ requests' = [tasks EXCEPT ![k] = x]
  BY <1>4 DEF Replaced
<1>9. PICK x \in Tasks \cup {Free} :
        /\ Same(tasks) /\ SameRoute(tasks) /\ Good(tasks, selection, retained)
        /\ x # Free => TaskOK(x, selection) /\ TaskRetains(x, retained)
        /\ requests' = [tasks EXCEPT ![k] = x]
  BY <1>6
<1> HIDE DEF task
<1>7. undo' \in Nat /\ discards' \in SUBSET Nat
  BY <1>1, <1>2, <1>3 DEF NotOffered
<1>8. \A b \in Receipt : b = undo \/ b \in discards \/ b = task.receipt
                           => b = undo' \/ b \in discards'
  BY <1>1 DEF NotOffered, Receipt, NoReceipt
<1> QED BY <1>1, <1>2, <1>5, <1>7, <1>8, <1>9, AnswerKeeps DEF task

-----------------------------------------------------------------------------
(* A request is built when its task begins.                                *)
LEMMA BeginKeeps ==
    ASSUME BInv, NEW k \in Slot, Begin(k) PROVE BInv'
<1> DEFINE t == requests[k]
           x == [t EXCEPT !.stage = "sent", !.retain = retained,
                          !.view = IF t.op \in {"auto", "undo"} THEN selection ELSE @]
<1>1. t # Free /\ t.stage = "queued" /\ requests' = [requests EXCEPT ![k] = x]
      /\ UNCHANGED <<coreVars, appVars, discards, historyVars>>
  BY DEF Begin
<1>2. /\ t \in Tasks /\ TaskOK(t, selection)
      /\ retained \in SUBSET Article /\ selection \in View
  BY <1>1 DEF BInv, Types, TasksOK
<1>3. /\ x \in Tasks /\ x.op = t.op /\ x.stage = "sent" /\ x.retain = retained
      /\ x.current = t.current /\ x.receipt = t.receipt /\ x.rows = t.rows
      /\ x.view \in {selection, t.view}
  BY <1>2 DEF Tasks
<1> HIDE DEF x
<1>4. TaskOK(x, selection) /\ TaskRetains(x, retained)
  BY <1>1, <1>2, <1>3 DEF TaskOK, TaskRetains
<1>5. UNCHANGED <<selection, retained, navigating, shown, undo, discards, wanted,
                  failures, lost, read, batches, receipts>>
  BY <1>1 DEF coreVars, appVars, historyVars
<1>6. Good(requests, selection', retained')
      /\ TaskOK(x, selection') /\ TaskRetains(x, retained')
  BY <1>4, <1>5, NothingOutdated
<1>7. /\ requests' \in [Slot -> Tasks \cup {Free}] /\ TasksOK'
      /\ requests'[k] = x /\ \A i \in Slot \ {k} : requests'[i] = requests[i]
  BY <1>1, <1>3, <1>6, NothingOutdated, ReplaceKeeps
<1>8. \A i \in Slot : requests[i] # Free =>
        /\ requests'[i] # Free /\ requests'[i].op = requests[i].op
        /\ requests'[i].receipt = requests[i].receipt
        /\ OfRoute(requests'[i]) <=> OfRoute(requests[i])
  BY <1>3, <1>7, FreeIsNoTask DEF OfRoute
<1>9. Types'
  BY <1>5, <1>7 DEF BInv, Types
<1>10. RowsOfView'
  BY <1>5 DEF BInv, RowsOfView
<1>11. ViewComes'
  BY <1>5, <1>8 DEF BInv, ViewComes
<1>12. ReceiptsAccounted'
  BY <1>5, <1>8 DEF BInv, ReceiptsAccounted
<1> QED BY <1>7, <1>9, <1>10, <1>11, <1>12 DEF BInv

(* The core answers with what is unread or retained; a batch it makes has  *)
(* its receipt in the answer, and a batch it undoes is gone.               *)
LEMMA ExecuteKeeps ==
    ASSUME BInv, NEW k \in Slot, Execute(k) PROVE BInv'
<1> DEFINE t == requests[k]
           changed == t.ids \ read
           given == t.op = "auto" /\ changed # {}
           receipt == IF given THEN receipts + 1 ELSE NoReceipt
           rows == {e \in ArticlesOf[t.view] : e \notin read' \/ e \in t.retain}
           v == [t EXCEPT !.stage = "answered", !.receipt = receipt, !.retain = {},
                          !.ids = IF t.op = "auto" THEN t.ids \ read ELSE {},
                          !.rows = rows, !.read = read' \cap ArticlesOf[t.view]]
           x == Forget(v)
<1>1. /\ t # Free /\ t.stage = "sent" /\ requests' = [requests EXCEPT ![k] = x]
      /\ read' = CASE t.op \in {"read", "auto"} /\ t.value -> read \cup t.ids
                   [] t.op = "read" /\ ~t.value -> read \ t.ids
                   [] t.op = "undo" -> read \ batches[t.receipt]
                   [] OTHER -> read
      /\ receipts' = IF given THEN receipts + 1 ELSE receipts
      /\ batches' = [b \in Receipt |->
           CASE given /\ b = receipts + 1 -> changed
             [] t.op = "read" -> batches[b] \ t.ids
             [] t.op = "undo" /\ b = t.receipt -> {}
             [] OTHER -> batches[b]]
      /\ UNCHANGED <<appVars, discards, historyVars>>
  BY DEF Execute, Answer
<1>2. /\ t \in Tasks /\ TaskOK(t, selection) /\ TaskRetains(t, retained)
      /\ read \in SUBSET Article /\ batches \in [Receipt -> SUBSET Article]
      /\ receipts \in Nat
  BY <1>1 DEF BInv, Types, TasksOK
<1>3. t.ids \in SUBSET Article /\ t.view \in View /\ t.stage = "sent"
  BY <1>1, <1>2 DEF Tasks
<1>4. read' \in SUBSET Article
  BY <1>1, <1>2, <1>3
<1>5. receipts' \in Nat /\ batches' \in [Receipt -> SUBSET Article]
  <2> HIDE DEF t
  <2>1. \A b \in Receipt : batches'[b] \in SUBSET Article
    BY <1>1, <1>2, <1>3
  <2> QED BY <1>1, <1>2, <2>1
<1>6. UNCHANGED <<selection, retained, navigating, shown, undo, discards, wanted,
                  failures, lost>>
  BY <1>1 DEF appVars, historyVars
<1>7. rows \subseteq ArticlesOf[t.view] /\ ArticlesOf[t.view] \subseteq Article
  BY <1>3, BrowserAssumption
<1>8. receipt \in Nat /\ (t.op # "auto" => receipt = NoReceipt)
  BY <1>2 DEF NoReceipt
<1>9. /\ v \in Tasks /\ v.op = t.op /\ v.stage = "answered" /\ v.view = t.view
      /\ v.receipt = receipt /\ v.rows = rows /\ v.current = t.current
  <2> HIDE DEF receipt, rows
  <2> QED BY <1>2, <1>3, <1>4, <1>7, <1>8 DEF Tasks
<1> HIDE DEF v
<1>10. /\ x \in Tasks /\ x.op = t.op /\ x.stage = "answered" /\ x.view = t.view
       /\ x.receipt = receipt /\ x.current = t.current /\ x.rows \subseteq rows
       /\ t.current = Heeds(t.op) => x.rows = rows
  BY <1>9, ForgetKeeps
<1> HIDE DEF x
<1>11. TaskOK(x, selection)
  BY <1>2, <1>7, <1>8, <1>10 DEF TaskOK
<1>12. TaskRetains(x, retained)
  <2> SUFFICES ASSUME x.op \in Mutations, MutationIsCurrent(x)
               PROVE  retained \cap ArticlesOf[t.view] \subseteq x.rows
    BY <1>10 DEF TaskRetains
  <2>1. t.current = Heeds(t.op) /\ MutationIsCurrent(t)
    BY <1>2, <1>10 DEF TaskOK, MutationIsCurrent, OfRoute, Heeds, Mutations
  <2>2. retained \subseteq t.retain
    BY <1>2, <1>3, <1>10, <2>1 DEF TaskRetains
  <2> QED BY <1>10, <2>1, <2>2
<1>13. Good(requests, selection', retained')
       /\ TaskOK(x, selection') /\ TaskRetains(x, retained')
  BY <1>6, <1>11, <1>12, NothingOutdated
<1>14. /\ requests' \in [Slot -> Tasks \cup {Free}] /\ TasksOK'
       /\ requests'[k] = x /\ \A i \in Slot \ {k} : requests'[i] = requests[i]
  BY <1>1, <1>10, <1>13, NothingOutdated, ReplaceKeeps
<1>15. Types'
  BY <1>4, <1>5, <1>6, <1>14 DEF BInv, Types
<1>16. RowsOfView'
  BY <1>6 DEF BInv, RowsOfView
<1>17. ViewComes'
  <2>1. \A i \in Slot : requests[i] # Free =>
          /\ requests'[i] # Free /\ requests'[i].op = requests[i].op
          /\ OfRoute(requests'[i]) <=> OfRoute(requests[i])
    BY <1>10, <1>14, FreeIsNoTask DEF OfRoute
  <2> QED BY <1>6, <2>1 DEF BInv, ViewComes
<1>18. ReceiptsAccounted'
  <2> SUFFICES ASSUME NEW b \in Receipt, batches'[b] # {}, b \notin lost
               PROVE  \/ b = undo \/ b \in discards
                      \/ \E i \in Slot : requests'[i] # Free /\ requests'[i].receipt = b
    BY <1>6 DEF ReceiptsAccounted
  <2>1. x # Free
    BY <1>10, FreeIsNoTask
  <2>2. CASE given /\ b = receipts + 1
    BY <1>10, <1>14, <2>1, <2>2
  <2>3. CASE ~(given /\ b = receipts + 1)
    <3>1. batches[b] # {} /\ ~(t.op = "undo" /\ b = t.receipt)
      <4> HIDE DEF t, given
      <4> QED BY <1>1, <2>3
    <3>2. b # t.receipt
      BY <1>2, <1>3, <3>1 DEF TaskOK, Receipt, NoReceipt
    <3>3. ASSUME NEW i \in Slot, requests[i] # Free, requests[i].receipt = b
          PROVE  requests'[i] # Free /\ requests'[i].receipt = b
      BY <1>14, <3>2, <3>3
    <3> QED BY <3>1, <3>3 DEF BInv, ReceiptsAccounted
  <2> QED BY <2>2, <2>3
<1> QED BY <1>14, <1>15, <1>16, <1>17, <1>18 DEF BInv

(* A failed request shows nothing; what it knew of a batch is lost.        *)
LEMMA FailKeeps ==
    ASSUME BInv, NEW k \in Slot, Fail(k) PROVE BInv'
<1> DEFINE t == requests[k]
<1>1. /\ t # Free /\ failures' = failures + 1 /\ failures \in Nat
      /\ lost' = lost \cup ({t.receipt} \ {NoReceipt})
      /\ UNCHANGED <<coreVars, selection, shown, retained, undo, discards, wanted>>
      /\ \/ navigating' = FALSE /\ ThenRefresh(k)
         \/ Over(k) /\ navigating' = navigating
  BY DEF Fail, BInv, Types
<1>2. t \in Tasks /\ t.receipt \in Nat
  <2>1. t \in Tasks
    BY <1>1 DEF BInv, Types
  <2> QED BY <2>1 DEF Tasks
<1>3. Replaced(k)
  BY <1>1, <1>2, OverReplaces, ThenRefreshReplaces
<1>4. PICK tasks : \E x \in Tasks \cup {Free} :
        /\ Same(tasks) /\ SameRoute(tasks) /\ Good(tasks, selection, retained)
        /\ x # Free => TaskOK(x, selection) /\ TaskRetains(x, retained)
        /\ requests' = [tasks EXCEPT ![k] = x]
  BY <1>3 DEF Replaced
<1>5. PICK x \in Tasks \cup {Free} :
        /\ Same(tasks) /\ SameRoute(tasks) /\ Good(tasks, selection, retained)
        /\ x # Free => TaskOK(x, selection) /\ TaskRetains(x, retained)
        /\ requests' = [tasks EXCEPT ![k] = x]
  BY <1>4
<1>6. Good(tasks, selection', retained')
      /\ (x # Free => TaskOK(x, selection') /\ TaskRetains(x, retained'))
  BY <1>1, <1>5
<1>7. /\ requests' \in [Slot -> Tasks \cup {Free}] /\ TasksOK'
      /\ \A i \in Slot \ {k} : requests'[i] = tasks[i]
  BY <1>5, <1>6, ReplaceKeeps
<1>8. navigating' \in BOOLEAN
  <2>1. navigating \in BOOLEAN
    BY DEF BInv, Types
  <2> QED BY <1>1, <2>1
<1> HIDE DEF t
<1>9. Types'
  <2>1. lost' \in SUBSET Nat /\ failures' \in Nat
    <3>1. lost \in SUBSET Nat
      BY DEF BInv, Types
    <3>2. lost' \in SUBSET Nat
      BY <1>1, <1>2, <3>1
    <3>3. failures' \in Nat
      BY <1>1
    <3> QED BY <3>2, <3>3
  <2>2. UNCHANGED <<read, batches, receipts, selection, shown, retained, undo, discards,
                    wanted>>
    BY <1>1 DEF coreVars
  <2> QED BY <1>7, <1>8, <2>1, <2>2 DEF BInv, Types
<1>10. RowsOfView'
  BY <1>1 DEF BInv, RowsOfView
<1>11. ViewComes'
  <2>1. selection' = wanted' /\ failures' # 0
    BY <1>1 DEF BInv, ViewComes
  <2> QED BY <2>1 DEF ViewComes
<1>12. ReceiptsAccounted'
  <2> SUFFICES ASSUME NEW b \in Receipt, batches[b] # {}, b \notin lost, b # t.receipt
               PROVE  \/ b = undo \/ b \in discards
                      \/ \E i \in Slot : requests'[i] # Free /\ requests'[i].receipt = b
    BY <1>1 DEF ReceiptsAccounted, coreVars, Receipt, NoReceipt
  <2>1. ASSUME NEW i \in Slot, requests[i] # Free, requests[i].receipt = b
        PROVE  requests'[i] # Free /\ requests'[i].receipt = b
    BY <1>5, <1>7, <2>1 DEF Same, t
  <2> QED BY <2>1 DEF BInv, ReceiptsAccounted
<1> QED BY <1>7, <1>9, <1>10, <1>11, <1>12 DEF BInv

(* An offer that expires is discarded, and a discard ends the batch or is  *)
(* lost.                                                                   *)
LEMMA DiscardKeeps ==
    ASSUME BInv, UndoExpires \/ \E b \in Receipt : ExecuteDiscard(b) PROVE BInv'
<1>1. CASE UndoExpires
  <2>1. /\ undo' = NoReceipt /\ discards' = discards \cup {undo}
        /\ UNCHANGED <<read, batches, receipts, selection, shown, navigating, retained,
                       requests, wanted, failures, lost>>
    BY <1>1 DEF UndoExpires, coreVars, historyVars
  <2>2. Types' /\ TasksOK' /\ ViewComes' /\ RowsOfView'
    BY <2>1 DEF BInv, Types, TasksOK, ViewComes, RowsOfView, NoReceipt
  <2>3. ReceiptsAccounted'
    BY <2>1 DEF BInv, ReceiptsAccounted
  <2> QED BY <2>2, <2>3 DEF BInv
<1>2. ASSUME NEW b \in Receipt, ExecuteDiscard(b) PROVE BInv'
  <2>1. /\ b \in discards /\ discards' = discards \ {b}
        /\ UNCHANGED <<read, receipts, selection, shown, navigating, retained, undo,
                       requests, wanted>>
        /\ \/ batches' = [batches EXCEPT ![b] = {}] /\ UNCHANGED <<failures, lost>>
           \/ failures' = failures + 1 /\ lost' = lost \cup {b} /\ batches' = batches
    BY <1>2 DEF ExecuteDiscard, appVars
  <2>2. batches' \in [Receipt -> SUBSET Article] /\ lost' \in SUBSET Nat /\ failures' \in Nat
    <3>1. batches \in [Receipt -> SUBSET Article] /\ lost \in SUBSET Nat /\ failures \in Nat
      BY DEF BInv, Types
    <3>2. b \in Nat
      BY BrowserAssumption DEF Receipt
    <3>3. batches' \in [Receipt -> SUBSET Article]
      BY <2>1, <3>1
    <3>4. lost' \in SUBSET Nat
      BY <2>1, <3>1, <3>2
    <3>5. failures' \in Nat
      BY <2>1, <3>1
    <3> QED BY <3>3, <3>4, <3>5
  <2>3. Types' /\ TasksOK' /\ RowsOfView'
    BY <2>1, <2>2 DEF BInv, Types, TasksOK, RowsOfView
  <2>4. failures' = 0 => failures = 0
    BY <2>1 DEF BInv, Types
  <2>5. ViewComes'
    BY <2>1, <2>4 DEF BInv, ViewComes
  <2>6. \A c \in Receipt : batches'[c] # {} /\ c \notin lost' =>
          c # b /\ batches[c] # {} /\ c \notin lost
    BY <2>1 DEF BInv, Types
  <2>7. ReceiptsAccounted'
    BY <2>1, <2>6 DEF BInv, ReceiptsAccounted
  <2> QED BY <2>3, <2>5, <2>7 DEF BInv
<1> QED BY <1>1, <1>2

LEMMA BrowserInit == Init => BInv
<1> SUFFICES ASSUME Init PROVE BInv
  OBVIOUS
<1>1. /\ FirstView \in View /\ ArticlesOf[FirstView] \in SUBSET Article
  BY BrowserAssumption
<1>2. Types
  <2>1. shown \in [view : View, rows : SUBSET Article, read : SUBSET Article]
    BY <1>1 DEF Init
  <2>2. navigating \in BOOLEAN
    BY DEF Init
  <2> QED BY <1>1, <2>1, <2>2 DEF Init, Types, NoReceipt
<1>3. TasksOK /\ ViewComes /\ RowsOfView
  BY DEF Init, TasksOK, ViewComes, RowsOfView
<1>4. ReceiptsAccounted
  BY DEF Init, ReceiptsAccounted
<1> QED BY <1>2, <1>3, <1>4 DEF BInv

(* Each step keeps the invariant.                                          *)
LEMMA BrowserStep == BInv /\ [Next]_vars => BInv'
<1> SUFFICES ASSUME BInv, [Next]_vars PROVE BInv'
  OBVIOUS
<1>1. ASSUME NEW view \in View, Navigate(view) PROVE BInv'
  BY <1>1, NavigateKeeps
<1>2. ASSUME NEW e \in Article, NEW value \in BOOLEAN, SetRead(e, value) PROVE BInv'
  BY <1>2, SetReadKeeps
<1>3. ASSUME NEW ids \in SUBSET Article, MarkReadAutomatically(ids) PROVE BInv'
  BY <1>3, MarkReadKeeps
<1>4. CASE UndoAutomaticRead
  BY <1>4, UndoKeeps
<1>5. CASE UndoExpires
  BY <1>5, DiscardKeeps
<1>6. CASE RefreshInBackground \/ ManualRefresh
  BY <1>6, RefreshKeeps
<1>7. ASSUME NEW k \in Slot, Begin(k) \/ Execute(k) \/ Fail(k) PROVE BInv'
  BY <1>7, BeginKeeps, ExecuteKeeps, FailKeeps
<1>8. ASSUME NEW k \in Slot,
             LocalAnswer(k) \/ RefreshAnswer(k) \/ MutationAnswer(k) \/ ReloadAnswer(k)
      PROVE  BInv'
  BY <1>8, PlainAnswersKeep, AutomaticAnswerKeeps DEF MutationAnswer
<1>9. CASE \E b \in Receipt : ExecuteDiscard(b)
  BY <1>9, DiscardKeeps
<1>10. CASE UNCHANGED vars
  BY <1>10 DEF vars, coreVars, appVars, historyVars, BInv, Types, TasksOK, ViewComes,
               RowsOfView, ReceiptsAccounted
<1> QED BY <1>1, <1>2, <1>3, <1>4, <1>5, <1>6, <1>7, <1>8, <1>9, <1>10 DEF Next

(* The answer of a mutation that is shown has what is retained.            *)
LEMMA MutationShowsRetained ==
    ASSUME BInv, NEW k \in Slot, MutationAnswer(k), shown'.view = shown.view
    PROVE  retained \cap shown.rows \subseteq shown'.rows
<1> DEFINE t == requests[k]
<1>1. PICK op \in Mutations : Waiting(k, op)
  BY DEF MutationAnswer, ReadAnswer, AutomaticAnswer, UndoAnswer, Mutations
<1>2. t.op \in Mutations /\ t.stage = "answered" /\ TaskRetains(t, retained)
  BY <1>1, WaitingTask
<1>3. \/ MutationIsCurrent(t) /\ Apply(t)
      \/ Ignore
  BY DEF MutationAnswer, ReadAnswer, AutomaticAnswer, UndoAnswer, ShowOrReload
<1>4. CASE MutationIsCurrent(t) /\ Apply(t)
  <2>1. shown'.view = t.view /\ shown'.rows = t.rows
    BY <1>4 DEF Apply
  <2>2. retained \cap ArticlesOf[t.view] \subseteq t.rows
    BY <1>2, <1>4 DEF TaskRetains
  <2>3. shown.rows \subseteq ArticlesOf[shown.view]
    BY DEF BInv, RowsOfView
  <2> QED BY <2>1, <2>2, <2>3
<1>5. CASE Ignore
  BY <1>5 DEF Ignore
<1> QED BY <1>3, <1>4, <1>5

-----------------------------------------------------------------------------
(* The browser never falls back to a view the user has left, and shows the *)
(* one that is wanted when all answers have arrived, for any number of     *)
(* requests in any order (navigate, refresh, mutate in BrowserStore).      *)
THEOREM ShowsWhatIsWantedHolds == Spec => []ShowsWhatIsWanted
<1>1. BInv => ShowsWhatIsWanted
  BY DEF BInv, ViewComes, ShowsWhatIsWanted, Quiet
<1> QED BY <1>1, BrowserInit, BrowserStep, PTL DEF Spec

(* Every undo batch is offered, on its way or being discarded, for any     *)
(* number of receipts and of requests under way (markReadAutomatically,    *)
(* discardUndo).                                                           *)
THEOREM ReceiptsAccountedHolds == Spec => []ReceiptsAccounted
<1>1. BInv => ReceiptsAccounted
  BY DEF BInv
<1> QED BY <1>1, BrowserInit, BrowserStep, PTL DEF Spec

(* The answer of a mutation takes no retained row away, for any articles   *)
(* and views (mutate, retainedEntryIDs).                                   *)
THEOREM MutationsKeepRowsHolds == Spec => MutationsKeepRows
<1>1. BInv /\ [Next]_vars =>
        [(\E i \in Slot : MutationAnswer(i)) /\ shown'.view = shown.view
            => retained \cap shown.rows \subseteq shown'.rows]_vars
  BY MutationShowsRetained
<1> QED BY <1>1, BrowserInit, BrowserStep, PTL DEF Spec, MutationsKeepRows
=============================================================================
