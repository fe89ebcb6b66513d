---------------------------- MODULE SyncService ----------------------------
(***************************************************************************)
(* One account's SyncService (rust-core/src/sync.rs) over its InboxStore   *)
(* and over Miniflux.  Threads of the process call flush, sync and the     *)
(* local operations concurrently.  sync_gate lets one thread at a time do  *)
(* remote work; the store lock is taken for single transactions and is     *)
(* never held across a remote call, so the user's operations interleave    *)
(* with every step of a flush or a refresh.                                *)
(*                                                                         *)
(* A remote call may fail before or after the server acted on it, or be    *)
(* abandoned at its deadline and take effect later.  Other clients of the  *)
(* same account change the server at any time.  The process may die at any *)
(* step; the store survives.                                               *)
(*                                                                         *)
(* Simplifications: fetching a complete selection is one step; a flush     *)
(* takes the listed rows in any order (pending orders them by the text of  *)
(* a timestamp); flushes and refreshes may start at any time.              *)
(***************************************************************************)
EXTENDS InboxStore

CONSTANTS
    Caller,         \* the threads that flush or refresh
    NoCaller, NoCell,
    Selections,     \* the selections refreshes are asked for
    UserCells,      \* bound: the cells the user changes
    OtherCells,     \* bound: the cells other clients change
    MaxLate,        \* bound: abandoned requests that are still under way
    NamesUnknown    \* whether set_starred may name an article never stored

ASSUME ServiceAssumption ==
    /\ NoCaller \notin Caller
    /\ NoCell \notin Cell
    /\ Selections \subseteq SelectionType
    /\ UserCells \subseteq Cell /\ OtherCells \subseteq Cell
    /\ MaxLate \in Nat
    /\ NamesUnknown \in BOOLEAN

VARIABLES
    server,         \* Miniflux: the values of the cells
    late,           \* abandoned requests that may still take effect
    unseen,         \* history: cells something else changed on the server
                    \* since this process last wrote or applied them
    gate,           \* the holder of sync_gate
    pc,             \* where a thread is in flush_pending or sync_serialized
    todo,           \* a thread's copy of the pending rows it has yet to send
    cell,           \* the cell a thread is sending
    selection,      \* what a refresh was asked for; NoSelection in a flush
    listing, value  \* the browse result of a refresh: articles and cells

serverVars == <<server, late, unseen>>
threadVars == <<gate, pc, todo, cell, selection, listing, value>>
vars == <<storeVars, serverVars, threadVars>>

NoSelection == [starred |-> FALSE, unreadOnly |-> FALSE, scope |-> {}]
NoRows == [c \in Cell |-> NoRow]
NoValues == [c \in Cell |-> 0]
Request == [cell : Cell, desired : Val]
Phase == {"idle", "list", "send", "toggle", "ack", "browse", "apply"}

ServerTypeOK ==
    /\ server \in [Cell -> Val]
    /\ late \subseteq Request
    /\ unseen \subseteq Cell

ThreadTypeOK ==
    /\ gate \in Caller \cup {NoCaller}
    /\ pc \in [Caller -> Phase]
    /\ todo \in [Caller -> [Cell -> Row]]
    /\ cell \in [Caller -> Cell \cup {NoCell}]
    /\ selection \in [Caller -> Selections \cup {NoSelection}]
    /\ listing \in [Caller -> SUBSET Entry]
    /\ value \in [Caller -> [Cell -> Val]]
    /\ \A t \in Caller : pc[t] \in {"toggle", "ack"} => cell[t] \in Cell

TypeOK == StoreTypeOK /\ ServerTypeOK /\ ThreadTypeOK

(* No thread is at work when the process starts.                           *)
ThreadsIdle ==
    /\ gate = NoCaller
    /\ pc = [t \in Caller |-> "idle"]
    /\ todo = [t \in Caller |-> NoRows]
    /\ cell = [t \in Caller |-> NoCell]
    /\ selection = [t \in Caller |-> NoSelection]
    /\ listing = [t \in Caller |-> {}]
    /\ value = [t \in Caller |-> NoValues]

Init ==
    /\ StoreInit
    /\ server \in [Cell -> Val]
    /\ late = {}
    /\ unseen = {}
    /\ ThreadsIdle

-----------------------------------------------------------------------------
(* sync_gate.lock_until and the release of its guard.  A thread that gives *)
(* up waiting returns an error and has changed nothing.                    *)
GateIgnored == TRUE
GateFree == gate = NoCaller

Enter(t, sel) ==
    /\ pc[t] = "idle"
    /\ GateFree
    /\ gate' = t
    /\ pc' = [pc EXCEPT ![t] = "list"]
    /\ selection' = [selection EXCEPT ![t] = sel]
    /\ UNCHANGED <<storeVars, serverVars, todo, cell, listing, value>>

Flush(t) == Enter(t, NoSelection)
Refresh(t, sel) == Enter(t, sel)

Leave(t) ==
    /\ gate' = NoCaller
    /\ pc' = [pc EXCEPT ![t] = "idle"]
    /\ todo' = [todo EXCEPT ![t] = NoRows]
    /\ cell' = [cell EXCEPT ![t] = NoCell]
    /\ selection' = [selection EXCEPT ![t] = NoSelection]
    /\ listing' = [listing EXCEPT ![t] = {}]
    /\ value' = [value EXCEPT ![t] = NoValues]

(* A thread goes on to another step of the same call.                      *)
Go(t, phase, rows, c) ==
    /\ pc' = [pc EXCEPT ![t] = phase]
    /\ todo' = [todo EXCEPT ![t] = rows]
    /\ cell' = [cell EXCEPT ![t] = c]
    /\ UNCHANGED <<gate, selection, listing, value>>

(* The end of flush_pending, in success or with an error: a refresh goes   *)
(* on to browse either way.                                                *)
EndFlushGoesOn(t) ==
    IF selection[t] = NoSelection THEN Go(t, pc[t], todo[t], NoCell)
    ELSE Go(t, "browse", NoRows, NoCell)
EndFlush(t) ==
    IF selection[t] = NoSelection THEN Leave(t) ELSE Go(t, "browse", NoRows, NoCell)

-----------------------------------------------------------------------------
(* flush_pending: the rows are read once, before the first remote call.    *)
ListPending(t) ==
    /\ pc[t] = "list"
    /\ Go(t, "send", pending, NoCell)
    /\ UNCHANGED <<storeVars, serverVars>>

Sending(t, c, field) ==
    /\ pc[t] = "send"
    /\ HasRow(todo[t], c)
    /\ c[2] = field

SetReadBatch(t, c) ==
    /\ Sending(t, c, "read")
    /\ server' = [server EXCEPT ![c] = todo[t][c].desired]
    /\ unseen' = unseen \ {c}
    /\ Go(t, "ack", todo[t], c)
    /\ UNCHANGED <<storeVars, late>>

(* The starred flag can only be toggled, so it is read first.              *)
NextForStarAcked(t, c) == "ack"
NextForStar(t, c) == IF server[c] = todo[t][c].desired THEN "ack" ELSE "toggle"

EntryStarred(t, c) ==
    /\ Sending(t, c, "starred")
    /\ unseen' = unseen \ {c}
    /\ Go(t, NextForStar(t, c), todo[t], c)
    /\ UNCHANGED <<storeVars, server, late>>

ToggleStarred(t) ==
    /\ pc[t] = "toggle"
    /\ server' = [server EXCEPT ![cell[t]] = 1 - @]
    /\ Go(t, "ack", todo[t], cell[t])
    /\ UNCHANGED <<storeVars, late, unseen>>

Ack(t) ==
    /\ pc[t] = "ack"
    /\ Acknowledge(cell[t], todo[t][cell[t]])
    /\ Go(t, "send", [todo[t] EXCEPT ![cell[t]] = NoRow], NoCell)
    /\ UNCHANGED serverVars

FlushDone(t) ==
    /\ pc[t] = "send"
    /\ todo[t] = NoRows
    /\ EndFlush(t)
    /\ UNCHANGED <<storeVars, serverVars>>

(* A remote error, a lost reply (in phase ack the server has acted), a     *)
(* deadline, a store error: the rest of the rows stays queued.             *)
FlushFails(t) ==
    /\ pc[t] \in {"list", "send", "toggle", "ack"}
    /\ EndFlush(t)
    /\ UNCHANGED <<storeVars, serverVars>>

(* The call is given up at its deadline while the request is under way.    *)
AbandonRequest(t, c) ==
    /\ Cardinality(late) < MaxLate
    /\ Sending(t, c, "read") \/ (pc[t] = "toggle" /\ c = cell[t])
    /\ late' = late \cup {[cell |-> c, desired |-> todo[t][c].desired]}
    /\ EndFlush(t)
    /\ UNCHANGED <<storeVars, server, unseen>>

-----------------------------------------------------------------------------
(* browse: the entries of the selection as the server has them now.        *)
Browse(t) ==
    /\ pc[t] = "browse"
    /\ pc' = [pc EXCEPT ![t] = "apply"]
    /\ listing' = [listing EXCEPT ![t] =
                     {e \in Entry : Matches(selection[t], server, e)}]
    /\ value' = [value EXCEPT ![t] = server]
    /\ UNCHANGED <<storeVars, serverVars, gate, todo, cell, selection>>

(* SyncResult::Partial, or an error of the local store: nothing is applied.*)
RefreshFails(t) ==
    /\ pc[t] \in {"browse", "apply"}
    /\ Leave(t)
    /\ UNCHANGED <<storeVars, serverVars>>

(* The cells a browse result speaks about: those of the listed articles,   *)
(* and the field that keeps the others of its scope out of the listing.    *)
Covered(sel, list) ==
    {c \in Cell : \/ c[1] \in list
                  \/ /\ c[1] \in known \cap sel.scope
                     /\ c[2] = IF sel.unreadOnly THEN "read" ELSE "starred"
                     /\ sel.unreadOnly \/ sel.starred}

Apply(t) ==
    /\ pc[t] = "apply"
    /\ ApplySnapshot(selection[t], listing[t], value[t])
    /\ unseen' = {c \in unseen : ~ /\ c \in Covered(selection[t], listing[t])
                                   /\ value[t][c] = server[c]}
    /\ Leave(t)
    /\ UNCHANGED <<server, late>>

-----------------------------------------------------------------------------
(* The user's operations hold the store lock for one transaction and do    *)
(* not wait for sync_gate.                                                 *)
UserReadable == {c[1] : c \in UserCells \cap ReadCells(Entry)}
UserStarrable == {c[1] : c \in UserCells \cap StarCells(Entry)}

MarkRead(ids, v) ==
    /\ SetReadManual(ids, v) \/ SetReadAutomatic(ids, v)
    /\ UNCHANGED <<serverVars, threadVars>>

ToggleStar(e, v) ==
    /\ e \in known \/ NamesUnknown
    /\ SetStarred(e, v)
    /\ UNCHANGED <<serverVars, threadVars>>

UndoRead(b) == Undo(b) /\ UNCHANGED <<serverVars, threadVars>>
Discard(b) == DiscardUndo(b) /\ UNCHANGED <<serverVars, threadVars>>

-----------------------------------------------------------------------------
(* External: another client, and an abandoned request that arrives.        *)
OtherClient(c) ==
    /\ server' = [server EXCEPT ![c] = 1 - @]
    /\ unseen' = unseen \cup {c}
    /\ UNCHANGED <<storeVars, late, threadVars>>

LateRequest(r) ==
    /\ late' = late \ {r}
    /\ server' = [server EXCEPT ![r.cell] =
                    IF r.cell[2] = "read" THEN r.desired ELSE 1 - @]
    /\ unseen' = unseen \cup {r.cell}
    /\ UNCHANGED <<storeVars, threadVars>>

(* The process dies and starts again: only the store and the server last.  *)
Crash ==
    /\ gate' = NoCaller
    /\ pc' = [t \in Caller |-> "idle"]
    /\ todo' = [t \in Caller |-> NoRows]
    /\ cell' = [t \in Caller |-> NoCell]
    /\ selection' = [t \in Caller |-> NoSelection]
    /\ listing' = [t \in Caller |-> {}]
    /\ value' = [t \in Caller |-> NoValues]
    /\ UNCHANGED <<storeVars, serverVars>>

FlushStep(t) ==
    \/ ListPending(t) \/ ToggleStarred(t) \/ Ack(t) \/ FlushDone(t)
    \/ \E c \in Cell : SetReadBatch(t, c) \/ EntryStarred(t, c)

FaultStep(t) ==
    \/ FlushFails(t) \/ RefreshFails(t)
    \/ \E c \in Cell : AbandonRequest(t, c)

UserStep ==
    \/ \E ids \in (SUBSET UserReadable) \ {{}}, v \in Val : MarkRead(ids, v)
    \/ \E e \in UserStarrable, v \in Val : ToggleStar(e, v)
    \/ \E b \in 1 .. MaxBatch : UndoRead(b) \/ Discard(b)

Next ==
    \/ \E t \in Caller :
         \/ Flush(t) \/ \E sel \in Selections : Refresh(t, sel)
         \/ FlushStep(t) \/ Browse(t) \/ Apply(t) \/ FaultStep(t)
    \/ UserStep
    \/ \E c \in OtherCells : OtherClient(c)
    \/ \E r \in late : LateRequest(r)
    \/ Crash

Spec == Init /\ [][Next]_vars

(* Fairness.  A refresh is asked for again and again (the 15-minute timer  *)
(* of BrowserStore).  Every call ends, by its deadlines.  A remote call or *)
(* a store transaction that is tried again and again succeeds at times.    *)
FairSpec ==
    /\ Spec
    /\ SF_vars(\E t \in Caller, sel \in Selections : Refresh(t, sel))
    /\ \A t \in Caller :
         /\ WF_vars(FlushStep(t) \/ Browse(t) \/ Apply(t) \/ FaultStep(t))
         /\ SF_vars(ListPending(t))
         /\ \A c \in Cell : /\ SF_vars(SetReadBatch(t, c) \/ EntryStarred(t, c))
                            /\ SF_vars(ToggleStarred(t) /\ cell[t] = c)
                            /\ SF_vars(Ack(t) /\ cell[t] = c)

-----------------------------------------------------------------------------
(* The user sees the truth: a stored cell without a pending wish shows the *)
(* server's value, unless something else changed it there after this       *)
(* process last wrote it or looked at it.  No order of wishes, flush       *)
(* steps, refresh steps, lost replies and restarts may lose a wish,        *)
(* confirm a newer wish with an older one, or apply a browse result that   *)
(* is older than a confirmation.                                           *)
InSync ==
    \A c \in Cell \ unseen :
        c[1] \in known /\ ~HasPending(c) => local[c] = server[c]

(* While a wish is pending nothing but a new wish changes what the user    *)
(* sees: no refresh, confirmation or restart does.                         *)
WishesStand ==
    [][\A c \in Cell :
          HasPending(c) /\ c[1] \in known /\ local'[c] # local[c]
            => pending'[c].revision > pending[c].revision]_vars

(* "If the server cannot be reached, changes should remain                 *)
(* pending/persisted and synchronize later" (SYNC_AND_DATA.md): a wish     *)
(* that stands is confirmed in the end, through failures, lost replies and *)
(* restarts.  MaxRevision makes the user come to a decision.               *)
WishesConfirmed == \A c \in Cell : HasPending(c) ~> ~HasPending(c)

(* The service keeps what Inbox promises: in particular a wish is dropped  *)
(* only when the server holds the value the user sees, although rows are   *)
(* listed long before they are sent and confirmed.                         *)
Promise == INSTANCE Inbox WITH
    shown <- local,
    wished <- {c \in Cell : HasPending(c)}
KeepsPromise == Promise!Spec

-----------------------------------------------------------------------------
(* The inductive invariant behind Agreement and InSync.  It needs callers  *)
(* that do what the user interface does: star articles they were shown,    *)
(* and restrict the starred view by nothing else.                          *)
FromUserInterface ==
    /\ ~NamesUnknown
    /\ \A sel \in Selections : ~(sel.starred /\ sel.unreadOnly)

(* One thread at a time is inside the gate.                                *)
GateHeld == \A t \in Caller : pc[t] # "idle" => gate = t

(* Wishes are for stored articles.                                         *)
WishesKnown == \A c \in Cell : HasPending(c) => c[1] \in known

(* What Undo restores are stored articles.                                 *)
ItemsKnown == \A i \in items : i.entry \in known

(* A baseline without a wish is the server's value.                        *)
BaselineSeen ==
    \A c \in Cell \ unseen :
        c[1] \in known /\ ~HasPending(c) => baseline[c] = server[c]

(* A row that was listed is still pending, or a newer wish took its place. *)
RowsListed ==
    \A t \in Caller, c \in Cell :
        HasRow(todo[t], c) =>
            /\ pc[t] \in {"send", "toggle", "ack"}
            /\ todo[t][c].revision <= pending[c].revision
            /\ todo[t][c].revision = pending[c].revision
                 => todo[t][c].desired = pending[c].desired

(* Before a toggle the server holds the opposite of the wish, before a     *)
(* confirmation the wish.                                                  *)
RowSent ==
    \A t \in Caller :
        pc[t] \in {"toggle", "ack"} =>
            /\ HasRow(todo[t], cell[t])
            /\ cell[t] \notin unseen =>
                 LET wish == todo[t][cell[t]].desired
                 IN  server[cell[t]] = IF pc[t] = "ack" THEN wish ELSE 1 - wish

(* A browse result is what the server holds now, but for unseen changes.   *)
Browsed ==
    \A t \in Caller :
        /\ pc[t] = "browse" => selection[t] \in Selections
        /\ pc[t] = "apply" =>
             /\ selection[t] \in Selections
             /\ listing[t] = {e \in Entry : Matches(selection[t], value[t], e)}
             /\ \A c \in Cell \ unseen : value[t][c] = server[c]

IInv ==
    /\ TypeOK
    /\ GateHeld
    /\ WishesKnown
    /\ ItemsKnown
    /\ Agreement
    /\ BaselineSeen
    /\ RowsListed
    /\ RowSent
    /\ Browsed
=============================================================================
