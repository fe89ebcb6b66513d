----------------------------- MODULE InboxStore -----------------------------
(***************************************************************************)
(* The SQLite store of one account (rust-core/src/persistence/store.rs).   *)
(*                                                                         *)
(* Every public method of Store runs one transaction, so every operator    *)
(* below that primes variables is one transaction: it is used as a whole   *)
(* by the modules that extend this one.                                    *)
(*                                                                         *)
(* An article has two mutable fields; a cell is one field of one article.  *)
(* The store keeps a cell twice, as the column last seen on the server     *)
(* (remote_status, remote_starred) and as the column the user sees         *)
(* (status, starred).  A row of pending_mutations is the user's wish for   *)
(* a cell that the server has not confirmed yet.  Values are 0 and 1:      *)
(* unread/read and not starred/starred.                                    *)
(***************************************************************************)
EXTENDS Naturals, FiniteSets

CONSTANTS
    Entry,          \* the article identifiers of the account
    MaxRevision,    \* bound: wishes for one cell before one is confirmed
    MaxBatch        \* bound: automatic read batches that are ever created

ASSUME StoreAssumption == MaxRevision \in Nat \ {0} /\ MaxBatch \in Nat

VARIABLES
    known,          \* the articles that have a row in entries
    baseline,       \* remote_status and remote_starred, by cell
    local,          \* status and starred, by cell
    pending,        \* pending_mutations, by cell
    batches,        \* undo_batches: identifiers
    items,          \* undo_items: the prior value of an article in a batch
    nextBatch,      \* the identifier random_id draws next
    manual          \* history: articles whose last read decision was manual

storeVars == <<known, baseline, local, pending, batches, items, nextBatch, manual>>

Val == {0, 1}
Cell == Entry \X {"read", "starred"}
ReadCells(S) == S \X {"read"}
StarCells(S) == S \X {"starred"}

(* A row of pending_mutations; revision 0 stands for "no row".             *)
Row == [desired : Val, revision : Nat]
NoRow == [desired |-> 0, revision |-> 0]
HasRow(rows, c) == rows[c].revision > 0
HasPending(c) == HasRow(pending, c)

UndoItem == [batch : Nat, entry : Entry, prior : Val]

StoreTypeOK ==
    /\ known \subseteq Entry
    /\ baseline \in [Cell -> Val]
    /\ local \in [Cell -> Val]
    /\ pending \in [Cell -> Row]
    /\ batches \subseteq Nat
    /\ items \subseteq UndoItem
    /\ nextBatch \in Nat
    /\ manual \subseteq Entry

StoreInit ==
    /\ known = {}
    /\ baseline = [c \in Cell |-> 0]
    /\ local = [c \in Cell |-> 0]
    /\ pending = [c \in Cell |-> NoRow]
    /\ batches = {}
    /\ items = {}
    /\ nextBatch = 1
    /\ manual = {}

-----------------------------------------------------------------------------
(* upsert_pending: a new wish replaces the old one and counts one revision *)
(* up; a row that was deleted starts again at revision 1.                  *)
Upsert(row, v) == [desired |-> v, revision |-> row.revision + 1]

(* The bound on revisions: no transaction counts past it.                  *)
RoomFor(cells) == \A c \in cells : pending[c].revision < MaxRevision

(* The cells in S take the value v, as a wish of the user.                 *)
Wish(S, v) ==
    /\ RoomFor(S)
    /\ local' = [c \in Cell |-> IF c \in S THEN v ELSE local[c]]
    /\ pending' = [c \in Cell |-> IF c \in S THEN Upsert(pending[c], v)
                                             ELSE pending[c]]

(* The articles a read transaction changes: unknown ones and ones that     *)
(* have the value already are skipped.                                     *)
Changed(ids, v) == {e \in ids \cap known : local[<<e, "read">>] # v}

(* What a manual decision leaves of the undo items: it removes its         *)
(* articles from every batch, the ones it does not change included.        *)
ItemsAfterManualKept(ids) == {i \in items : i.entry \notin Changed(ids, 0)}
ItemsAfterManual(ids) == {i \in items : i.entry \notin ids}

(* set_read with undoable = false.                                         *)
SetReadManual(ids, v) ==
    /\ Wish(ReadCells(Changed(ids, v)), v)
    /\ items' = ItemsAfterManual(ids)
    /\ batches' = {b \in batches : \E i \in items' : i.batch = b}
    /\ manual' = manual \cup ids
    /\ UNCHANGED <<known, baseline, nextBatch>>

(* set_read with undoable = true: the batch is kept only when it changed   *)
(* something, and then remembers the prior values.                         *)
SetReadAutomatic(ids, v) ==
    LET changed == Changed(ids, v)
    IN  /\ changed # {}
        /\ nextBatch <= MaxBatch
        /\ Wish(ReadCells(changed), v)
        /\ items' = items \cup
               {[batch |-> nextBatch, entry |-> e, prior |-> local[<<e, "read">>]]
                  : e \in changed}
        /\ batches' = batches \cup {nextBatch}
        /\ nextBatch' = nextBatch + 1
        /\ manual' = manual \ changed
        /\ UNCHANGED <<known, baseline>>

(* set_starred: the row of entries is updated if there is one, the pending *)
(* row is written whether or not there is one.                             *)
SetStarred(e, v) ==
    /\ RoomFor({<<e, "starred">>})
    /\ local' = IF e \in known THEN [local EXCEPT ![<<e, "starred">>] = v]
                               ELSE local
    /\ pending' = [pending EXCEPT ![<<e, "starred">>] = Upsert(@, v)]
    /\ UNCHANGED <<known, baseline, batches, items, nextBatch, manual>>

-----------------------------------------------------------------------------
(* The prior values a batch remembers are wished for again, whatever the   *)
(* articles' state is by now; the batch is gone afterwards.                *)
Restored(b) == {i \in items : i.batch = b}

Undo(b) ==
    LET prior(c) == (CHOOSE i \in Restored(b) : i.entry = c[1]).prior
        S == ReadCells({i.entry : i \in Restored(b)})
    IN  /\ RoomFor(S)
        /\ local' = [c \in Cell |-> IF c \in S THEN prior(c) ELSE local[c]]
        /\ pending' = [c \in Cell |-> IF c \in S THEN Upsert(pending[c], prior(c))
                                                 ELSE pending[c]]
        /\ items' = items \ Restored(b)
        /\ batches' = batches \ {b}
        /\ UNCHANGED <<known, baseline, nextBatch, manual>>

(* discard_undo: only the metadata goes.                                   *)
DiscardUndo(b) ==
    /\ items' = items \ Restored(b)
    /\ batches' = batches \ {b}
    /\ UNCHANGED <<known, baseline, local, pending, nextBatch, manual>>

-----------------------------------------------------------------------------
(* acknowledge: the server holds the wish that was sent.  The row goes     *)
(* only if it still is the row that was sent.                              *)
RowAfterAckAnyRevision(c, sent) == NoRow
RowAfterAckKept(c, sent) == pending[c]
RowAfterAck(c, sent) ==
    IF pending[c].revision = sent.revision THEN NoRow ELSE pending[c]

Acknowledge(c, sent) ==
    /\ c[1] \in known
    /\ baseline' = [baseline EXCEPT ![c] = sent.desired]
    /\ pending' = [pending EXCEPT ![c] = RowAfterAck(c, sent)]
    /\ UNCHANGED <<known, local, batches, items, nextBatch, manual>>

-----------------------------------------------------------------------------
(* A selection of the browser: the articles in its scope (all of them, or  *)
(* those of one feed or category), restricted to starred and to unread     *)
(* ones if so asked.                                                       *)
SelectionType == [starred : BOOLEAN, unreadOnly : BOOLEAN, scope : SUBSET Entry]

Matches(sel, state, e) ==
    /\ e \in sel.scope
    /\ sel.unreadOnly => state[<<e, "read">>] = 0
    /\ sel.starred => state[<<e, "starred">>] = 1

(* reconcile_complete_selection: the cells whose baseline says that their  *)
(* article belongs to the selection although the server did not list it.   *)
(* The unread-only test comes first, also for a starred selection.  Every  *)
(* browse that succeeds is complete: its total is the number of entries.   *)
Absent(sel, listing) == (known \cap sel.scope) \ listing
DisprovedOutsideScope(sel, listing) ==
    IF sel.unreadOnly THEN {c \in ReadCells(known \ listing) : baseline[c] = 0} ELSE {}
Disproved(sel, listing) ==
    IF sel.unreadOnly
    THEN {c \in ReadCells(Absent(sel, listing)) : baseline[c] = 0}
    ELSE {c \in StarCells(Absent(sel, listing)) : sel.starred /\ baseline[c] = 1}

(* What the browse result says of a cell.                                  *)
Observed(c, sel, listing, value) ==
    IF c[1] \in listing THEN value[c]
    ELSE IF c \in Disproved(sel, listing) THEN 1 - baseline[c]
    ELSE baseline[c]

(* Whether the value the user sees survives a browse result: a wish that   *)
(* is pending does, except that the row of an unknown article is inserted  *)
(* with the server's values.                                               *)
SurvivesNever(c) == FALSE
Survives(c) == HasPending(c) /\ c[1] \in known

(* apply_snapshot: one browse result, in one transaction.                  *)
ApplySnapshot(sel, listing, value) ==
    /\ known' = known \cup listing
    /\ baseline' = [c \in Cell |-> Observed(c, sel, listing, value)]
    /\ local' = [c \in Cell |->
                   IF Survives(c) \/ (c[1] \notin listing
                                       /\ c \notin Disproved(sel, listing))
                   THEN local[c] ELSE Observed(c, sel, listing, value)]
    /\ UNCHANGED <<pending, batches, items, nextBatch, manual>>

-----------------------------------------------------------------------------
(* What the user sees is the pending wish, and without one it is what the  *)
(* server last said: the documented meaning of pending rows ("the durable  *)
(* desired value", SYNC_AND_DATA.md).  Every transaction above has to      *)
(* keep it, and refreshes, wishes, undo and confirmations all write the    *)
(* columns it relates.                                                     *)
Agreement ==
    \A c \in Cell : c[1] \in known =>
        local[c] = IF HasPending(c) THEN pending[c].desired ELSE baseline[c]

(* Undo never overrides a later manual choice: an article whose last read  *)
(* decision was manual is in no undo batch (the delete in set_read).  And  *)
(* no batch is without items, no item without its batch, so that a receipt *)
(* is worth what it says.                                                  *)
UndoIntact ==
    /\ \A i \in items : i.entry \notin manual
    /\ batches = {i.batch : i \in items}
=============================================================================
