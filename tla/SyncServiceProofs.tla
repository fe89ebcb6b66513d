-------------------------- MODULE SyncServiceProofs --------------------------
(***************************************************************************)
(* Proofs about SyncService: types, the inductive invariant, that what the *)
(* user sees agrees with the pending wishes and with the server, and that  *)
(* the service implements Inbox.                                           *)
(***************************************************************************)
EXTENDS SyncService, TLAPS

(* A cell is an article and a field; every article has both cells.         *)
LEMMA CellFacts ==
    /\ \A c \in Cell : c[1] \in Entry
    /\ \A e \in Entry : <<e, "read">> \in Cell /\ <<e, "starred">> \in Cell
    /\ \A S \in SUBSET Entry : ReadCells(S) \subseteq Cell /\ StarCells(S) \subseteq Cell
    /\ NoRow \in Row /\ NoRows \in [Cell -> Row] /\ NoValues \in [Cell -> Val]
  BY DEF Cell, ReadCells, StarCells, NoRow, Row, Val, NoRows, NoValues

(* A wish that replaces a row is a row.                                    *)
LEMMA UpsertType ==
    ASSUME NEW row \in Row, NEW v \in Val
    PROVE  /\ Upsert(row, v) \in Row
           /\ Upsert(row, v).desired = v
           /\ Upsert(row, v).revision = row.revision + 1
  BY DEF Upsert, Row

(* A wish of the user writes well-typed columns and rows.                  *)
LEMMA WishType ==
    ASSUME StoreTypeOK, NEW S, NEW v \in Val, Wish(S, v)
    PROVE  local' \in [Cell -> Val] /\ pending' \in [Cell -> Row]
  BY UpsertType DEF StoreTypeOK, Wish

(* Every transaction of the store keeps the types of its tables.           *)
LEMMA ReadTypes ==
    ASSUME StoreTypeOK, StoreAssumption, NEW ids \in SUBSET Entry, NEW v \in Val,
           SetReadManual(ids, v) \/ SetReadAutomatic(ids, v)
    PROVE  StoreTypeOK'
<1>1. CASE SetReadManual(ids, v)
  <2>1. local' \in [Cell -> Val] /\ pending' \in [Cell -> Row]
    BY <1>1, WishType DEF SetReadManual
  <2>2. items' \subseteq UndoItem /\ batches' \subseteq Nat /\ manual' \subseteq Entry
    BY <1>1 DEF SetReadManual, StoreTypeOK, ItemsAfterManual
  <2> QED BY <1>1, <2>1, <2>2 DEF SetReadManual, StoreTypeOK
<1>2. CASE SetReadAutomatic(ids, v)
  <2> DEFINE changed == Changed(ids, v)
             added == {[batch |-> nextBatch, entry |-> e, prior |-> local[<<e, "read">>]]
                         : e \in changed}
  <2>1. local' \in [Cell -> Val] /\ pending' \in [Cell -> Row]
    BY <1>2, WishType DEF SetReadAutomatic
  <2>2. changed \subseteq Entry
    BY DEF Changed
  <2>3. ASSUME NEW e \in changed
        PROVE  [batch |-> nextBatch, entry |-> e, prior |-> local[<<e, "read">>]]
                 \in UndoItem
    <3>1. e \in Entry /\ <<e, "read">> \in Cell
      BY <2>2, <2>3, CellFacts
    <3> QED BY <3>1 DEF UndoItem, StoreTypeOK
  <2>4. items' \subseteq UndoItem
    <3>1. added \subseteq UndoItem
      BY <2>3
    <3> QED BY <1>2, <3>1 DEF SetReadAutomatic, StoreTypeOK
  <2>5. batches' \subseteq Nat /\ nextBatch' \in Nat
    <3>1. batches' = batches \cup {nextBatch} /\ nextBatch' = nextBatch + 1
      BY <1>2 DEF SetReadAutomatic
    <3> QED BY <3>1 DEF StoreTypeOK
  <2>6. manual' \subseteq Entry
    BY <1>2 DEF SetReadAutomatic, StoreTypeOK
  <2> QED BY <1>2, <2>1, <2>4, <2>5, <2>6 DEF SetReadAutomatic, StoreTypeOK
<1> QED BY <1>1, <1>2

(* set_starred keeps the types of the store.                               *)
LEMMA StarTypes ==
    ASSUME StoreTypeOK, NEW e \in Entry, NEW v \in Val, SetStarred(e, v)
    PROVE  StoreTypeOK'
<1>1. local' \in [Cell -> Val]
  BY CellFacts DEF StoreTypeOK, SetStarred
<1>2. pending' \in [Cell -> Row]
  BY CellFacts, UpsertType DEF StoreTypeOK, SetStarred
<1> QED BY <1>1, <1>2 DEF StoreTypeOK, SetStarred

(* undo and discard_undo keep the types of the store.                      *)
LEMMA UndoTypes ==
    ASSUME StoreTypeOK, NEW b \in Nat, Undo(b) \/ DiscardUndo(b)
    PROVE  StoreTypeOK'
<1>1. CASE Undo(b)
  <2> DEFINE prior(c) == (CHOOSE i \in Restored(b) : i.entry = c[1]).prior
             S == ReadCells({i.entry : i \in Restored(b)})
  <2>1. ASSUME NEW c \in S PROVE prior(c) \in Val
    <3>1. \E i \in Restored(b) : i.entry = c[1]
      BY <2>1 DEF ReadCells
    <3>2. (CHOOSE i \in Restored(b) : i.entry = c[1]) \in UndoItem
      BY <3>1 DEF Restored, StoreTypeOK
    <3> QED BY <3>2 DEF UndoItem
  <2>2. /\ local' = [c \in Cell |-> IF c \in S THEN prior(c) ELSE local[c]]
        /\ pending' = [c \in Cell |-> IF c \in S THEN Upsert(pending[c], prior(c))
                                                 ELSE pending[c]]
        /\ items' = items \ Restored(b)
        /\ batches' = batches \ {b}
        /\ UNCHANGED <<known, baseline, nextBatch, manual>>
    BY <1>1 DEF Undo
  <2> HIDE DEF prior, S
  <2>3. local' \in [Cell -> Val] /\ pending' \in [Cell -> Row]
    BY <2>1, <2>2, UpsertType DEF StoreTypeOK
  <2> QED BY <2>2, <2>3 DEF StoreTypeOK
<1>2. CASE DiscardUndo(b)
  BY <1>2 DEF StoreTypeOK, DiscardUndo
<1> QED BY <1>1, <1>2

(* acknowledge keeps the types of the store.                               *)
LEMMA AckTypes ==
    ASSUME StoreTypeOK, NEW c \in Cell, NEW sent \in Row, Acknowledge(c, sent)
    PROVE  StoreTypeOK'
<1>1. RowAfterAck(c, sent) \in Row /\ sent.desired \in Val
  BY CellFacts DEF StoreTypeOK, RowAfterAck, Row
<1> QED BY <1>1 DEF StoreTypeOK, Acknowledge

(* What a browse result says of a cell is a value.                         *)
LEMMA ObservedType ==
    ASSUME StoreTypeOK, NEW sel, NEW list, NEW vals \in [Cell -> Val], NEW c \in Cell
    PROVE  Observed(c, sel, list, vals) \in Val
  BY DEF StoreTypeOK, Observed, Val

(* apply_snapshot keeps the types of the store.                            *)
LEMMA ApplyTypes ==
    ASSUME StoreTypeOK, NEW sel, NEW list \in SUBSET Entry, NEW vals \in [Cell -> Val],
           ApplySnapshot(sel, list, vals)
    PROVE  StoreTypeOK'
  BY ObservedType DEF StoreTypeOK, ApplySnapshot

-----------------------------------------------------------------------------
(* A thread's steps keep the types of its variables.                       *)
LEMMA LeaveTypes ==
    ASSUME ThreadTypeOK, NEW t \in Caller, Leave(t)
    PROVE  ThreadTypeOK'
  BY CellFacts DEF ThreadTypeOK, Leave, Phase

(* Going on to the next step of a call keeps the types of the threads.     *)
LEMMA GoTypes ==
    ASSUME ThreadTypeOK, NEW t \in Caller, NEW phase \in Phase,
           NEW rows \in [Cell -> Row], NEW c \in Cell \cup {NoCell},
           phase \in {"toggle", "ack"} => c \in Cell,
           Go(t, phase, rows, c)
    PROVE  ThreadTypeOK'
  BY DEF ThreadTypeOK, Go

(* So does the end of a flush, whether a refresh goes on or not.           *)
LEMMA EndFlushTypes ==
    ASSUME ThreadTypeOK, NEW t \in Caller, EndFlush(t)
    PROVE  ThreadTypeOK'
  BY CellFacts, LeaveTypes, GoTypes DEF EndFlush, Phase

(* What a flush step does to the types; a refresh's steps; the rest.       *)
LEMMA FlushStepTypes ==
    ASSUME TypeOK, NEW t \in Caller, FlushStep(t)
    PROVE  TypeOK'
<1>1. CASE ListPending(t)
  <2>1. ThreadTypeOK'
    BY <1>1, GoTypes DEF ListPending, Phase, TypeOK, StoreTypeOK
  <2> QED BY <1>1, <2>1 DEF ListPending, TypeOK, StoreTypeOK, ServerTypeOK,
                            storeVars, serverVars
<1>2. CASE ToggleStarred(t)
  <2>1. cell[t] \in Cell /\ todo[t] \in [Cell -> Row]
    BY <1>2 DEF ToggleStarred, TypeOK, ThreadTypeOK
  <2>2. ThreadTypeOK'
    BY <1>2, <2>1, GoTypes DEF ToggleStarred, Phase, TypeOK
  <2>3. ServerTypeOK'
    BY <1>2, <2>1 DEF ToggleStarred, TypeOK, ServerTypeOK, Val
  <2> QED BY <1>2, <2>2, <2>3 DEF ToggleStarred, TypeOK, StoreTypeOK, storeVars
<1>3. CASE Ack(t)
  <2>1. todo[t] \in [Cell -> Row] /\ cell[t] \in Cell
    BY <1>3 DEF Ack, TypeOK, ThreadTypeOK
  <2>2. [todo[t] EXCEPT ![cell[t]] = NoRow] \in [Cell -> Row]
    BY <2>1, CellFacts
  <2>3. ThreadTypeOK'
    BY <1>3, <2>2, GoTypes DEF Ack, Phase, TypeOK
  <2>4. StoreTypeOK'
    BY <1>3, <2>1, AckTypes DEF Ack, TypeOK
  <2> QED BY <1>3, <2>3, <2>4 DEF Ack, TypeOK, ServerTypeOK, serverVars
<1>4. CASE FlushDone(t)
  BY <1>4, EndFlushTypes DEF FlushDone, TypeOK, StoreTypeOK, ServerTypeOK,
                             storeVars, serverVars
<1>5. ASSUME NEW c \in Cell, SetReadBatch(t, c) \/ EntryStarred(t, c)
      PROVE  TypeOK'
  <2>1. todo[t] \in [Cell -> Row] /\ todo[t][c].desired \in Val
    BY DEF TypeOK, ThreadTypeOK, Row
  <2>2. NextForStar(t, c) \in Phase
    BY DEF NextForStar, Phase
  <2>3. ThreadTypeOK'
    BY <1>5, <2>1, <2>2, GoTypes DEF SetReadBatch, EntryStarred, Phase, TypeOK
  <2>4. ServerTypeOK'
    BY <1>5, <2>1 DEF SetReadBatch, EntryStarred, TypeOK, ServerTypeOK
  <2> QED BY <1>5, <2>3, <2>4 DEF SetReadBatch, EntryStarred, TypeOK, StoreTypeOK,
                                  storeVars
<1> QED BY <1>1, <1>2, <1>3, <1>4, <1>5 DEF FlushStep

(* Types: the steps of flush and sync outside flush_pending.               *)
LEMMA CallTypes ==
    ASSUME TypeOK, NEW t \in Caller,
           \/ Flush(t) \/ \E sel \in Selections : Refresh(t, sel)
           \/ Browse(t) \/ Apply(t) \/ FaultStep(t)
    PROVE  TypeOK'
<1> USE DEF TypeOK
<1>1. ASSUME NEW sel \in Selections \cup {NoSelection}, Enter(t, sel)
      PROVE  TypeOK'
  BY <1>1 DEF Enter, StoreTypeOK, ServerTypeOK, ThreadTypeOK, storeVars, serverVars,
              Phase
<1>2. CASE Browse(t)
  BY <1>2 DEF Browse, StoreTypeOK, ServerTypeOK, ThreadTypeOK, storeVars, serverVars,
              Phase
<1>3. CASE Apply(t)
  <2>1. listing[t] \in SUBSET Entry /\ value[t] \in [Cell -> Val]
    BY DEF ThreadTypeOK
  <2>2. StoreTypeOK'
    BY <1>3, <2>1, ApplyTypes DEF Apply
  <2>3. ThreadTypeOK'
    BY <1>3, LeaveTypes DEF Apply
  <2> QED BY <1>3, <2>2, <2>3 DEF Apply, ServerTypeOK
<1>4. CASE FlushFails(t) \/ RefreshFails(t)
  BY <1>4, EndFlushTypes, LeaveTypes DEF FlushFails, RefreshFails, StoreTypeOK,
              ServerTypeOK, storeVars, serverVars
<1>5. ASSUME NEW c \in Cell, AbandonRequest(t, c)
      PROVE  TypeOK'
  <2>1. todo[t][c].desired \in Val
    BY DEF ThreadTypeOK, Row
  <2>2. late' \subseteq Request
    BY <1>5, <2>1 DEF AbandonRequest, ServerTypeOK, Request
  <2> QED BY <1>5, <2>2, EndFlushTypes DEF AbandonRequest, StoreTypeOK, ServerTypeOK,
              storeVars
<1> QED BY <1>1, <1>2, <1>3, <1>4, <1>5 DEF Flush, Refresh, FaultStep

(* Types: mark_read, set_starred, undo and discard_undo.                   *)
LEMMA UserTypes ==
    ASSUME TypeOK, StoreAssumption, UserStep
    PROVE  TypeOK'
<1> USE DEF TypeOK
<1>1. ASSUME threadVars' = threadVars
      PROVE  ThreadTypeOK'
  BY <1>1 DEF threadVars, ThreadTypeOK
<1>2. ASSUME serverVars' = serverVars
      PROVE  ServerTypeOK'
  BY <1>2 DEF serverVars, ServerTypeOK
<1>3. ASSUME NEW ids \in SUBSET UserReadable, NEW v \in Val, MarkRead(ids, v)
      PROVE  TypeOK'
  <2>1. ids \in SUBSET Entry
    BY DEF UserReadable, ReadCells
  <2> QED BY <1>1, <1>2, <1>3, <2>1, ReadTypes DEF MarkRead
<1>4. ASSUME NEW e \in UserStarrable, NEW v \in Val, ToggleStar(e, v)
      PROVE  TypeOK'
  <2>1. e \in Entry
    BY DEF UserStarrable, StarCells
  <2> QED BY <1>1, <1>2, <1>4, <2>1, StarTypes DEF ToggleStar
<1>5. ASSUME NEW b \in 1 .. MaxBatch, UndoRead(b) \/ Discard(b)
      PROVE  TypeOK'
  <2>1. b \in Nat
    BY DEF StoreAssumption
  <2> QED BY <1>1, <1>2, <1>5, <2>1, UndoTypes DEF UndoRead, Discard
<1> QED BY <1>3, <1>4, <1>5 DEF UserStep

(* Types: other clients, late requests and a restart.                      *)
LEMMA OutsideTypes ==
    ASSUME TypeOK, ServiceAssumption,
           \/ \E c \in OtherCells : OtherClient(c)
           \/ \E r \in late : LateRequest(r)
           \/ Crash
    PROVE  TypeOK'
<1> USE DEF TypeOK
<1>1. ASSUME NEW c \in OtherCells, OtherClient(c)
      PROVE  TypeOK'
  <2>1. c \in Cell
    BY DEF ServiceAssumption
  <2>2. ServerTypeOK'
    BY <1>1, <2>1 DEF OtherClient, ServerTypeOK, Val
  <2>3. StoreTypeOK'
    BY <1>1 DEF OtherClient, StoreTypeOK, storeVars
  <2>4. ThreadTypeOK'
    BY <1>1 DEF OtherClient, ThreadTypeOK, threadVars
  <2> QED BY <2>2, <2>3, <2>4
<1>2. ASSUME NEW r \in late, LateRequest(r)
      PROVE  TypeOK'
  <2>1. r.cell \in Cell /\ r.desired \in Val
    BY DEF ServerTypeOK, Request
  <2>2. ServerTypeOK'
    BY <1>2, <2>1 DEF LateRequest, ServerTypeOK, Val
  <2> QED BY <1>2, <2>2 DEF LateRequest, StoreTypeOK, ThreadTypeOK, storeVars, threadVars
<1>3. CASE Crash
  BY <1>3, CellFacts DEF Crash, StoreTypeOK, ServerTypeOK, ThreadTypeOK, storeVars,
              serverVars, Phase
<1> QED BY <1>1, <1>2, <1>3

(* Every step keeps the types.                                             *)
LEMMA TypeStep ==
    ASSUME TypeOK, [Next]_vars
    PROVE  TypeOK'
<1>1. CASE UNCHANGED vars
  BY <1>1 DEF vars, storeVars, serverVars, threadVars, TypeOK, StoreTypeOK,
              ServerTypeOK, ThreadTypeOK
<1>2. CASE Next
  BY <1>2, FlushStepTypes, CallTypes, UserTypes, OutsideTypes, StoreAssumption,
     ServiceAssumption DEF Next
<1> QED BY <1>1, <1>2

(* The tables, the server and the threads keep their types.                *)
THEOREM TypeCorrect == Spec => []TypeOK
<1>1. Init => TypeOK
  BY CellFacts DEF Init, StoreInit, ThreadsIdle, TypeOK, StoreTypeOK, ServerTypeOK,
                   ThreadTypeOK, Phase, Val
<1>2. TypeOK /\ [Next]_vars => TypeOK'
  BY TypeStep
<1> QED BY <1>1, <1>2, PTL DEF Spec

-----------------------------------------------------------------------------
(* The user's transactions leave a cell alone or wish for it: what the     *)
(* user sees and the row change together, the revision counts up.          *)
WishedFor(c) ==
    /\ c[1] \in known
    /\ pending'[c].revision = pending[c].revision + 1
    /\ pending'[c].desired = local'[c]
LeftAlone(c) == local'[c] = local[c] /\ pending'[c] = pending[c]

(* A new wish, which counts its row's revision up, keeps the invariant:    *)
(* a row that a thread holds a copy of is older from here on.              *)
LEMMA WishesKeepIInv ==
    ASSUME IInv, TypeOK', ItemsKnown',
           UNCHANGED <<known, baseline, serverVars, threadVars>>,
           \A c \in Cell : WishedFor(c) \/ LeftAlone(c)
    PROVE  IInv'
<1> USE DEF IInv
<1>1. GateHeld' /\ RowSent' /\ Browsed'
  BY DEF GateHeld, RowSent, Browsed, serverVars, threadVars
<1>2. WishesKnown' /\ Agreement' /\ BaselineSeen'
  BY DEF WishesKnown, Agreement, BaselineSeen, HasPending, HasRow, WishedFor, LeftAlone,
         serverVars, TypeOK, StoreTypeOK, Row
<1>3. RowsListed'
  <2> SUFFICES ASSUME NEW t \in Caller, NEW c \in Cell, HasRow(todo[t], c)
               PROVE  /\ pc[t] \in {"send", "toggle", "ack"}
                      /\ todo[t][c].revision <= pending'[c].revision
                      /\ todo[t][c].revision = pending'[c].revision
                           => todo[t][c].desired = pending'[c].desired
    BY DEF RowsListed, HasRow, threadVars
  <2>1. todo[t][c].revision \in Nat /\ pending[c].revision \in Nat
    BY DEF TypeOK, StoreTypeOK, ThreadTypeOK, Row
  <2>2. CASE WishedFor(c)
    BY <2>1, <2>2 DEF RowsListed, WishedFor
  <2>3. CASE LeftAlone(c)
    BY <2>3 DEF RowsListed, LeftAlone
  <2> QED BY <2>2, <2>3
<1> QED BY <1>1, <1>2, <1>3

(* Every transaction of the user wishes for the cells it changes, and      *)
(* leaves the others alone.                                                *)
LEMMA UserWishes ==
    ASSUME IInv, FromUserInterface, UserStep
    PROVE  /\ \A c \in Cell : WishedFor(c) \/ LeftAlone(c)
           /\ UNCHANGED <<known, baseline, serverVars, threadVars>>
<1> USE DEF IInv
<1>1. ASSUME NEW ids \in SUBSET UserReadable, NEW v \in Val, MarkRead(ids, v)
      PROVE  /\ \A c \in Cell : WishedFor(c) \/ LeftAlone(c)
             /\ UNCHANGED <<known, baseline, serverVars, threadVars>>
  <2>1. Wish(ReadCells(Changed(ids, v)), v) /\ UNCHANGED <<known, baseline>>
    BY <1>1 DEF MarkRead, SetReadManual, SetReadAutomatic
  <2>2. \A c \in ReadCells(Changed(ids, v)) : c[1] \in known
    BY DEF ReadCells, Changed
  <2>3. \A c \in Cell : WishedFor(c) \/ LeftAlone(c)
    BY <2>1, <2>2, UpsertType DEF Wish, WishedFor, LeftAlone, TypeOK, StoreTypeOK
  <2> QED BY <1>1, <2>1, <2>3 DEF MarkRead
<1>2. ASSUME NEW e \in UserStarrable, NEW v \in Val, ToggleStar(e, v)
      PROVE  /\ \A c \in Cell : WishedFor(c) \/ LeftAlone(c)
             /\ UNCHANGED <<known, baseline, serverVars, threadVars>>
  <2>1. e \in known /\ SetStarred(e, v) /\ UNCHANGED <<known, baseline>>
    BY <1>2 DEF ToggleStar, FromUserInterface, SetStarred
  <2>2. <<e, "starred">> \in Cell
    BY <2>1, CellFacts DEF TypeOK, StoreTypeOK
  <2>3. local' = [local EXCEPT ![<<e, "starred">>] = v]
    BY <2>1 DEF SetStarred
  <2>4. pending' = [pending EXCEPT ![<<e, "starred">>]
                                     = Upsert(pending[<<e, "starred">>], v)]
    BY <2>1 DEF SetStarred
  <2>5. \A c \in Cell : c # <<e, "starred">> => LeftAlone(c)
    BY <2>3, <2>4 DEF LeftAlone, TypeOK, StoreTypeOK
  <2>6. WishedFor(<<e, "starred">>)
    BY <2>1, <2>2, <2>3, <2>4, UpsertType DEF WishedFor, TypeOK, StoreTypeOK
  <2> QED BY <1>2, <2>1, <2>5, <2>6 DEF ToggleStar
<1>3. ASSUME NEW b \in 1 .. MaxBatch, UndoRead(b)
      PROVE  /\ \A c \in Cell : WishedFor(c) \/ LeftAlone(c)
             /\ UNCHANGED <<known, baseline, serverVars, threadVars>>
  <2> DEFINE prior(c) == (CHOOSE i \in Restored(b) : i.entry = c[1]).prior
             S == ReadCells({i.entry : i \in Restored(b)})
  <2>1. /\ local' = [c \in Cell |-> IF c \in S THEN prior(c) ELSE local[c]]
        /\ pending' = [c \in Cell |-> IF c \in S THEN Upsert(pending[c], prior(c))
                                                 ELSE pending[c]]
        /\ UNCHANGED <<known, baseline>>
    BY <1>3 DEF UndoRead, Undo
  <2>2. ASSUME NEW c \in S PROVE c[1] \in known /\ prior(c) \in Val
    <3>1. \E i \in Restored(b) : i.entry = c[1]
      BY <2>2 DEF ReadCells
    <3>2. PICK i \in Restored(b) :
             i = (CHOOSE j \in Restored(b) : j.entry = c[1]) /\ i.entry = c[1]
      BY <3>1
    <3> QED BY <3>2 DEF Restored, ItemsKnown, TypeOK, StoreTypeOK, UndoItem
  <2> HIDE DEF prior, S
  <2>3. \A c \in Cell : WishedFor(c) \/ LeftAlone(c)
    BY <2>1, <2>2, UpsertType DEF WishedFor, LeftAlone, TypeOK, StoreTypeOK
  <2> QED BY <1>3, <2>1, <2>3 DEF UndoRead
<1>4. ASSUME NEW b \in 1 .. MaxBatch, Discard(b)
      PROVE  /\ \A c \in Cell : WishedFor(c) \/ LeftAlone(c)
             /\ UNCHANGED <<known, baseline, serverVars, threadVars>>
  BY <1>4 DEF Discard, DiscardUndo, LeftAlone
<1> QED BY <1>1, <1>2, <1>3, <1>4 DEF UserStep

(* What Undo may restore are stored articles after every transaction.      *)
LEMMA UserKeepsItems ==
    ASSUME IInv, UserStep
    PROVE  ItemsKnown'
<1> USE DEF IInv
<1>1. ASSUME NEW ids \in SUBSET UserReadable, NEW v \in Val, SetReadManual(ids, v)
      PROVE  ItemsKnown'
  BY <1>1 DEF ItemsKnown, SetReadManual, ItemsAfterManual
<1>2. ASSUME NEW ids \in SUBSET UserReadable, NEW v \in Val, SetReadAutomatic(ids, v)
      PROVE  ItemsKnown'
  <2> DEFINE new(e) == [batch |-> nextBatch, entry |-> e, prior |-> local[<<e, "read">>]]
  <2>1. items' = items \cup {new(e) : e \in Changed(ids, v)} /\ known' = known
    BY <1>2 DEF SetReadAutomatic
  <2>2. \A e : new(e).entry = e
    OBVIOUS
  <2> HIDE DEF new
  <2>3. \A i \in items' : i \in items \/ i.entry \in Changed(ids, v)
    BY <2>1, <2>2
  <2> QED BY <2>1, <2>3 DEF ItemsKnown, Changed
<1>3. ASSUME NEW e \in UserStarrable, NEW v \in Val, ToggleStar(e, v)
      PROVE  ItemsKnown'
  BY <1>3 DEF ItemsKnown, ToggleStar, SetStarred
<1>4. ASSUME NEW b \in 1 .. MaxBatch, UndoRead(b) \/ Discard(b)
      PROVE  ItemsKnown'
  BY <1>4 DEF ItemsKnown, UndoRead, Undo, Discard, DiscardUndo
<1> QED BY <1>1, <1>2, <1>3, <1>4 DEF UserStep, MarkRead

(* The user's transactions keep the invariant, whatever a flush or a       *)
(* refresh is doing meanwhile.                                             *)
LEMMA UserKeepsIInv ==
    ASSUME IInv, TypeOK', FromUserInterface, UserStep
    PROVE  IInv'
  BY UserWishes, UserKeepsItems, WishesKeepIInv

-----------------------------------------------------------------------------
(* The gate: while t is inside, every other thread is outside.             *)
LEMMA OthersIdle ==
    ASSUME IInv, ServiceAssumption, NEW t \in Caller, pc[t] # "idle"
    PROVE  \A u \in Caller : u # t => pc[u] = "idle"
  BY DEF IInv, GateHeld

(* A step that leaves the store, the server and the history alone keeps    *)
(* the invariant if it keeps what the invariant says of its thread.        *)
StoreParts == WishesKnown /\ ItemsKnown /\ Agreement /\ BaselineSeen

(* A step that leaves the store and the server alone keeps what the        *)
(* invariant says of them.                                                 *)
LEMMA QuietStep ==
    ASSUME StoreParts, UNCHANGED <<storeVars, server, unseen>>
    PROVE  StoreParts'
  BY DEF StoreParts, WishesKnown, ItemsKnown, Agreement, BaselineSeen, HasPending,
         HasRow, storeVars

(* A thread that leaves the gate keeps the invariant of the threads.       *)
LEMMA LeaveKeepsThreads ==
    ASSUME IInv, NEW t \in Caller, pc[t] # "idle", Leave(t), ServiceAssumption
    PROVE  GateHeld' /\ RowsListed' /\ RowSent' /\ Browsed'
<1>1. \A u \in Caller : pc'[u] = "idle"
  BY OthersIdle DEF Leave, IInv, TypeOK, ThreadTypeOK
<1>2. \A u \in Caller, c \in Cell : ~HasRow(todo'[u], c)
  <2> SUFFICES ASSUME NEW u \in Caller, NEW c \in Cell PROVE ~HasRow(todo'[u], c)
    OBVIOUS
  <2>1. CASE u = t
    BY <2>1 DEF Leave, IInv, TypeOK, ThreadTypeOK, HasRow, NoRows, NoRow
  <2>2. CASE u # t
    <3>1. todo'[u] = todo[u] /\ pc[u] = "idle"
      BY <2>2, OthersIdle DEF Leave, IInv, TypeOK, ThreadTypeOK
    <3> QED BY <3>1 DEF IInv, RowsListed
  <2> QED BY <2>1, <2>2
<1>3. GateHeld' /\ RowSent' /\ Browsed'
  BY <1>1 DEF GateHeld, RowSent, Browsed
<1>4. RowsListed'
  BY <1>2 DEF RowsListed
<1> QED BY <1>3, <1>4

(* So does a flush that ends, in success or with an error.                 *)
LEMMA EndFlushKeepsThreads ==
    ASSUME IInv, NEW t \in Caller, pc[t] # "idle", EndFlush(t), ServiceAssumption
    PROVE  GateHeld' /\ RowsListed' /\ RowSent' /\ Browsed'
<1>1. CASE selection[t] = NoSelection
  BY <1>1, LeaveKeepsThreads DEF EndFlush
<1>2. CASE selection[t] # NoSelection
  <2>1. Go(t, "browse", NoRows, NoCell) /\ selection[t] \in Selections
    BY <1>2 DEF EndFlush, IInv, TypeOK, ThreadTypeOK
  <2>2. \A u \in Caller : pc'[u] = IF u = t THEN "browse" ELSE "idle"
    BY <2>1, OthersIdle DEF Go, IInv, TypeOK, ThreadTypeOK
  <2>3. \A u \in Caller, c \in Cell : ~HasRow(todo'[u], c)
    <3> SUFFICES ASSUME NEW u \in Caller, NEW c \in Cell PROVE ~HasRow(todo'[u], c)
      OBVIOUS
    <3>1. CASE u = t
      BY <2>1, <3>1 DEF Go, IInv, TypeOK, ThreadTypeOK, HasRow, NoRows, NoRow
    <3>2. CASE u # t
      <4>1. todo'[u] = todo[u] /\ pc[u] = "idle"
        BY <2>1, <3>2, OthersIdle DEF Go, IInv, TypeOK, ThreadTypeOK
      <4> QED BY <4>1 DEF IInv, RowsListed
    <3> QED BY <3>1, <3>2
  <2>4. GateHeld' /\ RowSent' /\ Browsed'
    BY <2>1, <2>2 DEF GateHeld, RowSent, Browsed, Go, IInv
  <2>5. RowsListed'
    BY <2>3 DEF RowsListed
  <2> QED BY <2>4, <2>5
<1> QED BY <1>1, <1>2

(* A step of flush_pending keeps the invariant.                            *)
LEMMA SendKeepsIInv ==
    ASSUME IInv, TypeOK', ServiceAssumption, NEW t \in Caller, NEW c \in Cell,
           SetReadBatch(t, c) \/ EntryStarred(t, c)
    PROVE  IInv'
<1> USE DEF IInv
<1>1. /\ pc[t] = "send" /\ HasRow(todo[t], c)
      /\ pc'[t] \in {"toggle", "ack"} /\ cell'[t] = c /\ todo' = todo
      /\ \A u \in Caller : u # t => pc'[u] = pc[u] /\ cell'[u] = cell[u]
      /\ unseen' = unseen \ {c}
      /\ UNCHANGED <<storeVars, gate, selection, listing, value>>
  BY DEF SetReadBatch, EntryStarred, Sending, Go, NextForStar, TypeOK, ThreadTypeOK
<1>2. HasPending(c)
  BY <1>1 DEF RowsListed, HasPending, HasRow, TypeOK, StoreTypeOK, ThreadTypeOK, Row
<1>3. todo[t][c].desired \in Val
  BY DEF TypeOK, ThreadTypeOK, Row
<1>4. /\ server'[c] = IF pc'[t] = "ack" THEN todo[t][c].desired
                                         ELSE 1 - todo[t][c].desired
      /\ \A d \in Cell : d # c => server'[d] = server[d]
  BY <1>1, <1>3 DEF SetReadBatch, EntryStarred, NextForStar, Go, TypeOK, ServerTypeOK,
              ThreadTypeOK, Val
<1>5. WishesKnown' /\ ItemsKnown' /\ Agreement'
  BY <1>1 DEF WishesKnown, ItemsKnown, Agreement, HasPending, HasRow, storeVars
<1>6. BaselineSeen'
  BY <1>1, <1>2, <1>4 DEF BaselineSeen, HasPending, HasRow, storeVars
<1>7. \A u \in Caller : u # t => pc'[u] = "idle"
  BY <1>1, OthersIdle
<1>8. GateHeld' /\ Browsed' /\ RowSent'
  BY <1>1, <1>4, <1>7 DEF GateHeld, Browsed, RowSent
<1>9. RowsListed'
  BY <1>1, <1>7, OthersIdle DEF RowsListed, storeVars
<1> QED BY <1>5, <1>6, <1>8, <1>9

(* toggle_starred keeps the invariant: the server held the opposite.       *)
LEMMA ToggleKeepsIInv ==
    ASSUME IInv, TypeOK', ServiceAssumption, NEW t \in Caller, ToggleStarred(t)
    PROVE  IInv'
<1> USE DEF IInv
<1>1. /\ pc[t] = "toggle" /\ pc'[t] = "ack"
      /\ todo' = todo /\ cell'[t] = cell[t] /\ cell[t] \in Cell
      /\ server' = [server EXCEPT ![cell[t]] = 1 - @]
      /\ UNCHANGED <<storeVars, unseen, gate, selection, listing, value>>
      /\ \A u \in Caller : u # t => pc'[u] = pc[u]
  BY DEF ToggleStarred, Go, TypeOK, ThreadTypeOK
<1>2. HasPending(cell[t])
  BY <1>1 DEF RowSent, RowsListed, HasPending, HasRow, TypeOK, StoreTypeOK, ThreadTypeOK,
              Row
<1>3. WishesKnown' /\ ItemsKnown' /\ Agreement'
  BY <1>1 DEF WishesKnown, ItemsKnown, Agreement, HasPending, HasRow, storeVars
<1>4. BaselineSeen'
  BY <1>1, <1>2 DEF BaselineSeen, HasPending, HasRow, storeVars, TypeOK, ServerTypeOK
<1>5. \A u \in Caller : u # t => pc'[u] = "idle"
  BY <1>1, OthersIdle
<1>6. todo[t][cell[t]].desired \in Val
  BY <1>1 DEF TypeOK, ThreadTypeOK, Row
<1>7. RowSent'
  BY <1>1, <1>5, <1>6 DEF RowSent, TypeOK, ServerTypeOK, Val
<1>8. GateHeld' /\ Browsed' /\ RowsListed'
  BY <1>1, <1>5 DEF GateHeld, Browsed, RowsListed, storeVars
<1> QED BY <1>3, <1>4, <1>7, <1>8

(* acknowledge keeps the invariant: the baseline becomes what was sent,    *)
(* and the row goes only if it is the row that was sent.                   *)
LEMMA AckKeepsIInv ==
    ASSUME IInv, TypeOK', ServiceAssumption, NEW t \in Caller, Ack(t)
    PROVE  IInv'
<1> USE DEF IInv
<1> DEFINE c == cell[t]
           sent == todo[t][c]
<1>1. /\ pc[t] = "ack" /\ pc'[t] = "send" /\ c \in Cell
      /\ todo' = [todo EXCEPT ![t] = [todo[t] EXCEPT ![c] = NoRow]]
      /\ baseline' = [baseline EXCEPT ![c] = sent.desired]
      /\ pending' = [pending EXCEPT ![c] = RowAfterAck(c, sent)]
      /\ UNCHANGED <<serverVars, known, local, items, gate, selection, listing, value>>
      /\ \A u \in Caller : u # t => pc'[u] = pc[u]
  BY DEF Ack, Acknowledge, Go, TypeOK, ThreadTypeOK
<1>2. /\ HasRow(todo[t], c)
      /\ c \notin unseen => server[c] = sent.desired
  BY <1>1 DEF RowSent
<1>3. /\ HasPending(c)
      /\ sent.revision = pending[c].revision => sent.desired = pending[c].desired
  BY <1>1, <1>2 DEF RowsListed, HasPending, HasRow, TypeOK, StoreTypeOK, ThreadTypeOK, Row
<1>4. \/ pending'[c] = NoRow /\ sent.revision = pending[c].revision
      \/ pending'[c] = pending[c]
  BY <1>1 DEF RowAfterAck, TypeOK, StoreTypeOK
<1>5. \A d \in Cell : d # c => pending'[d] = pending[d] /\ baseline'[d] = baseline[d]
  BY <1>1 DEF TypeOK, StoreTypeOK
<1>6. baseline'[c] = sent.desired
  BY <1>1 DEF TypeOK, StoreTypeOK
<1> HIDE DEF c, sent
<1>7. WishesKnown' /\ ItemsKnown'
  BY <1>1, <1>3, <1>4, <1>5 DEF WishesKnown, ItemsKnown, HasPending, HasRow, NoRow
<1>8. Agreement' /\ BaselineSeen'
  BY <1>1, <1>2, <1>3, <1>4, <1>5, <1>6 DEF Agreement, BaselineSeen, HasPending, HasRow,
     NoRow, serverVars
<1>9. \A u \in Caller : u # t => pc'[u] = "idle"
  BY <1>1, OthersIdle
<1>10. GateHeld' /\ Browsed' /\ RowSent'
  BY <1>1, <1>9 DEF GateHeld, Browsed, RowSent
<1>11. RowsListed'
  <2> SUFFICES ASSUME NEW u \in Caller, NEW d \in Cell, HasRow(todo'[u], d)
               PROVE  u = t /\ d # c /\ HasRow(todo[t], d)
    BY <1>1, <1>5 DEF RowsListed
  <2>1. u = t
    BY <1>1, <1>9, OthersIdle DEF RowsListed, HasRow, TypeOK, ThreadTypeOK
  <2> QED BY <1>1, <2>1 DEF HasRow, NoRow, TypeOK, ThreadTypeOK
<1> QED BY <1>7, <1>8, <1>10, <1>11

(* Every step of flush_pending keeps the invariant.                        *)
LEMMA FlushStepKeepsIInv ==
    ASSUME IInv, TypeOK', ServiceAssumption, NEW t \in Caller, FlushStep(t)
    PROVE  IInv'
<1>1. CASE ListPending(t)
  <2> USE DEF IInv
  <2>1. /\ pc[t] = "list" /\ pc'[t] = "send"
        /\ todo' = [todo EXCEPT ![t] = pending]
        /\ UNCHANGED <<storeVars, serverVars, gate, selection, listing, value>>
        /\ \A u \in Caller : u # t => pc'[u] = pc[u]
    BY <1>1 DEF ListPending, Go, TypeOK, ThreadTypeOK
  <2>2. StoreParts'
    BY <2>1, QuietStep DEF StoreParts, serverVars
  <2>3. \A u \in Caller : u # t => pc'[u] = "idle"
    BY <2>1, OthersIdle
  <2>4. GateHeld' /\ Browsed' /\ RowSent'
    BY <2>1, <2>3 DEF GateHeld, Browsed, RowSent
  <2>5. RowsListed'
    BY <2>1, <2>3, OthersIdle DEF RowsListed, storeVars, HasRow, TypeOK, ThreadTypeOK,
       StoreTypeOK, Row
  <2> QED BY <2>2, <2>4, <2>5 DEF StoreParts
<1>2. CASE FlushDone(t)
  BY <1>2, EndFlushKeepsThreads, QuietStep DEF FlushDone, StoreParts, IInv, serverVars
<1> QED BY <1>1, <1>2, SendKeepsIInv, ToggleKeepsIInv, AckKeepsIInv DEF FlushStep

-----------------------------------------------------------------------------
(* What an applied browse result does to one cell.                         *)
LEMMA ApplyCell ==
    ASSUME IInv, FromUserInterface, NEW t \in Caller, Apply(t), NEW c \in Cell
    PROVE  /\ c[1] \in known' /\ ~HasPending(c) /\ c \notin unseen'
                => baseline'[c] = server[c]
           /\ c[1] \in known' /\ ~HasPending(c) => local'[c] = baseline'[c]
           /\ HasPending(c) => local'[c] = local[c]
<1> USE DEF IInv
<1> DEFINE sel == selection[t]
           list == listing[t]
           vals == value[t]
<1>1. /\ sel \in Selections /\ list = {e \in Entry : Matches(sel, vals, e)}
      /\ \A d \in Cell \ unseen : vals[d] = server[d]
      /\ vals \in [Cell -> Val] /\ c[1] \in Entry
  BY CellFacts DEF Apply, Browsed, TypeOK, ThreadTypeOK
<1>2. /\ known' = known \cup list
      /\ baseline'[c] = Observed(c, sel, list, vals)
      /\ local'[c] = IF Survives(c) \/ (c[1] \notin list /\ c \notin Disproved(sel, list))
                     THEN local[c] ELSE Observed(c, sel, list, vals)
      /\ c \notin unseen' =>
           c \notin unseen \/ (c \in Covered(sel, list) /\ vals[c] = server[c])
  BY DEF Apply, ApplySnapshot
<1>3. ~(sel.starred /\ sel.unreadOnly)
  BY <1>1 DEF FromUserInterface
<1>4. baseline[c] \in Val /\ vals[c] \in Val
  BY <1>1 DEF TypeOK, StoreTypeOK
<1>5. c = <<c[1], c[2]>> /\ c[2] \in {"read", "starred"}
  BY DEF Cell
<1>6. c \in Disproved(sel, list) => Observed(c, sel, list, vals) = vals[c]
  BY <1>1, <1>3, <1>4, <1>5 DEF Disproved, Observed, Absent, Matches, ReadCells, StarCells,
     Val, TypeOK, StoreTypeOK
<1>7. c[1] \notin list /\ c \in Covered(sel, list) /\ c \notin Disproved(sel, list)
        => baseline[c] = vals[c]
  BY <1>1, <1>3, <1>4, <1>5 DEF Disproved, Covered, Absent, Matches, ReadCells, StarCells,
     Val
<1> HIDE DEF sel, list, vals
<1>8. c[1] \notin list /\ c \notin Disproved(sel, list) =>
        Observed(c, sel, list, vals) = baseline[c]
  BY DEF Observed
<1>9. c[1] \in list => Observed(c, sel, list, vals) = vals[c]
  BY DEF Observed
<1>10. HasPending(c) => Survives(c)
  BY DEF Survives, WishesKnown
<1>11. ~HasPending(c) => ~Survives(c)
  BY DEF Survives
<1>12. c[1] \in known /\ ~HasPending(c) =>
         local[c] = baseline[c] /\ (c \notin unseen => baseline[c] = server[c])
  BY DEF Agreement, BaselineSeen
<1> QED BY <1>1, <1>2, <1>6, <1>7, <1>8, <1>9, <1>10, <1>11, <1>12

(* apply_snapshot keeps the invariant for the whole store.                 *)
LEMMA ApplyKeepsIInv ==
    ASSUME IInv, TypeOK', ServiceAssumption, FromUserInterface, NEW t \in Caller, Apply(t)
    PROVE  IInv'
<1>1. GateHeld' /\ RowsListed' /\ RowSent' /\ Browsed'
  BY LeaveKeepsThreads DEF Apply
<1>2. pending' = pending /\ items' = items /\ server' = server /\ known \subseteq known'
  BY DEF Apply, ApplySnapshot
<1>3. WishesKnown' /\ ItemsKnown'
  BY <1>2 DEF IInv, WishesKnown, ItemsKnown, HasPending, HasRow
<1>4. Agreement'
  <2> SUFFICES ASSUME NEW c \in Cell, c[1] \in known'
               PROVE  local'[c] = IF HasPending(c) THEN pending[c].desired ELSE baseline'[c]
    BY <1>2 DEF Agreement, HasPending, HasRow
  <2>1. HasPending(c) => local[c] = pending[c].desired
    BY DEF IInv, Agreement, WishesKnown
  <2> QED BY <2>1, ApplyCell
<1>5. BaselineSeen'
  BY <1>2, ApplyCell DEF BaselineSeen, HasPending, HasRow
<1> QED BY <1>1, <1>3, <1>4, <1>5 DEF IInv

(* The remaining steps of flush and sync keep the invariant.               *)
LEMMA CallKeepsIInv ==
    ASSUME IInv, TypeOK', ServiceAssumption, NEW t \in Caller,
           \/ Flush(t) \/ \E sel \in Selections : Refresh(t, sel)
           \/ Browse(t) \/ FaultStep(t)
    PROVE  IInv'
<1> USE DEF IInv
<1>1. ASSUME NEW sel \in Selections \cup {NoSelection}, Enter(t, sel)
      PROVE  IInv'
  <2>1. \A u \in Caller : pc[u] = "idle"
    BY <1>1 DEF Enter, GateFree, GateHeld, ServiceAssumption
  <2>2. \A u \in Caller : pc'[u] = IF u = t THEN "list" ELSE "idle"
    BY <1>1, <2>1 DEF Enter, TypeOK, ThreadTypeOK
  <2>3. GateHeld' /\ RowSent' /\ Browsed' /\ RowsListed'
    BY <1>1, <2>1, <2>2 DEF Enter, GateHeld, RowSent, Browsed, RowsListed
  <2> QED BY <1>1, <2>3, QuietStep DEF Enter, StoreParts, serverVars
<1>2. CASE Browse(t)
  <2>1. \A u \in Caller : pc'[u] = IF u = t THEN "apply" ELSE "idle"
    BY <1>2, OthersIdle DEF Browse, TypeOK, ThreadTypeOK
  <2>2. /\ listing'[t] = {e \in Entry : Matches(selection[t], server, e)}
        /\ value'[t] = server /\ selection[t] \in Selections
        /\ pc[t] = "browse"
    BY <1>2 DEF Browse, Browsed, TypeOK, ThreadTypeOK
  <2>3. GateHeld' /\ RowSent' /\ Browsed'
    BY <1>2, <2>1, <2>2 DEF Browse, GateHeld, RowSent, Browsed, serverVars
  <2>4. RowsListed'
    BY <1>2, <2>1, <2>2, OthersIdle DEF Browse, RowsListed, storeVars
  <2> QED BY <1>2, <2>3, <2>4, QuietStep DEF Browse, StoreParts, serverVars
<1>3. CASE FlushFails(t) \/ RefreshFails(t)
  BY <1>3, EndFlushKeepsThreads, LeaveKeepsThreads, QuietStep
  DEF FlushFails, RefreshFails, StoreParts, serverVars
<1>4. ASSUME NEW c \in Cell, AbandonRequest(t, c)
      PROVE  IInv'
  <2>1. pc[t] # "idle"
    BY <1>4 DEF AbandonRequest, Sending
  <2> QED BY <1>4, <2>1, EndFlushKeepsThreads, QuietStep DEF AbandonRequest, StoreParts
<1> QED BY <1>1, <1>2, <1>3, <1>4 DEF Flush, Refresh, FaultStep

(* A change of the server that is recorded as unseen.                      *)
LEMMA UnseenChange ==
    ASSUME IInv, TypeOK', NEW c \in Cell,
           \A d \in Cell : d # c => server'[d] = server[d],
           unseen' = unseen \cup {c}, UNCHANGED <<storeVars, threadVars>>
    PROVE  IInv'
<1> USE DEF IInv
<1>1. WishesKnown' /\ ItemsKnown' /\ Agreement' /\ BaselineSeen'
  BY DEF WishesKnown, ItemsKnown, Agreement, BaselineSeen, HasPending, HasRow, storeVars
<1>2. GateHeld' /\ RowsListed' /\ RowSent' /\ Browsed'
  BY DEF GateHeld, RowsListed, RowSent, Browsed, storeVars, threadVars, TypeOK, ThreadTypeOK
<1> QED BY <1>1, <1>2

(* Other clients, late requests and a restart keep the invariant.          *)
LEMMA OutsideKeepsIInv ==
    ASSUME IInv, TypeOK', ServiceAssumption,
           \/ \E c \in OtherCells : OtherClient(c)
           \/ \E r \in late : LateRequest(r)
           \/ Crash
    PROVE  IInv'
<1>1. ASSUME NEW c \in OtherCells, OtherClient(c)
      PROVE  IInv'
  <2>1. c \in Cell /\ \A d \in Cell : d # c => server'[d] = server[d]
    BY <1>1 DEF OtherClient, ServiceAssumption, IInv, TypeOK, ServerTypeOK
  <2> QED BY <1>1, <2>1, UnseenChange DEF OtherClient
<1>2. ASSUME NEW r \in late, LateRequest(r)
      PROVE  IInv'
  <2>1. r.cell \in Cell /\ \A d \in Cell : d # r.cell => server'[d] = server[d]
    BY <1>2 DEF LateRequest, Request, IInv, TypeOK, ServerTypeOK
  <2> QED BY <1>2, <2>1, UnseenChange DEF LateRequest
<1>3. CASE Crash
  <2>1. \A u \in Caller : pc'[u] = "idle" /\ todo'[u] = NoRows
    BY <1>3 DEF Crash
  <2>2. GateHeld' /\ RowsListed' /\ RowSent' /\ Browsed'
    BY <2>1 DEF GateHeld, RowsListed, RowSent, Browsed, HasRow, NoRows, NoRow
  <2> QED BY <1>3, <2>2, QuietStep DEF Crash, IInv, StoreParts, serverVars
<1> QED BY <1>1, <1>2, <1>3

(* Every step keeps the invariant.                                         *)
LEMMA IInvStep ==
    ASSUME FromUserInterface, IInv, [Next]_vars
    PROVE  IInv'
<1>1. TypeOK'
  BY TypeStep DEF IInv
<1>2. CASE UNCHANGED vars
  BY <1>1, <1>2 DEF vars, storeVars, serverVars, threadVars, IInv, GateHeld, WishesKnown,
     ItemsKnown, Agreement, BaselineSeen, RowsListed, RowSent, Browsed, HasPending, HasRow
<1>3. CASE Next
  BY <1>1, <1>3, FlushStepKeepsIInv, CallKeepsIInv, ApplyKeepsIInv, UserKeepsIInv,
     OutsideKeepsIInv, ServiceAssumption DEF Next
<1> QED BY <1>2, <1>3

(* The invariant holds when the process starts with an empty store.        *)
LEMMA InitIInv == Init => IInv
<1> SUFFICES ASSUME Init PROVE IInv
  OBVIOUS
<1>1. TypeOK
  BY CellFacts DEF Init, StoreInit, ThreadsIdle, TypeOK, StoreTypeOK, ServerTypeOK,
                   ThreadTypeOK, Phase, Val
<1>2. \A c \in Cell : ~HasPending(c)
  BY DEF Init, StoreInit, HasPending, HasRow, NoRow
<1>3. \A t \in Caller : pc[t] = "idle" /\ \A c \in Cell : ~HasRow(todo[t], c)
  BY DEF Init, ThreadsIdle, HasRow, NoRows, NoRow
<1>4. known = {} /\ items = {}
  BY DEF Init, StoreInit
<1> QED BY <1>1, <1>2, <1>3, <1>4 DEF IInv, GateHeld, WishesKnown, ItemsKnown, Agreement,
        BaselineSeen, RowsListed, RowSent, Browsed

-----------------------------------------------------------------------------
(* What the user sees is the pending wish or the confirmed value, in every *)
(* interleaving of the user's operations with flushes, refreshes, other    *)
(* clients, lost and late requests and restarts.                           *)
THEOREM AgreementHolds ==
    ASSUME FromUserInterface
    PROVE  Spec => []Agreement
<1>1. Init => IInv
  BY InitIInv
<1>2. IInv /\ [Next]_vars => IInv'
  BY IInvStep
<1>3. IInv => Agreement
  BY DEF IInv
<1> QED BY <1>1, <1>2, <1>3, PTL DEF Spec

(* And where nothing else has changed the server unnoticed, it is the      *)
(* server's value unless a wish is pending: no wish is lost.               *)
THEOREM InSyncHolds ==
    ASSUME FromUserInterface
    PROVE  Spec => []InSync
<1>1. Init => IInv
  BY InitIInv
<1>2. IInv /\ [Next]_vars => IInv'
  BY IInvStep
<1>3. IInv => InSync
  BY DEF IInv, Agreement, BaselineSeen, InSync
<1> QED BY <1>1, <1>2, <1>3, PTL DEF Spec

-----------------------------------------------------------------------------
(* The user's transactions, one cell at a time.                            *)
LEMMA UserCellStep ==
    ASSUME StoreTypeOK, StoreAssumption, UserStep, NEW c \in Cell
    PROVE  \/ local'[c] = local[c]
           \/ pending'[c].revision = pending[c].revision + 1
<1>1. ASSUME NEW ids \in SUBSET UserReadable, NEW v \in Val, MarkRead(ids, v)
      PROVE  local'[c] = local[c] \/ pending'[c].revision = pending[c].revision + 1
  BY <1>1, UpsertType DEF MarkRead, SetReadManual, SetReadAutomatic, Wish, StoreTypeOK
<1>2. ASSUME NEW e \in UserStarrable, NEW v \in Val, ToggleStar(e, v)
      PROVE  local'[c] = local[c] \/ pending'[c].revision = pending[c].revision + 1
  <2>1. CASE c = <<e, "starred">>
    BY <1>2, <2>1 DEF ToggleStar, SetStarred, Upsert, StoreTypeOK
  <2>2. CASE c # <<e, "starred">>
    BY <1>2, <2>2 DEF ToggleStar, SetStarred, StoreTypeOK
  <2> QED BY <2>1, <2>2
<1>3. ASSUME NEW b \in 1 .. MaxBatch, UndoRead(b) \/ Discard(b)
      PROVE  local'[c] = local[c] \/ pending'[c].revision = pending[c].revision + 1
  <2> DEFINE prior(d) == (CHOOSE i \in Restored(b) : i.entry = d[1]).prior
             S == ReadCells({i.entry : i \in Restored(b)})
  <2>1. CASE UndoRead(b)
    <3>1. /\ local' = [d \in Cell |-> IF d \in S THEN prior(d) ELSE local[d]]
          /\ pending' = [d \in Cell |-> IF d \in S THEN Upsert(pending[d], prior(d))
                                                   ELSE pending[d]]
      BY <2>1 DEF UndoRead, Undo
    <3> HIDE DEF prior, S
    <3> QED BY <3>1 DEF Upsert
  <2>2. CASE Discard(b)
    BY <2>2 DEF Discard, DiscardUndo
  <2> QED BY <1>3, <2>1, <2>2
<1> QED BY <1>1, <1>2, <1>3 DEF UserStep

(* While a wish is pending only a new wish changes what the user sees.     *)
THEOREM WishesStandAlways ==
    ASSUME FromUserInterface
    PROVE  Spec => WishesStand
<1> DEFINE Stands == \A c \in Cell :
              HasPending(c) /\ c[1] \in known /\ local'[c] # local[c]
                => pending'[c].revision > pending[c].revision
<1>1. Init => IInv
  BY InitIInv
<1>2. IInv /\ [Next]_vars => IInv'
  BY IInvStep
<1>3. IInv /\ [Next]_vars => [Stands]_vars
  <2> SUFFICES ASSUME IInv, Next, NEW c \in Cell,
                      HasPending(c), c[1] \in known, local'[c] # local[c]
               PROVE  pending'[c].revision > pending[c].revision
    OBVIOUS
  <2>1. CASE UserStep
    <3>1. pending'[c].revision = pending[c].revision + 1
      BY <2>1, UserCellStep, StoreAssumption DEF IInv, TypeOK
    <3> QED BY <3>1 DEF IInv, TypeOK, StoreTypeOK, Row
  <2>2. ASSUME NEW t \in Caller, Apply(t)
        PROVE  FALSE
    BY <2>2, ApplyCell
  <2>3. ASSUME NEW t \in Caller,
               \/ Flush(t) \/ \E sel \in Selections : Refresh(t, sel)
               \/ FlushStep(t) \/ Browse(t) \/ FaultStep(t)
        PROVE  local' = local
    BY <2>3 DEF Flush, Refresh, Enter, FlushStep, ListPending, ToggleStarred, Ack,
       Acknowledge, FlushDone, SetReadBatch, EntryStarred, Browse, FaultStep, FlushFails,
       RefreshFails, AbandonRequest, storeVars
  <2>4. CASE \/ \E d \in OtherCells : OtherClient(d)
             \/ \E r \in late : LateRequest(r)
             \/ Crash
    BY <2>4 DEF OtherClient, LateRequest, Crash, storeVars
  <2> QED BY <2>1, <2>2, <2>3, <2>4 DEF Next
<1>4. [][Stands]_vars => WishesStand
  BY DEF WishesStand
<1> QED BY <1>1, <1>2, <1>3, <1>4, PTL DEF Spec

-----------------------------------------------------------------------------
(* The undo tables and the history of manual decisions are written by the  *)
(* user's transactions only, and each of them keeps UndoIntact by itself.  *)
LEMMA UndoStep ==
    ASSUME UndoIntact, [Next]_vars
    PROVE  UndoIntact'
<1>1. CASE UNCHANGED <<batches, items, manual>>
  BY <1>1 DEF UndoIntact
<1>2. ASSUME NEW ids \in SUBSET UserReadable, NEW v \in Val, MarkRead(ids, v)
      PROVE  UndoIntact'
  <2>1. CASE SetReadManual(ids, v)
    BY <2>1 DEF SetReadManual, ItemsAfterManual, UndoIntact
  <2>2. CASE SetReadAutomatic(ids, v)
    <3> DEFINE changed == Changed(ids, v)
               new == {[batch |-> nextBatch, entry |-> e, prior |-> local[<<e, "read">>]]
                         : e \in changed}
    <3>1. /\ changed # {}
          /\ items' = items \cup new
          /\ batches' = batches \cup {nextBatch}
          /\ manual' = manual \ changed
      BY <2>2 DEF SetReadAutomatic
    <3> HIDE DEF changed
    <3>2. ASSUME NEW i \in new
          PROVE  i.batch = nextBatch /\ i.entry \in changed
      <4>1. PICK e \in changed :
              i = [batch |-> nextBatch, entry |-> e, prior |-> local[<<e, "read">>]]
        OBVIOUS
      <4> QED BY <4>1
    <3>3. \E i \in new : i.batch = nextBatch
      <4>1. PICK e \in changed : TRUE
        BY <3>1
      <4>2. [batch |-> nextBatch, entry |-> e, prior |-> local[<<e, "read">>]] \in new
        BY <4>1
      <4> QED BY <4>2
    <3> HIDE DEF new
    <3> QED BY <3>1, <3>2, <3>3 DEF UndoIntact
  <2> QED BY <1>2, <2>1, <2>2 DEF MarkRead
<1>3. ASSUME NEW b \in 1 .. MaxBatch, UndoRead(b) \/ Discard(b)
      PROVE  UndoIntact'
  <2>1. /\ items' = items \ Restored(b)
        /\ batches' = batches \ {b}
        /\ manual' = manual
    BY <1>3 DEF UndoRead, Undo, Discard, DiscardUndo
  <2> QED BY <2>1 DEF UndoIntact, Restored
<1>4. CASE ~UNCHANGED <<batches, items, manual>>
  <2>1. CASE UserStep
    <3>1. ASSUME NEW e \in UserStarrable, NEW v \in Val, ToggleStar(e, v)
          PROVE  UndoIntact'
      BY <1>1, <3>1 DEF ToggleStar, SetStarred
    <3> QED BY <2>1, <3>1, <1>2, <1>3 DEF UserStep
  <2>2. ASSUME NEW t \in Caller,
               \/ Flush(t) \/ \E sel \in Selections : Refresh(t, sel)
               \/ FlushStep(t) \/ Browse(t) \/ Apply(t) \/ FaultStep(t)
        PROVE  FALSE
    BY <1>4, <2>2 DEF Flush, Refresh, Enter, FlushStep, ListPending, ToggleStarred, Ack,
       Acknowledge, FlushDone, SetReadBatch, EntryStarred, Browse, Apply, ApplySnapshot,
       FaultStep, FlushFails, RefreshFails, AbandonRequest, storeVars
  <2>3. CASE \/ \E d \in OtherCells : OtherClient(d)
             \/ \E r \in late : LateRequest(r)
             \/ Crash
    BY <1>1, <2>3 DEF OtherClient, LateRequest, Crash, storeVars
  <2>4. CASE UNCHANGED vars
    BY <1>1, <2>4 DEF vars, storeVars
  <2> QED BY <2>1, <2>2, <2>3, <2>4 DEF Next
<1> QED BY <1>1, <1>4

(* Undo never overrides a later manual decision, and receipts and items    *)
(* belong together, in every interleaving and across restarts.             *)
THEOREM UndoIntactHolds == Spec => []UndoIntact
<1>1. Init => UndoIntact
  BY DEF Init, StoreInit, UndoIntact
<1>2. UndoIntact /\ [Next]_vars => UndoIntact'
  BY UndoStep
<1> QED BY <1>1, <1>2, PTL DEF Spec

-----------------------------------------------------------------------------
(***************************************************************************)
(* SyncService implements Inbox: every step of the service is a step of    *)
(* the abstract inbox or leaves it alone.                                  *)
(***************************************************************************)
(* The cells that wait for a confirmation, as the service stores them.     *)
Waiting == {c \in Cell : HasPending(c)}

(* Both modules speak of the same cells and values.                        *)
LEMMA SameCells == Promise!Cell = Cell /\ Promise!Val = Val
  BY DEF Promise!Cell, Promise!Val, Cell, Val

(* The store starts as the inbox starts.                                   *)
LEMMA InitPromise == Init => Promise!Init
<1> SUFFICES ASSUME Init PROVE Promise!Init
  OBVIOUS
<1>1. Waiting = {}
  BY DEF Waiting, Init, StoreInit, HasPending, HasRow, NoRow
<1> QED BY <1>1, SameCells DEF Promise!Init, Waiting, Init, StoreInit

(* A user's transaction decides.                                           *)
LEMMA UserDecides ==
    ASSUME IInv, TypeOK', FromUserInterface, UserStep
    PROVE  Promise!Decide
<1>1. /\ \A c \in Cell : WishedFor(c) \/ LeftAlone(c)
      /\ UNCHANGED <<known, serverVars>>
  BY UserWishes
<1>2. ASSUME NEW c \in Cell, HasPending(c)
      PROVE  HasPending(c)' /\ c[1] \in known
  BY <1>1, <1>2 DEF HasPending, HasRow, WishedFor, LeftAlone, IInv, WishesKnown, TypeOK,
     StoreTypeOK, Row
<1>3. ASSUME NEW c \in Cell, HasPending(c)'
      PROVE  c[1] \in known
  BY <1>1, <1>2, <1>3 DEF HasPending, HasRow, WishedFor, LeftAlone
<1>4. ASSUME NEW c \in Cell, local'[c] # local[c]
      PROVE  HasPending(c)'
  BY <1>1, <1>4 DEF HasPending, HasRow, WishedFor, LeftAlone, IInv, TypeOK, StoreTypeOK, Row
<1> QED BY <1>1, <1>2, <1>3, <1>4, SameCells DEF Promise!Decide, serverVars

(* A row that is being sent is a row that waits.                           *)
LEMMA ListedWaits ==
    ASSUME IInv, NEW t \in Caller, NEW c \in Cell, HasRow(todo[t], c)
    PROVE  HasPending(c)
  BY DEF IInv, RowsListed, HasRow, HasPending, TypeOK, StoreTypeOK, ThreadTypeOK, Row

(* A remote call of a flush sends.                                         *)
LEMMA FlushSends ==
    ASSUME IInv, NEW t \in Caller,
           ToggleStarred(t) \/ \E c \in Cell : SetReadBatch(t, c) \/ EntryStarred(t, c)
    PROVE  \E c \in Cell : Promise!Send(c)
<1> USE DEF IInv
<1>1. ASSUME NEW c \in Cell, SetReadBatch(t, c)
      PROVE  Promise!Send(c)
  <2>1. HasPending(c) /\ todo[t][c].desired \in Val
    BY <1>1, ListedWaits DEF SetReadBatch, Sending, TypeOK, ThreadTypeOK, Row
  <2> QED BY <1>1, <2>1, SameCells DEF SetReadBatch, Promise!Send, storeVars, HasPending, HasRow
<1>2. ASSUME NEW c \in Cell, EntryStarred(t, c)
      PROVE  Promise!Send(c)
  <2>1. HasPending(c)
    BY <1>2, ListedWaits DEF EntryStarred, Sending
  <2>2. server[c] \in Val /\ server' = [server EXCEPT ![c] = server[c]]
    BY <1>2 DEF EntryStarred, TypeOK, ServerTypeOK
  <2> QED BY <1>2, <2>1, <2>2, SameCells
      DEF EntryStarred, Promise!Send, storeVars, HasPending, HasRow
<1>3. ASSUME ToggleStarred(t)
      PROVE  cell[t] \in Cell /\ Promise!Send(cell[t])
  <2>1. cell[t] \in Cell /\ HasRow(todo[t], cell[t])
    BY <1>3 DEF ToggleStarred, RowSent, TypeOK, ThreadTypeOK
  <2>2. HasPending(cell[t])
    BY <2>1, ListedWaits
  <2>3. 1 - server[cell[t]] \in Val
    BY <2>1 DEF TypeOK, ServerTypeOK, Val
  <2> QED BY <1>3, <2>1, <2>2, <2>3, SameCells
      DEF ToggleStarred, Promise!Send, storeVars, HasPending, HasRow
<1> QED BY <1>1, <1>2, <1>3

(* An acknowledgement confirms, or leaves a newer wish alone.              *)
LEMMA AckConfirms ==
    ASSUME IInv, NEW t \in Caller, Ack(t)
    PROVE  (\E c \in Cell : Promise!Confirm(c)) \/ UNCHANGED Promise!inboxVars
<1> USE DEF IInv
<1> DEFINE c == cell[t]
<1>1. /\ c \in Cell /\ HasRow(todo[t], c) /\ c[1] \in known
      /\ pending' = [pending EXCEPT ![c] = RowAfterAck(c, todo[t][c])]
      /\ UNCHANGED <<known, local, server, unseen>>
  BY DEF Ack, Acknowledge, RowSent, TypeOK, ThreadTypeOK, serverVars
<1>2. HasPending(c)
  BY <1>1, ListedWaits
<1> HIDE DEF c
<1>3. CASE pending[c].revision = todo[t][c].revision
  <2>1. pending' = [pending EXCEPT ![c] = NoRow]
    BY <1>1, <1>3 DEF RowAfterAck
  <2>2. {d \in Cell : HasPending(d)}' = {d \in Cell : HasPending(d)} \ {c}
    BY <1>1, <2>1 DEF HasPending, HasRow, NoRow, TypeOK, StoreTypeOK
  <2>3. c \notin unseen => server[c] = local[c]
    <3>1. c \notin unseen => server[c] = todo[t][c].desired
      BY DEF Ack, RowSent, c
    <3>2. todo[t][c].desired = pending[c].desired
      BY <1>1, <1>3 DEF RowsListed
    <3> QED BY <1>1, <1>2, <3>1, <3>2 DEF Agreement
  <2> QED BY <1>1, <1>2, <2>2, <2>3, SameCells DEF Promise!Confirm
<1>4. CASE pending[c].revision # todo[t][c].revision
  <2>1. pending' = pending
    BY <1>1, <1>4 DEF RowAfterAck, TypeOK, StoreTypeOK
  <2> QED BY <1>1, <2>1 DEF Promise!inboxVars, HasPending, HasRow
<1> QED BY <1>3, <1>4

(* An applied browse result learns.                                        *)
LEMMA ApplyLearns ==
    ASSUME IInv, FromUserInterface, NEW t \in Caller, Apply(t)
    PROVE  Promise!Learn
<1> DEFINE sel == selection[t]
           list == listing[t]
<1>1. /\ known \subseteq known' /\ pending' = pending /\ server' = server
      /\ known' = known \cup list
      /\ unseen' = {c \in unseen : ~ (c \in Covered(sel, list) /\ value[t][c] = server[c])}
  BY DEF Apply, ApplySnapshot
<1>2. ASSUME NEW c \in Cell, local'[c] # local[c]
      PROVE  c[1] \in known'
  BY <1>2 DEF Apply, ApplySnapshot, Disproved, Absent, ReadCells, StarCells
<1>3. ASSUME NEW c \in unseen, c \notin unseen'
      PROVE  c[1] \in known'
  BY <1>1, <1>3 DEF Covered
<1>4. ASSUME NEW c \in Cell, c[1] \in known', ~HasPending(c), c \notin unseen'
      PROVE  local'[c] = server[c]
  BY <1>4, ApplyCell
<1>5. ASSUME NEW c \in Cell, HasPending(c)
      PROVE  local'[c] = local[c]
  BY <1>5, ApplyCell
<1>6. {c \in Cell : HasPending(c)}' = {c \in Cell : HasPending(c)}
  BY <1>1 DEF HasPending, HasRow
<1>7. unseen' \subseteq unseen /\ unseen \subseteq Cell
  BY <1>1 DEF IInv, TypeOK, ServerTypeOK
<1> HIDE DEF sel, list
<1> QED BY <1>1, <1>2, <1>3, <1>4, <1>5, <1>6, <1>7, SameCells DEF Promise!Learn

(* Another client and a late request change the server.                    *)
LEMMA OutsideChanges ==
    ASSUME IInv, ServiceAssumption,
           (\E c \in OtherCells : OtherClient(c)) \/ (\E r \in late : LateRequest(r))
    PROVE  \E c \in Cell : Promise!Change(c)
<1> USE DEF IInv
<1>1. ASSUME NEW c \in OtherCells, OtherClient(c)
      PROVE  c \in Cell /\ Promise!Change(c)
  <2>1. c \in Cell /\ 1 - server[c] \in Val
    BY DEF ServiceAssumption, TypeOK, ServerTypeOK, Val
  <2> QED BY <1>1, <2>1, SameCells DEF OtherClient, Promise!Change, storeVars, HasPending, HasRow
<1>2. ASSUME NEW r \in late, LateRequest(r)
      PROVE  r.cell \in Cell /\ Promise!Change(r.cell)
  <2> DEFINE v == IF r.cell[2] = "read" THEN r.desired ELSE 1 - server[r.cell]
  <2>1. r.cell \in Cell /\ v \in Val
    BY DEF Request, TypeOK, ServerTypeOK, Val
  <2>2. server' = [server EXCEPT ![r.cell] = v]
    BY <1>2 DEF LateRequest
  <2> HIDE DEF v
  <2> QED BY <1>2, <2>1, <2>2, SameCells
      DEF LateRequest, Promise!Change, storeVars, HasPending, HasRow
<1> QED BY <1>1, <1>2

(* The other steps do not touch what the inbox is about.                   *)
LEMMA QuietSteps ==
    ASSUME NEW t \in Caller,
           \/ Flush(t) \/ (\E sel \in Selections : Refresh(t, sel))
           \/ ListPending(t) \/ FlushDone(t) \/ Browse(t) \/ FaultStep(t)
    PROVE  UNCHANGED Promise!inboxVars
<1>1. UNCHANGED <<storeVars, server, unseen>>
  BY DEF Flush, Refresh, Enter, ListPending, FlushDone, Browse, FaultStep, FlushFails,
     RefreshFails, AbandonRequest, serverVars
<1> QED BY <1>1 DEF Promise!inboxVars, storeVars, HasPending, HasRow

(* The service keeps the promise of the inbox: what the user sees is never *)
(* touched by a refresh while it waits, is sent only while it waits, and   *)
(* waits until the server holds it, in every interleaving of flush_pending *)
(* and apply_snapshot with the user, other clients, faults and restarts.   *)
THEOREM KeepsPromiseHolds ==
    ASSUME FromUserInterface
    PROVE  Spec => KeepsPromise
<1>1. Init => IInv
  BY InitIInv
<1>2. IInv /\ [Next]_vars => IInv'
  BY IInvStep
<1>3. Init => Promise!Init
  BY InitPromise
<1>4. IInv /\ [Next]_vars => [Promise!Next]_(Promise!inboxVars)
  <2> SUFFICES ASSUME IInv, [Next]_vars
               PROVE  Promise!Next \/ UNCHANGED Promise!inboxVars
    OBVIOUS
  <2>1. TypeOK'
    BY TypeStep DEF IInv
  <2>2. CASE UserStep
    BY <2>1, <2>2, UserDecides DEF Promise!Next
  <2>3. ASSUME NEW t \in Caller, Apply(t)
        PROVE  Promise!Next
    BY <2>3, ApplyLearns DEF Promise!Next
  <2>4. ASSUME NEW t \in Caller, Ack(t)
        PROVE  Promise!Next \/ UNCHANGED Promise!inboxVars
    BY <2>4, AckConfirms, SameCells DEF Promise!Next
  <2>5. ASSUME NEW t \in Caller,
               ToggleStarred(t) \/ \E c \in Cell : SetReadBatch(t, c) \/ EntryStarred(t, c)
        PROVE  Promise!Next
    BY <2>5, FlushSends, SameCells DEF Promise!Next
  <2>6. CASE (\E c \in OtherCells : OtherClient(c)) \/ (\E r \in late : LateRequest(r))
    BY <2>6, OutsideChanges, SameCells, ServiceAssumption DEF Promise!Next
  <2>7. ASSUME NEW t \in Caller,
               \/ Flush(t) \/ (\E sel \in Selections : Refresh(t, sel))
               \/ ListPending(t) \/ FlushDone(t) \/ Browse(t) \/ FaultStep(t)
        PROVE  UNCHANGED Promise!inboxVars
    BY <2>7, QuietSteps
  <2>8. CASE Crash \/ UNCHANGED vars
    <3>1. UNCHANGED <<storeVars, server, unseen>>
      BY <2>8 DEF Crash, vars, serverVars
    <3> QED BY <3>1 DEF Promise!inboxVars, storeVars, HasPending, HasRow
  <2> QED BY <2>2, <2>3, <2>4, <2>5, <2>6, <2>7, <2>8 DEF Next, FlushStep
<1> QED BY <1>1, <1>2, <1>3, <1>4, PTL DEF Spec, KeepsPromise, Promise!Spec
=============================================================================
