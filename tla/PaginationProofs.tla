-------------------------- MODULE PaginationProofs --------------------------
(***************************************************************************)
(* Proofs about the fetch of a complete selection, for any ids and any     *)
(* size of a page: while no old article rejoins the selection, what a      *)
(* successful fetch leaves out was really absent.                          *)
(***************************************************************************)
EXTENDS Pagination, FiniteSetTheorems, TLAPS

Types ==
    /\ newest \in 0 .. LastId
    /\ remote \in SUBSET (1 .. newest)
    /\ phase \in {"idle", "fetching", "ok", "error"}
    /\ cursor \in Nat
    /\ expected \in Nat
    /\ firstPage \in BOOLEAN
    /\ collected \in SUBSET (1 .. newest)
    /\ always \in SUBSET remote

(* A fetch starts with nothing.                                            *)
Fresh == phase = "idle" => cursor = 0 /\ firstPage /\ collected = {}

(* The fetch has everything up to its cursor that it may not leave out.    *)
UpToCursor ==
    phase = "fetching" =>
        /\ \A id \in always : id <= cursor => id \in collected
        /\ \A id \in collected : id <= cursor

(* The first page's total is that of a set which holds all that was there  *)
(* ever since and, of what came later, nothing below its highest id.       *)
CountedSet(R) ==
    /\ always \subseteq R
    /\ Cardinality(R) = expected
    /\ \A id \in remote \cup collected : id \in R \/ \A r \in R : r < id
TotalCounts ==
    phase = "fetching" =>
        IF firstPage THEN collected = {} ELSE \E R \in SUBSET (1 .. newest) : CountedSet(R)

PInv == Types /\ Fresh /\ UpToCursor /\ TotalCounts /\ AbsenceIsReal

-----------------------------------------------------------------------------
(* Sets of ids are finite.                                                 *)
LEMMA IdsFinite ==
    ASSUME NEW n \in Nat, NEW S \in SUBSET (1 .. n)
    PROVE  IsFiniteSet(S) /\ Cardinality(S) \in Nat
<1>1. IsFiniteSet(1 .. n)
  BY FS_Interval
<1> QED BY <1>1, FS_Subset, FS_CardinalityType

(* A page that ascends lists all it can: as many distinct ids as there are *)
(* next ones are the next ones (the check of last_id).                     *)
LEMMA AscendingPage ==
    ASSUME Types, NEW page \in Pages(cursor), Ascending(cursor, page)
    PROVE  /\ ToSet(page) = Listed(cursor)
           /\ Len(page) = Cardinality(Listed(cursor))
           /\ Listed(cursor) \subseteq remote
           /\ \A id \in Listed(cursor) : id > cursor
<1> DEFINE S == Listed(cursor)  n == Cardinality(S)
<1>1. S \in SUBSET remote /\ \A id \in S : id > cursor
  BY DEF Listed, After
<1>2. newest \in Nat
  BY PaginationAssumption DEF Types
<1>3. IsFiniteSet(S) /\ n \in Nat /\ S \subseteq Nat
  <2>1. S \in SUBSET (1 .. newest)
    BY <1>1 DEF Types
  <2> HIDE DEF S
  <2>2. IsFiniteSet(S) /\ Cardinality(S) \in Nat
    BY <1>2, <2>1, IdsFinite
  <2>3. S \subseteq Nat
    BY <1>2, <2>1
  <2> QED BY <2>2, <2>3
<1>4. page \in [1 .. n -> S]
  BY DEF Pages
<1> HIDE DEF S, n
<1>5. \A i, j \in 1 .. n : page[i] = page[j] => i = j
  <2> SUFFICES ASSUME NEW i \in 1 .. n, NEW j \in 1 .. n, i < j PROVE page[i] # page[j]
    BY <1>3
  <2>1. page[j] > page[i]
    BY <1>3, <1>4 DEF Ascending
  <2>2. page[i] \in Nat /\ page[j] \in Nat
    BY <1>3, <1>4
  <2> QED BY <2>1, <2>2
<1>6. page \in Injection(1 .. n, S)
  BY <1>4, <1>5 DEF Injection, IsInjective
<1>7. Cardinality(1 .. n) = n
  BY <1>3, FS_Interval
<1>8. page \in Surjection(1 .. n, S)
  BY <1>3, <1>6, <1>7, FS_Injection DEF n
<1>9. ToSet(page) = S
  BY <1>4, <1>8 DEF ToSet, Surjection
<1>10. Len(page) = n
  BY <1>3, <1>4
<1> QED BY <1>1, <1>9, <1>10 DEF S, n

(* What a good page adds, and where the cursor goes.                       *)
LEMMA PageAdds ==
    ASSUME Types, UpToCursor, phase = "fetching",
           NEW page \in Pages(cursor), Ascending(cursor, page)
    PROVE  LET ids == collected \cup ToSet(page)
           IN  /\ NextCursor(page) \in Nat
               /\ \A id \in always : id <= NextCursor(page) => id \in ids
               /\ \A id \in ids : id <= NextCursor(page)
               /\ Cardinality(ids) = Cardinality(collected) + Len(page)
               /\ ids \in SUBSET (1 .. newest)
<1> DEFINE S == Listed(cursor)  n == Cardinality(S)
<1>1. /\ ToSet(page) = S /\ Len(page) = n
      /\ S \subseteq remote /\ \A id \in S : id > cursor
  BY AscendingPage
<1>2. newest \in Nat /\ cursor \in Nat
  BY PaginationAssumption DEF Types
<1>3. IsFiniteSet(S) /\ n \in Nat /\ S \subseteq Nat
  <2>1. S \in SUBSET (1 .. newest)
    BY <1>1 DEF Types
  <2> HIDE DEF S
  <2>2. IsFiniteSet(S) /\ Cardinality(S) \in Nat
    BY <1>2, <2>1, IdsFinite
  <2>3. S \subseteq Nat
    BY <1>2, <2>1
  <2> QED BY <2>2, <2>3
<1>4. IsFiniteSet(collected) /\ Cardinality(collected) \in Nat
  BY <1>2, IdsFinite DEF Types
<1>5. page \in [1 .. n -> S]
  BY DEF Pages
<1>6. Cardinality(collected \cup S) = Cardinality(collected) + n
  <2>1. collected \cap S = {}
    BY <1>1, <1>2, <1>3 DEF UpToCursor, Types
  <2>2. Cardinality(collected \cap S) = 0
    BY <2>1, FS_EmptySet
  <2>3. Cardinality(collected \cup S)
          = Cardinality(collected) + n - Cardinality(collected \cap S)
    BY <1>3, <1>4, FS_Union
  <2> QED BY <1>3, <1>4, <2>2, <2>3
<1>7. collected \cup S \in SUBSET (1 .. newest)
  BY <1>1 DEF Types
<1>8. CASE n = 0
  <2>1. S = {}
    BY <1>3, <1>8, FS_EmptySet
  <2>2. page = <<>>
    BY <1>5, <1>8
  <2> QED BY <1>1, <1>2, <1>6, <1>7, <2>1, <2>2 DEF NextCursor, UpToCursor
<1>9. CASE n # 0
  <2>1. n \in 1 .. n /\ page # <<>> /\ NextCursor(page) = page[n]
    BY <1>1, <1>3, <1>5, <1>9 DEF NextCursor, Last
  <2>2. page[n] \in S
    BY <1>5, <2>1
  <2>3. \A id \in S : id <= page[n]
    <3> SUFFICES ASSUME NEW i \in 1 .. n PROVE page[i] <= page[n]
      BY <1>1, <1>5 DEF ToSet
    <3>1. i < n => page[n] > page[i]
      BY <1>3, <1>5, <2>1 DEF Ascending
    <3>2. page[i] \in Nat /\ page[n] \in Nat
      BY <1>3, <1>5, <2>1
    <3> QED BY <3>1, <3>2, <1>3
  <2>4. \A id \in always : id <= page[n] => id \in collected \cup S
    <3> SUFFICES ASSUME NEW id \in always, id <= page[n], id > cursor PROVE id \in S
      BY <1>2 DEF UpToCursor, Types
    <3> DEFINE behind == After(remote, cursor)
               below(x) == {j \in behind : j < x}
    <3>1. id \in behind /\ page[n] \in behind
      BY <1>1, <2>2 DEF After, Types
    <3>2. behind \in SUBSET (1 .. newest)
      BY DEF After, Types
    <3>3. below(id) \in SUBSET below(page[n])
      BY <1>2, <1>3, <2>2, <3>1, <3>2
    <3>4. IsFiniteSet(below(page[n])) /\ Cardinality(below(page[n])) \in Nat
      BY <1>2, <3>2, IdsFinite
    <3>5. Cardinality(below(page[n])) < PageSize
      BY <2>2 DEF Listed
    <3>6. /\ Cardinality(below(id)) <= Cardinality(below(page[n]))
          /\ Cardinality(below(id)) \in Nat
      BY <3>3, <3>4, FS_Subset, FS_CardinalityType
    <3>7. Cardinality(below(id)) < PageSize
      BY <3>4, <3>5, <3>6, PaginationAssumption
    <3> QED BY <3>1, <3>7 DEF Listed
  <2>5. \A id \in collected : id <= page[n]
    BY <1>1, <1>2, <1>3, <2>2 DEF UpToCursor, Types
  <2> QED BY <1>1, <1>3, <1>6, <1>7, <2>1, <2>2, <2>3, <2>4, <2>5
<1> QED BY <1>3, <1>8, <1>9

-----------------------------------------------------------------------------
(* A page that is counted right up to the total leaves nothing out that    *)
(* was there all the time: the ids left out are behind the cursor, so what *)
(* was counted in their stead would be behind it too.                      *)
LEMMA NothingLeftOut ==
    ASSUME NEW n \in Nat, NEW R \in SUBSET (1 .. n), NEW ids \in SUBSET (1 .. n),
           NEW last \in Nat, NEW stay \in SUBSET R,
           Cardinality(ids) = Cardinality(R),
           \A id \in ids : id <= last,
           \A id \in ids : id \in R \/ \A r \in R : r < id,
           \A id \in stay : id <= last => id \in ids
    PROVE  stay \subseteq ids
<1> SUFFICES ASSUME NEW x \in stay, x \notin ids PROVE FALSE
  OBVIOUS
<1>1. x > last /\ x \in R
  OBVIOUS
<1>2. ids \in SUBSET (R \ {x})
  <2> SUFFICES ASSUME NEW id \in ids PROVE id \in R /\ id # x
    OBVIOUS
  <2>1. id < x
    BY <1>1
  <2> QED BY <2>1, <1>1
<1>3. IsFiniteSet(R) /\ Cardinality(R) \in Nat
  BY IdsFinite
<1>4. IsFiniteSet(R \ {x}) /\ Cardinality(R \ {x}) = Cardinality(R) - 1
  BY <1>1, <1>3, FS_RemoveElement
<1>5. Cardinality(ids) <= Cardinality(R \ {x})
  BY <1>2, <1>4, FS_Subset
<1> QED BY <1>3, <1>4, <1>5

(* A page keeps the invariant, whatever it lists.                          *)
LEMMA PageKeeps ==
    ASSUME PInv, NEW page \in Pages(cursor), TakePage(page)
    PROVE  PInv'
<1> DEFINE total == IF firstPage THEN Cardinality(remote) ELSE expected
           ids == collected \cup ToSet(page)
           count == Cardinality(collected) + Len(page)
<1>1. /\ phase = "fetching" /\ phase' = Verdict(page, total, count)
      /\ expected' = total /\ firstPage' = FALSE /\ collected' = ids
      /\ cursor' = NextCursor(page)
      /\ UNCHANGED <<remote, newest, always>>
  BY DEF TakePage
<1>2. newest \in Nat /\ IsFiniteSet(remote) /\ Cardinality(remote) \in Nat
  <2>1. newest \in Nat /\ remote \in SUBSET (1 .. newest)
    BY PaginationAssumption DEF PInv, Types
  <2> QED BY <2>1, IdsFinite
<1>3. total \in Nat
  BY <1>2 DEF PInv, Types
<1>4. page \in [1 .. Cardinality(Listed(cursor)) -> Listed(cursor)]
      /\ Listed(cursor) \subseteq remote
      /\ IsFiniteSet(Listed(cursor)) /\ Cardinality(Listed(cursor)) \in Nat
  <2>1. Listed(cursor) \in SUBSET (1 .. newest) /\ Listed(cursor) \subseteq remote
    BY DEF Listed, After, PInv, Types
  <2> QED BY <1>2, <2>1, IdsFinite DEF Pages
<1>5. ToSet(page) \subseteq remote
  BY <1>4 DEF ToSet
<1>6. NextCursor(page) \in Nat
  <2>1. CASE page = <<>>
    BY <2>1 DEF NextCursor, PInv, Types
  <2>2. CASE page # <<>>
    <3>1. Len(page) = Cardinality(Listed(cursor))
      BY <1>4
    <3>2. Cardinality(Listed(cursor)) # 0
      BY <1>4, <2>2
    <3>3. page[Len(page)] \in remote
      BY <1>4, <3>1, <3>2
    <3>4. NextCursor(page) = page[Len(page)]
      BY <2>2 DEF NextCursor, Last
    <3>5. remote \subseteq Nat
      BY <1>2 DEF PInv, Types
    <3> QED BY <3>3, <3>4, <3>5
  <2> QED BY <2>1, <2>2
<1>7. Types'
  <2>1. phase' \in {"idle", "fetching", "ok", "error"}
    BY <1>1 DEF Verdict
  <2> QED BY <1>1, <1>2, <1>3, <1>5, <1>6, <2>1 DEF PInv, Types
<1>8. CASE phase' = "error"
  BY <1>7, <1>8 DEF PInv, Fresh, UpToCursor, TotalCounts, AbsenceIsReal
<1>9. CASE phase' # "error"
  <2>1. Ascending(cursor, page) /\ (phase' = "ok" => count = total)
    BY <1>1, <1>9 DEF Verdict
  <2>2. /\ \A id \in always : id <= NextCursor(page) => id \in ids
        /\ \A id \in ids : id <= NextCursor(page)
        /\ Cardinality(ids) = count
        /\ ids \in SUBSET (1 .. newest)
    BY <1>1, <2>1, PageAdds DEF PInv
  <2>3. PICK R \in SUBSET (1 .. newest) :
           /\ always \subseteq R /\ Cardinality(R) = total
           /\ \A id \in remote \cup ids : id \in R \/ \A r \in R : r < id
    <3>1. CASE firstPage
      <4>1. collected = {}
        BY <1>1, <3>1 DEF PInv, TotalCounts
      <4> QED BY <1>5, <3>1, <4>1 DEF PInv, Types
    <3>2. CASE ~firstPage
      <4>1. PICK R \in SUBSET (1 .. newest) : CountedSet(R)
        BY <1>1, <3>2 DEF PInv, TotalCounts
      <4> QED BY <1>5, <3>2, <4>1 DEF CountedSet
    <3> QED BY <3>1, <3>2
  <2>4. UpToCursor'
    BY <1>1, <2>2 DEF UpToCursor
  <2>5. TotalCounts'
    BY <1>1, <2>3 DEF TotalCounts, CountedSet
  <2>6. AbsenceIsReal'
    <3> SUFFICES ASSUME phase' = "ok" PROVE always \subseteq ids
      BY <1>1 DEF AbsenceIsReal
    <3>1. Cardinality(ids) = Cardinality(R)
      BY <2>1, <2>2, <2>3
    <3> HIDE DEF ids
    <3> QED BY <1>2, <1>6, <2>2, <2>3, <3>1, NothingLeftOut
  <2>7. Fresh'
    BY <1>1 DEF Fresh, Verdict
  <2> QED BY <1>7, <2>4, <2>5, <2>6, <2>7 DEF PInv
<1> QED BY <1>8, <1>9

(* The selection changes: what leaves need not be found, what joins has a  *)
(* higher id than all there were.                                          *)
LEMMA SelectionKeeps ==
    ASSUME ~Rejoining, PInv, NEW id \in Id, Leaves(id) \/ Joins(id)
    PROVE  PInv'
<1>1. CASE Leaves(id)
  <2>1. Types' /\ Fresh' /\ UpToCursor' /\ AbsenceIsReal'
    BY <1>1 DEF Leaves, PInv, Types, Fresh, UpToCursor, AbsenceIsReal
  <2>2. \A R : CountedSet(R) => CountedSet(R)'
    BY <1>1 DEF Leaves, CountedSet
  <2>3. TotalCounts'
    BY <1>1, <2>2 DEF Leaves, PInv, TotalCounts
  <2> QED BY <2>1, <2>3 DEF PInv
<1>2. CASE Joins(id)
  <2>1. /\ id = newest + 1 /\ newest' = id /\ remote' = remote \cup {id}
        /\ newest \in Nat /\ LastId \in Nat
    BY <1>2, PaginationAssumption DEF Joins, PInv, Types
  <2>2. Types' /\ Fresh' /\ UpToCursor' /\ AbsenceIsReal'
    BY <1>2, <2>1 DEF Joins, Id, PInv, Types, Fresh, UpToCursor, AbsenceIsReal
  <2>3. \A R \in SUBSET (1 .. newest) : CountedSet(R) => CountedSet(R)'
    BY <1>2, <2>1 DEF Joins, CountedSet
  <2>4. SUBSET (1 .. newest) \subseteq SUBSET (1 .. newest')
    BY <2>1
  <2>5. TotalCounts'
    BY <1>2, <2>3, <2>4 DEF Joins, PInv, TotalCounts
  <2> QED BY <2>2, <2>5 DEF PInv
<1> QED BY <1>1, <1>2

(* Each step keeps the invariant.                                          *)
LEMMA PaginationStep == ~Rejoining /\ PInv /\ [Next]_vars => PInv'
<1> SUFFICES ASSUME ~Rejoining, PInv, [Next]_vars PROVE PInv'
  OBVIOUS
<1>1. CASE Start
  <2>1. /\ phase = "idle" /\ phase' = "fetching" /\ always' = remote
        /\ cursor = 0 /\ firstPage /\ collected = {}
        /\ UNCHANGED <<remote, newest, cursor, expected, firstPage, collected>>
    BY <1>1 DEF Start, PInv, Fresh
  <2>2. Types' /\ Fresh' /\ AbsenceIsReal'
    BY <2>1 DEF PInv, Types, Fresh, AbsenceIsReal
  <2>3. UpToCursor'
    <3>1. \A id \in remote : id \in Nat /\ ~(id <= 0)
      BY PaginationAssumption DEF PInv, Types
    <3> QED BY <2>1, <3>1 DEF UpToCursor
  <2>4. TotalCounts'
    BY <2>1 DEF TotalCounts
  <2> QED BY <2>2, <2>3, <2>4 DEF PInv
<1>2. CASE FetchPage
  BY <1>2, PageKeeps DEF FetchPage
<1>3. CASE PageFails
  BY <1>3 DEF PageFails, PInv, Types, Fresh, UpToCursor, TotalCounts, AbsenceIsReal
<1>4. ASSUME NEW id \in Id, Leaves(id) \/ Joins(id) PROVE PInv'
  BY <1>4, SelectionKeeps
<1>5. CASE UNCHANGED vars
  BY <1>5 DEF vars, PInv, Types, Fresh, UpToCursor, TotalCounts, CountedSet, AbsenceIsReal
<1> QED BY <1>1, <1>2, <1>3, <1>4, <1>5 DEF Next

-----------------------------------------------------------------------------
(* What a successful fetch leaves out was absent at some moment of it, for *)
(* any selection and any faults of pages, while no old article rejoins     *)
(* (fetch_complete_selection); pagination_rejoin shows why this is needed. *)
THEOREM AbsenceIsRealHolds ==
    ASSUME ~Rejoining
    PROVE  Spec => []AbsenceIsReal
<1>1. Init => PInv
  BY PaginationAssumption
  DEF Init, PInv, Types, Fresh, UpToCursor, TotalCounts, AbsenceIsReal
<1>2. PInv /\ [Next]_vars => PInv'
  BY PaginationStep
<1>3. PInv => AbsenceIsReal
  BY DEF PInv
<1> QED BY <1>1, <1>2, <1>3, PTL DEF Spec
=============================================================================
