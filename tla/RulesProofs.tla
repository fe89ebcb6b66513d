---------------------------- MODULE RulesProofs ----------------------------
(***************************************************************************)
(* Proofs about the rules of the core, each for every input: a refresh     *)
(* asks the server for what it then looks for among the stored rows        *)
(* (SelectionsAgreeHolds), a mark of a shown row moves no row of the list  *)
(* but among those of one time (ListStandsStillHolds), the navigation      *)
(* shows and counts every feed of a known category once                    *)
(* (NavigationCountsHolds), a template says its count wherever it is asked *)
(* for (TemplateFilledHolds), the walk through a text finds its first      *)
(* usable image (FirstImageTakenHolds), the preview of a text is what a    *)
(* reader sees of it (PreviewIsFaithfulHolds), and an image becomes an     *)
(* icon, and an icon gets its surface, without loss or skew                *)
(* (IconFitsHolds).  Nothing moves in Rules, so each theorem rests on a    *)
(* lemma about its inputs: SelectionRule, SnapshotRule, NavigationRule,    *)
(* TemplateRule, TextImageRule, TextRule, ImageRule and SurfaceRule.       *)
(***************************************************************************)
EXTENDS Rules, FiniteSetTheorems, WellFoundedInduction, SequenceTheorems, TLAPS

-----------------------------------------------------------------------------
(* The selections of the wire after normalisation.                         *)
Kinds == {"all", "unread", "starred", "category", "feed"}
Domain == {sel \in [kind : Kinds, id : Int, unreadOnly : BOOLEAN] :
             /\ sel.kind \in {"category", "feed"} => sel.id > 0
             /\ sel.kind \in {"unread", "starred"} => sel.id = 0}

(* Whatever the wire carries, normalisation gives a selection of the      *)
(* domain.                                                                 *)
LEMMA NormalizeType ==
    ASSUME NEW k \in Kinds \cup {"other"}, NEW id \in Int, NEW u \in BOOLEAN
    PROVE  Normalize([kind |-> k, id |-> id, unreadOnly |-> u]) \in Domain
<1> DEFINE dto == [kind |-> k, id |-> id, unreadOnly |-> u]
           zero == [kind |-> k, id |-> 0, unreadOnly |-> u]
           unread == [kind |-> "all", id |-> 0, unreadOnly |-> TRUE]
<1>1. [dto EXCEPT !.id = 0] = zero
  OBVIOUS
<1>2. CASE k = "all"
  BY <1>2 DEF Normalize, Domain, Kinds
<1>3. CASE k \in {"unread", "starred"}
  <2>1. Normalize(dto) = zero
    BY <1>1, <1>3 DEF Normalize
  <2>2. zero \in Domain
    BY <1>3 DEF Domain, Kinds
  <2> QED BY <2>1, <2>2
<1>4. CASE k \in {"category", "feed"} /\ id > 0
  BY <1>4 DEF Normalize, Domain, Kinds
<1>5. CASE k = "other" \/ (k \in {"category", "feed"} /\ ~(id > 0))
  <2>1. Normalize(dto) = unread
    BY <1>5 DEF Normalize
  <2>2. unread \in Domain
    BY DEF Domain, Kinds
  <2> QED BY <2>1, <2>2
<1> QED BY <1>2, <1>3, <1>4, <1>5 DEF Kinds

(* Normalisation is done at the first time, wherever it is repeated.       *)
LEMMA NormalizeOnce ==
    ASSUME NEW sel \in Domain
    PROVE  NormalizeSelection(sel) = sel /\ SelectionDto(sel) = sel /\ Normalize(sel) = sel
<1>1. /\ sel.kind \in Kinds /\ sel.id \in Int
      /\ sel = [kind |-> sel.kind, id |-> sel.id, unreadOnly |-> sel.unreadOnly]
      /\ sel.kind \in {"category", "feed"} => sel.id > 0
      /\ sel.kind \in {"unread", "starred"} => sel.id = 0
  BY DEF Domain
<1>2. sel.kind \in {"unread", "starred"} => [sel EXCEPT !.id = 0] = sel
  BY <1>1
<1>3. [sel EXCEPT !.id = sel.id] = sel
  BY <1>1
<1>4. NormalizeSelection(sel) = sel
  BY <1>1 DEF NormalizeSelection
<1>5. SelectionDto(sel) = sel
  BY <1>2, <1>3 DEF SelectionDto
<1>6. Normalize(sel) = sel
  BY <1>1, <1>2 DEF Normalize, Kinds
<1> QED BY <1>4, <1>5, <1>6

(* What the server lists of an article for a selection, key by key.        *)
LEMMA Listed ==
    ASSUME NEW sel \in Domain, NEW entry
    PROVE  ServerLists(ToQuery(BrowseFilter(sel)), entry) <=>
             /\ IF IsUnreadOnly(sel) THEN entry.status = "unread"
                ELSE entry.status \in {"read", "unread"}
             /\ sel.kind = "starred" => entry.starred
             /\ sel.kind = "category" => entry.feed.category = sel.id
             /\ sel.kind = "feed" => entry.feed.id = sel.id
<1> DEFINE query == ToQuery(BrowseFilter(sel))
<1>1. /\ sel.kind \in Kinds /\ sel.id \in Int
      /\ sel.kind \in {"category", "feed"} => sel.id > 0
  BY DEF Domain
<1>2. query = [status |-> IF IsUnreadOnly(sel) THEN {"unread"} ELSE AnyStatus,
               starred |-> IF sel.kind = "starred" THEN {"1"} ELSE {},
               category_id |-> IF sel.kind = "category" THEN {sel.id} ELSE {},
               feed_id |-> IF sel.kind = "feed" THEN {sel.id} ELSE {}]
  <2> DEFINE filter == BrowseFilter(sel)
  <2>1. /\ filter.base.status \cup filter.base.statuses
             = IF IsUnreadOnly(sel) THEN {"unread"} ELSE AnyStatus
        /\ filter.starred <=> sel.kind = "starred"
        /\ filter.category_id = IF sel.kind = "category" THEN sel.id ELSE 0
        /\ filter.feed_id = IF sel.kind = "feed" THEN sel.id ELSE 0
    BY DEF BrowseFilter, BaseFilter
  <2> HIDE DEF filter
  <2>2. /\ (IF filter.starred THEN {"1"} ELSE {}) = IF sel.kind = "starred" THEN {"1"} ELSE {}
        /\ (IF filter.category_id > 0 THEN {filter.category_id} ELSE {})
             = IF sel.kind = "category" THEN {sel.id} ELSE {}
        /\ (IF filter.feed_id > 0 THEN {filter.feed_id} ELSE {})
             = IF sel.kind = "feed" THEN {sel.id} ELSE {}
    BY <1>1, <2>1
  <2> QED BY <2>1, <2>2 DEF ToQuery, filter
<1> HIDE DEF query
<1>3. /\ query.status = {} \/ entry.status \in query.status
           <=> IF IsUnreadOnly(sel) THEN entry.status = "unread"
               ELSE entry.status \in {"read", "unread"}
      /\ "1" \in query.starred <=> sel.kind = "starred"
      /\ query.category_id = {} \/ entry.feed.category \in query.category_id
           <=> (sel.kind = "category" => entry.feed.category = sel.id)
      /\ query.feed_id = {} \/ entry.feed.id \in query.feed_id
           <=> (sel.kind = "feed" => entry.feed.id = sel.id)
  BY <1>2 DEF AnyStatus
<1> QED BY <1>3 DEF ServerLists, query

(* The state has the selections and articles of SelectionInput.            *)
LEMMA SelectionRule ==
    ASSUME RulesAssumption, SelectionInput, kind = "selection"
    PROVE  SelectionsAgree
<1>0. Kinds \cup {"other"} = {"all", "unread", "starred", "category", "feed", "other"}
  BY DEF Kinds
<1>1. PICK k \in Kinds \cup {"other"}, id \in Ids, unreadOnly \in BOOLEAN,
           feed \in FeedIds, category \in FeedIds,
           status \in {"read", "unread", "removed"}, starred \in BOOLEAN, given \in BOOLEAN :
         input = [dto |-> [kind |-> k, id |-> id, unreadOnly |-> unreadOnly],
                  entry |-> [feed_id |-> IF given THEN feed ELSE 0,
                             feed |-> [id |-> feed, category |-> category],
                             status |-> status, starred |-> starred]]
  BY <1>0, Zenon DEF SelectionInput
<1> DEFINE entry == input.entry
           sel == Normalize(input.dto)
           row == EntryToDomain(entry)
<1>2. id \in Int /\ feed \in Nat \ {0}
  BY DEF RulesAssumption
<1>3. sel \in Domain
  BY <1>1, <1>2, NormalizeType
<1>4. /\ row.feed_id = feed /\ entry.feed.id = feed
      /\ row.category_id = category /\ entry.feed.category = category
      /\ row.status = status /\ entry.status = status
      /\ row.starred = starred /\ entry.starred = starred
  BY <1>1, <1>2 DEF EntryToDomain
<1> HIDE DEF entry, sel, row
<1>5. /\ sel.kind \in Kinds /\ sel.id \in Int
      /\ sel.kind \in {"category", "feed"} => sel.id > 0
  BY <1>3 DEF Domain
<1>6. SelectionClause(sel, row) <=>
        /\ IsUnreadOnly(sel) => status = "unread"
        /\ sel.kind = "starred" => starred
        /\ sel.kind = "category" => category = sel.id
        /\ sel.kind = "feed" => feed = sel.id
  BY <1>4, <1>5 DEF SelectionClause, Kinds
<1>7. MatchesScope(sel, row) /\ MatchesReadState(sel, row) <=>
        /\ IsUnreadOnly(sel) => status = "unread"
        /\ sel.kind = "category" => category = sel.id
        /\ sel.kind = "feed" => feed = sel.id
  BY <1>4, <1>5 DEF MatchesScope, MatchesReadState, Kinds
<1>8. ServerLists(ToQuery(BrowseFilter(sel)), entry) <=>
        /\ IF IsUnreadOnly(sel) THEN status = "unread" ELSE status \in {"read", "unread"}
        /\ sel.kind = "starred" => starred
        /\ sel.kind = "category" => category = sel.id
        /\ sel.kind = "feed" => feed = sel.id
  BY <1>3, <1>4, Listed
<1>9. BrowseFilter(sel) = ClientFilter(IsUnreadOnly(sel), sel.kind = "starred",
                                       IF sel.kind = "category" THEN sel.id ELSE 0,
                                       IF sel.kind = "feed" THEN sel.id ELSE 0)
  <2>1. /\ (IF (IF sel.kind = "category" THEN sel.id ELSE 0) > 0
            THEN IF sel.kind = "category" THEN sel.id ELSE 0 ELSE 0)
             = IF sel.kind = "category" THEN sel.id ELSE 0
        /\ (IF (IF sel.kind = "feed" THEN sel.id ELSE 0) > 0
            THEN IF sel.kind = "feed" THEN sel.id ELSE 0 ELSE 0)
             = IF sel.kind = "feed" THEN sel.id ELSE 0
    BY <1>5
  <2> QED BY <2>1 DEF BrowseFilter, ClientFilter
<1>10. NormalizeSelection(sel) = sel /\ Normalize(SelectionDto(sel)) = sel
  BY <1>3, NormalizeOnce
<1>11. /\ ServerLists(ToQuery(BrowseFilter(sel)), entry) => SelectionClause(sel, row)
       /\ SelectionClause(sel, row) /\ row.status # "removed"
            => ServerLists(ToQuery(BrowseFilter(sel)), entry)
       /\ SelectionClause(sel, row)
            <=> /\ MatchesScope(sel, row) /\ MatchesReadState(sel, row)
                /\ (sel.kind = "starred" => row.starred)
  BY <1>4, <1>6, <1>7, <1>8
<1> QED BY <1>9, <1>10, <1>11 DEF SelectionsAgree, sel, row, entry

-----------------------------------------------------------------------------
(* The greater and the smaller of two sides.                               *)
LEMMA TwoSides ==
    ASSUME NEW m \in Int, NEW n \in Int
    PROVE  /\ Max({m, n}) = IF m > n THEN m ELSE n
           /\ Min({m, n}) = IF m < n THEN m ELSE n
<1> DEFINE g == IF m > n THEN m ELSE n
           s == IF m < n THEN m ELSE n
<1>1. g \in {m, n} /\ \A y \in {m, n} : g >= y
  OBVIOUS
<1>2. \A x \in {m, n} : (\A y \in {m, n} : x >= y) => x = g
  OBVIOUS
<1>3. s \in {m, n} /\ \A y \in {m, n} : s <= y
  OBVIOUS
<1>4. \A x \in {m, n} : (\A y \in {m, n} : x <= y) => x = s
  OBVIOUS
<1>5. Max({m, n}) = g
  BY <1>1, <1>2 DEF Max
<1>6. Min({m, n}) = s
  BY <1>3, <1>4 DEF Min
<1> QED BY <1>5, <1>6

(* A finite set of integers that is not empty has a greatest member: of    *)
(* the sets of what is above a member, one has none of the others inside.  *)
LEMMA Greatest ==
    ASSUME NEW S \in SUBSET Int, IsFiniteSet(S), S # {}
    PROVE  Max(S) \in S /\ \A y \in S : Max(S) >= y
<1> DEFINE above(x) == {y \in S : y > x}
           family == {above(x) : x \in S}
<1>0. family # {}
  OBVIOUS
<1>1. family \subseteq FiniteSubsetsOf(S)
  BY FS_Subset DEF FiniteSubsetsOf
<1>2. IsWellFoundedOn(StrictSubsetOrdering(S), FiniteSubsetsOf(S))
  BY FS_StrictSubsetOrderingWellFounded
<1> HIDE DEF family
<1>3. PICK T \in family : \A U \in family : ~ (<<U, T>> \in StrictSubsetOrdering(S))
  BY <1>0, <1>1, <1>2, WFMin
<1> USE DEF family
<1>4. PICK x \in S : T = above(x)
  BY <1>3
<1>5. ASSUME NEW y \in S, y > x
      PROVE  FALSE
  <2>1. x \in Int /\ y \in Int
    BY <1>5
  <2>2. \A z \in S : z > y => z > x
    BY <2>1, <1>5
  <2>3. above(y) \subseteq T
    BY <1>4, <2>2
  <2>4. y \in T /\ y \notin above(y)
    BY <1>4, <1>5, <2>1
  <2>5. <<above(y), T>> \in StrictSubsetOrdering(S)
    BY <1>4, <2>3, <2>4 DEF StrictSubsetOrdering
  <2> QED BY <1>3, <2>5
<1>6. \A y \in S : x >= y
  BY <1>5
<1> QED BY <1>6 DEF Max

(* Numbers up to a bound have a greatest and a smallest one.               *)
LEMMA Extremes ==
    ASSUME NEW a \in Int, NEW b \in Int, NEW S \in SUBSET (a .. b), S # {}
    PROVE  /\ Max(S) \in S /\ \A y \in S : Max(S) >= y
           /\ Min(S) \in S /\ \A y \in S : Min(S) <= y
<1>1. \A m, n \in Int : IsFiniteSet(m .. n)
  BY FS_Interval
<1>2. S \subseteq Int /\ IsFiniteSet(S)
  <2>1. a .. b \subseteq Int
    OBVIOUS
  <2>2. IsFiniteSet(a .. b)
    BY <1>1
  <2> QED BY <2>1, <2>2, FS_Subset
<1> DEFINE T == {x \in -b .. -a : -x \in S}
<1>3. T \subseteq Int /\ IsFiniteSet(T) /\ T # {}
  <2>1. -b \in Int /\ -a \in Int
    OBVIOUS
  <2>2. IsFiniteSet(-b .. -a)
    BY <1>1, <2>1
  <2>3. PICK x \in S : TRUE
    OBVIOUS
  <2>4. -x \in -b .. -a /\ -(-x) = x
    OBVIOUS
  <2>5. T # {} /\ T \subseteq -b .. -a
    BY <2>4
  <2>6. -b .. -a \subseteq Int
    BY <2>1
  <2> QED BY <2>2, <2>5, <2>6, FS_Subset
<1> DEFINE m == Max(T)
<1>4. m \in T /\ \A y \in T : m >= y
  <2> HIDE DEF T
  <2> QED BY <1>3, Greatest
<1> HIDE DEF m
<1>5. -m \in S /\ \A y \in S : -m <= y
  <2>1. -m \in S /\ m \in Int
    BY <1>4
  <2>2. ASSUME NEW y \in S PROVE -m <= y
    <3>1. y \in Int /\ -y \in T
      <4>1. y \in Int /\ y \in a .. b /\ -(-y) = y /\ -y \in -b .. -a
        OBVIOUS
      <4> QED BY <4>1
    <3>2. m >= -y
      BY <1>4, <3>1
    <3> HIDE DEF T
    <3> QED BY <2>1, <3>1, <3>2
  <2> QED BY <2>1, <2>2
<1>6. Min(S) \in S /\ \A y \in S : Min(S) <= y
  BY <1>5 DEF Min
<1> QED BY <1>2, <1>6, Greatest

-----------------------------------------------------------------------------
(* A strict order on a set.                                                *)
Orders(before, S) ==
    /\ \A i \in S : <<i, i>> \notin before
    /\ \A i, j \in S : i # j => <<i, j>> \in before \/ <<j, i>> \in before
    /\ \A i, j, k \in S : <<i, j>> \in before /\ <<j, k>> \in before => <<i, k>> \in before

(* What is ranked is a sequence of all members in their order, each once.  *)
LEMMA RankedIs ==
    ASSUME NEW S, IsFiniteSet(S), NEW before, Orders(before, S)
    PROVE  /\ Cardinality(S) \in Nat
           /\ Ranked(S, before) \in [1 .. Cardinality(S) -> S]
           /\ \A i \in S : \E p \in 1 .. Cardinality(S) : Ranked(S, before)[p] = i
           /\ \A p, q \in 1 .. Cardinality(S) :
                p < q <=> <<Ranked(S, before)[p], Ranked(S, before)[q]>> \in before
<1> DEFINE n == Cardinality(S)
           Earlier(i) == {j \in S : <<j, i>> \in before}
           rank == [i \in S |-> Cardinality(Earlier(i)) + 1]
           r == Ranked(S, before)
<1>1. n \in Nat
  BY FS_CardinalityType
<1>2. ASSUME NEW i \in S
      PROVE  IsFiniteSet(Earlier(i)) /\ Cardinality(Earlier(i)) \in Nat
             /\ Cardinality(Earlier(i)) < n
  <2>1. Earlier(i) \subseteq S /\ i \notin Earlier(i)
    BY DEF Orders
  <2> HIDE DEF Earlier
  <2>2. IsFiniteSet(Earlier(i)) /\ Cardinality(Earlier(i)) <= n
        /\ (Cardinality(Earlier(i)) = n => Earlier(i) = S)
    BY <2>1, FS_Subset
  <2>3. Cardinality(Earlier(i)) \in Nat
    BY <2>2, FS_CardinalityType
  <2> QED BY <1>1, <2>1, <2>2, <2>3
<1>3. ASSUME NEW i \in S, NEW j \in S, <<i, j>> \in before
      PROVE  Cardinality(Earlier(i)) < Cardinality(Earlier(j))
  <2>1. Earlier(i) \subseteq Earlier(j) /\ i \in Earlier(j) /\ i \notin Earlier(i)
    BY <1>3 DEF Orders
  <2>2. IsFiniteSet(Earlier(i)) /\ Cardinality(Earlier(i)) \in Nat
    BY <1>2
  <2>3. IsFiniteSet(Earlier(j)) /\ Cardinality(Earlier(j)) \in Nat
    BY <1>2
  <2> HIDE DEF Earlier
  <2>4. Cardinality(Earlier(i)) <= Cardinality(Earlier(j))
        /\ (Cardinality(Earlier(i)) = Cardinality(Earlier(j)) => Earlier(i) = Earlier(j))
    BY <2>1, <2>3, FS_Subset
  <2> QED BY <2>1, <2>2, <2>3, <2>4
<1>4. /\ \A i \in S : rank[i] \in 1 .. n /\ rank[i] = Cardinality(Earlier(i)) + 1
      /\ rank \in [S -> 1 .. n]
  <2>1. ASSUME NEW i \in S
        PROVE  rank[i] \in 1 .. n /\ rank[i] = Cardinality(Earlier(i)) + 1
    <3>1. rank[i] = Cardinality(Earlier(i)) + 1
      OBVIOUS
    <3>2. Cardinality(Earlier(i)) \in Nat /\ Cardinality(Earlier(i)) < n
      BY <1>2
    <3> HIDE DEF rank, Earlier, n
    <3> QED BY <1>1, <3>1, <3>2
  <2>2. DOMAIN rank = S /\ rank = [i \in S |-> rank[i]]
    OBVIOUS
  <2> HIDE DEF rank, n, Earlier
  <2> QED BY <2>1, <2>2
<1> HIDE DEF rank, n
<1>5. \A i, j \in S : <<i, j>> \in before => rank[i] < rank[j]
  <2> SUFFICES ASSUME NEW i \in S, NEW j \in S, <<i, j>> \in before
               PROVE  rank[i] < rank[j]
    OBVIOUS
  <2>1. Cardinality(Earlier(i)) < Cardinality(Earlier(j))
    BY <1>3
  <2>2. Cardinality(Earlier(i)) \in Nat /\ Cardinality(Earlier(j)) \in Nat
    BY <1>2
  <2> HIDE DEF Earlier
  <2> QED BY <1>4, <2>1, <2>2
<1>6. \A i, j \in S : rank[i] = rank[j] => i = j
  <2> SUFFICES ASSUME NEW i \in S, NEW j \in S, rank[i] = rank[j], i # j
               PROVE  FALSE
    OBVIOUS
  <2>1. rank[i] < rank[j] \/ rank[j] < rank[i]
    BY <1>5 DEF Orders
  <2>2. rank[i] \in Int /\ rank[j] \in Int
    BY <1>1, <1>4
  <2> QED BY <2>1, <2>2
<1>7. rank \in Surjection(S, 1 .. n)
  <2>1. rank \in Injection(S, 1 .. n)
    BY <1>4, <1>6 DEF Injection, IsInjective
  <2>2. IsFiniteSet(1 .. n)
        /\ Cardinality(1 .. n) = IF 1 > n THEN 0 ELSE n - 1 + 1
    <3>1. 1 \in Int /\ n \in Int
      BY <1>1
    <3> QED BY <3>1, FS_Interval
  <2>3. Cardinality(1 .. n) = Cardinality(S)
    BY <1>1, <2>2 DEF n
  <2> QED BY <2>1, <2>2, <2>3, FS_Injection
<1>8. ASSUME NEW p \in 1 .. n
      PROVE  r[p] \in S /\ rank[r[p]] = p
  <2>1. PICK i \in S : rank[i] = p
    BY <1>7 DEF Surjection
  <2>2. \A k \in S : Cardinality(Earlier(k)) \in Nat
    BY <1>2
  <2>3. r[p] = CHOOSE k \in S : Cardinality(Earlier(k)) = p - 1
    BY DEF Ranked, n
  <2> HIDE DEF Earlier, r
  <2>4. Cardinality(Earlier(i)) = p - 1
    BY <1>1, <1>4, <2>1, <2>2
  <2>5. r[p] \in S /\ Cardinality(Earlier(r[p])) = p - 1
    BY <2>3, <2>4
  <2> QED BY <1>1, <1>4, <2>2, <2>5
<1>9. r \in [1 .. n -> S]
  <2> DEFINE at(p) == CHOOSE k \in S : Cardinality(Earlier(k)) = p - 1
  <2>0. r = [p \in 1 .. n |-> at(p)]
    BY DEF Ranked, n
  <2> HIDE DEF r, at
  <2>1. r = [p \in 1 .. n |-> r[p]]
    BY <2>0
  <2> QED BY <1>8, <2>1
<1> HIDE DEF r
<1>10. ASSUME NEW i \in S
       PROVE  \E p \in 1 .. n : r[p] = i
  <2>1. rank[i] \in 1 .. n
    BY <1>4
  <2>2. r[rank[i]] \in S /\ rank[r[rank[i]]] = rank[i]
    BY <1>8, <2>1
  <2> QED BY <1>6, <2>1, <2>2
<1>11. ASSUME NEW p \in 1 .. n, NEW q \in 1 .. n
       PROVE  p < q <=> <<r[p], r[q]>> \in before
  <2>1. r[p] \in S /\ rank[r[p]] = p /\ r[q] \in S /\ rank[r[q]] = q
    BY <1>8
  <2>2. <<r[p], r[q]>> \in before => p < q
    BY <1>5, <2>1
  <2>3. <<r[q], r[p]>> \in before => q < p
    BY <1>5, <2>1
  <2>4. r[p] # r[q] => <<r[p], r[q]>> \in before \/ <<r[q], r[p]>> \in before
    BY <2>1 DEF Orders
  <2>5. p \in Int /\ q \in Int
    BY <1>1
  <2>6. p < q => r[p] # r[q]
    BY <2>1, <2>5
  <2>7. p < q => ~(q < p)
    BY <2>5
  <2> QED BY <2>2, <2>3, <2>4, <2>6, <2>7
<1> QED BY <1>1, <1>9, <1>10, <1>11 DEF n, r

(* The first of what is ranked, up to a limit, is in order; what is left   *)
(* out comes after all of it, and is left out for the limit only.          *)
FirstCount(S, limit) == IF limit < Cardinality(S) THEN limit ELSE Cardinality(S)
LEMMA FirstIs ==
    ASSUME NEW S, IsFiniteSet(S), NEW before, Orders(before, S), NEW limit \in Nat
    PROVE  LET list == FirstOf(Ranked(S, before), limit)
           IN  /\ FirstCount(S, limit) \in Nat
               /\ Len(list) = FirstCount(S, limit) /\ DOMAIN list = 1 .. Len(list)
               /\ \A p, q \in DOMAIN list : p < q => <<list[p], list[q]>> \in before
               /\ Range(list) \subseteq S
               /\ \A i \in S \ Range(list) :
                    Len(list) = limit /\ \A j \in Range(list) : <<j, i>> \in before
<1> DEFINE n == Cardinality(S)
           r == Ranked(S, before)
           m == Min({limit, n})
           list == FirstOf(r, limit)
<1>1. /\ n \in Nat /\ r \in [1 .. n -> S]
      /\ \A i \in S : \E p \in 1 .. n : r[p] = i
      /\ \A p, q \in 1 .. n : p < q => <<r[p], r[q]>> \in before
  BY RankedIs
<1> HIDE DEF n, r
<1>2. r \in Seq(S) /\ Len(r) = n
  BY <1>1
<1>3. m = IF limit < n THEN limit ELSE n
  BY <1>1, TwoSides, SMTT(30)
<1>4. m \in Nat /\ m <= n /\ m <= limit /\ (m < n => m = limit)
  BY <1>1, <1>3
<1>5. list = SubSeq(r, 1, m)
  BY <1>2 DEF FirstOf
<1> HIDE DEF m, list
<1>6. /\ Len(list) = m /\ DOMAIN list = 1 .. m
      /\ \A p \in 1 .. m : list[p] = r[p]
  BY <1>1, <1>2, <1>4, <1>5
<1>7. Range(list) = {r[p] : p \in 1 .. m}
  BY <1>6 DEF Range
<1>8. Range(list) \subseteq S
  BY <1>1, <1>4, <1>7
<1>9. ASSUME NEW i \in S \ Range(list)
      PROVE  Len(list) = limit /\ \A j \in Range(list) : <<j, i>> \in before
  <2>1. PICK q \in 1 .. n : r[q] = i
    BY <1>1
  <2>2. q \notin 1 .. m
    BY <1>7, <1>9, <2>1
  <2>3. q > m
    BY <1>1, <1>4, <2>2
  <2>4. \A p \in 1 .. m : p \in 1 .. n /\ p < q
    BY <1>1, <1>4, <2>3
  <2>5. Len(list) = limit
    BY <1>1, <1>4, <1>6, <2>3
  <2> QED BY <1>1, <1>7, <2>1, <2>4, <2>5
<1>10. FirstCount(S, limit) = m
  BY <1>3 DEF FirstCount, n
<1>11. \A p, q \in 1 .. m : p < q => <<list[p], list[q]>> \in before
  <2>1. \A p \in 1 .. m : p \in 1 .. n
    BY <1>1, <1>4
  <2> QED BY <1>1, <1>6, <2>1
<1> QED BY <1>4, <1>6, <1>8, <1>9, <1>10, <1>11 DEF list, r

(* A list of the first m of a set by some key, whatever it does with       *)
(* members of equal keys.                                                  *)
TakesFirst(list, m, S, key) ==
    /\ DOMAIN list = 1 .. m
    /\ \A p \in 1 .. m : list[p] \in S
    /\ \A p, q \in 1 .. m : p < q => list[p] # list[q] /\ key[list[p]] <= key[list[q]]
    /\ \A i \in S \ Range(list) : \A p \in 1 .. m : key[list[p]] <= key[i]

(* The pigeonhole principle for the places of a list.                      *)
LEMMA TooFewPlaces ==
    ASSUME NEW n \in Nat, NEW T, IsFiniteSet(T), Cardinality(T) < n, NEW f \in [1 .. n -> T]
    PROVE  \E x, y \in 1 .. n : x # y /\ f[x] = f[y]
<1> DEFINE P == 1 .. n
<1>1. 1 \in Int /\ n \in Int
  OBVIOUS
<1>2. IsFiniteSet(P) /\ Cardinality(P) = IF 1 > n THEN 0 ELSE n - 1 + 1
  BY <1>1, FS_Interval
<1>3. Cardinality(P) = n
  BY <1>2
<1>4. f \in [P -> T] /\ Cardinality(T) < Cardinality(P)
  BY <1>3
<1> HIDE DEF P
<1>5. \E x, y \in P : x # y /\ f[x] = f[y]
  BY <1>2, <1>4, FS_PigeonHole
<1> QED BY <1>5 DEF P

(* The size of an interval from 1.                                         *)
LEMMA PlacesUpTo ==
    ASSUME NEW n \in Nat
    PROVE  IsFiniteSet(1 .. n) /\ Cardinality(1 .. n) = n
<1>1. 1 \in Int /\ n \in Int
  OBVIOUS
<1>2. IsFiniteSet(1 .. n) /\ Cardinality(1 .. n) = IF 1 > n THEN 0 ELSE n - 1 + 1
  BY <1>1, FS_Interval
<1> QED BY <1>2

(* Two lists of the same length: no row of the one is earlier than what    *)
(* the other has in its place.  All rows up to it would be early enough to *)
(* be in the other list before that place, where there are too few.        *)
LEMMA NoneEarlier ==
    ASSUME NEW S, NEW key \in [S -> Int], NEW m \in Nat, NEW a, NEW b,
           TakesFirst(a, m, S, key), TakesFirst(b, m, S, key), NEW p \in 1 .. m
    PROVE  key[b[p]] <= key[a[p]]
<1> SUFFICES ASSUME ~(key[b[p]] <= key[a[p]]) PROVE FALSE
  OBVIOUS
<1>1. /\ p \in Nat /\ 1 <= p /\ p <= m
      /\ key[a[p]] \in Int /\ key[b[p]] \in Int /\ key[a[p]] < key[b[p]]
  BY DEF TakesFirst
<1>2. ASSUME NEW q \in 1 .. p
      PROVE  \E r \in 1 .. p - 1 : b[r] = a[q]
  <2>1. q \in 1 .. m /\ a[q] \in S
    BY <1>1 DEF TakesFirst
  <2>2. key[a[q]] <= key[a[p]]
    BY <1>1, <2>1 DEF TakesFirst
  <2>3. key[a[q]] \in Int /\ ~(key[b[p]] <= key[a[q]])
    BY <1>1, <2>1, <2>2
  <2>4. a[q] \in Range(b)
    BY <2>1, <2>3 DEF TakesFirst
  <2>5. PICK r \in 1 .. m : b[r] = a[q]
    BY <2>4 DEF Range, TakesFirst
  <2>6. r < p
    <3> SUFFICES ASSUME ~(r < p) PROVE FALSE
      OBVIOUS
    <3>1. r = p \/ p < r
      BY <1>1
    <3>2. key[b[p]] <= key[b[r]]
      BY <1>1, <3>1 DEF TakesFirst
    <3> QED BY <2>3, <2>5, <3>2
  <2> QED BY <1>1, <2>5, <2>6
<1> DEFINE f == [q \in 1 .. p |-> CHOOSE r \in 1 .. p - 1 : b[r] = a[q]]
<1>3. /\ f \in [1 .. p -> 1 .. p - 1]
      /\ \A q \in 1 .. p : b[f[q]] = a[q]
  <2>1. \A q \in 1 .. p : f[q] \in 1 .. p - 1 /\ b[f[q]] = a[q]
    BY <1>2
  <2> QED BY <2>1
<1> HIDE DEF f
<1>4. PICK x \in 1 .. p, y \in 1 .. p : x # y /\ f[x] = f[y]
  <2> DEFINE before == 1 .. p - 1
  <2>1. p - 1 \in Nat /\ p - 1 < p
    BY <1>1
  <2>2. IsFiniteSet(before) /\ Cardinality(before) = p - 1
    BY <2>1, PlacesUpTo
  <2>3. f \in [1 .. p -> before] /\ Cardinality(before) < p
    BY <1>3, <2>1, <2>2
  <2> HIDE DEF before
  <2> QED BY <1>1, <2>2, <2>3, TooFewPlaces
<1>5. a[x] = a[y] /\ x \in 1 .. m /\ y \in 1 .. m
  <2>1. x \in 1 .. m /\ y \in 1 .. m
    BY <1>1
  <2>2. b[f[x]] = a[x] /\ b[f[y]] = a[y]
    BY <1>3
  <2> QED BY <1>4, <2>1, <2>2
<1>6. x < y \/ y < x
  BY <1>4
<1> QED BY <1>5, <1>6 DEF TakesFirst

(* What is in the one only has been displaced by what is in the other      *)
(* only, and both keys are equal.                                          *)
LEMMA Displaced ==
    ASSUME NEW S, NEW key \in [S -> Int], NEW m \in Nat, NEW a, NEW b,
           TakesFirst(a, m, S, key), TakesFirst(b, m, S, key),
           NEW gone \in Range(a) \ Range(b)
    PROVE  \E new \in Range(b) \ Range(a) : key[new] = key[gone]
<1>1. PICK g \in 1 .. m : a[g] = gone
  BY DEF Range, TakesFirst
<1>2. PICK new \in Range(b) : new \notin Range(a)
  <2> SUFFICES ASSUME \A q \in 1 .. m : b[q] \in Range(a) PROVE FALSE
    BY DEF Range, TakesFirst
  <2>1. ASSUME NEW q \in 1 .. m
        PROVE  \E r \in (1 .. m) \ {g} : a[r] = b[q]
    <3>1. PICK r \in 1 .. m : a[r] = b[q]
      BY DEF Range, TakesFirst
    <3>2. b[q] # gone
      BY DEF Range, TakesFirst
    <3> QED BY <1>1, <3>1, <3>2
  <2> DEFINE f == [q \in 1 .. m |-> CHOOSE r \in (1 .. m) \ {g} : a[r] = b[q]]
  <2>2. /\ f \in [1 .. m -> (1 .. m) \ {g}]
        /\ \A q \in 1 .. m : a[f[q]] = b[q]
    <3>1. \A q \in 1 .. m : f[q] \in (1 .. m) \ {g} /\ a[f[q]] = b[q]
      BY <2>1
    <3> QED BY <3>1
  <2> HIDE DEF f
  <2>3. PICK x \in 1 .. m, y \in 1 .. m : x # y /\ f[x] = f[y]
    <3> DEFINE others == (1 .. m) \ {g}
    <3>1. IsFiniteSet(1 .. m) /\ Cardinality(1 .. m) = m
      BY PlacesUpTo
    <3>2. IsFiniteSet(others) /\ Cardinality(others) = m - 1
      BY <3>1, FS_RemoveElement
    <3>3. f \in [1 .. m -> others] /\ Cardinality(others) < m
      BY <2>2, <3>2
    <3> HIDE DEF others
    <3> QED BY <3>2, <3>3, TooFewPlaces
  <2>4. b[x] = b[y]
    BY <2>2, <2>3
  <2>5. x < y \/ y < x
    BY <2>3
  <2> QED BY <2>4, <2>5 DEF TakesFirst
<1>3. PICK n \in 1 .. m : b[n] = new
  BY <1>2 DEF Range, TakesFirst
<1>4. new \in S /\ gone \in S
  BY <1>1, <1>3 DEF TakesFirst
<1>5. key[gone] <= key[new]
  BY <1>1, <1>2, <1>4 DEF TakesFirst
<1>6. key[new] <= key[gone]
  BY <1>3, <1>4 DEF TakesFirst
<1>7. key[new] = key[gone]
  BY <1>4, <1>5, <1>6
<1> QED BY <1>2, <1>7

(* Rows in the order of a key, and those of the same key as they are       *)
(* found, are strictly ordered.                                            *)
LEMMA KeyOrders ==
    ASSUME NEW S, NEW key \in [S -> Int], NEW found, \A i \in S : found[i] \in Int,
           \A i, j \in S : found[i] = found[j] => i = j,
           NEW before,
           \A i, j \in S : <<i, j>> \in before
              <=> key[i] < key[j] \/ (key[i] = key[j] /\ found[i] < found[j])
    PROVE  /\ Orders(before, S)
           /\ \A i, j \in S : <<i, j>> \in before => i # j /\ key[i] <= key[j]
<1>1. \A i \in S : key[i] \in Int /\ found[i] \in Int
  OBVIOUS
<1>2. \A i \in S : <<i, i>> \notin before
  BY <1>1
<1>3. \A i, j \in S : i # j => <<i, j>> \in before \/ <<j, i>> \in before
  BY <1>1
<1>4. \A i, j, k \in S : <<i, j>> \in before /\ <<j, k>> \in before => <<i, k>> \in before
  BY <1>1
<1>5. \A i, j \in S : <<i, j>> \in before => i # j /\ key[i] <= key[j]
  BY <1>1, <1>2
<1> QED BY <1>2, <1>3, <1>4, <1>5 DEF Orders

(* A mark of a shown row leaves the rows that are listed and their times   *)
(* as they are, so what the list can be is the same before and after it:   *)
(* the first rows by time, in any plan's order.                            *)
LEMMA SnapshotRule ==
    ASSUME RulesAssumption, kind = "snapshot", SnapshotInput
    PROVE  ListStandsStill
<1>1. PICK rows \in [1 .. MaxRows -> Rows], retain \in SUBSET (1 .. MaxRows),
           newestFirst \in BOOLEAN, limit \in RowLimits, sel \in RowSelections :
         input = [rows |-> rows, selection |-> sel, retain |-> retain,
                  newestFirst |-> newestFirst, limit |-> limit]
  BY Zenon DEF SnapshotInput
<1> DEFINE D == 1 .. MaxRows
           ids == Clause(rows, sel) \cup retain
           Sign(t) == IF newestFirst THEN 0 - t ELSE t
           key == [i \in ids |-> Sign(rows[i].published)]
           m == FirstCount(ids, limit)
           Precedes(found) == {pair \in ids \X ids :
                               \/ key[pair[1]] < key[pair[2]]
                               \/ /\ key[pair[1]] = key[pair[2]]
                                  /\ found[pair[1]] < found[pair[2]]}
           FirstRows(found) == FirstOf(Ranked(ids, Precedes(found)), limit)
<1>2. /\ input.rows = rows /\ input.selection = sel /\ input.retain = retain
      /\ input.newestFirst = newestFirst /\ input.limit = limit
  BY <1>1
<1>3. /\ MaxRows \in Nat /\ limit \in Nat /\ IsFiniteSet(D)
      /\ DOMAIN rows = D /\ Len(rows) = MaxRows
      /\ \A i \in D : rows[i].published \in Int
  <2>1. MaxRows \in Nat /\ limit \in Nat /\ \A row \in Rows : row.published \in Int
    BY DEF RulesAssumption
  <2>2. IsFiniteSet(D)
    BY <2>1, FS_Interval
  <2> QED BY <2>1, <2>2
<1>4. ids \subseteq D /\ IsFiniteSet(ids) /\ retain \subseteq D
  <2>1. ids \subseteq D /\ retain \subseteq D
    BY <1>3 DEF Clause
  <2> QED BY <1>3, <2>1, FS_Subset
<1>5. key \in [ids -> Int] /\ \A i \in ids : key[i] = Sign(rows[i].published)
  <2>1. \A i \in ids : Sign(rows[i].published) \in Int
    BY <1>3, <1>4
  <2> HIDE DEF ids, Sign
  <2> QED BY <2>1
<1>6. \A i, j \in ids :
         /\ Published(rows, newestFirst, i, j) <=> key[i] < key[j]
         /\ rows[i].published = rows[j].published <=> key[i] = key[j]
  <2> SUFFICES ASSUME NEW i \in ids, NEW j \in ids
               PROVE  /\ Published(rows, newestFirst, i, j) <=> key[i] < key[j]
                      /\ rows[i].published = rows[j].published <=> key[i] = key[j]
    OBVIOUS
  <2>1. rows[i].published \in Int /\ rows[j].published \in Int
    BY <1>3, <1>4
  <2>2. key[i] = Sign(rows[i].published) /\ key[j] = Sign(rows[j].published)
    BY <1>5
  <2> HIDE DEF key, ids
  <2> QED BY <2>1, <2>2 DEF Published
<1> HIDE DEF key
<1>7. ASSUME NEW table, DOMAIN table = D, NEW found,
             \A i \in ids : table[i].published = rows[i].published
      PROVE  FirstOf(InOrder(table, ids, newestFirst, found), limit) = FirstRows(found)
  <2>1. \A i, j \in ids :
           /\ Published(table, newestFirst, i, j) <=> key[i] < key[j]
           /\ table[i].published = table[j].published <=> key[i] = key[j]
    BY <1>6, <1>7 DEF Published
  <2> HIDE DEF ids
  <2>2. {pair \in ids \X ids :
           \/ Published(table, newestFirst, pair[1], pair[2])
           \/ /\ table[pair[1]].published = table[pair[2]].published
              /\ found[pair[1]] < found[pair[2]]} = Precedes(found)
    BY <2>1
  <2> QED BY <2>2 DEF InOrder
<1>8. ASSUME NEW found
      PROVE  ListShown(input, found) = FirstRows(found)
  <2>1. retain \cap DOMAIN rows = retain
    BY <1>3, <1>4
  <2>2. FirstOf(InOrder(rows, ids, newestFirst, found), limit) = FirstRows(found)
    BY <1>3, <1>7
  <2> HIDE DEF FirstRows
  <2> QED BY <1>2, <2>1, <2>2 DEF ListShown, SnapshotEntries
<1>9. ASSUME NEW found, NEW i \in ids, NEW status
      PROVE  ListAfterMark(input, i, status, found) = FirstRows(found)
  <2> DEFINE marked == [rows EXCEPT ![i].status = status]
  <2>1. /\ DOMAIN marked = D
        /\ \A j \in D : marked[j].published = rows[j].published
        /\ \A j \in D \ {i} : marked[j] = rows[j]
    BY <1>3, <1>4
  <2> HIDE DEF marked
  <2>2. Clause(marked, sel) \cup ((retain \cup {i}) \cap DOMAIN marked) = ids
    BY <1>3, <1>4, <2>1 DEF Clause
  <2>3. \A j \in ids : marked[j].published = rows[j].published
    BY <1>4, <2>1
  <2>4. ListAfterMark(input, i, status, found)
          = SnapshotEntries(marked, sel, newestFirst, retain \cup {i}, limit, found)
    BY <1>2 DEF ListAfterMark, marked
  <2> HIDE DEF FirstRows, ids, D
  <2>5. FirstOf(InOrder(marked, ids, newestFirst, found), limit) = FirstRows(found)
    BY <1>7, <2>1, <2>3
  <2> QED BY <2>2, <2>4, <2>5 DEF SnapshotEntries
<1>10. ASSUME NEW found \in Plans(rows)
       PROVE  /\ m \in Nat /\ Len(FirstRows(found)) = m /\ TakesFirst(FirstRows(found), m, ids, key)
              /\ Range(FirstRows(found)) \subseteq ids
              /\ \A i \in ids \ Range(FirstRows(found)) : m = limit
  <2> DEFINE list == FirstRows(found)
             before == Precedes(found)
  <2>1. found \in Injection(D, 1 .. MaxRows)
    BY <1>3 DEF Plans
  <2>2. \A i \in D : found[i] \in 1 .. MaxRows
    BY <2>1 DEF Injection
  <2>3. \A i, j \in D : found[i] = found[j] => i = j
    BY <2>1 DEF Injection, IsInjective
  <2>4. /\ \A i \in ids : found[i] \in Int
        /\ \A i, j \in ids : found[i] = found[j] => i = j
    BY <1>3, <1>4, <2>2, <2>3
  <2>5. list = FirstOf(Ranked(ids, before), limit)
    OBVIOUS
  <2> HIDE DEF list, ids, D
  <2>6. \A i, j \in ids : <<i, j>> \in before
           <=> key[i] < key[j] \/ (key[i] = key[j] /\ found[i] < found[j])
    OBVIOUS
  <2> HIDE DEF before
  <2>7. /\ Orders(before, ids)
        /\ \A i, j \in ids : <<i, j>> \in before => i # j /\ key[i] <= key[j]
    BY <1>5, <2>4, <2>6, KeyOrders
  <2>8. /\ m \in Nat /\ Len(list) = m /\ DOMAIN list = 1 .. Len(list)
        /\ \A p, q \in DOMAIN list : p < q => <<list[p], list[q]>> \in before
        /\ Range(list) \subseteq ids
        /\ \A i \in ids \ Range(list) :
             Len(list) = limit /\ \A j \in Range(list) : <<j, i>> \in before
    <3> HIDE DEF m
    <3>1. limit \in Nat /\ IsFiniteSet(ids)
      BY <1>3, <1>4
    <3>2. m = FirstCount(ids, limit)
      BY DEF m
    <3> QED BY <2>5, <2>7, <3>1, <3>2, FirstIs
  <2> HIDE DEF list, m
  <2>9. \A p \in 1 .. m : list[p] \in Range(list) /\ list[p] \in ids
    BY <2>8 DEF Range
  <2>10. TakesFirst(list, m, ids, key)
    BY <2>7, <2>8, <2>9 DEF TakesFirst
  <2> QED BY <2>8, <2>10 DEF list
<1> HIDE DEF FirstRows, m, ids
<1>11. ASSUME NEW found \in Plans(rows), NEW other \in Plans(rows)
       PROVE  Undisturbed(input, FirstRows(found), FirstRows(other))
  <2> DEFINE list == FirstRows(found)
             next == FirstRows(other)
  <2>1. /\ m \in Nat /\ Len(list) = m /\ Len(next) = m
        /\ TakesFirst(list, m, ids, key) /\ TakesFirst(next, m, ids, key)
        /\ Range(list) \subseteq ids /\ Range(next) \subseteq ids
    BY <1>10
  <2> HIDE DEF list, next
  <2>2. ASSUME NEW p \in DOMAIN list
        PROVE  rows[next[p]].published = rows[list[p]].published
    <3>1. p \in 1 .. m /\ list[p] \in ids /\ next[p] \in ids
      BY <2>1 DEF TakesFirst
    <3>2. key[next[p]] <= key[list[p]] /\ key[list[p]] <= key[next[p]]
      BY <1>5, <2>1, <3>1, NoneEarlier
    <3>3. key[next[p]] \in Int /\ key[list[p]] \in Int
      BY <1>5, <3>1
    <3>4. key[next[p]] = key[list[p]]
      BY <3>2, <3>3
    <3> QED BY <1>6, <3>1, <3>4
  <2>3. ASSUME NEW gone \in Range(list) \ Range(next)
        PROVE  \E new \in Range(next) \ Range(list) :
                  rows[new].published = rows[gone].published
    <3>1. PICK new \in Range(next) \ Range(list) : key[new] = key[gone]
      BY <1>5, <2>1, Displaced
    <3> QED BY <1>6, <2>1, <3>1
  <2>4. Undisturbed(input, list, next)
    BY <1>2, <2>1, <2>2, <2>3 DEF Undisturbed
  <2> QED BY <2>4 DEF list, next
<1>12. ASSUME NEW found \in Plans(rows)
       PROVE  CutAtTheEnd(input, FirstRows(found))
  <2> DEFINE list == FirstRows(found)
  <2>1. /\ m \in Nat /\ Len(list) = m /\ TakesFirst(list, m, ids, key)
        /\ Range(list) \subseteq ids
        /\ \A i \in ids \ Range(list) : m = limit
    BY <1>10
  <2> HIDE DEF list
  <2>2. ASSUME NEW i \in D \ Range(list), i \in retain \/ SelectionClause(sel, rows[i])
        PROVE  Len(list) = limit
               /\ \A j \in Range(list) : ~Published(rows, newestFirst, i, j)
    <3>1. i \in ids
      BY <1>3, <2>2 DEF ids, Clause
    <3>2. ASSUME NEW j \in Range(list)
          PROVE  ~Published(rows, newestFirst, i, j)
      <4>1. PICK p \in 1 .. m : list[p] = j
        BY <2>1 DEF Range, TakesFirst
      <4>2. key[j] <= key[i]
        BY <2>1, <2>2, <3>1, <4>1 DEF TakesFirst
      <4>3. j \in ids /\ key[i] \in Int /\ key[j] \in Int
        BY <1>5, <2>1, <3>1
      <4> QED BY <1>6, <3>1, <4>2, <4>3
    <3> QED BY <2>1, <2>2, <3>1, <3>2
  <2>3. CutAtTheEnd(input, list)
    <3> HIDE DEF D
    <3> QED BY <1>2, <1>3, <2>2 DEF CutAtTheEnd
  <2> QED BY <2>3 DEF list
<1>13. \A found \in Plans(rows) : Range(ListShown(input, found)) \subseteq ids
  BY <1>8, <1>10
<1>14. ASSUME NEW found \in Plans(rows), NEW i \in Range(ListShown(input, found)), NEW status
       PROVE  ListAfterMark(input, i, status, found) = ListShown(input, found)
  BY <1>8, <1>9, <1>13
<1>15. ASSUME NEW list \in {ListShown(input, found) : found \in Plans(rows)}
       PROVE  /\ CutAtTheEnd(input, list)
              /\ \A i \in Range(list), status \in {"read", "unread"} :
                 \A next \in {ListAfterMark(input, i, status, found) : found \in Plans(rows)} :
                    Undisturbed(input, list, next)
  <2>1. PICK found \in Plans(rows) : list = ListShown(input, found)
    OBVIOUS
  <2>2. list = FirstRows(found)
    BY <1>8, <2>1
  <2>3. CutAtTheEnd(input, list)
    BY <1>12, <2>2
  <2>4. ASSUME NEW i \in Range(list), NEW status, NEW other \in Plans(rows)
        PROVE  Undisturbed(input, list, ListAfterMark(input, i, status, other))
    <3>1. i \in ids
      BY <1>13, <2>1, <2>4
    <3>2. ListAfterMark(input, i, status, other) = FirstRows(other)
      BY <1>9, <3>1
    <3> QED BY <1>11, <2>2, <3>2
  <2> QED BY <2>3, <2>4
<1> QED BY <1>2, <1>14, <1>15 DEF ListStandsStill, StandsStill

-----------------------------------------------------------------------------
(* The sorted items are those of the positions, each once, the one with    *)
(* the smaller title, or the same one and the smaller position, first.     *)
Sorts(r, n, items, S) ==
    /\ DOMAIN SortByTitle(items, S) = 1 .. n
    /\ \A p \in 1 .. n : SortByTitle(items, S)[p] = items[r[p]] /\ r[p] \in S
    /\ \A i \in S : \E p \in 1 .. n : r[p] = i
    /\ \A p, q \in 1 .. n : p < q => Before(items, r[p], r[q])
    /\ \A p, q \in 1 .. n : r[p] = r[q] => p = q

(* There is such an order.                                                 *)
LEMMA SortIs ==
    ASSUME NEW items, NEW S, IsFiniteSet(S), S \subseteq Int,
           \A i \in S : items[i].title.key \in Int
    PROVE  \E n \in Nat : \E r : Sorts(r, n, items, S)
<1> DEFINE before == {pair \in S \X S : Before(items, pair[1], pair[2])}
           n == Cardinality(S)
           r == Ranked(S, before)
<1>1. \A i, j \in S : <<i, j>> \in before <=> Before(items, i, j)
  OBVIOUS
<1> HIDE DEF before
<1>2. Orders(before, S)
  <2>1. \A i \in S : i \in Int
    OBVIOUS
  <2>2. \A i \in S : ~Before(items, i, i)
    BY <2>1 DEF Before
  <2>3. \A i, j \in S : i # j => Before(items, i, j) \/ Before(items, j, i)
    BY <2>1 DEF Before
  <2>4. \A i, j, k \in S : Before(items, i, j) /\ Before(items, j, k) => Before(items, i, k)
    <3> SUFFICES ASSUME NEW i \in S, NEW j \in S, NEW k \in S,
                        Before(items, i, j), Before(items, j, k)
                 PROVE  Before(items, i, k)
      OBVIOUS
    <3> DEFINE a == items[i].title.key  b == items[j].title.key  c == items[k].title.key
    <3>1. a \in Int /\ b \in Int /\ c \in Int /\ i \in Int /\ j \in Int /\ k \in Int
      BY <2>1
    <3>2. (a < b \/ (a = b /\ i < j)) /\ (b < c \/ (b = c /\ j < k))
      BY DEF Before
    <3> HIDE DEF a, b, c
    <3>3. a < c \/ (a = c /\ i < k)
      BY <3>1, <3>2
    <3> QED BY <3>3 DEF Before, a, c
  <2> QED BY <1>1, <2>2, <2>3, <2>4 DEF Orders
<1>3. /\ n \in Nat /\ r \in [1 .. n -> S]
      /\ \A i \in S : \E p \in 1 .. n : r[p] = i
      /\ \A p, q \in 1 .. n : p < q <=> <<r[p], r[q]>> \in before
  BY <1>2, RankedIs
<1>0. n \in Nat
  BY <1>3
<1>4. /\ DOMAIN SortByTitle(items, S) = 1 .. n
      /\ \A p \in 1 .. n : SortByTitle(items, S)[p] = items[r[p]]
  <2>1. SortByTitle(items, S) = [p \in DOMAIN r |-> items[r[p]]]
    BY DEF SortByTitle, before
  <2> HIDE DEF r, n
  <2>2. DOMAIN r = 1 .. n
    BY <1>3
  <2> QED BY <2>1, <2>2
<1> HIDE DEF r, n
<1>5. \A p, q \in 1 .. n : r[p] = r[q] => p = q
  <2> SUFFICES ASSUME NEW p \in 1 .. n, NEW q \in 1 .. n, r[p] = r[q], p # q PROVE FALSE
    OBVIOUS
  <2>1. p < q \/ q < p
    BY <1>3
  <2>2. <<r[p], r[p]>> \in before /\ r[p] \in S
    BY <1>3, <2>1
  <2> QED BY <1>2, <2>2 DEF Orders
<1>6. \A p, q \in 1 .. n : p < q => Before(items, r[p], r[q])
  BY <1>1, <1>3
<1>7. \A p \in 1 .. n : r[p] \in S
  BY <1>3
<1>8. Sorts(r, n, items, S)
  BY <1>3, <1>4, <1>5, <1>6, <1>7 DEF Sorts
<1> QED BY <1>0, <1>8

(* The parent of a feed is a category with the id it names.                *)
LEMMA ParentIs ==
    ASSUME NEW categories, NEW m \in Nat, DOMAIN categories = 1 .. m, NEW feed,
           HasParent(categories, feed)
    PROVE  LET i == Parent(categories, feed)
           IN  i \in 1 .. m /\ categories[i].id = feed.category_id
<1> DEFINE same == {i \in 1 .. m : categories[i].id = feed.category_id}
<1>1. same \in SUBSET (1 .. m) /\ same # {} /\ 1 \in Int /\ m \in Int
  BY DEF HasParent
<1>2. Max(same) \in same /\ \A j \in same : Max(same) >= j
  <2> HIDE DEF same
  <2> QED BY <1>1, Extremes
<1>3. \A j \in 1 .. m : j \in Int
  OBVIOUS
<1>4. \E i \in DOMAIN categories :
        /\ categories[i].id = feed.category_id
        /\ \A j \in DOMAIN categories : categories[j].id = feed.category_id => j <= i
  BY <1>2, <1>3
<1> QED BY <1>4 DEF Parent

(* Feeds of a navigation, which have ids of their own.                     *)
Numbered(feeds) ==
    /\ Len(feeds) \in Nat /\ DOMAIN feeds = 1 .. Len(feeds)
    /\ \A f \in DOMAIN feeds : feeds[f].id = f /\ feeds[f].title.key \in Int

(* The running sum of the unread counters is the number of unread articles *)
(* of the feeds.                                                           *)
LEMMA TotalIs ==
    ASSUME NEW feeds, Numbered(feeds),
           NEW counters, \A id \in DOMAIN counters : counters[id] \in Nat,
           NEW S, S \subseteq DOMAIN feeds,
           NEW G, \A x : x \in G <=> \E f \in S : x = feeds[f]
    PROVE  Total(counters, feeds, S) = Cardinality(Articles(G, counters))
<1> DEFINE n == Len(feeds)
           c(k) == UnreadOf(counters, feeds[k])
           block(k) == {feeds[k]} \X (1 .. c(k))
           U(k) == UNION {block(j) : j \in {i \in S : i <= k}}
           g == [k \in 0 .. n |-> Cardinality(U(k))]
           at(f, k) == IF k = 0 THEN 0 ELSE f[k - 1] + IF k \in S THEN c(k) ELSE 0
           step(f) == [k \in 0 .. n |-> at(f, k)]
           sum == CHOOSE f : f = step(f)
<1>a. /\ n \in Nat /\ DOMAIN feeds = 1 .. n
      /\ \A f \in 1 .. n : feeds[f].id = f
      /\ S \in SUBSET (1 .. n)
  BY DEF Numbered
<1> HIDE DEF n
<1> USE <1>a
<1>1. \A k \in 1 .. n : c(k) \in Nat
  BY DEF UnreadOf
<1>2. ASSUME NEW k \in 1 .. n
      PROVE  IsFiniteSet(block(k)) /\ Cardinality(block(k)) = c(k)
  <2> DEFINE a == c(k)  x == feeds[k]
  <2>1. a \in Nat
    BY <1>1
  <2> HIDE DEF a, x
  <2>2. IsFiniteSet(1 .. a) /\ Cardinality(1 .. a) = IF 1 > a THEN 0 ELSE a - 1 + 1
    <3>1. 1 \in Int /\ a \in Int
      BY <2>1
    <3> QED BY <3>1, FS_Interval
  <2>3. Cardinality(1 .. a) = a
    BY <2>1, <2>2
  <2>4. IsFiniteSet({x}) /\ Cardinality({x}) = 1
    BY FS_Singleton
  <2>5. IsFiniteSet({x} \X (1 .. a))
        /\ Cardinality({x} \X (1 .. a)) = Cardinality({x}) * Cardinality(1 .. a)
    BY <2>2, <2>4, FS_Product
  <2>6. Cardinality({x} \X (1 .. a)) = a
    BY <2>1, <2>3, <2>4, <2>5
  <2> QED BY <2>5, <2>6 DEF a, x
<1>0. \A i \in S : i \in 1 .. n /\ i \in Int /\ i >= 1 /\ i <= n
  <2>1. \A i \in 1 .. n : i \in Int /\ i >= 1 /\ i <= n
    OBVIOUS
  <2> QED BY <2>1
<1>3. U(0) = {}
  <2>0. \A i \in S : ~(i <= 0)
    <3> SUFFICES ASSUME NEW i \in S PROVE ~(i <= 0)
      OBVIOUS
    <3>1. i \in Int /\ i >= 1
      BY <1>0
    <3> QED BY <3>1
  <2>1. {i \in S : i <= 0} = {}
    BY <2>0
  <2> HIDE DEF block
  <2>2. {block(j) : j \in {i \in S : i <= 0}} = {}
    BY <2>1
  <2> QED BY <2>2
<1>4. ASSUME NEW k \in 1 .. n
      PROVE  /\ k \notin S => U(k) = U(k - 1)
             /\ k \in S => U(k) = U(k - 1) \cup block(k) /\ U(k - 1) \cap block(k) = {}
  <2>1. \A i \in S : i \in Int /\ (i <= k <=> i <= k - 1 \/ i = k)
    BY <1>0
  <2>2. {i \in S : i <= k} = {i \in S : i <= k - 1} \cup (S \cap {k})
    BY <2>1
  <2>3. ASSUME NEW x \in U(k - 1) PROVE x \notin block(k)
    <3>1. PICK i \in S : i <= k - 1 /\ x \in block(i)
      OBVIOUS
    <3>2. x[1] = feeds[i] /\ i # k /\ i \in 1 .. n
      BY <3>1
    <3>3. feeds[i] # feeds[k]
      BY <3>2
    <3> QED BY <3>2, <3>3
  <2> HIDE DEF block
  <2>4. k \notin S => {i \in S : i <= k} = {i \in S : i <= k - 1}
    BY <2>2
  <2>5. k \in S => {i \in S : i <= k} = {i \in S : i <= k - 1} \cup {k}
    BY <2>2
  <2>6. k \in S => U(k) = U(k - 1) \cup block(k)
    BY <2>5
  <2> QED BY <2>3, <2>4, <2>6
<1> HIDE DEF block, U
<1>5. \A k \in 1 .. n : k - 1 \in 0 .. n /\ k \in 0 .. n /\ k - 1 < k
  OBVIOUS
<1>6. \A k \in 0 .. n : IsFiniteSet(U(k))
  <2> DEFINE wrong == {k \in 0 .. n : ~IsFiniteSet(U(k))}
  <2> SUFFICES ASSUME wrong # {} PROVE FALSE
    OBVIOUS
  <2>1. wrong \in SUBSET (0 .. n) /\ 0 \in Int /\ n \in Int
    OBVIOUS
  <2> DEFINE k == Min(wrong)
  <2>2. k \in wrong /\ \A y \in wrong : k <= y
    <3> HIDE DEF wrong
    <3> QED BY <2>1, Extremes
  <2> HIDE DEF k
  <2>3. k # 0
    BY <1>3, <2>2, FS_EmptySet
  <2>4. k \in 1 .. n
    BY <2>2, <2>3
  <2>5. IsFiniteSet(U(k - 1))
    BY <2>2, <2>4
  <2>6. IsFiniteSet(U(k))
    <3>1. CASE k \notin S
      BY <1>4, <2>4, <2>5, <3>1
    <3>2. CASE k \in S
      <4>1. IsFiniteSet(block(k)) /\ U(k) = U(k - 1) \cup block(k)
        BY <1>2, <1>4, <2>4, <3>2
      <4> DEFINE A == U(k - 1)  B == block(k)
      <4>2. IsFiniteSet(A) /\ IsFiniteSet(B)
        BY <2>5, <4>1
      <4> HIDE DEF A, B
      <4>3. IsFiniteSet(A \cup B)
        BY <4>2, FS_Union
      <4> QED BY <4>1, <4>3 DEF A, B
    <3> QED BY <3>1, <3>2
  <2> QED BY <2>2, <2>6
<1>7. \A k \in 0 .. n : g[k] = Cardinality(U(k)) /\ g[k] \in Nat
  BY <1>6, FS_CardinalityType
<1>8. ASSUME NEW k \in 0 .. n PROVE at(g, k) = g[k]
  <2>1. CASE k = 0
    BY <1>3, <1>7, <2>1, FS_EmptySet
  <2>2. CASE k # 0
    <3>1. k \in 1 .. n
      BY <2>2
    <3>2. g[k - 1] = Cardinality(U(k - 1)) /\ g[k - 1] \in Nat /\ IsFiniteSet(U(k - 1))
      BY <1>5, <1>6, <1>7, <3>1
    <3>3. CASE k \notin S
      BY <1>4, <1>7, <2>2, <3>1, <3>2, <3>3
    <3>4. CASE k \in S
      <4> DEFINE A == U(k - 1)  B == block(k)
      <4>1. /\ IsFiniteSet(A) /\ IsFiniteSet(B) /\ A \cap B = {} /\ U(k) = A \cup B
            /\ Cardinality(B) = c(k) /\ Cardinality(A) = g[k - 1]
        BY <1>2, <1>4, <3>1, <3>2, <3>4
      <4> HIDE DEF A, B
      <4>2. Cardinality(A \cup B) = Cardinality(A) + Cardinality(B) - Cardinality(A \cap B)
        BY <4>1, FS_Union
      <4>3. Cardinality(A \cap B) = 0
        BY <4>1, FS_EmptySet
      <4>4. g[k] = Cardinality(A \cup B)
        BY <1>7, <4>1
      <4>5. c(k) \in Nat
        BY <1>1, <3>1
      <4> HIDE DEF g, c
      <4> QED BY <2>2, <3>2, <3>4, <4>1, <4>2, <4>3, <4>4, <4>5
    <3> QED BY <3>3, <3>4
  <2> QED BY <2>1, <2>2
<1>9. g = step(g)
  BY <1>8
<1>10. sum = step(sum)
  BY <1>9
<1> HIDE DEF sum
<1>11. \A k \in 0 .. n : sum[k] = at(sum, k)
  BY <1>10
<1>12. \A k \in 0 .. n : sum[k] = g[k]
  <2> DEFINE wrong == {k \in 0 .. n : sum[k] # g[k]}
  <2> SUFFICES ASSUME wrong # {} PROVE FALSE
    OBVIOUS
  <2>1. wrong \in SUBSET (0 .. n) /\ 0 \in Int /\ n \in Int
    OBVIOUS
  <2> DEFINE k == Min(wrong)
  <2>2. k \in wrong /\ \A y \in wrong : k <= y
    <3> HIDE DEF wrong
    <3> QED BY <2>1, Extremes
  <2> HIDE DEF k
  <2>3. k \in 0 .. n /\ sum[k] # g[k]
    BY <2>2
  <2>4. k # 0 => sum[k - 1] = g[k - 1]
    <3>1. k # 0 => k \in 1 .. n
      BY <2>3
    <3> QED BY <1>5, <2>2, <3>1
  <2> HIDE DEF g, c
  <2>5. at(sum, k) = at(g, k)
    BY <2>4
  <2> HIDE DEF at
  <2> QED BY <1>8, <1>11, <2>3, <2>5
<1>13. Total(counters, feeds, S) = sum[n]
  BY DEF Total, sum, n
<1>14. n \in 0 .. n
  OBVIOUS
<1>15. U(n) = Articles(G, counters)
  <2>0. G = {feeds[f] : f \in S}
    OBVIOUS
  <2>1. {i \in S : i <= n} = S
    BY <1>0
  <2> DEFINE of(f) == {f} \X (1 .. UnreadOf(counters, f))
  <2>3. \A j \in S : block(j) = of(feeds[j])
    BY DEF block
  <2>4. Articles(G, counters) = UNION {of(f) : f \in {feeds[i] : i \in S}}
    BY <2>0 DEF Articles, UnreadOf
  <2> HIDE DEF of
  <2>2. {block(j) : j \in S} = {of(f) : f \in {feeds[i] : i \in S}}
    BY <2>3
  <2> QED BY <2>1, <2>2, <2>4 DEF U
<1> QED BY <1>7, <1>12, <1>13, <1>14, <1>15

(* A category of the navigation holds its feeds, each once and in order,   *)
(* and counts their articles.                                              *)
LEMMA CategoryIs ==
    ASSUME NEW feeds, Numbered(feeds),
           NEW counters, \A id \in DOMAIN counters : counters[id] \in Nat,
           NEW S, S \subseteq DOMAIN feeds
    PROVE  LET shown == SortByTitle(feeds, S)
           IN  /\ \A x : x \in Range(shown) <=> \E f \in S : x = feeds[f]
               /\ \A p, q \in DOMAIN shown : shown[p] = shown[q] => p = q
               /\ Sorted(shown, feeds)
               /\ Total(counters, feeds, S) = Cardinality(Articles(Range(shown), counters))
<1> DEFINE shown == SortByTitle(feeds, S)
<1>1. /\ IsFiniteSet(S) /\ S \subseteq Int
      /\ \A f \in DOMAIN feeds : feeds[f].id = f /\ feeds[f].title.key \in Int
  <2>1. 1 \in Int /\ Len(feeds) \in Int
    BY DEF Numbered
  <2>2. IsFiniteSet(1 .. Len(feeds))
    BY <2>1, FS_Interval
  <2>3. IsFiniteSet(DOMAIN feeds)
    BY <2>2 DEF Numbered
  <2>4. IsFiniteSet(S)
    BY <2>3, FS_Subset
  <2>5. \A f \in DOMAIN feeds : f \in Int
    BY <2>1 DEF Numbered
  <2>6. \A f \in DOMAIN feeds : feeds[f].id = f /\ feeds[f].title.key \in Int
    BY DEF Numbered
  <2> QED BY <2>4, <2>5, <2>6
<1>2. PICK c \in Nat : \E r : Sorts(r, c, feeds, S)
  <2>1. \A i \in S : feeds[i].title.key \in Int
    BY <1>1
  <2> QED BY <1>1, <2>1, SortIs
<1> DEFINE P == 1 .. c
<1>3. PICK r :
         /\ DOMAIN shown = P /\ \A p \in P : shown[p] = feeds[r[p]] /\ r[p] \in S
         /\ \A i \in S : \E p \in P : r[p] = i
         /\ \A p, q \in P : p < q => Before(feeds, r[p], r[q])
         /\ \A p, q \in P : r[p] = r[q] => p = q
  BY <1>2 DEF Sorts
<1> HIDE DEF shown
<1> HIDE DEF P
<1>4. \A x : x \in Range(shown) <=> \E f \in S : x = feeds[f]
  BY <1>3 DEF Range
<1>5. \A p, q \in DOMAIN shown : shown[p] = shown[q] => p = q
  <2> SUFFICES ASSUME NEW p \in P, NEW q \in P, shown[p] = shown[q] PROVE p = q
    BY <1>3
  <2>1. r[p] \in DOMAIN feeds /\ r[q] \in DOMAIN feeds /\ feeds[r[p]] = feeds[r[q]]
    BY <1>3
  <2>2. r[p] = r[q]
    BY <1>1, <2>1
  <2> QED BY <1>3, <2>2
<1>6. Sorted(shown, feeds)
  <2> SUFFICES ASSUME NEW p \in P, NEW q \in P, p < q
               PROVE  \/ shown[p].title.key < shown[q].title.key
                      \/ /\ shown[p].title.key = shown[q].title.key
                         /\ \E i, j \in DOMAIN feeds :
                              /\ i < j
                              /\ feeds[i].title = shown[p].title /\ feeds[i].id = shown[p].id
                              /\ feeds[j].title = shown[q].title /\ feeds[j].id = shown[q].id
    BY <1>3 DEF Sorted
  <2>1. Before(feeds, r[p], r[q]) /\ r[p] \in DOMAIN feeds /\ r[q] \in DOMAIN feeds
    BY <1>3
  <2> QED BY <1>3, <2>1 DEF Before
<1>7. Total(counters, feeds, S) = Cardinality(Articles(Range(shown), counters))
  BY <1>4, TotalIs
<1> QED BY <1>4, <1>5, <1>6, <1>7 DEF shown

(* Categories of a navigation, of which some may share an id.              *)
Titled(categories) ==
    /\ Len(categories) \in Nat /\ DOMAIN categories = 1 .. Len(categories)
    /\ \A i \in DOMAIN categories : categories[i].title.key \in Int

(* The navigation shows and counts every feed of a known category once.    *)
LEMMA NavigationIs ==
    ASSUME NEW categories, Titled(categories), NEW feeds, Numbered(feeds),
           NEW counters, \A id \in DOMAIN counters : counters[id] \in Nat
    PROVE  Tells(BuildNavigation(categories, feeds, counters), categories, feeds, counters)
<1> DEFINE C == DOMAIN categories
           D == DOMAIN feeds
           F(i) == FeedsOf(categories, feeds, i)
           all == Counted(categories, feeds)
           Node(i) == [id |-> categories[i].id, title |-> categories[i].title,
                       unread_count |-> Total(counters, feeds, F(i)),
                       feeds |-> SortByTitle(feeds, F(i))]
           nodes == [i \in C |-> Node(i)]
           nav == BuildNavigation(categories, feeds, counters)
           cats == nav.categories
<1>1. \A f, g \in D : feeds[f] = feeds[g] => f = g
  <2>1. \A f \in D : feeds[f].id = f
    BY DEF Numbered
  <2> HIDE DEF D
  <2> QED BY <2>1
<1>2. \A f \in D : f \in all <=> \E i \in C : categories[i].id = feeds[f].category_id
  BY DEF Counted, HasParent
<1>3. all \subseteq D /\ \A i : F(i) \subseteq D
  BY DEF Counted, FeedsOf
<1>4. \A i, f : f \in F(i) => i \in C /\ f \in all /\ categories[i].id = feeds[f].category_id
  <2> SUFFICES ASSUME NEW i, NEW f \in F(i)
               PROVE  i \in C /\ f \in all /\ categories[i].id = feeds[f].category_id
    OBVIOUS
  <2>1. f \in all /\ HasParent(categories, feeds[f]) /\ Parent(categories, feeds[f]) = i
    BY DEF FeedsOf, Counted
  <2>2. i \in C /\ categories[i].id = feeds[f].category_id
    BY <2>1, ParentIs DEF Titled
  <2> QED BY <2>1, <2>2
<1>5. \A i, j, f : f \in F(i) /\ f \in F(j) => i = j
  BY DEF FeedsOf
<1>6. \A f \in all : \E i \in C : f \in F(i)
  <2> SUFFICES ASSUME NEW f \in all PROVE \E i \in C : f \in F(i)
    OBVIOUS
  <2> DEFINE i == Parent(categories, feeds[f])
  <2>1. f \in F(i)
    BY DEF FeedsOf
  <2> HIDE DEF i, F
  <2> QED BY <1>4, <2>1
<1>7. nodes = [i \in DOMAIN categories |-> Node(i)] /\ DOMAIN nodes = C
  OBVIOUS
<1>8. nav = [categories |-> SortByTitle(nodes, C),
             unread_total |-> Total(counters, feeds, all)]
  BY <1>7 DEF BuildNavigation
<1>9. nav.unread_total = Total(counters, feeds, all) /\ cats = SortByTitle(nodes, C)
  <2> HIDE DEF nav, all, nodes, C
  <2> QED BY <1>8
<1> HIDE DEF nav, all, F
<1>10. \A i \in C : /\ nodes[i].id = categories[i].id
                    /\ nodes[i].title = categories[i].title
                    /\ nodes[i].unread_count = Total(counters, feeds, F(i))
                    /\ nodes[i].feeds = SortByTitle(feeds, F(i))
  OBVIOUS
<1> HIDE DEF nodes
<1>11. /\ IsFiniteSet(C) /\ C \subseteq Int
       /\ \A i \in C : nodes[i].title.key \in Int
  <2>1. 1 \in Int /\ Len(categories) \in Int /\ C = 1 .. Len(categories)
    BY DEF Titled
  <2>2. IsFiniteSet(1 .. Len(categories))
    BY <2>1, FS_Interval
  <2>3. IsFiniteSet(C) /\ C \subseteq Int
    BY <2>1, <2>2
  <2>4. \A i \in C : categories[i].title.key \in Int
    BY DEF Titled
  <2> HIDE DEF C
  <2> QED BY <1>10, <2>3, <2>4
<1> HIDE DEF C, D
<1>12. PICK c \in Nat : \E r : Sorts(r, c, nodes, C)
  BY <1>11, SortIs
<1> DEFINE P == 1 .. c
<1>13. PICK r :
         /\ DOMAIN cats = P /\ \A p \in P : cats[p] = nodes[r[p]] /\ r[p] \in C
         /\ \A i \in C : \E p \in P : r[p] = i
         /\ \A p, q \in P : p < q => Before(nodes, r[p], r[q])
         /\ \A p, q \in P : r[p] = r[q] => p = q
  BY <1>9, <1>12 DEF Sorts
<1> HIDE DEF P, cats
<1>14. ASSUME NEW i \in C
       PROVE  /\ \A x : x \in Range(nodes[i].feeds) <=> \E f \in F(i) : x = feeds[f]
              /\ \A p, q \in DOMAIN nodes[i].feeds :
                   nodes[i].feeds[p] = nodes[i].feeds[q] => p = q
              /\ Sorted(nodes[i].feeds, feeds)
              /\ nodes[i].unread_count
                   = Cardinality(Articles(Range(nodes[i].feeds), counters))
  <2>1. F(i) \subseteq DOMAIN feeds
    BY <1>3 DEF D
  <2>2. LET shown == SortByTitle(feeds, F(i))
        IN  /\ \A x : x \in Range(shown) <=> \E f \in F(i) : x = feeds[f]
            /\ \A p, q \in DOMAIN shown : shown[p] = shown[q] => p = q
            /\ Sorted(shown, feeds)
            /\ Total(counters, feeds, F(i)) = Cardinality(Articles(Range(shown), counters))
    BY <2>1, CategoryIs
  <2> QED BY <1>10, <2>2
<1>15. \A x : x \in Range(feeds) <=> \E f \in D : x = feeds[f]
  BY DEF Range, D
<1> DEFINE Known(f) == \E p \in DOMAIN cats : cats[p].id = f.category_id
<1>16. \A f \in D : Known(feeds[f]) <=> f \in all
  <2>1. \A f \in D : Known(feeds[f]) <=> \E i \in C : categories[i].id = feeds[f].category_id
    BY <1>10, <1>13
  <2> HIDE DEF Known
  <2> QED BY <1>2, <2>1
<1>17. ASSUME NEW f \in D, NEW i \in C
       PROVE  (\E k \in DOMAIN nodes[i].feeds : nodes[i].feeds[k] = feeds[f]) <=> f \in F(i)
  <2>1. (\E k \in DOMAIN nodes[i].feeds : nodes[i].feeds[k] = feeds[f])
          <=> feeds[f] \in Range(nodes[i].feeds)
    BY DEF Range
  <2>2. feeds[f] \in Range(nodes[i].feeds) <=> \E g \in F(i) : feeds[f] = feeds[g]
    BY <1>14
  <2> QED BY <1>1, <1>3, <2>1, <2>2
<1>18. ASSUME NEW f \in D
       PROVE  Known(feeds[f]) <=> \E p \in DOMAIN cats : \E k \in DOMAIN cats[p].feeds :
                                     cats[p].feeds[k] = feeds[f]
  <2>1. f \in all <=> \E i \in C : f \in F(i)
    BY <1>4, <1>6
  <2>2. (\E p \in DOMAIN cats : \E k \in DOMAIN cats[p].feeds : cats[p].feeds[k] = feeds[f])
          <=> \E i \in C : \E k \in DOMAIN nodes[i].feeds : nodes[i].feeds[k] = feeds[f]
    BY <1>13
  <2> HIDE DEF Known
  <2> QED BY <1>16, <1>17, <2>1, <2>2
<1>19. ASSUME NEW f \in D, NEW p \in DOMAIN cats, NEW q \in DOMAIN cats,
              NEW k \in DOMAIN cats[p].feeds, NEW l \in DOMAIN cats[q].feeds,
              cats[p].feeds[k] = feeds[f], cats[q].feeds[l] = feeds[f]
       PROVE  p = q /\ k = l
  <2>1. /\ p \in P /\ q \in P /\ cats[p] = nodes[r[p]] /\ cats[q] = nodes[r[q]]
        /\ r[p] \in C /\ r[q] \in C
    BY <1>13
  <2>2. f \in F(r[p]) /\ f \in F(r[q])
    BY <1>17, <1>19, <2>1
  <2>3. p = q
    BY <1>5, <1>13, <2>1, <2>2
  <2>4. k = l
    BY <1>14, <1>19, <2>1, <2>3
  <2> QED BY <2>3, <2>4
<1>20. ASSUME NEW p \in DOMAIN cats
       PROVE  /\ \A f \in Range(cats[p].feeds) :
                   f \in Range(feeds) /\ f.category_id = cats[p].id
              /\ cats[p].unread_count = Cardinality(Articles(Range(cats[p].feeds), counters))
              /\ Sorted(cats[p].feeds, feeds)
  <2>1. cats[p] = nodes[r[p]] /\ r[p] \in C
    BY <1>13
  <2>2. \A x : x \in Range(cats[p].feeds) <=> \E f \in F(r[p]) : x = feeds[f]
    BY <1>14, <2>1
  <2>3. \A f \in F(r[p]) : f \in D /\ feeds[f].category_id = cats[p].id
    BY <1>3, <1>4, <1>10, <2>1
  <2>4. \A f \in Range(cats[p].feeds) : f \in Range(feeds) /\ f.category_id = cats[p].id
    BY <1>15, <2>2, <2>3
  <2> QED BY <1>14, <2>1, <2>4
<1>21. nav.unread_total = Cardinality(Articles({f \in Range(feeds) : Known(f)}, counters))
  <2> DEFINE G == {f \in Range(feeds) : Known(f)}
  <2>1. \A x : x \in G <=> \E f \in all : x = feeds[f]
    <3> HIDE DEF Known
    <3> QED BY <1>3, <1>15, <1>16
  <2> HIDE DEF G
  <2>2. all \subseteq DOMAIN feeds
    BY <1>3 DEF D
  <2>3. Total(counters, feeds, all) = Cardinality(Articles(G, counters))
    BY <2>1, <2>2, TotalIs
  <2> QED BY <1>9, <2>3 DEF G
<1>22. Sorted(cats, categories)
  <2> SUFFICES ASSUME NEW p \in P, NEW q \in P, p < q
               PROVE  \/ cats[p].title.key < cats[q].title.key
                      \/ /\ cats[p].title.key = cats[q].title.key
                         /\ \E i, j \in C :
                              /\ i < j
                              /\ categories[i].title = cats[p].title
                              /\ categories[i].id = cats[p].id
                              /\ categories[j].title = cats[q].title
                              /\ categories[j].id = cats[q].id
    BY <1>13 DEF Sorted, C
  <2>1. Before(nodes, r[p], r[q]) /\ r[p] \in C /\ r[q] \in C
    BY <1>13
  <2> QED BY <1>10, <1>13, <2>1 DEF Before
<1> HIDE DEF Known
<1>23. \A g \in Range(feeds) :
          /\ Known(g) <=> \E p \in DOMAIN cats : \E k \in DOMAIN cats[p].feeds :
                             cats[p].feeds[k] = g
          /\ \A p, q \in DOMAIN cats :
             \A k \in DOMAIN cats[p].feeds, l \in DOMAIN cats[q].feeds :
               cats[p].feeds[k] = g /\ cats[q].feeds[l] = g => p = q /\ k = l
  <2> SUFFICES ASSUME NEW g \in Range(feeds)
      PROVE  /\ Known(g) <=> \E p \in DOMAIN cats : \E k \in DOMAIN cats[p].feeds :
                                cats[p].feeds[k] = g
             /\ \A p, q \in DOMAIN cats :
                \A k \in DOMAIN cats[p].feeds, l \in DOMAIN cats[q].feeds :
                  cats[p].feeds[k] = g /\ cats[q].feeds[l] = g => p = q /\ k = l
    OBVIOUS
  <2>1. PICK f \in D : g = feeds[f]
    BY <1>15
  <2>2. Known(g) <=> \E p \in DOMAIN cats : \E k \in DOMAIN cats[p].feeds :
                        cats[p].feeds[k] = g
    BY <1>18, <2>1
  <2>3. ASSUME NEW p \in DOMAIN cats, NEW q \in DOMAIN cats,
               NEW k \in DOMAIN cats[p].feeds, NEW l \in DOMAIN cats[q].feeds,
               cats[p].feeds[k] = g, cats[q].feeds[l] = g
        PROVE  p = q /\ k = l
    BY <1>19, <2>1, <2>3
  <2> QED BY <2>2, <2>3
<1> QED BY <1>20, <1>21, <1>22, <1>23 DEF Tells, Known, cats, nav

(* So it does for the inputs of the rule.                                  *)
LEMMA NavigationRule ==
    ASSUME RulesAssumption, kind = "navigation", NavigationInput
    PROVE  NavigationCounts
<1>1. PICK m \in 0 .. MaxCategories, n \in 0 .. MaxFeeds, counters \in UnreadCounters :
        \E ids \in [1 .. m -> FeedIds], names \in [1 .. m -> Titles],
           parents \in [1 .. n -> FeedIds \cup {0}], titles \in [1 .. n -> Titles] :
          input = [categories |-> [i \in 1 .. m |-> [id |-> ids[i], title |-> names[i]]],
                   feeds |-> [f \in 1 .. n |-> [id |-> f, title |-> titles[f],
                                                category_id |-> parents[f]]],
                   counters |-> counters]
  BY DEF NavigationInput
<1>2. PICK ids \in [1 .. m -> FeedIds], names \in [1 .. m -> Titles],
           parents \in [1 .. n -> FeedIds \cup {0}], titles \in [1 .. n -> Titles] :
          input = [categories |-> [i \in 1 .. m |-> [id |-> ids[i], title |-> names[i]]],
                   feeds |-> [f \in 1 .. n |-> [id |-> f, title |-> titles[f],
                                                category_id |-> parents[f]]],
                   counters |-> counters]
  BY <1>1
<1>3. /\ m \in Nat /\ n \in Nat /\ \A id \in DOMAIN counters : counters[id] \in Nat
      /\ \A t \in Titles : t.key \in Int
  BY DEF RulesAssumption
<1>4. Titled(input.categories)
  <2> DEFINE categories == input.categories
  <2>1. categories = [i \in 1 .. m |-> [id |-> ids[i], title |-> names[i]]]
    BY <1>2
  <2> HIDE DEF categories
  <2>2. /\ DOMAIN categories = 1 .. m /\ Len(categories) = m
        /\ \A i \in 1 .. m : categories[i].title = names[i] /\ names[i] \in Titles
    BY <1>3, <2>1
  <2>3. \A i \in 1 .. m : categories[i].title.key \in Int
    BY <1>3, <2>2
  <2> QED BY <1>3, <2>2, <2>3 DEF Titled, categories
<1>5. Numbered(input.feeds)
  <2> DEFINE feeds == input.feeds
  <2>1. feeds = [f \in 1 .. n |-> [id |-> f, title |-> titles[f], category_id |-> parents[f]]]
    BY <1>2
  <2> HIDE DEF feeds
  <2>2. /\ DOMAIN feeds = 1 .. n /\ Len(feeds) = n
        /\ \A f \in 1 .. n : /\ feeds[f].id = f /\ feeds[f].title = titles[f]
                             /\ titles[f] \in Titles
    BY <1>3, <2>1
  <2>3. \A f \in 1 .. n : feeds[f].title.key \in Int
    BY <1>3, <2>2
  <2> QED BY <1>3, <2>2, <2>3 DEF Numbered, feeds
<1>6. input.counters = counters
  BY <1>2
<1> QED BY <1>3, <1>4, <1>5, <1>6, NavigationIs DEF NavigationCounts

-----------------------------------------------------------------------------
(* What is written and read: tokens and numbers.                           *)
Written == Token \cup {Number}

(* The first place of a token from a place on.                             *)
LEMMA FindFromIs ==
    ASSUME NEW token, NEW t, Len(t) \in Nat, NEW i \in 1 .. Len(t) + 1
    PROVE  \/ /\ FindFrom(token, t, i) = 0
              /\ \A q \in i .. Len(t) : t[q] # token
           \/ /\ FindFrom(token, t, i) \in i .. Len(t)
              /\ t[FindFrom(token, t, i)] = token
              /\ \A q \in i .. FindFrom(token, t, i) - 1 : t[q] # token
<1> DEFINE n == Len(t)
           places == {p \in i .. n : t[p] = token}
<1>1. i \in Int /\ n \in Int /\ places \in SUBSET (i .. n)
  OBVIOUS
<1>2. FindFrom(token, t, i) =
        IF places = {} THEN 0 ELSE CHOOSE p \in places : \A q \in places : p <= q
  BY DEF FindFrom
<1>3. CASE places = {}
  BY <1>2, <1>3
<1>4. CASE places # {}
  <2>1. \E p \in places : \A q \in places : p <= q
    <3> DEFINE P == places
    <3> HIDE DEF P
    <3>1. P # {} => Min(P) \in P /\ \A y \in P : Min(P) <= y
      BY <1>1, Extremes DEF P
    <3> QED BY <1>4, <3>1 DEF P
  <2> DEFINE f == FindFrom(token, t, i)
  <2>2. f \in places /\ \A q \in places : f <= q
    BY <1>2, <1>4, <2>1
  <2> HIDE DEF f
  <2>3. f \in i .. n /\ t[f] = token
    BY <2>2
  <2>4. ASSUME NEW q \in i .. f - 1 PROVE t[q] # token
    <3>1. q \in i .. n /\ ~ (f <= q)
      BY <1>1, <2>3
    <3> QED BY <2>2, <3>1
  <2> QED BY <2>3, <2>4 DEF f
<1> QED BY <1>3, <1>4

(* What a template says from a place on.                                   *)
Rest(t, f, i) ==
    LET open == FindFrom(Open, t, i)
        close == IF open = 0 THEN 0 ELSE FindFrom(Close, t, open)
        inner == Slice(t, open + 1, close - 1)
        rest == Slice(t, i, Len(t))
    IN  IF open = 0 THEN rest
        ELSE IF close = 0 THEN rest \o rest
        ELSE Slice(t, i, open - 1)
             \o (IF inner = <<Count>> THEN <<Number>> ELSE Slice(t, open, close))
             \o f[AfterClosed(close)]
Fills(t, f, a) == f = [i \in a .. Len(t) + 1 |-> Rest(t, f, i)]

(* It rests on what the template says from later places on.                *)
LEMMA RestIs ==
    ASSUME NEW t, Len(t) \in Nat, NEW i \in 1 .. Len(t) + 1, NEW f, NEW g,
           \A j \in i + 1 .. Len(t) + 1 : f[j] = g[j]
    PROVE  Rest(t, f, i) = Rest(t, g, i)
<1> DEFINE open == FindFrom(Open, t, i)
           close == FindFrom(Close, t, open)
<1>1. CASE open = 0
  BY <1>1 DEF Rest
<1>2. CASE open # 0
  <2>1. open \in i .. Len(t)
    BY <1>2, FindFromIs
  <2> HIDE DEF open
  <2>2. close = 0 \/ close \in open .. Len(t)
    <3>1. open \in 1 .. Len(t) + 1
      BY <2>1
    <3> QED BY <3>1, FindFromIs
  <2> HIDE DEF close
  <2>3. close # 0 => close + 1 \in i + 1 .. Len(t) + 1
    BY <2>1, <2>2
  <2>4. close # 0 => f[AfterClosed(close)] = g[AfterClosed(close)]
    BY <2>3 DEF AfterClosed
  <2> USE DEF open, close
  <2> QED BY <2>4 DEF Rest
<1> QED BY <1>1, <1>2

(* The recursion of the template ends.                                     *)
LEMMA FilledIs ==
    ASSUME NEW t, Len(t) \in Nat
    PROVE  \E f : Fills(t, f, 1) /\ ApplyCountTemplate(t) = f[1]
<1> DEFINE N == Len(t)
           bad == {a \in 1 .. N + 1 : ~ \E f : Fills(t, f, a)}
<1>1. bad = {}
  <2> SUFFICES ASSUME bad # {} PROVE FALSE
    OBVIOUS
  <2>1. bad \in SUBSET (1 .. N + 1) /\ 1 \in Int /\ N + 1 \in Int
    OBVIOUS
  <2> DEFINE a == Max(bad)
  <2>2. a \in bad /\ \A y \in bad : a >= y
    <3> HIDE DEF bad
    <3> QED BY <2>1, Extremes
  <2> HIDE DEF a
  <2>3. a \in 1 .. N + 1 /\ ~ \E f : Fills(t, f, a)
    BY <2>2
  <2>4. PICK f : a < N + 1 => Fills(t, f, a + 1)
    <3>1. CASE a < N + 1
      <4>1. a + 1 \in 1 .. N + 1 /\ ~ (a >= a + 1)
        BY <2>3, <3>1
      <4>2. a + 1 \notin bad
        BY <2>2, <4>1
      <4> QED BY <4>1, <4>2
    <3> QED BY <3>1
  <2> DEFINE g == [i \in a .. N + 1 |-> IF i = a THEN Rest(t, f, a) ELSE f[i]]
  <2>5. ASSUME NEW i \in a .. N + 1 PROVE g[i] = Rest(t, g, i)
    <3>1. i \in 1 .. N + 1
      BY <2>3
    <3>2. \A j \in i + 1 .. N + 1 : j \in a .. N + 1 /\ j # a
      BY <2>3
    <3>3. \A j \in i + 1 .. N + 1 : f[j] = g[j]
      BY <3>2
    <3> HIDE DEF g
    <3>4. Rest(t, f, i) = Rest(t, g, i)
      BY <3>1, <3>3, RestIs
    <3>5. CASE i = a
      BY <3>4, <3>5 DEF g
    <3>6. CASE i # a
      <4>1. a < N + 1 /\ i \in a + 1 .. N + 1
        BY <2>3, <3>6
      <4>2. f[i] = Rest(t, f, i)
        BY <2>4, <4>1 DEF Fills
      <4> QED BY <3>4, <3>6, <4>2 DEF g
    <3> QED BY <3>5, <3>6
  <2>6. g = [i \in a .. N + 1 |-> g[i]]
    OBVIOUS
  <2> HIDE DEF g
  <2>7. Fills(t, g, a)
    BY <2>5, <2>6 DEF Fills
  <2> QED BY <2>3, <2>7
<1>2. 1 \in 1 .. N + 1
  OBVIOUS
<1>3. \E f : Fills(t, f, 1)
  BY <1>1, <1>2
<1> DEFINE filled == CHOOSE f : Fills(t, f, 1)
<1>4. ApplyCountTemplate(t) = filled[1]
  BY DEF ApplyCountTemplate, Fills, Rest
<1> QED BY <1>3, <1>4

(* The scan of a template, up to a token.                                  *)
Start == [inside |-> FALSE, held |-> <<>>, out |-> <<>>]
Scans(t, s, n) == s = [k \in 0 .. n |-> IF k = 0 THEN Start ELSE Read(s[k - 1], t[k])]

(* The recursion of the scan ends.                                         *)
LEMMA ScanIs ==
    ASSUME NEW t, Len(t) \in Nat
    PROVE  \E s : Scans(t, s, Len(t)) /\ Scan(t) = s[Len(t)]
<1> DEFINE N == Len(t)
           bad == {n \in 0 .. N : ~ \E s : Scans(t, s, n)}
<1>1. bad = {}
  <2> SUFFICES ASSUME bad # {} PROVE FALSE
    OBVIOUS
  <2>1. bad \in SUBSET (0 .. N) /\ 0 \in Int /\ N \in Int
    OBVIOUS
  <2> DEFINE n == Min(bad)
  <2>2. n \in bad /\ \A y \in bad : n <= y
    <3> HIDE DEF bad
    <3> QED BY <2>1, Extremes
  <2> HIDE DEF n
  <2>3. n \in 0 .. N /\ ~ \E s : Scans(t, s, n)
    BY <2>2
  <2>4. PICK s : n > 0 => Scans(t, s, n - 1)
    <3>1. CASE n > 0
      <4>1. n - 1 \in 0 .. N /\ ~ (n <= n - 1)
        BY <2>3, <3>1
      <4>2. n - 1 \notin bad
        BY <2>2, <4>1
      <4> QED BY <4>1, <4>2
    <3> QED BY <3>1
  <2> DEFINE next(u, k) == IF k = 0 THEN Start ELSE Read(u[k - 1], t[k])
             u == [k \in 0 .. n |-> IF k = n THEN next(s, n) ELSE s[k]]
  <2>5. ASSUME NEW k \in 0 .. n PROVE u[k] = next(u, k)
    <3>1. k # 0 => k - 1 \in 0 .. n /\ k - 1 # n
      BY <2>3
    <3>2. k # 0 => u[k - 1] = s[k - 1]
      BY <3>1
    <3>3. next(u, k) = next(s, k)
      <4> HIDE DEF u
      <4> QED BY <3>2
    <3>4. CASE k = n
      BY <3>3, <3>4
    <3>5. CASE k # n
      <4>1. n > 0 /\ k \in 0 .. n - 1
        BY <2>3, <3>5
      <4>2. s[k] = next(s, k)
        BY <2>4, <4>1 DEF Scans
      <4> HIDE DEF next
      <4> QED BY <3>3, <3>5, <4>2
    <3> QED BY <3>4, <3>5
  <2>6. u = [k \in 0 .. n |-> u[k]]
    OBVIOUS
  <2> HIDE DEF u
  <2>7. Scans(t, u, n)
    BY <2>5, <2>6 DEF Scans
  <2> QED BY <2>3, <2>7
<1>2. \E s : Scans(t, s, N)
  BY <1>1
<1> DEFINE after == CHOOSE s : Scans(t, s, N)
<1>3. Scan(t) = after[N]
  BY DEF Scan, Scans, Start
<1> QED BY <1>2, <1>3

(* What a token makes of a scan.                                           *)
LEMMA ReadIs ==
    ASSUME NEW r, NEW token
    PROVE  /\ ~r.inside /\ token = Open =>
                Read(r, token) = [inside |-> TRUE, held |-> <<Open>>, out |-> r.out]
           /\ ~r.inside /\ token # Open =>
                Read(r, token) = [inside |-> FALSE, held |-> <<>>, out |-> Append(r.out, token)]
           /\ r.inside /\ token = Close =>
                Read(r, token) = [inside |-> FALSE, held |-> <<>>, out |-> r.out \o
                       (IF r.held = <<Open, Count>> THEN <<Number>> ELSE Append(r.held, Close))]
           /\ r.inside /\ token # Close =>
                Read(r, token) =
                   [inside |-> TRUE, held |-> Append(r.held, token), out |-> r.out]
<1>1. CASE r.inside
  BY <1>1, Zenon DEF Read
<1>2. CASE ~r.inside
  BY <1>2, Zenon DEF Read
<1> QED BY <1>1, <1>2, Zenon

(* To append to two sequences is to append to the second.                  *)
LEMMA AppendJoined ==
    ASSUME NEW a \in Seq(Written), NEW b \in Seq(Written), NEW e \in Written
    PROVE  Append(a \o b, e) = a \o Append(b, e)
OBVIOUS

(* To write a slice and the token after it is to write the longer slice.   *)
LEMMA WrittenOn ==
    ASSUME NEW t \in Seq(Written), NEW a \in Seq(Written),
           NEW i \in 1 .. Len(t), NEW k \in i .. Len(t)
    PROVE  /\ SubSeq(t, i, k - 1) \in Seq(Written) /\ SubSeq(t, i, k) \in Seq(Written)
           /\ SubSeq(t, i, k) = Append(SubSeq(t, i, k - 1), t[k])
           /\ Append(a \o SubSeq(t, i, k - 1), t[k]) = a \o SubSeq(t, i, k)
<1> DEFINE b == SubSeq(t, i, k - 1)
           c == SubSeq(t, i, k)
<1>1. t[k] \in Written /\ k \in Int /\ i \in Int
  OBVIOUS
<1>2. \A q \in i .. k : t[q] \in Written
  OBVIOUS
<1>3. \A q \in i .. k - 1 : t[q] \in Written
  BY <1>1, <1>2
<1>4. b \in Seq(Written)
  BY <1>1, <1>3, SubSeqProperties
<1>5. c \in Seq(Written)
  BY <1>1, <1>2, SubSeqProperties
<1>6. c = b \o <<t[k]>>
  BY SubSeqRecursiveSecond
<1> HIDE DEF b, c
<1>7. Append(b, t[k]) = b \o <<t[k]>>
  BY <1>1, <1>4, AppendIsConcat
<1>8. Append(a \o b, t[k]) = a \o Append(b, t[k])
  BY <1>1, <1>4, AppendJoined
<1> QED BY <1>4, <1>5, <1>6, <1>7, <1>8 DEF b, c

(* A scan holds sequences of what is written.                              *)
State == [inside : BOOLEAN, held : Seq(Written), out : Seq(Written)]
LEMMA ScanType ==
    ASSUME NEW t \in Seq(Token), NEW s, Scans(t, s, Len(t))
    PROVE  \A k \in 0 .. Len(t) : s[k] \in State
<1> DEFINE N == Len(t)
           bad == {k \in 0 .. N : s[k] \notin State}
<1>1. N \in Nat
  OBVIOUS
<1> SUFFICES ASSUME bad # {} PROVE FALSE
  OBVIOUS
<1>2. bad \in SUBSET (0 .. N) /\ 0 \in Int /\ N \in Int
  BY <1>1
<1> DEFINE k == Min(bad)
<1>3. k \in bad /\ \A y \in bad : k <= y
  <2> HIDE DEF bad
  <2> QED BY <1>2, Extremes
<1> HIDE DEF k
<1>4. k \in 0 .. N /\ s[k] \notin State
  BY <1>3
<1>5. Start \in State
  BY DEF Start, State
<1>6. k # 0
  BY <1>4, <1>5 DEF Scans
<1>7. k - 1 \in 0 .. N /\ ~ (k <= k - 1) /\ k \in 1 .. N
  BY <1>1, <1>4, <1>6
<1>8. s[k - 1] \in State
  BY <1>3, <1>7
<1>9. t[k] \in Token
  BY <1>7
<1>10. s[k] = Read(s[k - 1], t[k])
  BY <1>4, <1>6 DEF Scans
<1>11. ASSUME NEW r \in State, NEW token \in Token PROVE Read(r, token) \in State
  <2>1. r.held \in Seq(Written) /\ r.out \in Seq(Written)
    BY DEF State
  <2>2. token \in Written /\ Open \in Written /\ Close \in Written /\ Number \in Written
    BY DEF Written, Token
  <2>3. \A q \in Seq(Written), e \in Written : Append(q, e) \in Seq(Written)
    OBVIOUS
  <2>4. <<Number>> \in Seq(Written) /\ <<Open>> \in Seq(Written) /\ <<>> \in Seq(Written)
    BY <2>2
  <2>5. \A p, q \in Seq(Written) : p \o q \in Seq(Written)
    BY ConcatProperties
  <2>6. Append(r.held, Close) \in Seq(Written) /\ Append(r.held, token) \in Seq(Written)
        /\ Append(r.out, token) \in Seq(Written)
    BY <2>1, <2>2, <2>3
  <2> DEFINE said == IF r.held = <<Open, Count>> THEN <<Number>> ELSE Append(r.held, Close)
  <2>7. r.out \o said \in Seq(Written)
    BY <2>1, <2>4, <2>5, <2>6
  <2> HIDE DEF said
  <2>8. \A b \in BOOLEAN, p, q \in Seq(Written) :
          [inside |-> b, held |-> p, out |-> q] \in State
    BY DEF State
  <2>9. \/ Read(r, token) = [inside |-> TRUE, held |-> <<Open>>, out |-> r.out]
        \/ Read(r, token) = [inside |-> FALSE, held |-> <<>>, out |-> Append(r.out, token)]
        \/ Read(r, token) = [inside |-> FALSE, held |-> <<>>, out |-> r.out \o said]
        \/ Read(r, token) = [inside |-> TRUE, held |-> Append(r.held, token), out |-> r.out]
    BY ReadIs, Zenon DEF said
  <2>10. TRUE \in BOOLEAN /\ FALSE \in BOOLEAN
    OBVIOUS
  <2> HIDE DEF State
  <2> QED BY <2>1, <2>4, <2>6, <2>7, <2>8, <2>9, <2>10, Zenon
<1> QED BY <1>4, <1>8, <1>9, <1>10, <1>11

(* Outside of braces the scan writes what it reads.                        *)
LEMMA ScanOutside ==
    ASSUME NEW t \in Seq(Token), NEW s, Scans(t, s, Len(t)),
           NEW i \in 1 .. Len(t) + 1, ~s[i - 1].inside,
           NEW j \in i - 1 .. Len(t), \A q \in i .. j : t[q] # Open
    PROVE  ~s[j].inside /\ s[j].out = s[i - 1].out \o SubSeq(t, i, j)
<1> DEFINE N == Len(t)
           Holds(k) == ~s[k].inside /\ s[k].out = s[i - 1].out \o SubSeq(t, i, k)
           bad == {k \in i - 1 .. j : ~Holds(k)}
<1>1. N \in Nat /\ i \in Int /\ i >= 1 /\ j \in Int /\ j <= N
  OBVIOUS
<1> SUFFICES ASSUME bad # {} PROVE FALSE
  <2>1. j \in i - 1 .. j
    BY <1>1
  <2> QED BY <2>1
<1>2. bad \in SUBSET (i - 1 .. j) /\ i - 1 \in Int
  BY <1>1
<1> DEFINE k == Min(bad)
<1>3. k \in bad /\ \A y \in bad : k <= y
  <2> HIDE DEF bad
  <2> QED BY <1>1, <1>2, Extremes
<1> HIDE DEF k
<1>4. k \in i - 1 .. j /\ ~Holds(k)
  BY <1>3
<1>5. ASSUME NEW q \in i - 1 .. j PROVE s[q].out \in Seq(Written)
  <2>1. q \in 0 .. N
    BY <1>1
  <2> QED BY <2>1, ScanType DEF State
<1>6. k # i - 1
  <2>1. SubSeq(t, i, i - 1) = <<>>
    BY <1>1, SubSeqEmpty
  <2>2. i - 1 \in i - 1 .. j
    BY <1>1
  <2>3. s[i - 1].out \in Seq(Written)
    BY <1>5, <2>2
  <2>4. s[i - 1].out \o <<>> = s[i - 1].out
    BY <2>3, ConcatEmptySeq
  <2>5. Holds(i - 1)
    BY <2>1, <2>4
  <2> QED BY <1>4, <2>5
<1>7. k \in Int /\ k - 1 \in i - 1 .. j /\ ~ (k <= k - 1) /\ k \in i .. j /\ k \in 1 .. N
  BY <1>1, <1>4, <1>6
<1>8. Holds(k - 1)
  BY <1>3, <1>7
<1>9. s[k] = Read(s[k - 1], t[k]) /\ t[k] # Open
  <2>1. k \in 0 .. N /\ k # 0
    BY <1>1, <1>7
  <2> QED BY <1>7, <2>1 DEF Scans
<1>10. ~s[k].inside /\ s[k].out = Append(s[k - 1].out, t[k])
  <2>1. ~s[k - 1].inside
    BY <1>8
  <2>2. s[k] = [inside |-> FALSE, held |-> <<>>, out |-> Append(s[k - 1].out, t[k])]
    BY <1>9, <2>1, ReadIs, Zenon
  <2> HIDE DEF Holds, bad
  <2> QED BY <2>2
<1>11. t \in Seq(Written) /\ i \in 1 .. N /\ k \in i .. N /\ s[i - 1].out \in Seq(Written)
  <2>1. t \in Seq(Written)
    BY SeqMonotonic DEF Written
  <2>2. i - 1 \in i - 1 .. j
    BY <1>1
  <2> QED BY <1>1, <1>5, <1>7, <2>1, <2>2
<1>12. s[k].out = s[i - 1].out \o SubSeq(t, i, k)
  <2>1. s[k - 1].out = s[i - 1].out \o SubSeq(t, i, k - 1)
    BY <1>8
  <2> QED BY <1>10, <1>11, <2>1, WrittenOn, ZenonT(30)
<1>13. Holds(k)
  BY <1>10, <1>12
<1> QED BY <1>4, <1>13

(* Inside of braces the scan holds back what it reads.                     *)
LEMMA ScanInside ==
    ASSUME NEW t \in Seq(Token), NEW s, Scans(t, s, Len(t)),
           NEW o \in 1 .. Len(t), ~s[o - 1].inside, t[o] = Open,
           NEW j \in o .. Len(t), \A q \in o .. j : t[q] # Close
    PROVE  s[j] = [inside |-> TRUE, held |-> SubSeq(t, o, j), out |-> s[o - 1].out]
<1> DEFINE N == Len(t)
           Holds(k) == s[k] = [inside |-> TRUE, held |-> SubSeq(t, o, k), out |-> s[o - 1].out]
           bad == {k \in o .. j : ~Holds(k)}
<1>1. N \in Nat /\ o \in Int /\ o >= 1 /\ j \in Int /\ j <= N
  OBVIOUS
<1>2. t \in Seq(Written)
  BY SeqMonotonic DEF Written
<1> SUFFICES ASSUME bad # {} PROVE FALSE
  <2>1. j \in o .. j
    BY <1>1
  <2> QED BY <2>1
<1>3. bad \in SUBSET (o .. j)
  OBVIOUS
<1> DEFINE k == Min(bad)
<1>4. k \in bad /\ \A y \in bad : k <= y
  <2> HIDE DEF bad
  <2> QED BY <1>1, <1>3, Extremes
<1> HIDE DEF k
<1>5. k \in o .. j /\ ~Holds(k)
  BY <1>4
<1>6. k \in 1 .. N /\ k \in o .. N /\ k \in 0 .. N /\ k # 0
  BY <1>1, <1>5
<1>7. s[k] = Read(s[k - 1], t[k])
  BY <1>6 DEF Scans
<1>8. CASE k = o
  <2>1. s[o] = [inside |-> TRUE, held |-> <<Open>>, out |-> s[o - 1].out]
    BY <1>7, <1>8, ReadIs, Zenon
  <2>2. SubSeq(t, o, o) = <<t[o]>>
    <3>1. o \in 1 .. N /\ o \in o .. N
      BY <1>1
    <3>2. SubSeq(t, o, o) = SubSeq(t, o, o - 1) \o <<t[o]>>
      BY <1>2, <3>1, SubSeqRecursiveSecond
    <3>3. SubSeq(t, o, o - 1) = <<>>
      BY <1>1, SubSeqEmpty
    <3>4. t[o] \in Written
      BY <1>2, <3>1
    <3>5. <<t[o]>> \in Seq(Written)
      BY <3>4
    <3>6. <<>> \o <<t[o]>> = <<t[o]>>
      BY <3>5, ConcatEmptySeq
    <3> QED BY <3>2, <3>3, <3>6
  <2> QED BY <1>5, <1>8, <2>1, <2>2
<1>9. CASE k # o
  <2>1. k - 1 \in o .. j /\ ~ (k <= k - 1)
    BY <1>1, <1>5, <1>9
  <2>2. Holds(k - 1)
    BY <1>4, <2>1
  <2>3. s[k - 1].inside /\ s[k - 1].held = SubSeq(t, o, k - 1) /\ s[k - 1].out = s[o - 1].out
    <3> DEFINE r == [inside |-> TRUE, held |-> SubSeq(t, o, k - 1), out |-> s[o - 1].out]
    <3>1. s[k - 1] = r
      BY <2>2
    <3>2. r.inside /\ r.held = SubSeq(t, o, k - 1) /\ r.out = s[o - 1].out
      OBVIOUS
    <3> HIDE DEF r, bad
    <3> QED BY <3>1, <3>2, Zenon
  <2>4. s[k] = [inside |-> TRUE, held |-> Append(s[k - 1].held, t[k]), out |-> s[k - 1].out]
    BY <1>5, <1>7, <2>3, ReadIs, Zenon
  <2>5. <<>> \in Seq(Written)
    OBVIOUS
  <2>6. SubSeq(t, o, k) = Append(SubSeq(t, o, k - 1), t[k])
    BY <1>2, <1>6, <2>5, WrittenOn
  <2> QED BY <1>5, <2>3, <2>4, <2>6
<1> QED BY <1>8, <1>9

(* The count alone is between braces if nothing but it follows the first.  *)
LEMMA CountAlone ==
    ASSUME NEW w \in Seq(Token)
    PROVE  <<Open>> \o w = <<Open, Count>> <=> w = <<Count>>
<1> DEFINE u == <<Open>> \o w
<1>1. Open \in Token /\ Count \in Token
  BY DEF Token
<1>2. <<Open>> \in Seq(Token) /\ Len(<<Open>>) = 1 /\ <<Open>>[1] = Open
  BY <1>1
<1>3. Len(u) = 1 + Len(w) /\ u \in Seq(Token)
  BY <1>2, ConcatProperties
<1>4. \A i \in 1 .. 1 + Len(w) : u[i] = IF i <= 1 THEN Open ELSE w[i - 1]
  BY <1>2, ConcatProperties
<1>5. <<Open, Count>> \in Seq(Token) /\ Len(<<Open, Count>>) = 2
      /\ <<Open, Count>>[1] = Open /\ <<Open, Count>>[2] = Count
  BY <1>1
<1>6. <<Count>> \in Seq(Token) /\ Len(<<Count>>) = 1 /\ <<Count>>[1] = Count
  BY <1>1
<1> DEFINE both == <<Open, Count>>
           one == <<Count>>
<1> HIDE DEF u, both, one
<1>7. ASSUME u = both PROVE w = one
  <2>0. Len(both) = 2 /\ both[2] = Count
    BY <1>5 DEF both
  <2>1. Len(w) = 1
    <3>1. Len(w) \in Nat
      OBVIOUS
    <3>2. Len(u) = 2
      BY <1>7, <2>0, Zenon
    <3>3. 1 + Len(w) = 2
      BY <1>3, <3>2, Zenon
    <3> DEFINE n == Len(w)
    <3> HIDE DEF n
    <3>4. n \in Nat
      BY <3>1 DEF n
    <3>5. 1 + n = 2
      BY <3>3 DEF n
    <3>6. n = 1
      BY <3>4, <3>5
    <3> QED BY <3>6 DEF n
  <2>2. w[1] = Count
    BY <1>4, <1>7, <2>0, <2>1
  <2>3. one \in Seq(Token) /\ Len(one) = 1 /\ one[1] = Count
    BY <1>6 DEF one
  <2> QED BY <2>1, <2>2, <2>3, SeqEqual
<1>8. ASSUME w = one PROVE u = both
  <2>1. Len(w) = 1 /\ w[1] = Count
    BY <1>6, <1>8 DEF one
  <2>2. Len(u) = 2 /\ u[1] = Open /\ u[2] = Count
    BY <1>3, <1>4, <2>1
  <2>3. both \in Seq(Token) /\ Len(both) = 2 /\ both[1] = Open /\ both[2] = Count
    BY <1>5 DEF both
  <2> QED BY <1>3, <2>2, <2>3, SeqEqual
<1> QED BY <1>7, <1>8 DEF u, both, one

(* At the closing braces it says the count, or what it has held back.      *)
LEMMA ScanCloses ==
    ASSUME NEW t \in Seq(Token), NEW s, Scans(t, s, Len(t)),
           NEW o \in 1 .. Len(t), ~s[o - 1].inside, t[o] = Open,
           NEW c \in o .. Len(t), t[c] = Close, \A q \in o .. c - 1 : t[q] # Close
    PROVE  /\ ~s[c].inside
           /\ s[c].out = s[o - 1].out \o
                 (IF SubSeq(t, o + 1, c - 1) = <<Count>> THEN <<Number>> ELSE SubSeq(t, o, c))
<1> DEFINE N == Len(t)
           r == s[c - 1]
           held == SubSeq(t, o, c - 1)
           inner == SubSeq(t, o + 1, c - 1)
<1>1. N \in Nat /\ o \in Int /\ o >= 1 /\ c \in Int /\ c <= N /\ c >= o
  OBVIOUS
<1>2. t \in Seq(Written)
  BY SeqMonotonic DEF Written
<1>3. c # o
  BY DEF Open, Close
<1>4. c - 1 \in o .. N /\ c \in o .. N /\ c \in 0 .. N /\ c # 0 /\ c - 1 \in 1 .. N
  BY <1>1, <1>3
<1>5. r = [inside |-> TRUE, held |-> held, out |-> s[o - 1].out]
  BY <1>4, ScanInside
<1> HIDE DEF r
<1>6. r.inside /\ r.held = held /\ r.out = s[o - 1].out
  BY <1>5
<1>7. s[c] = Read(r, t[c])
  BY <1>4 DEF Scans, r
<1> DEFINE out == r.out \o
                    (IF r.held = <<Open, Count>> THEN <<Number>> ELSE Append(r.held, Close))
           closed == [inside |-> FALSE, held |-> <<>>, out |-> out]
<1>8. s[c] = closed
  BY <1>6, <1>7, ReadIs, Zenon
<1> HIDE DEF out
<1>9. SubSeq(t, o, c) = Append(held, Close)
  <2>1. <<>> \in Seq(Written)
    OBVIOUS
  <2> QED BY <1>2, <1>4, <2>1, WrittenOn
<1>10. held = <<Open, Count>> <=> inner = <<Count>>
  <2>1. held = <<Open>> \o inner
    BY <1>4, SubSeqRecursiveFirst
  <2>2. \A q \in o + 1 .. c - 1 : t[q] \in Token
    BY <1>1
  <2>3. inner \in Seq(Token)
    BY <1>1, <2>2, SubSeqProperties
  <2> HIDE DEF held, inner
  <2> QED BY <2>1, <2>3, CountAlone, Zenon
<1>11. s[c].out = out /\ ~s[c].inside
  <2>1. closed.out = out /\ closed.inside = FALSE
    OBVIOUS
  <2> HIDE DEF closed
  <2> QED BY <1>8, <2>1
<1> HIDE DEF held, inner, closed
<1> QED BY <1>6, <1>9, <1>10, <1>11, Zenon DEF inner, out

(* What is between braces, replaced if it is the count; and the rest of a  *)
(* template of which the first braces are closed.                          *)
Said(t, o, c) ==
    IF SubSeq(t, o + 1, c - 1) = <<Count>> THEN <<Number>> ELSE SubSeq(t, o, c)
Closed(t, f, i, o, c) ==
    /\ o \in i .. Len(t) /\ t[o] = Open /\ \A q \in i .. o - 1 : t[q] # Open
    /\ c \in o .. Len(t) /\ t[c] = Close /\ \A q \in o .. c - 1 : t[q] # Close
    /\ Rest(t, f, i) = SubSeq(t, i, o - 1) \o Said(t, o, c) \o f[c + 1]

(* The rest of a template, at its first open and closing braces.           *)
LEMMA RestAt ==
    ASSUME NEW t \in Seq(Token), NEW f, NEW i \in 1 .. Len(t) + 1
    PROVE  \/ /\ \A q \in i .. Len(t) : t[q] # Open
              /\ Rest(t, f, i) = SubSeq(t, i, Len(t))
           \/ \E o \in i .. Len(t) :
                /\ t[o] = Open /\ \A q \in i .. o - 1 : t[q] # Open
                /\ \A q \in o .. Len(t) : t[q] # Close
                /\ Rest(t, f, i) = SubSeq(t, i, Len(t)) \o SubSeq(t, i, Len(t))
           \/ \E o, c : Closed(t, f, i, o, c)
<1> DEFINE N == Len(t)
           o == FindFrom(Open, t, i)
           c == FindFrom(Close, t, o)
<1>1. N \in Nat
  OBVIOUS
<1>2. CASE o = 0
  <2>1. \A q \in i .. N : t[q] # Open
    <3>1. ~ (o \in i .. N)
      BY <1>1, <1>2
    <3> QED BY <1>1, <3>1, FindFromIs
  <2>2. Rest(t, f, i) = SubSeq(t, i, N)
    BY <1>2 DEF Rest, Slice
  <2> QED BY <2>1, <2>2
<1>3. CASE o # 0
  <2>1. o \in i .. N /\ t[o] = Open /\ \A q \in i .. o - 1 : t[q] # Open
    BY <1>1, <1>3, FindFromIs
  <2>2. o \in 1 .. N + 1 /\ o \in Int /\ o >= 1
    BY <1>1, <2>1
  <2>3. Rest(t, f, i) = IF c = 0 THEN SubSeq(t, i, N) \o SubSeq(t, i, N)
                        ELSE SubSeq(t, i, o - 1) \o Said(t, o, c) \o f[c + 1]
    BY <1>3 DEF Rest, Slice, AfterClosed, Said
  <2> HIDE DEF o
  <2>4. CASE c = 0
    <3>1. \A q \in o .. N : t[q] # Close
      <4>1. ~ (c \in o .. N)
        BY <1>1, <2>2, <2>4
      <4> QED BY <1>1, <2>2, <4>1, FindFromIs
    <3>2. Rest(t, f, i) = SubSeq(t, i, N) \o SubSeq(t, i, N)
      BY <2>3, <2>4
    <3> QED BY <2>1, <3>1, <3>2
  <2>5. CASE c # 0
    <3>1. c \in o .. N /\ t[c] = Close /\ \A q \in o .. c - 1 : t[q] # Close
      BY <1>1, <2>2, <2>5, FindFromIs
    <3>2. Rest(t, f, i) = SubSeq(t, i, o - 1) \o Said(t, o, c) \o f[c + 1]
      BY <2>3, <2>5
    <3> HIDE DEF c
    <3>3. Closed(t, f, i, o, c)
      BY <2>1, <3>1, <3>2 DEF Closed
    <3> QED BY <3>3
  <2> QED BY <2>4, <2>5
<1> QED BY <1>2, <1>3

(* What a template says is what is written.                                *)
LEMMA FillsType ==
    ASSUME NEW t \in Seq(Token), NEW f, Fills(t, f, 1)
    PROVE  \A i \in 1 .. Len(t) + 1 : f[i] \in Seq(Written)
<1> DEFINE N == Len(t)
           bad == {i \in 1 .. N + 1 : f[i] \notin Seq(Written)}
<1>1. N \in Nat /\ N + 1 \in Int /\ t \in Seq(Written)
  BY SeqMonotonic DEF Written
<1> SUFFICES ASSUME bad # {} PROVE FALSE
  OBVIOUS
<1>2. bad \in SUBSET (1 .. N + 1) /\ 1 \in Int
  OBVIOUS
<1> DEFINE i == Max(bad)
<1>3. i \in bad /\ \A y \in bad : i >= y
  <2> HIDE DEF bad
  <2> QED BY <1>1, <1>2, Extremes
<1> HIDE DEF i
<1>4. i \in 1 .. N + 1 /\ f[i] \notin Seq(Written)
  BY <1>3
<1>5. f[i] = Rest(t, f, i)
  BY <1>4 DEF Fills
<1>6. ASSUME NEW a \in Int, NEW b \in Int, a >= 1, b <= N PROVE SubSeq(t, a, b) \in Seq(Written)
  <2>1. \A q \in a .. b : t[q] \in Written
    <3>1. \A q \in a .. b : q \in 1 .. N
      BY <1>1, <1>6
    <3> QED BY <1>1, <3>1
  <2> QED BY <2>1, SubSeqProperties
<1>7. \A u, v \in Seq(Written) : u \o v \in Seq(Written)
  BY ConcatProperties
<1>8. SubSeq(t, i, N) \in Seq(Written)
  BY <1>1, <1>4, <1>6
<1>9. ASSUME NEW o, NEW c, Closed(t, f, i, o, c) PROVE FALSE
  <2>1. o \in Int /\ c \in Int /\ o >= i /\ c >= o /\ c <= N /\ i \in Int /\ i >= 1
    BY <1>1, <1>4, <1>9 DEF Closed
  <2>2. c + 1 \in 1 .. N + 1 /\ ~ (i >= c + 1)
    BY <1>1, <2>1
  <2>3. f[c + 1] \in Seq(Written)
    BY <1>3, <2>2
  <2>4. SubSeq(t, i, o - 1) \in Seq(Written) /\ SubSeq(t, o, c) \in Seq(Written)
    BY <1>1, <1>6, <2>1
  <2>5. <<Number>> \in Seq(Written)
    BY DEF Written
  <2>6. Said(t, o, c) \in Seq(Written)
    BY <2>4, <2>5 DEF Said
  <2>7. f[i] = SubSeq(t, i, o - 1) \o Said(t, o, c) \o f[c + 1]
    BY <1>5, <1>9 DEF Closed
  <2> QED BY <1>4, <1>7, <2>3, <2>4, <2>6, <2>7
<1>10. SubSeq(t, i, N) \o SubSeq(t, i, N) \in Seq(Written)
  BY <1>7, <1>8
<1> HIDE DEF bad
<1>11. Rest(t, f, i) # SubSeq(t, i, N)
       /\ Rest(t, f, i) # SubSeq(t, i, N) \o SubSeq(t, i, N)
  BY <1>4, <1>5, <1>8, <1>10, Zenon
<1> QED BY <1>4, <1>9, <1>11, RestAt, Zenon

(* Sequences may be joined in any grouping.                                *)
LEMMA Joined ==
    ASSUME NEW a \in Seq(Written), NEW b \in Seq(Written), NEW c \in Seq(Written)
    PROVE  a \o b \in Seq(Written) /\ (a \o b) \o c = a \o (b \o c)
OBVIOUS

(* From a place outside of braces on the scan writes what the template     *)
(* says from there on, if it ends outside of them.                         *)
LEMMA ScanFills ==
    ASSUME NEW t \in Seq(Token), NEW s, Scans(t, s, Len(t)), ~s[Len(t)].inside,
           NEW f, Fills(t, f, 1)
    PROVE  \A i \in 1 .. Len(t) + 1 :
             ~s[i - 1].inside => s[Len(t)].out = s[i - 1].out \o f[i]
<1> DEFINE N == Len(t)
           Holds(i) == ~s[i - 1].inside => s[N].out = s[i - 1].out \o f[i]
           bad == {i \in 1 .. N + 1 : ~Holds(i)}
<1>1. N \in Nat /\ N + 1 \in Int /\ 1 \in Int
  OBVIOUS
<1> SUFFICES ASSUME bad # {} PROVE FALSE
  OBVIOUS
<1>2. bad \in SUBSET (1 .. N + 1)
  OBVIOUS
<1> DEFINE i == Max(bad)
<1>3. i \in bad /\ \A y \in bad : i >= y
  <2> HIDE DEF bad
  <2> QED BY <1>1, <1>2, Extremes
<1> HIDE DEF i
<1>4. i \in 1 .. N + 1 /\ ~s[i - 1].inside /\ s[N].out # s[i - 1].out \o f[i]
  BY <1>3
<1>5. \A y \in 1 .. N + 1 : y > i => Holds(y)
  <2> SUFFICES ASSUME NEW y \in 1 .. N + 1, y > i PROVE Holds(y)
    OBVIOUS
  <2>1. ~ (i >= y)
    BY <1>1, <1>4
  <2> HIDE DEF Holds
  <2> QED BY <1>3, <2>1
<1>6. i \in Int /\ i >= 1 /\ i - 1 \in 0 .. N
  BY <1>1, <1>4
<1>7. f[i] = Rest(t, f, i)
  BY <1>4 DEF Fills
<1> HIDE DEF bad
<1>8. \A k \in 0 .. N : s[k].out \in Seq(Written)
  BY ScanType DEF State
<1>9. CASE /\ \A q \in i .. N : t[q] # Open
           /\ Rest(t, f, i) = SubSeq(t, i, N)
  <2>1. N \in i - 1 .. N
    BY <1>1, <1>4
  <2>2. s[N].out = s[i - 1].out \o SubSeq(t, i, N)
    BY <1>4, <1>9, <2>1, ScanOutside, Zenon
  <2> QED BY <1>4, <1>7, <1>9, <2>2, Zenon
<1>10. ASSUME NEW o \in i .. N, t[o] = Open, \A q \in i .. o - 1 : t[q] # Open
       PROVE  ~s[o - 1].inside /\ s[o - 1].out = s[i - 1].out \o SubSeq(t, i, o - 1)
  <2>1. o - 1 \in i - 1 .. N
    BY <1>1, <1>6
  <2> QED BY <1>4, <1>10, <2>1, ScanOutside, Zenon
<1>11. ASSUME NEW o \in i .. N, t[o] = Open, \A q \in i .. o - 1 : t[q] # Open,
              \A q \in o .. N : t[q] # Close
       PROVE  FALSE
  <2>1. ~s[o - 1].inside
    BY <1>10, <1>11
  <2>2. o \in 1 .. N /\ N \in o .. N
    BY <1>1, <1>6
  <2>3. s[N] = [inside |-> TRUE, held |-> SubSeq(t, o, N), out |-> s[o - 1].out]
    BY <1>11, <2>1, <2>2, ScanInside, Zenon
  <2> QED BY <2>3
<1>12. ASSUME NEW o, NEW c, Closed(t, f, i, o, c) PROVE FALSE
  <2>1. /\ o \in i .. N /\ t[o] = Open /\ \A q \in i .. o - 1 : t[q] # Open
        /\ c \in o .. N /\ t[c] = Close /\ \A q \in o .. c - 1 : t[q] # Close
        /\ f[i] = SubSeq(t, i, o - 1) \o Said(t, o, c) \o f[c + 1]
    BY <1>7, <1>12 DEF Closed
  <2>2. o \in Int /\ c \in Int /\ o >= i /\ c >= o /\ c <= N
    BY <1>1, <1>6, <2>1
  <2>3. o \in 1 .. N /\ c + 1 \in 1 .. N + 1 /\ c + 1 > i /\ (c + 1) - 1 = c
    BY <1>1, <1>6, <2>2
  <2>4. ~s[o - 1].inside /\ s[o - 1].out = s[i - 1].out \o SubSeq(t, i, o - 1)
    BY <1>10, <2>1
  <2>5. ~s[c].inside /\ s[c].out = s[o - 1].out \o Said(t, o, c)
    BY <2>1, <2>3, <2>4, ScanCloses, Zenon DEF Said
  <2>6. s[N].out = s[c].out \o f[c + 1]
    <3>1. Holds(c + 1)
      BY <1>5, <2>3
    <3>2. s[(c + 1) - 1] = s[c]
      BY <2>3
    <3> QED BY <2>5, <3>1, <3>2, Zenon
  <2> DEFINE a == s[i - 1].out
             b == SubSeq(t, i, o - 1)
             d == Said(t, o, c)
             e == f[c + 1]
  <2>7. a \in Seq(Written)
    BY <1>6, <1>8
  <2>8. t \in Seq(Written)
    BY SeqMonotonic DEF Written
  <2>9. ASSUME NEW x \in Int, NEW y \in Int, x >= 1, y <= N
        PROVE  SubSeq(t, x, y) \in Seq(Written)
    <3>1. \A q \in x .. y : q \in 1 .. N
      BY <1>1, <2>9
    <3>2. \A q \in x .. y : t[q] \in Written
      BY <2>8, <3>1
    <3> QED BY <3>2, SubSeqProperties
  <2>10. b \in Seq(Written)
    BY <1>1, <1>6, <2>2, <2>9
  <2>11. d \in Seq(Written)
    <3>1. SubSeq(t, o, c) \in Seq(Written)
      BY <1>1, <1>6, <2>2, <2>9
    <3>2. <<Number>> \in Seq(Written)
      BY DEF Written
    <3> QED BY <3>1, <3>2 DEF Said
  <2>12. e \in Seq(Written)
    BY <2>3, FillsType
  <2>13. s[N].out = ((a \o b) \o d) \o e /\ f[i] = (b \o d) \o e
    BY <2>1, <2>4, <2>5, <2>6, Zenon
  <2>14. s[N].out # a \o f[i]
    BY <1>4
  <2> HIDE DEF a, b, d, e
  <2>15. a \o b \in Seq(Written) /\ b \o d \in Seq(Written) /\ (a \o b) \o d = a \o (b \o d)
    BY <2>7, <2>10, <2>11, Joined, ZenonT(30)
  <2>16. (a \o (b \o d)) \o e = a \o ((b \o d) \o e)
    BY <2>7, <2>12, <2>15, Joined, ZenonT(30)
  <2> QED BY <2>13, <2>14, <2>15, <2>16, Zenon
<1> QED BY <1>4, <1>9, <1>11, <1>12, RestAt, Zenon

(* A template whose braces are closed is filled as it reads.               *)
LEMMA TemplateReads ==
    ASSUME NEW t \in Seq(Token), ~Scan(t).inside
    PROVE  ApplyCountTemplate(t) = Scan(t).out
<1>1. Len(t) \in Nat /\ 1 \in 1 .. Len(t) + 1 /\ 1 - 1 = 0 /\ 0 \in 0 .. Len(t)
  OBVIOUS
<1>2. PICK s : Scans(t, s, Len(t)) /\ Scan(t) = s[Len(t)]
  BY <1>1, ScanIs
<1>3. PICK f : Fills(t, f, 1) /\ ApplyCountTemplate(t) = f[1]
  BY <1>1, FilledIs
<1>4. s[0] = Start
  BY <1>1, <1>2 DEF Scans
<1>5. ~s[0].inside /\ s[0].out = <<>>
  BY <1>4 DEF Start
<1>6. ~s[Len(t)].inside
  BY <1>2
<1>7. \A i \in 1 .. Len(t) + 1 : ~s[i - 1].inside => s[Len(t)].out = s[i - 1].out \o f[i]
  BY <1>2, <1>3, <1>6, ScanFills
<1>8. s[Len(t)].out = s[0].out \o f[1]
  BY <1>1, <1>5, <1>7
<1>9. f[1] \in Seq(Written)
  BY <1>1, <1>3, FillsType
<1>10. <<>> \o f[1] = f[1]
  BY <1>9, ConcatEmptySeq
<1> QED BY <1>2, <1>3, <1>5, <1>8, <1>10

(* So is every template of the inputs.                                     *)
LEMMA TemplateRule ==
    ASSUME RulesAssumption, TemplateInput
    PROVE  TemplateFilled
<1>1. PICK n \in 0 .. MaxTokens : input \in [1 .. n -> Token]
  BY DEF TemplateInput
<1>2. n \in Nat
  BY DEF RulesAssumption
<1>3. input \in Seq(Token)
  BY <1>1, <1>2
<1> QED BY <1>3, TemplateReads, Zenon DEF TemplateFilled

-----------------------------------------------------------------------------
(* Whether an element shows an image.                                      *)
LEMMA OffersIs ==
    ASSUME RulesAssumption, NEW element \in Elements, NEW base \in BOOLEAN
    PROVE  ImageUrl(element, base) # NoUrl <=> Offers(element, base)
<1>1. /\ element.width \in Nat \cup {NotGiven} /\ element.height \in Nat \cup {NotGiven}
      /\ element.src \in Candidates /\ element.srcset \in Seq(Candidates)
  BY DEF RulesAssumption
<1>2. TinyImage(element) <=> element.width \in 0 .. 2 /\ element.height \in 0 .. 2
  BY <1>1 DEF TinyImage, NotGiven
<1>3. \A c : Resolve(c, base) # NoUrl <=> Usable(c, base)
  BY DEF Resolve, Usable, NoUrl
<1> DEFINE given == {i \in DOMAIN element.srcset : element.srcset[i] # NoUrl}
           last == {element.srcset[i] : i \in {j \in DOMAIN element.srcset :
                     /\ element.srcset[j] # NoUrl
                     /\ \A k \in DOMAIN element.srcset :
                          k > j => element.srcset[k] = NoUrl}}
<1>4. (\E c \in last : Usable(c, base)) <=> Usable(SrcsetUrl(element.srcset), base)
  <2>1. CASE given = {}
    BY <2>1 DEF SrcsetUrl, Usable, NoUrl
  <2>2. CASE given # {}
    <3>1. /\ DOMAIN element.srcset = 1 .. Len(element.srcset)
          /\ Len(element.srcset) \in Int /\ 1 \in Int
      BY <1>1
    <3>2. given \in SUBSET (1 .. Len(element.srcset))
      BY <3>1
    <3> DEFINE g == Max(given)
    <3>3. g \in given /\ \A y \in given : g >= y
      <4> HIDE DEF given
      <4> QED BY <2>2, <3>1, <3>2, Extremes
    <3>4. \A i \in given : i \in Int
      BY <3>2
    <3>5. SrcsetUrl(element.srcset) = element.srcset[g]
      BY <2>2 DEF SrcsetUrl
    <3> HIDE DEF g
    <3>6. last = {element.srcset[g]}
      <4>1. element.srcset[g] \in last
        BY <3>1, <3>3, <3>4
      <4>2. ASSUME NEW j \in given, \A k \in DOMAIN element.srcset :
                                      k > j => element.srcset[k] = NoUrl
            PROVE  j = g
        BY <3>3, <3>4, <4>2
      <4>3. ASSUME NEW c \in last PROVE c = element.srcset[g]
        <5>1. PICK j \in given : /\ c = element.srcset[j]
                                 /\ \A k \in DOMAIN element.srcset :
                                      k > j => element.srcset[k] = NoUrl
          OBVIOUS
        <5> QED BY <4>2, <5>1
      <4> HIDE DEF last
      <4> QED BY <4>1, <4>3
    <3> HIDE DEF last
    <3> QED BY <3>5, <3>6
  <2> QED BY <2>1, <2>2
<1>5. Offers(element, base) <=>
        /\ element.kind = "img" /\ ~TinyImage(element)
        /\ \/ Usable(element.src, base)
           \/ \E c \in last : Usable(c, base)
  BY <1>2 DEF Offers
<1> HIDE DEF last
<1> QED BY <1>3, <1>4, <1>5 DEF ImageUrl

(* What the walk through a document finds at a node: the first of those    *)
(* below it, itself included, that show an image.                          *)
Own(doc, base, n) == IF n = 0 THEN NoUrl ELSE ImageUrl(doc[n].element, base)
Below(doc, n, m) == m \in n .. Len(doc) /\ \A k \in n + 1 .. m : doc[k].parent >= n
Shown(doc, base, n) == {m \in 1 .. Len(doc) : Below(doc, n, m) /\ Own(doc, base, m) # NoUrl}
Find(doc, base, n) ==
    IF Shown(doc, base, n) = {} THEN [node |-> 0, url |-> NoUrl]
    ELSE [node |-> Min(Shown(doc, base, n)),
          url |-> Own(doc, base, Min(Shown(doc, base, n)))]
InOrderOf(doc) ==
    /\ Len(doc) \in Nat
    /\ \A i \in 1 .. Len(doc) : /\ doc[i].parent \in 0 .. i - 1
                                /\ \A j \in 1 .. i - 1 :
                                     doc[i].parent < j => doc[j].parent >= doc[i].parent

(* What is below a node is the node and what is below one of its children, *)
(* and what is below a child comes before the next child.                  *)
LEMMA ChildrenShare ==
    ASSUME NEW doc, InOrderOf(doc), NEW n \in 0 .. Len(doc), NEW m \in 1 .. Len(doc)
    PROVE  /\ Below(doc, n, m) /\ m # n =>
                \E c \in n + 1 .. Len(doc) : doc[c].parent = n /\ Below(doc, c, m)
           /\ \A c \in n + 1 .. Len(doc) : doc[c].parent = n /\ Below(doc, c, m) =>
                /\ Below(doc, n, m) /\ m # n
                /\ \A d \in n + 1 .. Len(doc) : doc[d].parent = n /\ c < d => m < d
<1> DEFINE N == Len(doc)
<1>1. /\ N \in Nat /\ n \in Nat /\ m \in Nat /\ m <= N /\ n <= N
      /\ \A i \in 1 .. N : doc[i].parent \in Int
      /\ \A i \in 1 .. N : doc[i].parent >= 0 /\ doc[i].parent < i
      /\ \A i \in 1 .. N, j \in 1 .. N :
           doc[i].parent < j /\ j < i => doc[j].parent >= doc[i].parent
  BY DEF InOrderOf
<1>2. ASSUME Below(doc, n, m), m # n
      PROVE  \E c \in n + 1 .. N : doc[c].parent = n /\ Below(doc, c, m)
  <2> DEFINE children == {c \in n + 1 .. m : doc[c].parent = n}
  <2>1. n < m /\ \A k \in n + 1 .. m : k \in 1 .. N /\ doc[k].parent >= n
    BY <1>1, <1>2 DEF Below
  <2>2. n + 1 \in children
    <3>1. n + 1 \in n + 1 .. m
      BY <1>1, <2>1
    <3>2. doc[n + 1].parent >= n /\ doc[n + 1].parent < n + 1 /\ doc[n + 1].parent \in Int
      BY <1>1, <2>1, <3>1
    <3>3. doc[n + 1].parent = n
      BY <1>1, <3>2
    <3> QED BY <3>1, <3>3
  <2> DEFINE c == Max(children)
  <2>3. c \in children /\ \A y \in children : c >= y
    <3>1. n + 1 \in Int /\ m \in Int
      BY <1>1
    <3>2. children \in SUBSET (n + 1 .. m) /\ children # {}
      BY <2>2
    <3> HIDE DEF children
    <3> QED BY <3>1, <3>2, Extremes
  <2>4. c \in n + 1 .. m /\ doc[c].parent = n
    BY <2>3
  <2> HIDE DEF c
  <2>5. c \in 1 .. N /\ c \in Int /\ n < c
    BY <1>1, <2>4
  <2>6. ASSUME NEW k \in c + 1 .. m PROVE doc[k].parent >= c
    <3>1. k \in n + 1 .. m /\ k \in 1 .. N /\ k \in Int /\ c < k
      BY <1>1, <2>4, <2>6
    <3>2. doc[k].parent >= n /\ doc[k].parent \in Int
      BY <1>1, <2>1, <3>1
    <3>3. doc[k].parent # n
      BY <2>3, <2>5, <3>1
    <3>4. ~(doc[k].parent < c)
      BY <1>1, <2>4, <2>5, <3>1, <3>2, <3>3
    <3> QED BY <2>5, <3>2, <3>4
  <2>7. c \in n + 1 .. N /\ m \in c .. N
    BY <1>1, <2>4
  <2> QED BY <2>4, <2>6, <2>7 DEF Below
<1>3. ASSUME NEW c \in n + 1 .. N, doc[c].parent = n, Below(doc, c, m)
      PROVE  /\ Below(doc, n, m) /\ m # n
             /\ \A d \in n + 1 .. N : doc[d].parent = n /\ c < d => m < d
  <2>1. c \in 1 .. N /\ c \in Int /\ n < c /\ c <= m
        /\ \A k \in c + 1 .. m : doc[k].parent >= c
    BY <1>1, <1>3 DEF Below
  <2>2. ASSUME NEW k \in n + 1 .. m PROVE doc[k].parent >= n
    <3>1. k \in 1 .. N /\ k \in Int /\ n < k
      BY <1>1
    <3>2. CASE k < c
      BY <1>1, <1>3, <2>1, <3>1, <3>2
    <3>3. CASE k = c
      BY <1>1, <1>3, <3>3
    <3>4. CASE k > c
      <4>1. doc[k].parent >= c /\ doc[k].parent \in Int
        BY <1>1, <2>1, <3>1, <3>4
      <4> QED BY <1>1, <2>1, <4>1
    <3> QED BY <2>1, <3>1, <3>2, <3>3, <3>4
  <2>3. Below(doc, n, m) /\ m # n
    BY <1>1, <2>1, <2>2 DEF Below
  <2>4. ASSUME NEW d \in n + 1 .. N, doc[d].parent = n, c < d PROVE m < d
    <3> SUFFICES ASSUME d <= m PROVE FALSE
      BY <1>1
    <3>1. d \in c + 1 .. m
      BY <1>1, <2>1, <2>4
    <3> QED BY <1>1, <2>1, <2>4, <3>1
  <2> QED BY <2>3, <2>4
<1> QED BY <1>2, <1>3

(* A node finds something exactly if something below it is shown, and then *)
(* the first of that.                                                      *)
LEMMA FindIs ==
    ASSUME NEW doc, Len(doc) \in Nat, NEW base, NEW n \in 0 .. Len(doc)
    PROVE  IF Shown(doc, base, n) = {} THEN Find(doc, base, n) = [node |-> 0, url |-> NoUrl]
           ELSE \E m \in Shown(doc, base, n) :
                  /\ \A k \in Shown(doc, base, n) : m <= k
                  /\ m = Min(Shown(doc, base, n))
                  /\ Find(doc, base, n) = [node |-> m, url |-> Own(doc, base, m)]
                  /\ Find(doc, base, n).url # NoUrl
<1>1. CASE Shown(doc, base, n) = {}
  BY <1>1 DEF Find
<1>2. CASE Shown(doc, base, n) # {}
  <2> DEFINE S == Shown(doc, base, n)
  <2>1. S \in SUBSET (1 .. Len(doc)) /\ \A k \in S : Own(doc, base, k) # NoUrl
    BY DEF Shown
  <2>2. 1 \in Int /\ Len(doc) \in Int
    OBVIOUS
  <2> HIDE DEF S
  <2>3. Min(S) \in S /\ \A k \in S : Min(S) <= k
    BY <1>2, <2>1, <2>2, Extremes DEF S
  <2>4. Find(doc, base, n) = [node |-> Min(S), url |-> Own(doc, base, Min(S))]
    BY <1>2 DEF Find, S
  <2>5. Find(doc, base, n).url = Own(doc, base, Min(S))
    BY <2>4
  <2> QED BY <1>2, <2>1, <2>3, <2>4, <2>5 DEF S
<1> QED BY <1>1, <1>2

(* What a node finds is its own image, or what the first of its children   *)
(* finds that finds something.                                             *)
LEMMA FindDescends ==
    ASSUME NEW doc, InOrderOf(doc), NEW base, NEW n \in 0 .. Len(doc)
    PROVE  LET good == {c \in n + 1 .. Len(doc) :
                          doc[c].parent = n /\ Find(doc, base, c).url # NoUrl}
           IN  Find(doc, base, n) =
                 IF Own(doc, base, n) # NoUrl THEN [node |-> n, url |-> Own(doc, base, n)]
                 ELSE IF good # {} THEN Find(doc, base, Min(good))
                 ELSE [node |-> 0, url |-> NoUrl]
<1> DEFINE N == Len(doc)
           S(k) == Shown(doc, base, k)
           good == {c \in n + 1 .. N : doc[c].parent = n /\ Find(doc, base, c).url # NoUrl}
<1>1. N \in Nat /\ n \in Nat /\ n <= N
  BY DEF InOrderOf
<1>2. \A c \in n + 1 .. N : c \in 0 .. N /\ c \in 1 .. N /\ c \in Int
  BY <1>1
<1>3. good = {c \in n + 1 .. N : doc[c].parent = n /\ S(c) # {}}
  <2>1. ASSUME NEW c \in n + 1 .. N
        PROVE  Find(doc, base, c).url # NoUrl <=> S(c) # {}
    <3>1. c \in 0 .. N
      BY <1>2
    <3>2. [node |-> 0, url |-> NoUrl].url = NoUrl
      OBVIOUS
    <3> QED BY <1>1, <3>1, <3>2, FindIs
  <2> QED BY <2>1
<1>4. CASE Own(doc, base, n) # NoUrl
  <2>1. n # 0
    BY <1>4 DEF Own
  <2>2. n \in S(n)
    BY <1>1, <1>4, <2>1 DEF Shown, Below
  <2>3. \A m \in S(n) : n <= m
    BY <1>1 DEF Shown, Below
  <2>4. PICK m \in S(n) : /\ \A k \in S(n) : m <= k
                          /\ Find(doc, base, n) = [node |-> m, url |-> Own(doc, base, m)]
    BY <1>1, <2>2, FindIs
  <2>5. m = n
    <3>1. m \in Int /\ m <= n /\ n <= m
      BY <2>2, <2>3, <2>4 DEF Shown
    <3> QED BY <1>1, <3>1
  <2> QED BY <1>4, <2>4, <2>5
<1>5. CASE Own(doc, base, n) = NoUrl
  <2>1. n \notin S(n)
    BY <1>5 DEF Shown
  <2>2. \A m \in S(n) : \E c \in n + 1 .. N : doc[c].parent = n /\ m \in S(c)
    <3> SUFFICES ASSUME NEW m \in S(n)
                 PROVE  \E c \in n + 1 .. N : doc[c].parent = n /\ m \in S(c)
      OBVIOUS
    <3>1. m \in 1 .. N /\ m # n /\ Below(doc, n, m) /\ Own(doc, base, m) # NoUrl
      BY <2>1 DEF Shown
    <3>2. PICK c \in n + 1 .. N : doc[c].parent = n /\ Below(doc, c, m)
      BY <3>1, ChildrenShare
    <3> QED BY <3>1, <3>2 DEF Shown
  <2>3. ASSUME NEW c \in n + 1 .. N, doc[c].parent = n, NEW m \in S(c)
        PROVE  /\ m \in S(n) /\ c <= m /\ m \in Int
               /\ \A d \in n + 1 .. N : doc[d].parent = n /\ c < d => m < d
    <3>1. m \in 1 .. N /\ Below(doc, c, m) /\ Own(doc, base, m) # NoUrl
      BY <2>3 DEF Shown
    <3>2. /\ Below(doc, n, m)
          /\ \A d \in n + 1 .. N : doc[d].parent = n /\ c < d => m < d
      BY <2>3, <3>1, ChildrenShare
    <3>3. c <= m /\ m \in Int
      BY <1>2, <3>1 DEF Below
    <3> QED BY <3>1, <3>2, <3>3 DEF Shown
  <2>4. CASE good = {}
    <3>1. S(n) = {}
      BY <1>3, <2>2, <2>4
    <3> QED BY <1>1, <1>5, <2>4, <3>1, FindIs
  <2>5. CASE good # {}
    <3> DEFINE c == Min(good)
    <3>1. c \in good /\ \A d \in good : c <= d
      <4>1. good \in SUBSET (n + 1 .. N) /\ n + 1 \in Int /\ N \in Int
        BY <1>1
      <4> HIDE DEF good
      <4> QED BY <2>5, <4>1, Extremes
    <3>2. c \in n + 1 .. N /\ doc[c].parent = n /\ S(c) # {} /\ c \in 0 .. N /\ c \in Int
      BY <1>2, <1>3, <3>1
    <3>3. PICK k \in S(c) : /\ \A m \in S(c) : k <= m
                            /\ Find(doc, base, c) = [node |-> k, url |-> Own(doc, base, k)]
      BY <1>1, <3>2, FindIs
    <3>4. k \in S(n) /\ k \in Int
      BY <2>3, <3>2
    <3>5. PICK m \in S(n) :
                 /\ \A j \in S(n) : m <= j
                 /\ Find(doc, base, n) = [node |-> m, url |-> Own(doc, base, m)]
      BY <1>1, <3>4, FindIs
    <3>6. PICK d \in n + 1 .. N : doc[d].parent = n /\ m \in S(d)
      BY <2>2
    <3>7. d \in good /\ d \in Int /\ c <= d
      BY <1>2, <1>3, <3>1, <3>6
    <3>8. m \in Int /\ d <= m /\ m <= k
      BY <2>3, <3>4, <3>5, <3>6
    <3>9. ~(c < d)
      <4>1. c < d => k < d
        BY <2>3, <3>2, <3>6
      <4> QED BY <3>2, <3>4, <3>7, <3>8, <4>1
    <3>10. c = d /\ k <= m
      BY <3>2, <3>3, <3>6, <3>7, <3>9
    <3>11. k = m
      BY <3>4, <3>8, <3>10
    <3>12. Find(doc, base, n) = Find(doc, base, c)
      BY <3>3, <3>5, <3>11
    <3> QED BY <1>5, <2>5, <3>12
  <2> QED BY <2>4, <2>5
<1> QED BY <1>4, <1>5

(* The walk of the program finds that.                                     *)
LEMMA WalkFinds ==
    ASSUME NEW doc, InOrderOf(doc), NEW base
    PROVE  FirstImageUrl(doc, base) = Find(doc, base, 0)
<1> DEFINE N == Len(doc)
           good(f, n) == {c \in n + 1 .. N : doc[c].parent = n /\ f[c].url # NoUrl}
           at(f, n) == IF Own(doc, base, n) # NoUrl
                       THEN [node |-> n, url |-> Own(doc, base, n)]
                       ELSE IF good(f, n) # {} THEN f[Min(good(f, n))]
                       ELSE [node |-> 0, url |-> NoUrl]
           step(f) == [n \in 0 .. N |-> at(f, n)]
           found == CHOOSE f : f = step(f)
           g == [n \in 0 .. N |-> Find(doc, base, n)]
<1>1. N \in Nat
  BY DEF InOrderOf
<1>2. FirstImageUrl(doc, base) = found[0]
  BY DEF FirstImageUrl, Own
<1>3. ASSUME NEW n \in 0 .. N PROVE at(g, n) = Find(doc, base, n)
  <2>1. \A c \in n + 1 .. N : c \in 0 .. N /\ c \in Int
    BY <1>1
  <2>2. good(g, n) = {c \in n + 1 .. N : doc[c].parent = n /\ Find(doc, base, c).url # NoUrl}
    BY <2>1
  <2>3. good(g, n) # {} => Min(good(g, n)) \in 0 .. N
    <3>1. good(g, n) \in SUBSET (n + 1 .. N) /\ n + 1 \in Int /\ N \in Int
      BY <1>1
    <3> DEFINE G == good(g, n)
    <3> HIDE DEF G
    <3>2. G # {} => Min(G) \in G
      BY <3>1, Extremes DEF G
    <3> QED BY <2>1, <3>1, <3>2 DEF G
  <2>4. good(g, n) # {} => g[Min(good(g, n))] = Find(doc, base, Min(good(g, n)))
    BY <2>3
  <2> HIDE DEF good, g
  <2> QED BY <2>2, <2>4, FindDescends
<1>4. g = step(g)
  BY <1>3
<1>5. found = step(found)
  BY <1>4
<1> HIDE DEF found
<1>6. \A n \in 0 .. N : found[n] = at(found, n)
  BY <1>5
<1> DEFINE wrong == {n \in 0 .. N : found[n] # g[n]}
<1>7. wrong = {}
  <2> SUFFICES ASSUME wrong # {} PROVE FALSE
    OBVIOUS
  <2>1. wrong \in SUBSET (0 .. N) /\ 0 \in Int /\ N \in Int
    BY <1>1
  <2> DEFINE n == Max(wrong)
  <2>2. n \in wrong /\ \A y \in wrong : n >= y
    <3> HIDE DEF wrong
    <3> QED BY <2>1, Extremes
  <2> HIDE DEF n
  <2>3. n \in 0 .. N /\ found[n] # g[n]
    BY <2>2
  <2>4. \A c \in n + 1 .. N : found[c] = g[c]
    BY <1>1, <2>2, <2>3
  <2>5. good(found, n) = good(g, n)
    BY <2>4
  <2>6. good(g, n) # {} => Min(good(g, n)) \in n + 1 .. N
    <3>1. good(g, n) \in SUBSET (n + 1 .. N) /\ n + 1 \in Int /\ N \in Int
      BY <1>1, <2>3
    <3> DEFINE G == good(g, n)
    <3> HIDE DEF G
    <3>2. G # {} => Min(G) \in G
      BY <3>1, Extremes DEF G
    <3> QED BY <3>1, <3>2 DEF G
  <2>7. good(g, n) # {} => found[Min(good(g, n))] = g[Min(good(g, n))]
    BY <2>4, <2>6
  <2> HIDE DEF good
  <2>8. at(found, n) = at(g, n)
    BY <2>5, <2>7
  <2>9. found[n] = at(found, n)
    BY <1>6, <2>3
  <2>10. g[n] = at(g, n)
    BY <1>3, <2>3
  <2> QED BY <2>3, <2>8, <2>9, <2>10
<1>8. 0 \in 0 .. N
  BY <1>1
<1>9. found[0] = g[0] /\ g[0] = Find(doc, base, 0)
  BY <1>7, <1>8
<1> QED BY <1>2, <1>9

(* The image of an article is the first usable one of its text, or that of *)
(* an enclosure.                                                           *)
LEMMA TextImageRule ==
    ASSUME RulesAssumption, kind = "image", ImageInput
    PROVE  FirstImageTaken
<1>1. PICK n \in 0 .. MaxElements, k \in 0 .. MaxEnclosures, base \in BOOLEAN :
        \E parents \in Documents(n), elements \in [1 .. n -> Elements],
           enclosures \in [1 .. k -> [isImage : BOOLEAN, src : Candidates]] :
        /\ \A i \in 1 .. n : parents[i] # 0 => elements[parents[i]].kind = "inline"
        /\ input = [doc |-> [i \in 1 .. n |-> [parent |-> parents[i], element |-> elements[i]]],
                    base |-> base, enclosures |-> enclosures]
  BY DEF ImageInput
<1>2. PICK parents \in Documents(n), elements \in [1 .. n -> Elements],
           enclosures \in [1 .. k -> [isImage : BOOLEAN, src : Candidates]] :
          input = [doc |-> [i \in 1 .. n |-> [parent |-> parents[i], element |-> elements[i]]],
                   base |-> base, enclosures |-> enclosures]
  BY <1>1, ZenonT(60)
<1> DEFINE doc == input.doc
<1>3. n \in Nat /\ k \in Nat
  BY DEF RulesAssumption
<1>4. /\ doc = [i \in 1 .. n |-> [parent |-> parents[i], element |-> elements[i]]]
      /\ input.base = base /\ input.enclosures = enclosures
  BY <1>2
<1> HIDE DEF doc
<1>5. /\ DOMAIN doc = 1 .. n /\ Len(doc) = n
      /\ \A i \in 1 .. n : doc[i].parent = parents[i] /\ doc[i].element = elements[i]
  BY <1>3, <1>4
<1>6. InOrderOf(doc)
  <2>1. \A i \in 1 .. n : /\ parents[i] \in 0 .. i - 1
                          /\ \A j \in 1 .. i - 1 :
                               j \in 1 .. n /\ (parents[i] < j => parents[j] >= parents[i])
    BY <1>3 DEF Documents
  <2> QED BY <1>3, <1>5, <2>1 DEF InOrderOf
<1> DEFINE offered == {i \in DOMAIN doc : Offers(doc[i].element, base)}
           found == FirstImageUrl(doc, base)
<1>7. \A i \in 1 .. n : Own(doc, base, i) # NoUrl <=> Offers(doc[i].element, base)
  <2> SUFFICES ASSUME NEW i \in 1 .. n
               PROVE  Own(doc, base, i) # NoUrl <=> Offers(doc[i].element, base)
    OBVIOUS
  <2>1. i # 0 /\ doc[i].element \in Elements
    BY <1>3, <1>5
  <2> QED BY <2>1, OffersIs DEF Own
<1>8. Shown(doc, base, 0) = offered
  <2>1. \A m \in 1 .. n : Below(doc, 0, m)
    <3> SUFFICES ASSUME NEW m \in 1 .. n PROVE Below(doc, 0, m)
      OBVIOUS
    <3>1. \A j \in 0 + 1 .. m : j \in 1 .. n
      BY <1>3
    <3>2. ASSUME NEW j \in 1 .. n PROVE doc[j].parent >= 0
      <4>1. doc[j].parent \in 0 .. j - 1 /\ j \in Int
        BY <1>3, <1>5, <1>6 DEF InOrderOf
      <4> QED BY <4>1
    <3> QED BY <1>3, <1>5, <3>1, <3>2 DEF Below
  <2> QED BY <1>5, <1>7, <2>1 DEF Shown
<1>9. IF offered = {} THEN found = [node |-> 0, url |-> NoUrl]
      ELSE found.node = Min(offered) /\ found.url # NoUrl
  <2>1. found = Find(doc, base, 0)
    BY <1>6, WalkFinds
  <2>2. Len(doc) \in Nat /\ 0 \in 0 .. Len(doc)
    BY <1>3, <1>5
  <2> HIDE DEF found, offered
  <2> QED BY <1>8, <2>1, <2>2, FindIs
<1>10. found.node = IF offered = {} THEN 0 ELSE Min(offered)
  <2> HIDE DEF found, offered
  <2> QED BY <1>9
<1>11. found.url = NoUrl <=> offered = {}
  <2> HIDE DEF found, offered
  <2> QED BY <1>9
<1>12. FirstEnclosure(enclosures, base) = NoUrl
         <=> ~ \E e \in Range(enclosures) : e.isImage /\ Usable(e.src, base)
  <2> DEFINE good == {i \in DOMAIN enclosures :
                        enclosures[i].isImage /\ Resolve(enclosures[i].src, base) # NoUrl}
  <2>1. \A c : Resolve(c, base) # NoUrl <=> Usable(c, base)
    BY DEF Resolve, Usable, NoUrl
  <2>2. good = {} <=> ~ \E e \in Range(enclosures) : e.isImage /\ Usable(e.src, base)
    BY <2>1 DEF Range
  <2>3. good # {} => Min(good) \in good
    <3>1. good \in SUBSET (1 .. k) /\ 1 \in Int /\ k \in Int
      BY <1>3
    <3> HIDE DEF good
    <3> QED BY <3>1, Extremes
  <2>4. good # {} => Resolve(enclosures[Min(good)].src, base) # NoUrl
    <3> DEFINE m == Min(good)
    <3>1. good # {} => m \in good
      BY <2>3
    <3> HIDE DEF m
    <3>2. good # {} => Resolve(enclosures[m].src, base) # NoUrl
      BY <3>1
    <3> QED BY <3>2 DEF m
  <2> QED BY <2>2, <2>4 DEF FirstEnclosure
<1>13. EntryImage(doc, enclosures, base) = NoUrl
         <=> offered = {} /\ ~ \E e \in Range(enclosures) : e.isImage /\ Usable(e.src, base)
  BY <1>11, <1>12 DEF EntryImage
<1> HIDE DEF found, offered
<1> QED BY <1>4, <1>10, <1>13 DEF FirstImageTaken, found, offered, doc

-----------------------------------------------------------------------------
(* A quotient and its remainder.                                           *)
LEMMA Division ==
    ASSUME NEW a \in Nat, NEW b \in Nat \ {0}
    PROVE  /\ a \div b \in Int
           /\ b * (a \div b) <= a
           /\ a < b * (a \div b) + b
           /\ a % b = 0 => b * (a \div b) = a
  OBVIOUS

(* A rounded quotient is off by no more than a half.                       *)
LEMMA RoundedIs ==
    ASSUME NEW n \in Nat, NEW d \in Nat \ {0}, NEW r \in Rounded(n, d)
    PROVE  /\ r \in Int
           /\ 2 * (d * r) - 2 * n <= d
           /\ 2 * n - 2 * (d * r) <= d
<1> DEFINE a == 2 * n + d
           b == 2 * d
           up == a \div b
<1>1. a \in Nat /\ b \in Nat \ {0}
  OBVIOUS
<1>2. r = up \/ (r = up - 1 /\ a % b = 0)
  BY DEF Rounded
<1> HIDE DEF a, b
<1>3. up \in Int /\ b * up <= a /\ a < b * up + b /\ (a % b = 0 => b * up = a)
  BY <1>1, Division
<1> HIDE DEF up
<1>4. b * up = 2 * (d * up) /\ d * up \in Int
  BY <1>3 DEF b
<1>5. CASE r = up
  BY <1>3, <1>4, <1>5 DEF a, b
<1>6. CASE r = up - 1 /\ a % b = 0
  <2>1. d * r = d * up - d
    BY <1>3, <1>6
  <2>2. 2 * (d * up) = a
    BY <1>3, <1>4, <1>6
  <2> QED BY <1>3, <1>4, <1>6, <2>1, <2>2 DEF a
<1> QED BY <1>2, <1>5, <1>6

(* A side that is scaled by the longer one stays in the icon, and the      *)
(* longer one fills it.                                                    *)
LEMMA ScaledSide ==
    ASSUME NEW side \in Nat, NEW long \in Nat \ {0}, side <= long, NEW size \in Nat,
           NEW r \in Rounded(side * size, long)
    PROVE  /\ r \in 0 .. size
           /\ side = long => r = size
           /\ 2 * (long * r) - 2 * (side * size) <= long
           /\ 2 * (side * size) - 2 * (long * r) <= long
<1> DEFINE n == side * size
           p == long * r
           q == long * size
<1>1. n \in Nat
  OBVIOUS
<1>2. r \in Int /\ 2 * p - 2 * n <= long /\ 2 * n - 2 * p <= long
  <2> HIDE DEF n
  <2> QED BY <1>1, RoundedIs DEF n
<1>3. n <= q
  <2>1. q - n = (long - side) * size
    OBVIOUS
  <2>2. (long - side) * size \in Nat
    <3>1. long - side \in Nat
      OBVIOUS
    <3> DEFINE e == long - side
    <3> HIDE DEF e
    <3>2. e \in Nat => e * size \in Nat
      OBVIOUS
    <3> QED BY <3>1, <3>2 DEF e
  <2> QED BY <1>1, <2>1, <2>2
<1>4. r <= size
  <2> SUFFICES ASSUME r >= size + 1 PROVE FALSE
    BY <1>2
  <2>1. p >= q + long
    <3>1. p - (q + long) = long * (r - size - 1)
      BY <1>2
    <3>2. long * (r - size - 1) >= 0
      <4>1. r - size - 1 \in Nat
        BY <1>2
      <4> DEFINE e == r - size - 1
      <4> HIDE DEF e
      <4>2. e \in Nat => long * e >= 0
        OBVIOUS
      <4> QED BY <4>1, <4>2 DEF e
    <3> QED BY <1>2, <3>1, <3>2
  <2>2. p \in Int /\ q \in Int
    BY <1>2
  <2> HIDE DEF n, p, q
  <2> QED BY <1>1, <1>2, <1>3, <2>1, <2>2
<1>5. r >= 0
  <2> SUFFICES ASSUME r <= -1 PROVE FALSE
    BY <1>2
  <2>1. p <= -long
    <3>1. -long - p = long * (-1 - r)
      BY <1>2
    <3>2. long * (-1 - r) >= 0
      <4>1. -1 - r \in Nat
        BY <1>2
      <4> DEFINE e == -1 - r
      <4> HIDE DEF e
      <4>2. e \in Nat => long * e >= 0
        OBVIOUS
      <4> QED BY <4>1, <4>2 DEF e
    <3> QED BY <1>2, <3>1, <3>2
  <2>2. p \in Int
    BY <1>2
  <2> HIDE DEF n, p
  <2> QED BY <1>1, <1>2, <2>1, <2>2
<1>6. side = long => r = size
  <2> SUFFICES ASSUME side = long, r <= size - 1 PROVE FALSE
    BY <1>2, <1>4
  <2>1. p <= q - long
    <3>1. q - long - p = long * (size - 1 - r)
      BY <1>2
    <3>2. long * (size - 1 - r) >= 0
      <4>1. size - 1 - r \in Nat
        BY <1>2
      <4> DEFINE e == size - 1 - r
      <4> HIDE DEF e
      <4>2. e \in Nat => long * e >= 0
        OBVIOUS
      <4> QED BY <4>1, <4>2 DEF e
    <3> QED BY <1>2, <3>1, <3>2
  <2>2. p \in Int /\ q \in Int /\ n = q
    BY <1>2
  <2> HIDE DEF n, p, q
  <2> QED BY <1>1, <1>2, <2>1, <2>2
<1> QED BY <1>2, <1>4, <1>5, <1>6

(* A length of an icon is centred to a pixel.                              *)
LEMMA Centred ==
    ASSUME NEW size \in Nat, NEW length \in 1 .. size
    PROVE  LET place == (size - length) \div 2
           IN  Apart(place, size - length - place) <= 1
<1> DEFINE rest == size - length
           place == rest \div 2
<1>1. rest \in Nat
  OBVIOUS
<1>2. place \in Int /\ 2 * place <= rest /\ rest <= 2 * place + 1
  <2> HIDE DEF rest
  <2> QED BY <1>1
<1> HIDE DEF place
<1>3. Apart(place, rest - place) <= 1
  <2> HIDE DEF rest
  <2> QED BY <1>1, <1>2 DEF Apart
<1> QED BY <1>3 DEF place

(* An image becomes an icon that holds all of it.                          *)
LEMMA ImageRule ==
    ASSUME RulesAssumption, kind = "icon", IconInput
    PROVE  ImageFits
<1>1. PICK w \in Sides, h \in Sides, size \in IconSizes :
               input = [w |-> w, h |-> h, size |-> size]
  BY DEF IconInput
<1>2. w \in Nat \ {0} /\ h \in Nat \ {0} /\ size \in Nat /\ size >= 8
  BY DEF RulesAssumption
<1>3. input.w = w /\ input.h = h /\ input.size = size
  BY <1>1
<1> DEFINE long == Max({w, h})
<1>4. long = IF w > h THEN w ELSE h
  BY <1>2, TwoSides
<1>5. long \in Nat \ {0} /\ w <= long /\ h <= long
  BY <1>2, <1>4
<1>6. SUFFICES ASSUME NEW box \in Boxes(w, h, size)
      PROVE  /\ box.width \in 1 .. size /\ box.height \in 1 .. size
             /\ size \in {box.width, box.height}
             /\ Apart(box.x, size - box.width - box.x) <= 1
             /\ Apart(box.y, size - box.height - box.y) <= 1
             /\ Min({box.width, box.height}) > 1 =>
                  2 * Apart(box.width * h, box.height * w) <= Max({w, h})
  BY <1>3 DEF ImageFits
<1>7. PICK a \in Rounded(w * size, long), b \in Rounded(h * size, long) :
             /\ box.x = (size - Max({1, a})) \div 2 /\ box.y = (size - Max({1, b})) \div 2
             /\ box.width = Max({1, a}) /\ box.height = Max({1, b})
  <2>2. PICK width \in Scaled(w, w, h, size),
             height \in Scaled(h, w, h, size) :
               box = [x |-> (size - width) \div 2, y |-> (size - height) \div 2,
                      width |-> width, height |-> height]
    <3> DEFINE A == Scaled(w, w, h, size)  B == Scaled(h, w, h, size)
    <3>1. box \in {[x |-> (size - width) \div 2, y |-> (size - height) \div 2,
                    width |-> width, height |-> height] : width \in A, height \in B}
      BY DEF Boxes
    <3> HIDE DEF A, B
    <3>2. \E width \in A, height \in B :
               box = [x |-> (size - width) \div 2, y |-> (size - height) \div 2,
                      width |-> width, height |-> height]
      BY <3>1
    <3> QED BY <3>2 DEF A, B
  <2>3. Divisor(w, h) = long
    BY DEF Divisor, LongerSide
  <2>4. PICK a \in Rounded(w * size, long) : width = Max({1, a})
    BY <2>3 DEF Scaled
  <2>5. PICK b \in Rounded(h * size, long) : height = Max({1, b})
    BY <2>3 DEF Scaled
  <2> QED BY <2>2, <2>4, <2>5
<1> HIDE DEF long
<1>8. /\ a \in 0 .. size
      /\ w = long => a = size
      /\ 2 * (long * a) - 2 * (w * size) <= long
      /\ 2 * (w * size) - 2 * (long * a) <= long
  BY <1>2, <1>5, ScaledSide
<1>9. /\ b \in 0 .. size
      /\ h = long => b = size
      /\ 2 * (long * b) - 2 * (h * size) <= long
      /\ 2 * (h * size) - 2 * (long * b) <= long
  BY <1>2, <1>5, ScaledSide
<1>10. /\ box.width = IF 1 > a THEN 1 ELSE a
       /\ box.height = IF 1 > b THEN 1 ELSE b
  BY <1>7, <1>8, <1>9, TwoSides
<1>11. box.width \in 1 .. size /\ box.height \in 1 .. size
  BY <1>2, <1>8, <1>9, <1>10
<1>12. size \in {box.width, box.height}
  BY <1>2, <1>4, <1>8, <1>9, <1>10
<1>13. Apart(box.x, size - box.width - box.x) <= 1
  BY <1>2, <1>7, <1>11, Centred
<1>14. Apart(box.y, size - box.height - box.y) <= 1
  BY <1>2, <1>7, <1>11, Centred
<1>15. ASSUME Min({box.width, box.height}) > 1
       PROVE  2 * Apart(box.width * h, box.height * w) <= long
  <2>1. box.width > 1 /\ box.height > 1
    <3> DEFINE m == box.width  n == box.height
    <3>1. m \in Int /\ n \in Int
      BY <1>2, <1>11
    <3>2. Min({m, n}) > 1
      BY <1>15
    <3> HIDE DEF m, n
    <3>3. Min({m, n}) = IF m < n THEN m ELSE n
      BY <3>1, TwoSides
    <3>4. m > 1 /\ n > 1
      BY <3>1, <3>2, <3>3
    <3> QED BY <3>4 DEF m, n
  <2>2. box.width = a /\ box.height = b
    BY <1>8, <1>9, <1>10, <2>1
  <2>3. CASE long = w
    <3> DEFINE p == w * b  q == h * size
    <3>1. 2 * p - 2 * q <= w /\ 2 * q - 2 * p <= w /\ p \in Int /\ q \in Int
      BY <1>2, <1>9, <2>3
    <3>2. box.width * h = q /\ box.height * w = p
      BY <1>2, <1>8, <1>9, <2>2, <2>3
    <3> HIDE DEF p, q
    <3> QED BY <1>2, <2>3, <3>1, <3>2 DEF Apart
  <2>4. CASE long = h
    <3> DEFINE p == h * a  q == w * size
    <3>1. 2 * p - 2 * q <= h /\ 2 * q - 2 * p <= h /\ p \in Int /\ q \in Int
      BY <1>2, <1>8, <2>4
    <3>2. box.width * h = p /\ box.height * w = q
      BY <1>2, <1>8, <1>9, <2>2, <2>4
    <3> HIDE DEF p, q
    <3> QED BY <1>2, <2>4, <3>1, <3>2 DEF Apart
  <2> QED BY <1>4, <2>3, <2>4
<1> QED BY <1>11, <1>12, <1>13, <1>14, <1>15 DEF long

(* The radius of a surface is even, and its two arcs do not overlap.       *)
LEMMA RadiusIs ==
    ASSUME NEW w \in Nat, NEW h \in Nat, w >= 8, h >= 8
    PROVE  /\ Radius(w, h) = Radius(h, w)
           /\ \E e \in Nat : Radius(w, h) = 2 * e
           /\ Radius(w, h) \in Nat
           /\ Radius(w, h) >= 120
           /\ Radius(w, h) = 120 \/ Radius(w, h) <= 8 * w
           /\ 40 + Radius(w, h) <= 40 * w - 40 - Radius(w, h)
<1> DEFINE m == IF w < h THEN w ELSE h
<1>2. Min({w, h}) = m /\ Min({h, w}) = m
  BY TwoSides
<1>3. Radius(w, h) = Max({8 * m, 120})
  <2>1. 40 \div 5 = 8 /\ 3 * 40 = 120
    OBVIOUS
  <2> QED BY <1>2, <2>1 DEF Radius, Unit
<1>4. Radius(h, w) = Radius(w, h)
  BY <1>2 DEF Radius
<1>5. m \in Nat /\ m <= w
  OBVIOUS
<1> HIDE DEF m
<1>6. Max({8 * m, 120}) = IF 8 * m > 120 THEN 8 * m ELSE 120
  BY <1>5, TwoSides
<1>7. \E e \in Nat : Radius(w, h) = 2 * e
  <2>1. CASE 8 * m > 120
    <3>1. 4 * m \in Nat /\ Radius(w, h) = 2 * (4 * m)
      BY <1>3, <1>5, <1>6, <2>1
    <3> QED BY <3>1
  <2>2. CASE ~(8 * m > 120)
    <3>1. 60 \in Nat /\ Radius(w, h) = 2 * 60
      BY <1>3, <1>6, <2>2
    <3> QED BY <3>1
  <2> QED BY <2>1, <2>2
<1> QED BY <1>3, <1>4, <1>5, <1>6, <1>7

(* A square does not see the sign.                                         *)
LEMMA Square ==
    ASSUME NEW a \in Int
    PROVE  (-a) * (-a) = a * a
  OBVIOUS

(* The surface is mirrored at its middle.  The samples are odd and the     *)
(* bounds are even, so that no sample lies on a bound.                     *)
LEMMA InsideMirrored ==
    ASSUME NEW w \in Nat, NEW h \in Nat, w >= 8, h >= 8, NEW k \in Int, NEW y \in Int
    PROVE  InsideRoundedRectangle(40 * w - (2 * k + 1), y, w, h)
             <=> InsideRoundedRectangle(2 * k + 1, y, w, h)
<1>1. PICK e \in Nat : Radius(w, h) = 2 * e
  BY RadiusIs
<1>2. 40 + 2 * e <= 40 * w - 40 - 2 * e
  BY <1>1, RadiusIs
<1> DEFINE r == 2 * e
           L == 40 + r
           R == 40 * w - 40 - r
           x == 2 * k + 1
           z == 40 * w - x
           DX(a) == a - (IF a < L THEN L ELSE R)
           inY == 40 + r <= y /\ y < 40 * h - 40 - r
           dy == y - (IF y < 40 + r THEN 40 + r ELSE 40 * h - 40 - r)
           boxY == 40 <= y /\ y < 40 * h - 40
           BoxX(a) == 40 <= a /\ a < 40 * w - 40
           InX(a) == L <= a /\ a < R
           Arc(a) == DX(a) * DX(a) + dy * dy <= r * r
<1>3. \A a \in Int : InsideRoundedRectangle(a, y, w, h)
                       <=> BoxX(a) /\ boxY /\ (InX(a) \/ inY \/ Arc(a))
  BY <1>1 DEF InsideRoundedRectangle, Inset, Unit
<1>4. x \in Int /\ z \in Int
  OBVIOUS
<1>5. BoxX(z) <=> BoxX(x)
  OBVIOUS
<1>6. InX(z) <=> InX(x)
  OBVIOUS
<1>7. ~InX(x) => DX(z) = -DX(x)
  BY <1>2
<1>8. ~InX(x) => DX(z) * DX(z) = DX(x) * DX(x)
  <2>1. DX(x) \in Int
    OBVIOUS
  <2> QED BY <1>7, <2>1, Square
<1>9. ~InX(x) => (Arc(z) <=> Arc(x))
  BY <1>8
<1> HIDE DEF BoxX, InX, Arc, boxY, inY, z, x
<1>10. InsideRoundedRectangle(z, y, w, h)
         <=> InsideRoundedRectangle(x, y, w, h)
  BY <1>3, <1>4, <1>5, <1>6, <1>9
<1> QED BY <1>10 DEF x, z

(* Sides and coordinates may change places.                                *)
LEMMA InsideTurned ==
    ASSUME NEW w \in Nat, NEW h \in Nat, w >= 8, h >= 8, NEW x \in Int, NEW y \in Int
    PROVE  InsideRoundedRectangle(x, y, w, h)
             <=> InsideRoundedRectangle(y, x, h, w)
<1>1. Radius(w, h) = Radius(h, w) /\ Radius(w, h) \in Nat
  BY RadiusIs
<1> DEFINE r == Radius(w, h)
           dx == x - (IF x < 40 + r THEN 40 + r ELSE 40 * w - 40 - r)
           dy == y - (IF y < 40 + r THEN 40 + r ELSE 40 * h - 40 - r)
           p == dx * dx
           q == dy * dy
           inX == 40 + r <= x /\ x < 40 * w - 40 - r
           inY == 40 + r <= y /\ y < 40 * h - 40 - r
           boxX == 40 <= x /\ x < 40 * w - 40
           boxY == 40 <= y /\ y < 40 * h - 40
<1>2. InsideRoundedRectangle(x, y, w, h)
        <=> boxX /\ boxY /\ (inX \/ inY \/ p + q <= r * r)
  BY DEF InsideRoundedRectangle, Inset, Unit
<1>3. InsideRoundedRectangle(y, x, h, w)
        <=> boxY /\ boxX /\ (inY \/ inX \/ q + p <= r * r)
  BY <1>1 DEF InsideRoundedRectangle, Inset, Unit
<1>4. p + q = q + p
  <2>1. p \in Int /\ q \in Int
    BY <1>1
  <2> HIDE DEF p, q
  <2> QED BY <2>1
<1> HIDE DEF p, q, r, inX, inY, boxX, boxY
<1> QED BY <1>2, <1>3, <1>4

(* The samples of a pixel, by column and row.                              *)
Grid == (0 .. 3) \X (0 .. 3)

(* Four samples a side make sixteen.                                       *)
LEMMA GridSize == IsFiniteSet(Grid) /\ Cardinality(Grid) = 16
<1>1. PICK a \in Int, b \in Int : a = 0 /\ b = 3
  OBVIOUS
<1> DEFINE I == a .. b
<1>2. IsFiniteSet(I) /\ Cardinality(I) = 4
  <2>1. IsFiniteSet(I) /\ Cardinality(I) = IF a > b THEN 0 ELSE b - a + 1
    BY FS_Interval
  <2> QED BY <1>1, <2>1
<1>3. I = 0 .. 3
  BY <1>1
<1> HIDE DEF I
<1>4. IsFiniteSet(I \X I) /\ Cardinality(I \X I) = Cardinality(I) * Cardinality(I)
  BY <1>2, FS_Product
<1> QED BY <1>2, <1>3, <1>4 DEF Grid

(* Two sets of samples that an involution exchanges have the same size.    *)
LEMMA Exchanged ==
    ASSUME NEW f \in [Grid -> Grid], \A s \in Grid : f[f[s]] = s,
           NEW A \in SUBSET Grid, NEW B \in SUBSET Grid,
           \A s \in Grid : s \in A <=> f[s] \in B
    PROVE  Cardinality(A) = Cardinality(B)
<1> DEFINE g == [s \in A |-> f[s]]
<1>1. g \in [A -> B]
  OBVIOUS
<1>2. g \in Injection(A, B)
  <2>1. \A s, t \in A : g[s] = g[t] => s = t
    <3> SUFFICES ASSUME NEW s \in A, NEW t \in A, f[s] = f[t]
                 PROVE  s = t
      OBVIOUS
    <3>1. f[f[s]] = s /\ f[f[t]] = t
      OBVIOUS
    <3> QED BY <3>1
  <2> QED BY <1>1, <2>1 DEF Injection, IsInjective
<1>3. g \in Surjection(A, B)
  <2>1. ASSUME NEW t \in B
        PROVE  \E s \in A : g[s] = t
    <3>1. t \in Grid /\ f[t] \in Grid /\ f[f[t]] = t
      OBVIOUS
    <3>2. f[t] \in A
      BY <3>1
    <3> QED BY <3>1, <3>2
  <2> QED BY <1>1, <2>1 DEF Surjection
<1>4. IsFiniteSet(A)
  BY GridSize, FS_Subset
<1>5. ExistsBijection(A, B)
  BY <1>2, <1>3 DEF ExistsBijection, Bijection
<1> QED BY <1>4, <1>5, FS_Bijection

(* A sample of a pixel, mirrored.                                          *)
LEMMA SampleMirrored ==
    ASSUME NEW w \in Nat, NEW x \in Int, NEW s \in 0 .. 3
    PROVE  /\ Sample(x, s) = 2 * (20 * x + 5 * s + 2) + 1
           /\ Sample(w - 1 - x, 3 - s) = 40 * w - Sample(x, s)
  BY DEF Sample, Unit

(* The covered samples of a pixel, counted by Coverage.                    *)
CoveredSamples(x, y, w, h) ==
    {s \in Grid : InsideRoundedRectangle(Sample(x, s[1]),
                                                    Sample(y, s[2]), w, h)}

(* A pixel and its mirror image are covered alike, from left to right ...  *)
LEMMA CoverageMirrored ==
    ASSUME NEW w \in Nat, NEW h \in Nat, w >= 8, h >= 8, NEW x \in Int, NEW y \in Int
    PROVE  Coverage(x, y, w, h) = Coverage(w - 1 - x, y, w, h)
<1> DEFINE A == CoveredSamples(x, y, w, h)
           B == CoveredSamples(w - 1 - x, y, w, h)
           f == [s \in Grid |-> <<3 - s[1], s[2]>>]
<1>1. Coverage(x, y, w, h) = Cardinality(A)
      /\ Coverage(w - 1 - x, y, w, h) = Cardinality(B)
  BY DEF Coverage, CoveredSamples, Grid
<1>2. f \in [Grid -> Grid] /\ \A s \in Grid : f[f[s]] = s
  BY DEF Grid
<1>3. ASSUME NEW s \in Grid
      PROVE  s \in A <=> f[s] \in B
  <2>1. s[1] \in 0 .. 3 /\ s[2] \in 0 .. 3 /\ f[s] \in Grid
    BY DEF Grid
  <2>2. f[s][1] = 3 - s[1] /\ f[s][2] = s[2]
    OBVIOUS
  <2> DEFINE k == 20 * x + 5 * s[1] + 2
             v == Sample(y, s[2])
  <2>3. k \in Int /\ v \in Int
    BY <2>1 DEF Sample, Unit
  <2>4. /\ Sample(x, s[1]) = 2 * k + 1
        /\ Sample(w - 1 - x, 3 - s[1]) = 40 * w - (2 * k + 1)
    <3> DEFINE a == s[1]
    <3> HIDE DEF a
    <3>1. a \in 0 .. 3
      BY <2>1 DEF a
    <3>2. /\ Sample(x, a) = 2 * (20 * x + 5 * a + 2) + 1
          /\ Sample(w - 1 - x, 3 - a) = 40 * w - Sample(x, a)
      BY <3>1, SampleMirrored
    <3> QED BY <3>2 DEF a
  <2> HIDE DEF k, v
  <2>5. InsideRoundedRectangle(40 * w - (2 * k + 1), v, w, h)
          <=> InsideRoundedRectangle(2 * k + 1, v, w, h)
    BY <2>3, InsideMirrored
  <2> QED BY <2>1, <2>2, <2>4, <2>5 DEF v, CoveredSamples
<1>4. A \in SUBSET Grid /\ B \in SUBSET Grid
  BY DEF CoveredSamples
<1> HIDE DEF A, B, f
<1> QED BY <1>1, <1>2, <1>3, <1>4, Exchanged

(* ... and with its sides exchanged.                                       *)
LEMMA CoverageTurned ==
    ASSUME NEW w \in Nat, NEW h \in Nat, w >= 8, h >= 8, NEW x \in Int, NEW y \in Int
    PROVE  Coverage(x, y, w, h) = Coverage(y, x, h, w)
<1> DEFINE A == CoveredSamples(x, y, w, h)
           B == CoveredSamples(y, x, h, w)
           f == [s \in Grid |-> <<s[2], s[1]>>]
<1>1. Coverage(x, y, w, h) = Cardinality(A)
      /\ Coverage(y, x, h, w) = Cardinality(B)
  BY DEF Coverage, CoveredSamples, Grid
<1>2. f \in [Grid -> Grid] /\ \A s \in Grid : f[f[s]] = s
  BY DEF Grid
<1>3. ASSUME NEW s \in Grid
      PROVE  s \in A <=> f[s] \in B
  <2>1. s[1] \in 0 .. 3 /\ s[2] \in 0 .. 3 /\ f[s] \in Grid
    BY DEF Grid
  <2>2. f[s][1] = s[2] /\ f[s][2] = s[1]
    OBVIOUS
  <2> DEFINE u == Sample(x, s[1])
             v == Sample(y, s[2])
  <2>3. u \in Int /\ v \in Int
    BY <2>1 DEF Sample, Unit
  <2> HIDE DEF u, v
  <2>4. InsideRoundedRectangle(u, v, w, h)
          <=> InsideRoundedRectangle(v, u, h, w)
    BY <2>3, InsideTurned
  <2> QED BY <2>1, <2>2, <2>4 DEF u, v, CoveredSamples
<1>4. A \in SUBSET Grid /\ B \in SUBSET Grid
  BY DEF CoveredSamples
<1> HIDE DEF A, B, f
<1> QED BY <1>1, <1>2, <1>3, <1>4, Exchanged

(* The border of an icon stays free.                                       *)
LEMMA BorderFree ==
    ASSUME NEW w \in Nat, NEW h \in Nat, NEW y \in Int
    PROVE  Coverage(0, y, w, h) = 0
<1>1. CoveredSamples(0, y, w, h) = {}
  <2> SUFFICES ASSUME NEW s \in Grid
               PROVE  ~InsideRoundedRectangle(Sample(0, s[1]),
                                Sample(y, s[2]), w, h)
    BY DEF CoveredSamples
  <2>1. s[1] \in 0 .. 3
    BY DEF Grid
  <2>2. Sample(0, s[1]) < 40
    BY <2>1 DEF Sample, Unit
  <2>3. Sample(0, s[1]) \in Int
    BY <2>1 DEF Sample, Unit
  <2> DEFINE u == Sample(0, s[1])  v == Sample(y, s[2])
  <2> HIDE DEF u, v
  <2>4. u < 40 /\ u \in Int
    BY <2>2, <2>3 DEF u
  <2>5. ~(40 <= u) => ~InsideRoundedRectangle(u, v, w, h)
    BY DEF InsideRoundedRectangle, Inset, Unit
  <2> QED BY <2>4, <2>5 DEF u, v
<1>2. Coverage(0, y, w, h) = Cardinality(CoveredSamples(0, y, w, h))
  BY DEF Coverage, CoveredSamples, Grid
<1> QED BY <1>1, <1>2, FS_EmptySet

(* A pixel of the middle is covered, in all its samples.                   *)
LEMMA MiddleInside ==
    ASSUME NEW w \in Nat, NEW h \in Nat, w >= 8, h >= 8,
           NEW x \in Int, 2 * x + 1 \in {w, w + 1},
           NEW y \in Int, 2 <= y, y < h - 2, NEW s \in 0 .. 3, NEW t \in 0 .. 3
    PROVE  InsideRoundedRectangle(Sample(x, s), Sample(y, t), w, h)
<1> DEFINE u == Sample(x, s)
           v == Sample(y, t)
           r == Radius(w, h)
           dx == u - (IF u < 40 + r THEN 40 + r ELSE 40 * w - 40 - r)
           dy == v - (IF v < 40 + r THEN 40 + r ELSE 40 * h - 40 - r)
<1>1. r \in Nat /\ r >= 120 /\ (r = 120 \/ r <= 8 * w)
  BY RadiusIs
<1>2. /\ u \in Int /\ v \in Int
      /\ 20 * w - 15 <= u
      /\ w = 2 * x + 1 => u <= 20 * w + 15
      /\ w = 2 * x => u <= 20 * w + 35 /\ 20 * w + 5 <= u
      /\ 85 <= v /\ v <= 40 * h - 85
  BY DEF Sample, Unit
<1>3. w = 2 * x + 1 \/ w = 2 * x
  OBVIOUS
<1>4. InsideRoundedRectangle(u, v, w, h)
        <=> /\ 40 <= u /\ u < 40 * w - 40 /\ 40 <= v /\ v < 40 * h - 40
            /\ \/ 40 + r <= u /\ u < 40 * w - 40 - r
               \/ 40 + r <= v /\ v < 40 * h - 40 - r
               \/ dx * dx + dy * dy <= r * r
  BY DEF InsideRoundedRectangle, Inset, Unit
<1>5. 40 <= u /\ u < 40 * w - 40 /\ 40 <= v /\ v < 40 * h - 40
  <2> HIDE DEF u, v
  <2> QED BY <1>2, <1>3
<1>6. CASE w = 8 /\ r = 120
  <2>1. u \in 165 .. 195 /\ dx \in 5 .. 35
    <3> HIDE DEF u, r
    <3> QED BY <1>2, <1>3, <1>6
  <2>2. (40 + r <= v /\ v < 40 * h - 40 - r) \/ dy \in -75 .. 75
    <3> HIDE DEF v, r
    <3> QED BY <1>2, <1>6
  <2>3. \A a \in 0 .. 75, b \in 0 .. 75 : a * b <= 75 * 75
    OBVIOUS
  <2>4. dx * dx <= 75 * 75
    <3> HIDE DEF dx
    <3> QED BY <2>1, <2>3
  <2>5. dy \in -75 .. 75 => dy * dy <= 75 * 75
    <3> HIDE DEF dy
    <3>1. dy \in 0 .. 75 => dy * dy <= 75 * 75
      BY <2>3
    <3>2. dy \in -75 .. 0 => -dy \in 0 .. 75 /\ dy * dy = (-dy) * (-dy)
      OBVIOUS
    <3>3. dy \in -75 .. 0 => dy * dy <= 75 * 75
      BY <2>3, <3>2
    <3> QED BY <3>1, <3>3
  <2>6. dy \in -75 .. 75 => dx * dx + dy * dy <= r * r
    <3>1. r * r = 14400
      BY <1>6
    <3>2. dx * dx \in Int /\ (dy \in -75 .. 75 => dy * dy \in Int)
      BY <2>1
    <3> DEFINE p == dx * dx  q == dy * dy
    <3> HIDE DEF p, q, dy
    <3>3. p <= 5625 /\ p \in Int /\ (dy \in -75 .. 75 => q <= 5625 /\ q \in Int)
      BY <2>4, <2>5, <3>2 DEF p, q
    <3>4. dy \in -75 .. 75 => p + q <= 14400
      BY <3>3
    <3> QED BY <3>1, <3>4 DEF p, q
  <2> QED BY <1>4, <1>5, <2>2, <2>6
<1>7. CASE ~(w = 8 /\ r = 120)
  <2>1. 40 + r <= u /\ u < 40 * w - 40 - r
    <3> HIDE DEF u, r
    <3> QED BY <1>1, <1>2, <1>3, <1>7
  <2> QED BY <1>4, <1>5, <2>1
<1> QED BY <1>6, <1>7 DEF u, v

(* Sixteen samples are all of them.                                        *)
LEMMA MiddleCovered ==
    ASSUME NEW w \in Nat, NEW h \in Nat, w >= 8, h >= 8,
           NEW x \in Int, 2 * x + 1 \in {w, w + 1},
           NEW y \in Int, 2 <= y, y < h - 2
    PROVE  Coverage(x, y, w, h) = 16
<1>1. CoveredSamples(x, y, w, h) = Grid
  <2>1. ASSUME NEW s \in Grid
        PROVE  InsideRoundedRectangle(Sample(x, s[1]), Sample(y, s[2]), w, h)
    <3> DEFINE a == s[1]  b == s[2]
    <3>1. a \in 0 .. 3 /\ b \in 0 .. 3
      BY DEF Grid
    <3> HIDE DEF a, b
    <3>2. InsideRoundedRectangle(Sample(x, a), Sample(y, b), w, h)
      BY <3>1, MiddleInside
    <3> QED BY <3>2 DEF a, b
  <2> QED BY <2>1 DEF CoveredSamples
<1>2. Coverage(x, y, w, h) = Cardinality(CoveredSamples(x, y, w, h))
  BY DEF Coverage, CoveredSamples, Grid
<1> QED BY <1>1, <1>2, GridSize

(* What is covered of a dark icon is symmetric, and its border is free.    *)
Balanced(x, y, w, h) ==
    /\ Coverage(x, y, w, h) = Coverage(w - 1 - x, y, w, h)
    /\ Coverage(x, y, w, h) = Coverage(x, h - 1 - y, w, h)
    /\ x = 0 \/ y = 0 => Coverage(x, y, w, h) = 0
LEMMA CoverageSymmetric ==
    ASSUME NEW w \in Nat, NEW h \in Nat, w >= 8, h >= 8, NEW x \in Int, NEW y \in Int
    PROVE  Balanced(x, y, w, h)
<1>1. Coverage(x, y, w, h) = Coverage(w - 1 - x, y, w, h)
  BY CoverageMirrored
<1>2. Coverage(x, y, w, h) = Coverage(x, h - 1 - y, w, h)
  <2>1. Coverage(y, x, h, w) = Coverage(h - 1 - y, x, h, w)
    BY CoverageMirrored
  <2>2. Coverage(x, y, w, h) = Coverage(y, x, h, w)
    BY CoverageTurned
  <2>3. Coverage(x, h - 1 - y, w, h) = Coverage(h - 1 - y, x, h, w)
    <3> DEFINE z == h - 1 - y
    <3>1. z \in Int
      OBVIOUS
    <3> HIDE DEF z
    <3>2. Coverage(x, z, w, h) = Coverage(z, x, h, w)
      BY <3>1, CoverageTurned
    <3> QED BY <3>2 DEF z
  <2> QED BY <2>1, <2>2, <2>3
<1>3. x = 0 \/ y = 0 => Coverage(x, y, w, h) = 0
  <2>1. x = 0 => Coverage(x, y, w, h) = 0
    BY BorderFree
  <2>2. y = 0 => Coverage(x, y, w, h) = 0
    <3>1. Coverage(x, y, w, h) = Coverage(y, x, h, w)
      BY CoverageTurned
    <3>2. Coverage(0, x, h, w) = 0
      BY BorderFree
    <3> QED BY <3>1, <3>2
  <2> QED BY <2>1, <2>2
<1> QED BY <1>1, <1>2, <1>3 DEF Balanced

(* The surface of a dark icon, on every pixel of every size.               *)
LEMMA SurfaceRule ==
    ASSUME RulesAssumption, kind = "surface", SurfaceInput
    PROVE  SurfaceIsSymmetric
<1>1. PICK w \in IconSizes, h \in IconSizes :
              \E x \in 0 .. w - 1, y \in 0 .. h - 1 : input = [w |-> w, h |-> h, x |-> x, y |-> y]
  BY DEF SurfaceInput
<1>2. PICK x \in 0 .. w - 1, y \in 0 .. h - 1 : input = [w |-> w, h |-> h, x |-> x, y |-> y]
  BY <1>1
<1>3. w \in Nat /\ h \in Nat /\ w >= 8 /\ h >= 8
  BY DEF RulesAssumption
<1>4. x \in Int /\ y \in Int
  BY <1>3
<1>5. Balanced(x, y, w, h)
  BY <1>3, <1>4, CoverageSymmetric
<1>6. 2 * x + 1 \in {w, w + 1} /\ y >= Padding(w, h)
        /\ y < Padding(w, h) + Target(h, w, h) => Coverage(x, y, w, h) = 16
  <2> DEFINE p == Min({w, h}) \div 12
  <2>1. Min({w, h}) \in Nat
    <3> HIDE RulesAssumption
    <3>1. w \in Int /\ h \in Int
      BY <1>3
    <3>2. Min({w, h}) = IF w < h THEN w ELSE h
      BY <3>1, TwoSides
    <3> QED BY <1>3, <3>2
  <2>2. p \in Int
    BY <2>1
  <2>3. Padding(w, h) \in Int /\ Padding(w, h) >= 2
    <3>1. Padding(w, h) = Max({p, 2})
      BY DEF Padding
    <3> HIDE DEF p
    <3>2. Max({p, 2}) = IF p > 2 THEN p ELSE 2
      BY <2>2, TwoSides
    <3> QED BY <2>2, <3>1, <3>2
  <2> DEFINE q == Padding(w, h)
  <2>4. q \in Int /\ q >= 2
    BY <2>3
  <2>5. Target(h, w, h) = IF 0 > h - 2 * q THEN 0 ELSE h - 2 * q
    <3>1. Target(h, w, h) = Max({0, h - 2 * q})
      BY DEF Target
    <3> HIDE DEF q
    <3>2. 0 \in Int /\ h - 2 * q \in Int
      BY <1>3, <2>4
    <3> QED BY <3>1, <3>2, TwoSides
  <2> HIDE DEF q
  <2>6. y >= q /\ y < q + Target(h, w, h) => 2 <= y /\ y < h - 2
    BY <1>3, <1>4, <2>4, <2>5
  <2> QED BY <1>3, <1>4, <2>6, MiddleCovered DEF q
<1> QED BY <1>2, <1>5, <1>6 DEF SurfaceIsSymmetric, Balanced

-----------------------------------------------------------------------------
(* The preview of a text, up to TextRule.  append_node_text writes more    *)
(* lines and blanks than normalize_lines leaves, so texts are compared by  *)
(* what is left of them (Normal) and by what they would put before the     *)
(* next word (Gap).  Two arguments meet: how a character changes both, by  *)
(* the recursions of split and join (NormalStep); and what the walk has    *)
(* written when it has come to a node (Stands): what is seen of all nodes  *)
(* before, and what is between the last word and the next (Ahead), as the  *)
(* nodes in between tell it.                                               *)

-----------------------------------------------------------------------------
(* What holds at 0 and goes on holds up to a number; and what holds where  *)
(* it holds at all later places holds from a number on.                    *)
LEMMA Upwards ==
    ASSUME NEW n \in Nat, NEW G, 0 \in G, \A k \in 1 .. n : k - 1 \in G => k \in G
    PROVE  \A k \in 0 .. n : k \in G
<1> DEFINE bad == {k \in 0 .. n : k \notin G}
<1> SUFFICES ASSUME bad # {} PROVE FALSE
  OBVIOUS
<1>1. bad \in SUBSET (0 .. n) /\ 0 \in Int /\ n \in Int
  OBVIOUS
<1> DEFINE k == Min(bad)
<1>2. k \in bad /\ \A y \in bad : k <= y
  <2> HIDE DEF bad
  <2> QED BY <1>1, Extremes
<1> HIDE DEF k
<1>3. k \in 0 .. n /\ k \notin G
  BY <1>2
<1>4. k \in 1 .. n /\ k - 1 \in 0 .. n /\ ~ (k <= k - 1)
  BY <1>3
<1>5. k - 1 \in G
  BY <1>2, <1>4
<1> QED BY <1>3, <1>4, <1>5

(* The same from the end.                                                  *)
LEMMA Downwards ==
    ASSUME NEW n \in Nat, NEW G,
           \A k \in 1 .. n : (\A j \in k + 1 .. n : j \in G) => k \in G
    PROVE  \A k \in 1 .. n : k \in G
<1> DEFINE bad == {k \in 1 .. n : k \notin G}
<1> SUFFICES ASSUME bad # {} PROVE FALSE
  OBVIOUS
<1>1. bad \in SUBSET (1 .. n) /\ 1 \in Int /\ n \in Int
  OBVIOUS
<1> DEFINE k == Max(bad)
<1>2. k \in bad /\ \A y \in bad : k >= y
  <2> HIDE DEF bad
  <2> QED BY <1>1, Extremes
<1> HIDE DEF k
<1>3. k \in 1 .. n /\ k \notin G
  BY <1>2
<1>4. \A j \in k + 1 .. n : j \in 1 .. n /\ ~ (k >= j)
  BY <1>3
<1>5. \A j \in k + 1 .. n : j \in G
  BY <1>2, <1>4
<1> QED BY <1>3, <1>5

(* A recursion upwards has a solution.                                     *)
Recurs(f, n, S, base, step) ==
    f \in [0 .. n -> S] /\ f[0] = base /\ \A k \in 1 .. n : f[k] = step[<<f[k - 1], k>>]

(* For each of its steps there is one that solves it so far.               *)
LEMMA Recursion ==
    ASSUME NEW n \in Nat, NEW S, NEW base \in S, NEW step \in [S \X (1 .. n) -> S]
    PROVE  \E f : Recurs(f, n, S, base, step)
<1> DEFINE Solves(f, m) == /\ f \in [0 .. m -> S] /\ f[0] = base
                           /\ \A k \in 1 .. m : f[k] = step[<<f[k - 1], k>>]
           G == {m \in 0 .. n : \E f : Solves(f, m)}
<1>1. 0 \in G
  <2> DEFINE f == [k \in 0 .. 0 |-> base]
  <2>1. Solves(f, 0)
    OBVIOUS
  <2> HIDE DEF Solves
  <2>2. 0 \in 0 .. n
    OBVIOUS
  <2> QED BY <2>1, <2>2
<1>2. ASSUME NEW m \in 1 .. n, m - 1 \in G PROVE m \in G
  <2>1. PICK f : Solves(f, m - 1)
    BY <1>2
  <2> DEFINE x == step[<<f[m - 1], m>>]
             g == [k \in 0 .. m |-> IF k = m THEN x ELSE f[k]]
  <2>2. m - 1 \in 0 .. m - 1 /\ m \in Int
    OBVIOUS
  <2>3. x \in S
    <3>1. f[m - 1] \in S
      BY <2>1, <2>2
    <3>2. <<f[m - 1], m>> \in S \X (1 .. n)
      BY <3>1
    <3> HIDE DEF Solves
    <3> QED BY <3>2
  <2> HIDE DEF x
  <2>4. \A k \in 0 .. m : k # m => k \in 0 .. m - 1 /\ f[k] \in S
    BY <2>1, <2>2
  <2>5. g \in [0 .. m -> S]
    BY <2>3, <2>4
  <2>6. g[0] = base
    BY <2>1, <2>2
  <2>7. ASSUME NEW k \in 1 .. m PROVE g[k] = step[<<g[k - 1], k>>]
    <3>1. k - 1 \in 0 .. m /\ k - 1 # m /\ k \in 0 .. m
      BY <2>2
    <3>2. g[k - 1] = f[k - 1]
      BY <3>1
    <3>3. CASE k = m
      BY <3>1, <3>2, <3>3 DEF x
    <3>4. CASE k # m
      <4>1. k \in 1 .. m - 1 /\ g[k] = f[k]
        BY <2>2, <3>1, <3>4
      <4>2. f[k] = step[<<f[k - 1], k>>]
        BY <2>1, <4>1
      <4> HIDE DEF g
      <4> QED BY <3>2, <4>1, <4>2
    <3> QED BY <3>3, <3>4
  <2> HIDE DEF g
  <2>8. Solves(g, m)
    BY <2>5, <2>6, <2>7
  <2>9. m \in 0 .. n
    OBVIOUS
  <2> HIDE DEF Solves
  <2> QED BY <2>8, <2>9
<1>3. n \in G
  <2> HIDE DEF G
  <2>1. \A m \in 0 .. n : m \in G
    BY <1>1, <1>2, Upwards
  <2> QED BY <2>1
<1>4. PICK f : Solves(f, n)
  BY <1>3
<1> QED BY <1>4 DEF Recurs

-----------------------------------------------------------------------------
(* Texts, and what a character makes of the parts of a text before it.     *)
Chars == STRING \cup Spaces
AllTexts == Seq(Chars)
PartLists == Seq(AllTexts) \ {<<>>}
Cut(parts, ch, separators) ==
    IF ch \in separators THEN Append(parts, NoText)
    ELSE [parts EXCEPT ![Len(parts)] = Append(@, ch)]

(* A sequence of one, and of none.                                         *)
LEMMA Alone == ASSUME NEW S, NEW x \in S PROVE <<x>> \in Seq(S) /\ <<>> \in Seq(S)
OBVIOUS

(* Texts are joined, and lengthened by a character.                        *)
Associates(a, b, c) == (a \o b) \o c = a \o (b \o c)
(* Joining is associative; a name for it keeps provers from rewriting.     *)
LEMMA Associative ==
    ASSUME NEW a \in AllTexts, NEW b \in AllTexts, NEW c \in AllTexts
    PROVE  Associates(a, b, c)
BY DEF AllTexts, Associates

(* What joining keeps: type, order, the empty text, lengths.               *)
LEMMA Joined3 ==
    ASSUME NEW a \in AllTexts, NEW b \in AllTexts, NEW c \in AllTexts
    PROVE  /\ a \o b \in AllTexts /\ (a \o b) \o c = a \o (b \o c)
           /\ NoText \in AllTexts /\ a \o NoText = a /\ NoText \o a = a
           /\ (a \o b = NoText) <=> (a = NoText /\ b = NoText)
           /\ Len(a) \in Nat /\ Len(a \o b) = Len(a) + Len(b)
<1>1. a \in Seq(Chars) /\ b \in Seq(Chars) /\ c \in Seq(Chars)
  BY DEF AllTexts
<1>2. (a \o b) \o c = a \o (b \o c)
  BY Associative DEF Associates
<1>3. a \o <<>> = a /\ <<>> \o a = a /\ <<>> \in Seq(Chars)
  BY <1>1, ConcatEmptySeq, EmptySeq
<1>4. a \o b \in Seq(Chars) /\ Len(a) \in Nat /\ Len(a \o b) = Len(a) + Len(b)
  BY <1>1, ConcatProperties, LenProperties
<1>5. (a \o b = <<>>) <=> (a = <<>> /\ b = <<>>)
  BY <1>1, ConcatEqualIffEmpty
<1> QED BY <1>2, <1>3, <1>4, <1>5 DEF AllTexts, NoText

(* A text and one more character.                                          *)
LEMMA Longer ==
    ASSUME NEW text \in AllTexts, NEW ch \in Chars
    PROVE  /\ NoText \in AllTexts /\ <<ch>> \in AllTexts /\ Append(text, ch) \in AllTexts
           /\ Len(Append(text, ch)) = Len(text) + 1 /\ Append(text, ch) # NoText
           /\ Append(text, ch) = text \o <<ch>>
<1>1. text \in Seq(Chars)
  BY DEF AllTexts
<1>2. Append(text, ch) = text \o <<ch>>
  BY <1>1, AppendIsConcat
<1>3. /\ Append(text, ch) \in Seq(Chars) /\ Append(text, ch) # <<>>
      /\ Len(Append(text, ch)) = Len(text) + 1
  BY <1>1, AppendProperties
<1>4. <<ch>> \in Seq(Chars) /\ <<>> \in Seq(Chars)
  BY Alone
<1> QED BY <1>2, <1>3, <1>4 DEF AllTexts, NoText

(* A character is added to the last part, or ends it.                      *)
LEMMA CutIs ==
    ASSUME NEW front \in Seq(AllTexts), NEW last \in AllTexts, NEW ch \in Chars, NEW separators
    PROVE  /\ Append(front, last) \in PartLists
           /\ Cut(Append(front, last), ch, separators) =
                IF ch \in separators THEN Append(Append(front, last), NoText)
                ELSE Append(front, Append(last, ch))
           /\ Cut(Append(front, last), ch, separators) \in PartLists
<1> DEFINE p == Append(front, last)
           n == Len(front) + 1
<1>1. p \in PartLists
  <2> HIDE DEF AllTexts
  <2> QED BY AppendProperties DEF PartLists
<1>2. Append(last, ch) \in AllTexts /\ NoText \in AllTexts
  BY Longer
<1>3. Len(p) = n /\ p[n] = last
  BY AppendProperties
<1>4. Append(front, Append(last, ch)) = [p EXCEPT ![n] = Append(last, ch)]
  <2> DEFINE x == Append(last, ch)
             q == Append(front, x)
             r == [p EXCEPT ![n] = x]
  <2>1. x \in AllTexts
    BY <1>2
  <2> HIDE DEF x
  <2>2. Len(front) \in Nat /\ p \in Seq(AllTexts) /\ n \in 1 .. Len(p)
    BY <1>1, <1>3 DEF PartLists
  <2> HIDE DEF AllTexts
  <2>3. /\ q \in Seq(AllTexts) /\ Len(q) = n /\ q[n] = x
        /\ \A i \in 1 .. Len(front) : q[i] = front[i] /\ p[i] = front[i]
    BY <2>1, AppendProperties
  <2> HIDE DEF p, q, n
  <2>4. /\ r \in Seq(AllTexts) /\ Len(r) = Len(p)
        /\ \A j \in 1 .. Len(p) : r[j] = IF j = n THEN x ELSE p[j]
    BY <2>1, <2>2, ExceptSeq
  <2> HIDE DEF r
  <2>5. \A j \in 1 .. Len(q) : q[j] = r[j]
    <3> SUFFICES ASSUME NEW j \in 1 .. Len(q) PROVE q[j] = r[j]
      OBVIOUS
    <3>1. j = n \/ j \in 1 .. Len(front)
      BY <2>2, <2>3 DEF n
    <3>2. j \in 1 .. Len(p)
      BY <1>3, <2>3
    <3>3. r[j] = IF j = n THEN x ELSE p[j]
      BY <2>4, <3>2
    <3>4. j # n => q[j] = p[j]
      BY <2>3, <3>1
    <3> QED BY <2>3, <3>3, <3>4
  <2>6. q = r
    BY <1>3, <2>3, <2>4, <2>5, SeqEqual
  <2> QED BY <2>6 DEF p, q, r, x
<1>5. Cut(p, ch, separators) = IF ch \in separators THEN Append(p, NoText)
                               ELSE [p EXCEPT ![n] = Append(last, ch)]
  BY <1>3 DEF Cut
<1>6. Append(p, NoText) \in PartLists
  <2>1. p \in Seq(AllTexts)
    BY <1>1 DEF PartLists
  <2> HIDE DEF AllTexts, p
  <2> QED BY <1>2, <2>1, AppendProperties DEF PartLists
<1>7. Append(front, Append(last, ch)) \in PartLists
  <2> DEFINE x == Append(last, ch)
  <2> HIDE DEF AllTexts, x
  <2>1. x \in AllTexts
    BY <1>2 DEF x
  <2>2. Append(front, x) \in PartLists
    BY <2>1, AppendProperties DEF PartLists
  <2> QED BY <2>2 DEF x
<1> QED BY <1>1, <1>4, <1>5, <1>6, <1>7

(* A character that does not separate lengthens the last part.             *)
LEMMA CutIsBlack ==
    ASSUME NEW front \in Seq(AllTexts), NEW last \in AllTexts, NEW ch \in Chars, NEW separators,
           ch \notin separators
    PROVE  Cut(Append(front, last), ch, separators) = Append(front, Append(last, ch))
  <1> HIDE DEF AllTexts
  <1> QED BY CutIs

(* Every list of parts has a last part.                                    *)
LEMMA HasLast ==
    ASSUME NEW parts \in PartLists
    PROVE  /\ \E front \in Seq(AllTexts), last \in AllTexts : parts = Append(front, last)
           /\ parts[Len(parts)] \in AllTexts
           /\ \A front \in Seq(AllTexts), last \in AllTexts :
                parts = Append(front, last) => parts[Len(parts)] = last
<1> HIDE DEF AllTexts
<1>1. parts \in Seq(AllTexts) /\ parts # <<>>
  BY DEF PartLists
<1>2. \E front \in Seq(AllTexts), last \in AllTexts : parts = Append(front, last)
  BY <1>1, SequenceEmptyOrAppend
<1>3. ASSUME NEW front \in Seq(AllTexts), NEW last \in AllTexts, parts = Append(front, last)
      PROVE  parts[Len(parts)] = last
  BY <1>3, AppendProperties
<1> QED BY <1>2, <1>3

(* The parts of a text, character by character.                            *)
Splits(text, separators, parts) ==
    parts = [k \in 0 .. Len(text) |-> IF k = 0 THEN <<NoText>>
                                      ELSE Cut(parts[k - 1], text[k], separators)]

(* The recursion of Parts ends, in a list that is not empty.               *)
LEMMA PartsAre ==
    ASSUME NEW text \in AllTexts, NEW separators
    PROVE  \E parts : /\ Splits(text, separators, parts)
                      /\ \A k \in 0 .. Len(text) : parts[k] \in PartLists
                      /\ Parts(text, separators) = parts[Len(text)]
<1> DEFINE n == Len(text)
           step == [x \in PartLists \X (1 .. n) |-> Cut(x[1], text[x[2]], separators)]
           c == CHOOSE parts : Splits(text, separators, parts)
<1>1. n \in Nat /\ \A k \in 1 .. n : text[k] \in Chars
  BY DEF AllTexts
<1>2. <<NoText>> \in PartLists
  BY DEF PartLists, AllTexts, NoText
<1>3. \A p \in PartLists, ch \in Chars : Cut(p, ch, separators) \in PartLists
  <2> SUFFICES ASSUME NEW p \in PartLists, NEW ch \in Chars
               PROVE  Cut(p, ch, separators) \in PartLists
    OBVIOUS
  <2> HIDE DEF AllTexts, PartLists
  <2>1. PICK front \in Seq(AllTexts), last \in AllTexts : p = Append(front, last)
    BY HasLast
  <2> QED BY <2>1, CutIs
<1>4. step \in [PartLists \X (1 .. n) -> PartLists]
  <2> SUFFICES ASSUME NEW x \in PartLists \X (1 .. n)
               PROVE  Cut(x[1], text[x[2]], separators) \in PartLists
    OBVIOUS
  <2>1. x[1] \in PartLists /\ x[2] \in 1 .. n
    OBVIOUS
  <2> QED BY <1>1, <1>3, <2>1
<1> HIDE DEF n, step
<1>5. PICK f \in [0 .. n -> PartLists] :
        f[0] = <<NoText>> /\ \A k \in 1 .. n : f[k] = step[<<f[k - 1], k>>]
  <2>1. n \in Nat
    BY <1>1
  <2> DEFINE base == <<NoText>>
  <2>2. base \in PartLists
    BY <1>2
  <2> HIDE DEF AllTexts, PartLists, base
  <2>3. \E f : Recurs(f, n, PartLists, base, step)
    BY <1>4, <2>1, <2>2, Recursion
  <2> QED BY <2>3 DEF base, Recurs
<1>6. \A k \in 1 .. n : k - 1 \in 0 .. n
  BY <1>1
<1>7. \A k \in 1 .. n : f[k] = Cut(f[k - 1], text[k], separators)
  <2> SUFFICES ASSUME NEW k \in 1 .. n PROVE f[k] = Cut(f[k - 1], text[k], separators)
    OBVIOUS
  <2>1. <<f[k - 1], k>> \in PartLists \X (1 .. n)
    BY <1>6
  <2>2. step[<<f[k - 1], k>>] = Cut(f[k - 1], text[k], separators)
    BY <2>1 DEF step
  <2> QED BY <1>5, <2>2
<1>8. Splits(text, separators, f)
  <2>1. \A k \in 0 .. n : k = 0 \/ k \in 1 .. n
    BY <1>1
  <2>2. f = [k \in 0 .. n |-> f[k]]
    OBVIOUS
  <2> QED BY <1>5, <1>7, <2>1, <2>2 DEF Splits, n
<1>9. Splits(text, separators, c)
  BY <1>8
<1> HIDE DEF c
<1>10. c[0] = <<NoText>> /\ \A k \in 1 .. n : c[k] = Cut(c[k - 1], text[k], separators)
  <2>1. 0 \in 0 .. n /\ \A k \in 1 .. n : k \in 0 .. n /\ k # 0
    BY <1>1
  <2> QED BY <1>9, <2>1 DEF Splits, n
<1> DEFINE G == {k \in 0 .. n : c[k] \in PartLists}
<1>11. 0 \in G
  BY <1>1, <1>2, <1>10
<1>12. ASSUME NEW k \in 1 .. n, k - 1 \in G PROVE k \in G
  <2> HIDE DEF AllTexts, PartLists
  <2>1. k \in 0 .. n /\ c[k - 1] \in PartLists /\ text[k] \in Chars
    BY <1>1, <1>12
  <2>2. Cut(c[k - 1], text[k], separators) \in PartLists
    BY <1>3, <2>1
  <2> QED BY <1>10, <2>1, <2>2
<1>13. \A k \in 0 .. n : k \in G
  <2> HIDE DEF G
  <2> QED BY <1>1, <1>11, <1>12, Upwards
<1>14. Parts(text, separators) = c[n]
  BY DEF Parts, c, Splits, Cut, n
<1> QED BY <1>9, <1>13, <1>14 DEF n

-----------------------------------------------------------------------------
(* The parts of a text that is a character longer.                         *)
LEMMA PartsAppend ==
    ASSUME NEW text \in AllTexts, NEW ch \in Chars, NEW separators
    PROVE  /\ Parts(NoText, separators) = <<NoText>>
           /\ Parts(text, separators) \in PartLists
           /\ Parts(Append(text, ch), separators) = Cut(Parts(text, separators), ch, separators)
<1> DEFINE longer == Append(text, ch)
           n == Len(text)
<1>1. NoText \in AllTexts /\ longer \in AllTexts /\ n \in Nat /\ Len(longer) = n + 1
  BY Longer, Joined3
<1>2. \A k \in 1 .. n : longer[k] = text[k]
  BY AppendProperties DEF AllTexts
<1>3. Len(NoText) = 0 /\ longer[n + 1] = ch
  <2>1. Len(NoText) = 0
    BY DEF NoText
  <2> QED BY <2>1, AppendProperties DEF AllTexts
<1> HIDE DEF longer, AllTexts, PartLists
<1>4. PICK e : /\ Splits(NoText, separators, e)
               /\ Parts(NoText, separators) = e[Len(NoText)]
  BY <1>1, PartsAre
<1>5. e[0] = <<NoText>>
  BY <1>3, <1>4 DEF Splits
<1>6. PICK p : /\ Splits(text, separators, p)
               /\ \A k \in 0 .. Len(text) : p[k] \in PartLists
               /\ Parts(text, separators) = p[Len(text)]
  BY PartsAre
<1>7. PICK q : /\ Splits(longer, separators, q)
               /\ Parts(longer, separators) = q[Len(longer)]
  BY <1>1, PartsAre
<1> HIDE DEF n
<1>8. p[0] = <<NoText>> /\ \A k \in 1 .. n : p[k] = Cut(p[k - 1], text[k], separators)
  <2>1. 0 \in 0 .. n /\ \A k \in 1 .. n : k \in 0 .. n /\ k # 0
    BY <1>1
  <2> QED BY <1>6, <2>1 DEF Splits, n
<1>9. q[0] = <<NoText>> /\ \A k \in 1 .. n + 1 : q[k] = Cut(q[k - 1], longer[k], separators)
  <2>1. 0 \in 0 .. n + 1 /\ \A k \in 1 .. n + 1 : k \in 0 .. n + 1 /\ k # 0
    BY <1>1
  <2> QED BY <1>1, <1>7, <2>1 DEF Splits
<1> DEFINE G == {k \in 0 .. n : q[k] = p[k]}
<1>10. 0 \in G
  BY <1>1, <1>8, <1>9
<1>11. ASSUME NEW k \in 1 .. n, k - 1 \in G PROVE k \in G
  <2>1. k \in 0 .. n /\ k \in 1 .. n + 1 /\ q[k - 1] = p[k - 1]
    BY <1>1, <1>11
  <2> QED BY <1>2, <1>8, <1>9, <2>1
<1>12. \A k \in 0 .. n : k \in G
  <2> HIDE DEF G
  <2> QED BY <1>1, <1>10, <1>11, Upwards
<1>13. q[n] = p[n] /\ p[n] \in PartLists
  <2>1. n \in 0 .. n
    BY <1>1
  <2> QED BY <1>6, <1>12, <2>1 DEF n
<1>14. q[n + 1] = Cut(q[n], ch, separators)
  <2>1. n + 1 \in 1 .. n + 1 /\ (n + 1) - 1 = n
    BY <1>1
  <2> QED BY <1>3, <1>9, <2>1
<1> QED BY <1>1, <1>3, <1>4, <1>5, <1>6, <1>7, <1>13, <1>14 DEF longer, n

(* A part that is not empty is glued to those before it.                   *)
LEMMA GluedType ==
    ASSUME NEW text \in AllTexts, NEW between \in Chars, NEW part \in AllTexts
    PROVE  /\ Glued(text, between, part) \in AllTexts
           /\ Glued(text, between, part) = NoText <=> text = NoText /\ part = NoText
<1>1. <<between>> \in AllTexts
  BY Longer
<1>2. text \o <<between>> \in AllTexts /\ text \o <<between>> \o part \in AllTexts
  BY <1>1, Joined3
<1>3. text \o <<between>> \o part = NoText => part = NoText
  BY <1>1, <1>2, Joined3
<1> QED BY <1>2, <1>3 DEF Glued

Gathers(parts, between, text) ==
    text = [k \in 0 .. Len(parts) |-> IF k = 0 THEN NoText
                                      ELSE Glued(text[k - 1], between, parts[k])]

(* The recursion of Join ends.                                             *)
LEMMA JoinIs ==
    ASSUME NEW parts \in Seq(AllTexts), NEW between \in Chars
    PROVE  \E text : /\ Gathers(parts, between, text)
                     /\ \A k \in 0 .. Len(parts) : text[k] \in AllTexts
                     /\ Join(parts, between) = text[Len(parts)]
<1> DEFINE n == Len(parts)
           step == [x \in AllTexts \X (1 .. n) |-> Glued(x[1], between, parts[x[2]])]
           c == CHOOSE text : Gathers(parts, between, text)
           base == NoText
<1> HIDE DEF AllTexts
<1>1. n \in Nat /\ \A k \in 1 .. n : parts[k] \in AllTexts
  BY LenProperties
<1>2. base \in AllTexts
  BY Alone DEF AllTexts, NoText
<1>4. step \in [AllTexts \X (1 .. n) -> AllTexts]
  <2> SUFFICES ASSUME NEW x \in AllTexts \X (1 .. n)
               PROVE  Glued(x[1], between, parts[x[2]]) \in AllTexts
    OBVIOUS
  <2>1. x[1] \in AllTexts /\ x[2] \in 1 .. n
    OBVIOUS
  <2> QED BY <1>1, <2>1, GluedType
<1> HIDE DEF n, step, base
<1>5. PICK f : Recurs(f, n, AllTexts, base, step)
  <2>1. n \in Nat
    BY <1>1
  <2> QED BY <1>2, <1>4, <2>1, Recursion
<1>6. \A k \in 1 .. n : k - 1 \in 0 .. n
  BY <1>1
<1>7. \A k \in 1 .. n : f[k] = Glued(f[k - 1], between, parts[k])
  <2> SUFFICES ASSUME NEW k \in 1 .. n PROVE f[k] = Glued(f[k - 1], between, parts[k])
    OBVIOUS
  <2>1. <<f[k - 1], k>> \in AllTexts \X (1 .. n)
    BY <1>5, <1>6 DEF Recurs
  <2>2. step[<<f[k - 1], k>>] = Glued(f[k - 1], between, parts[k])
    BY <2>1 DEF step
  <2> QED BY <1>5, <2>2 DEF Recurs
<1>8. Gathers(parts, between, f)
  <2>1. \A k \in 0 .. n : k = 0 \/ k \in 1 .. n
    BY <1>1
  <2>2. f = [k \in 0 .. n |-> f[k]] /\ f[0] = NoText
    BY <1>5 DEF Recurs, base
  <2> QED BY <1>7, <2>1, <2>2 DEF Gathers, n
<1>9. Gathers(parts, between, c)
  BY <1>8
<1> HIDE DEF c
<1>10. c[0] = NoText /\ \A k \in 1 .. n : c[k] = Glued(c[k - 1], between, parts[k])
  <2>1. 0 \in 0 .. n /\ \A k \in 1 .. n : k \in 0 .. n /\ k # 0
    BY <1>1
  <2> QED BY <1>9, <2>1 DEF Gathers, n
<1> DEFINE G == {k \in 0 .. n : c[k] \in AllTexts}
<1>11. 0 \in G
  BY <1>1, <1>2, <1>10 DEF base
<1>12. ASSUME NEW k \in 1 .. n, k - 1 \in G PROVE k \in G
  <2>1. k \in 0 .. n /\ c[k - 1] \in AllTexts /\ parts[k] \in AllTexts
    BY <1>1, <1>12
  <2>2. Glued(c[k - 1], between, parts[k]) \in AllTexts
    BY <2>1, GluedType
  <2> QED BY <1>10, <2>1, <2>2
<1>13. \A k \in 0 .. n : k \in G
  <2> HIDE DEF G
  <2> QED BY <1>1, <1>11, <1>12, Upwards
<1>14. Join(parts, between) = c[n]
  BY DEF Join, c, Gathers, n
<1> QED BY <1>9, <1>13, <1>14 DEF n

-----------------------------------------------------------------------------
(* What is joined of parts and one more.                                   *)
LEMMA JoinAppend ==
    ASSUME NEW parts \in Seq(AllTexts), NEW part \in AllTexts, NEW between \in Chars
    PROVE  /\ Join(<<>>, between) = NoText
           /\ Join(parts, between) \in AllTexts
           /\ Join(Append(parts, part), between) = Glued(Join(parts, between), between, part)
<1> HIDE DEF AllTexts
<1> DEFINE longer == Append(parts, part)
           n == Len(parts)
<1>1. /\ <<>> \in Seq(AllTexts) /\ Len(<<>>) = 0 /\ n \in Nat
      /\ longer \in Seq(AllTexts) /\ Len(longer) = n + 1 /\ longer[n + 1] = part
  BY EmptySeq, LenProperties, AppendProperties
<1>2. \A k \in 1 .. n : longer[k] = parts[k]
  BY AppendProperties
<1> HIDE DEF longer
<1>4. PICK e : /\ Gathers(<<>>, between, e)
               /\ Join(<<>>, between) = e[Len(<<>>)]
  BY <1>1, JoinIs
<1>5. e[0] = NoText
  BY <1>1, <1>4 DEF Gathers
<1>6. PICK p : /\ Gathers(parts, between, p)
               /\ \A k \in 0 .. Len(parts) : p[k] \in AllTexts
               /\ Join(parts, between) = p[Len(parts)]
  BY JoinIs
<1>7. PICK q : /\ Gathers(longer, between, q)
               /\ Join(longer, between) = q[Len(longer)]
  BY <1>1, JoinIs
<1> HIDE DEF n
<1>8. p[0] = NoText /\ \A k \in 1 .. n : p[k] = Glued(p[k - 1], between, parts[k])
  <2>1. 0 \in 0 .. n /\ \A k \in 1 .. n : k \in 0 .. n /\ k # 0
    BY <1>1
  <2> QED BY <1>6, <2>1 DEF Gathers, n
<1>9. q[0] = NoText /\ \A k \in 1 .. n + 1 : q[k] = Glued(q[k - 1], between, longer[k])
  <2>1. 0 \in 0 .. n + 1 /\ \A k \in 1 .. n + 1 : k \in 0 .. n + 1 /\ k # 0
    BY <1>1
  <2> QED BY <1>1, <1>7, <2>1 DEF Gathers
<1> DEFINE G == {k \in 0 .. n : q[k] = p[k]}
<1>10. 0 \in G
  BY <1>1, <1>8, <1>9
<1>11. ASSUME NEW k \in 1 .. n, k - 1 \in G PROVE k \in G
  <2>1. k \in 0 .. n /\ k \in 1 .. n + 1 /\ q[k - 1] = p[k - 1]
    BY <1>1, <1>11
  <2> QED BY <1>2, <1>8, <1>9, <2>1
<1>12. \A k \in 0 .. n : k \in G
  <2> HIDE DEF G
  <2> QED BY <1>1, <1>10, <1>11, Upwards
<1>13. q[n] = p[n] /\ p[n] \in AllTexts
  <2>1. n \in 0 .. n
    BY <1>1
  <2> QED BY <1>6, <1>12, <2>1 DEF n
<1>14. q[n + 1] = Glued(q[n], between, part)
  <2>1. n + 1 \in 1 .. n + 1 /\ (n + 1) - 1 = n
    BY <1>1
  <2> QED BY <1>1, <1>9, <2>1
<1> QED BY <1>1, <1>4, <1>5, <1>6, <1>7, <1>13, <1>14 DEF longer, n

(* A line collapsed, and whether its last word has begun.                  *)
Word(line) == LET parts == Parts(line, Spaces) IN parts[Len(parts)]

(* A line collapsed, and one that is a character longer.                   *)
LEMMA CollapseStep ==
    ASSUME NEW line \in AllTexts, NEW ch \in Chars
    PROVE  /\ CollapseWhitespace(NoText) = NoText
           /\ CollapseWhitespace(line) \in AllTexts
           /\ Word(line) # NoText => CollapseWhitespace(line) # NoText
           /\ ch \in Spaces => /\ CollapseWhitespace(Append(line, ch)) = CollapseWhitespace(line)
                               /\ Word(Append(line, ch)) = NoText
           /\ ch \notin Spaces => /\ CollapseWhitespace(Append(line, ch)) =
                                       CollapseWhitespace(line)
                                       \o (IF Word(line) # NoText
                                              \/ CollapseWhitespace(line) = NoText
                                           THEN NoText ELSE <<Blank>>) \o <<ch>>
                                  /\ Word(Append(line, ch)) # NoText
<1> DEFINE parts == Parts(line, Spaces)
           next == Parts(Append(line, ch), Spaces)
<1>1. Parts(NoText, Spaces) = <<NoText>> /\ parts \in PartLists /\ next = Cut(parts, ch, Spaces)
  BY PartsAppend
<1> HIDE DEF AllTexts
<1>2. PICK front \in Seq(AllTexts), last \in AllTexts : parts = Append(front, last)
  BY <1>1, HasLast
<1>3. parts[Len(parts)] = last
  BY <1>1, <1>2, HasLast
<1>4. NoText \in AllTexts /\ Append(last, ch) \in AllTexts /\ Append(last, ch) # NoText
      /\ <<ch>> \in AllTexts /\ Append(last, ch) = last \o <<ch>> /\ <<ch>> # NoText
  <2>1. <<ch>> # NoText
    BY DEF NoText
  <2> QED BY <2>1, Longer
<1> DEFINE head == Join(front, Blank)
<1>5. head \in AllTexts /\ Blank \in Chars /\ <<>> \in Seq(AllTexts)
  <2>1. Blank \in Chars
    BY DEF Chars, Spaces
  <2>2. <<>> \in Seq(AllTexts)
    BY EmptySeq
  <2> QED BY <1>4, <2>1, <2>2, JoinAppend
<1>6. CollapseWhitespace(line) = Glued(head, Blank, last)
  BY <1>2, <1>5, JoinAppend DEF CollapseWhitespace
<1>7. CollapseWhitespace(line) \in AllTexts
  <2>1. Glued(head, Blank, last) \in AllTexts
    BY <1>5, GluedType
  <2> QED BY <1>6, <2>1, Zenon
<1>8. CollapseWhitespace(NoText) = NoText
  <2>1. Join(Append(<<>>, NoText), Blank) = Glued(Join(<<>>, Blank), Blank, NoText)
    BY <1>4, <1>5, JoinAppend
  <2>2. Join(<<>>, Blank) = NoText
    BY <1>4, <1>5, JoinAppend
  <2>3. Append(<<>>, NoText) = <<NoText>>
    OBVIOUS
  <2> QED BY <1>1, <2>1, <2>2, <2>3 DEF CollapseWhitespace, Glued
<1>9. Word(line) = last
  BY <1>3 DEF Word
<1>10. last # NoText => CollapseWhitespace(line) # NoText
  BY <1>5, <1>6, GluedType
<1>11. ASSUME ch \in Spaces
       PROVE  /\ CollapseWhitespace(Append(line, ch)) = CollapseWhitespace(line)
              /\ Word(Append(line, ch)) = NoText
  <2>1. next = Append(parts, NoText)
    BY <1>1, <1>11 DEF Cut
  <2>2. parts \in Seq(AllTexts)
    BY <1>1 DEF PartLists
  <2>3. next[Len(next)] = NoText
    BY <1>4, <2>1, <2>2, AppendProperties
  <2>4. CollapseWhitespace(Append(line, ch)) = Glued(Join(parts, Blank), Blank, NoText)
    <3>1. Join(Append(parts, NoText), Blank) = Glued(Join(parts, Blank), Blank, NoText)
      <4> HIDE DEF parts
      <4> QED BY <1>4, <1>5, <2>2, JoinAppend
    <3> QED BY <2>1, <3>1 DEF CollapseWhitespace
  <2> QED BY <2>3, <2>4 DEF CollapseWhitespace, Glued, Word
<1>12. ASSUME ch \notin Spaces
       PROVE  /\ CollapseWhitespace(Append(line, ch)) = Glued(head, Blank, Append(last, ch))
              /\ Word(Append(line, ch)) # NoText
  <2>1. next = Append(front, Append(last, ch))
    <3>1. Cut(Append(front, last), ch, Spaces) = Append(front, Append(last, ch))
      BY <1>12, CutIsBlack, Zenon
    <3> QED BY <1>1, <1>2, <3>1
  <2>3. next[Len(next)] = Append(last, ch)
    <3> DEFINE x == Append(last, ch)
    <3>1. x \in AllTexts
      BY <1>4
    <3> HIDE DEF x
    <3>2. Len(Append(front, x)) = Len(front) + 1 /\ Append(front, x)[Len(front) + 1] = x
      BY <3>1, AppendProperties
    <3> QED BY <2>1, <3>2 DEF x
  <2>4. CollapseWhitespace(Append(line, ch)) = Glued(head, Blank, Append(last, ch))
    <3> DEFINE x == Append(last, ch)
    <3>1. x \in AllTexts
      BY <1>4
    <3> HIDE DEF x
    <3>2. Join(Append(front, x), Blank) = Glued(head, Blank, x)
      BY <1>5, <3>1, JoinAppend
    <3> QED BY <2>1, <3>2 DEF CollapseWhitespace, x
  <2> QED BY <1>4, <2>3, <2>4 DEF Word
<1> HIDE DEF head, parts, next
<1>13. Glued(head, Blank, Append(last, ch)) =
         Glued(head, Blank, last)
         \o (IF last # NoText \/ Glued(head, Blank, last) = NoText THEN NoText ELSE <<Blank>>)
         \o <<ch>>
  <2>1. <<Blank>> \in AllTexts
    BY <1>5, Longer
  <2>2. CASE last = NoText
    <3>1. Glued(head, Blank, last) = head /\ Append(last, ch) = <<ch>>
      BY <1>4, <2>2, Joined3 DEF Glued
    <3>2. head # NoText => Glued(head, Blank, <<ch>>) = head \o <<Blank>> \o <<ch>>
      BY <1>4 DEF Glued
    <3>3. head = NoText => Glued(head, Blank, <<ch>>) = <<ch>>
      BY <1>4 DEF Glued
    <3>4. head = NoText => head \o NoText \o <<ch>> = <<ch>>
      BY <1>4, Joined3, ZenonT(30)
    <3> QED BY <2>2, <3>1, <3>2, <3>3, <3>4
  <2>3. CASE last # NoText
    <3>1. CASE head = NoText
      <4>1. Glued(head, Blank, last) = last
        BY <2>3, <3>1 DEF Glued
      <4>2. Glued(head, Blank, Append(last, ch)) = last \o <<ch>>
        BY <1>4, <3>1 DEF Glued
      <4>3. last \o NoText = last
        BY Joined3
      <4> QED BY <2>3, <4>1, <4>2, <4>3
    <3>2. CASE head # NoText
      <4>1. Glued(head, Blank, last) = head \o <<Blank>> \o last
        BY <2>3, <3>2 DEF Glued
      <4>2. Glued(head, Blank, Append(last, ch)) = head \o <<Blank>> \o (last \o <<ch>>)
        BY <1>4, <3>2 DEF Glued
      <4>3. head \o <<Blank>> \in AllTexts /\ head \o <<Blank>> \o last \in AllTexts
        BY <1>5, <2>1, Joined3
      <4>4. head \o <<Blank>> \o (last \o <<ch>>) = (head \o <<Blank>> \o last) \o <<ch>>
        <5> DEFINE a == head \o <<Blank>>
                   x == <<ch>>
        <5>1. a \in AllTexts /\ x \in AllTexts
          BY <1>4, <4>3
        <5> HIDE DEF a, x
        <5>2. (a \o last) \o x = a \o (last \o x)
          BY <5>1, Associative, SMTT(30) DEF Associates
        <5> QED BY <5>2 DEF a, x
      <4>5. (head \o <<Blank>> \o last) \o NoText = head \o <<Blank>> \o last
        BY <4>3, Joined3
      <4> QED BY <2>3, <4>1, <4>2, <4>4, <4>5
    <3> QED BY <3>1, <3>2
  <2> QED BY <2>2, <2>3
<1> QED BY <1>6, <1>7, <1>8, <1>9, <1>10, <1>11, <1>12, <1>13

-----------------------------------------------------------------------------
(* A text on its lines, its last line, and what will be put before the     *)
(* next word.                                                              *)
Normal(text) == Join(Lines(text), NewLine)
LastLine(text) == LET parts == Parts(text, {NewLine}) IN parts[Len(parts)]
Gap(text) ==
    IF Normal(text) = NoText THEN NoText
    ELSE IF CollapseWhitespace(LastLine(text)) = NoText THEN <<NewLine>>
    ELSE IF Word(LastLine(text)) = NoText THEN <<Blank>> ELSE NoText

(* A line is a text when it is collapsed.                                  *)
LEMMA CollapseType == \A line \in AllTexts : CollapseWhitespace(line) \in AllTexts
<1> SUFFICES ASSUME NEW line \in AllTexts PROVE CollapseWhitespace(line) \in AllTexts
  OBVIOUS
<1>1. Blank \in Chars
  BY DEF Chars, Spaces
<1> QED BY <1>1, CollapseStep

(* Collapsing the lines but the last, and the last.                        *)
Collapsed(parts) == [i \in DOMAIN parts |-> CollapseWhitespace(parts[i])]
(* Lines collapsed, one by one.                                            *)
LEMMA CollapsedIs ==
    ASSUME NEW parts \in Seq(AllTexts)
    PROVE  Collapsed(parts) \in Seq(AllTexts) /\ Len(Collapsed(parts)) = Len(parts)
           /\ \A i \in 1 .. Len(parts) : Collapsed(parts)[i] = CollapseWhitespace(parts[i])
<1> HIDE DEF AllTexts
<1>1. DOMAIN parts = 1 .. Len(parts) /\ Len(parts) \in Nat
  BY LenProperties
<1>2. \A i \in 1 .. Len(parts) : CollapseWhitespace(parts[i]) \in AllTexts
  BY <1>1, CollapseType, ElementOfSeq
<1> DEFINE m == [i \in 1 .. Len(parts) |-> CollapseWhitespace(parts[i])]
<1>3. m \in [1 .. Len(parts) -> AllTexts]
  BY <1>2
<1>4. Collapsed(parts) = m
  BY <1>1 DEF Collapsed
<1>5. \A i \in 1 .. Len(parts) : m[i] = CollapseWhitespace(parts[i])
  OBVIOUS
<1> HIDE DEF m
<1>6. m \in Seq(AllTexts) /\ Len(m) = Len(parts)
  BY <1>1, <1>3
<1> QED BY <1>4, <1>5, <1>6

(* The lines are collapsed one by one.                                     *)
LEMMA CollapsedAppend ==
    ASSUME NEW front \in Seq(AllTexts), NEW last \in AllTexts
    PROVE  /\ Append(front, last) \in Seq(AllTexts)
           /\ Collapsed(Append(front, last)) = Append(Collapsed(front), CollapseWhitespace(last))
<1> HIDE DEF AllTexts
<1> DEFINE p == Append(front, last)
           x == CollapseWhitespace(last)
           n == Len(front)
           f == Collapsed(front)
           q == Append(f, x)
           r == Collapsed(p)
<1>1. x \in AllTexts
  BY CollapseType
<1>2. /\ p \in Seq(AllTexts) /\ Len(p) = n + 1 /\ n \in Nat /\ p[n + 1] = last
      /\ \A i \in 1 .. n : p[i] = front[i]
  BY AppendProperties, LenProperties
<1>3. /\ f \in Seq(AllTexts) /\ Len(f) = n
      /\ \A i \in 1 .. n : f[i] = CollapseWhitespace(front[i])
  BY CollapsedIs
<1> HIDE DEF p, f, x
<1>4. /\ q \in Seq(AllTexts) /\ Len(q) = n + 1 /\ q[n + 1] = x
      /\ \A i \in 1 .. n : q[i] = f[i]
  BY <1>1, <1>3, AppendProperties
<1>5. /\ r \in Seq(AllTexts) /\ Len(r) = n + 1
      /\ \A i \in 1 .. n + 1 : r[i] = CollapseWhitespace(p[i])
  BY <1>2, CollapsedIs
<1> HIDE DEF q, r, n
<1>6. \A i \in 1 .. n + 1 : q[i] = r[i]
  <2> SUFFICES ASSUME NEW i \in 1 .. n + 1 PROVE q[i] = r[i]
    OBVIOUS
  <2>1. i = n + 1 \/ i \in 1 .. n
    BY <1>2
  <2>2. r[i] = CollapseWhitespace(p[i])
    BY <1>5
  <2>3. CASE i = n + 1
    BY <1>2, <1>4, <2>2, <2>3 DEF x
  <2>4. CASE i \in 1 .. n
    BY <1>2, <1>3, <1>4, <2>2, <2>4
  <2> QED BY <2>1, <2>3, <2>4
<1>7. q = r
  BY <1>4, <1>5, <1>6, SeqEqual
<1> QED BY <1>2, <1>7 DEF p, q, r, x, f

(* A character lengthens the last line, a new line begins one.             *)
LEMMA LineStep ==
    ASSUME NEW text \in AllTexts, NEW ch \in Chars
    PROVE  /\ Normal(NoText) = NoText
           /\ LastLine(text) \in AllTexts
           /\ \E head \in AllTexts :
                /\ Normal(text) = Glued(head, NewLine, CollapseWhitespace(LastLine(text)))
                /\ ch # NewLine =>
                     Normal(Append(text, ch)) =
                       Glued(head, NewLine, CollapseWhitespace(Append(LastLine(text), ch)))
           /\ ch = NewLine => /\ Normal(Append(text, ch)) = Normal(text)
                              /\ LastLine(Append(text, ch)) = NoText
           /\ ch # NewLine => LastLine(Append(text, ch)) = Append(LastLine(text), ch)
<1> DEFINE parts == Parts(text, {NewLine})
           next == Parts(Append(text, ch), {NewLine})
<1>1. Parts(NoText, {NewLine}) = <<NoText>> /\ parts \in PartLists
      /\ next = Cut(parts, ch, {NewLine})
  BY PartsAppend
<1> HIDE DEF AllTexts
<1>2. PICK front \in Seq(AllTexts), last \in AllTexts : parts = Append(front, last)
  BY <1>1, HasLast
<1>3. parts[Len(parts)] = last
  BY <1>1, <1>2, HasLast
<1>4. NoText \in AllTexts /\ Append(last, ch) \in AllTexts
  BY Longer
<1>5. NewLine \in Chars /\ <<>> \in Seq(AllTexts)
  <2>1. NewLine \in Chars
    BY DEF Chars, Spaces
  <2>2. <<>> \in Seq(AllTexts)
    BY EmptySeq
  <2> QED BY <2>1, <2>2
<1> DEFINE head == Join(Collapsed(front), NewLine)
<1>6. ASSUME NEW end \in AllTexts
      PROVE  /\ Append(front, end)[Len(Append(front, end))] = end
             /\ Join(Collapsed(Append(front, end)), NewLine) =
                  Glued(head, NewLine, CollapseWhitespace(end))
  <2>1. Collapsed(Append(front, end)) = Append(Collapsed(front), CollapseWhitespace(end))
    BY CollapsedAppend
  <2>2. Collapsed(front) \in Seq(AllTexts)
    BY CollapsedIs
  <2> DEFINE c == CollapseWhitespace(end)
             f == Collapsed(front)
  <2>3. c \in AllTexts
    BY CollapseType
  <2> HIDE DEF c, f
  <2>4. Join(Append(f, c), NewLine) = Glued(Join(f, NewLine), NewLine, c)
    BY <1>5, <2>2, <2>3, JoinAppend DEF f
  <2>5. Append(front, end)[Len(Append(front, end))] = end
    BY AppendProperties
  <2> QED BY <2>1, <2>4, <2>5 DEF c, f
<1>7. head \in AllTexts
  <2>2. Collapsed(front) \in Seq(AllTexts)
    BY CollapsedIs
  <2> QED BY <1>4, <1>5, <2>2, JoinAppend
<1>8. LastLine(text) = last
  BY <1>3 DEF LastLine
<1>9. \A t : Lines(t) = Collapsed(Parts(t, {NewLine}))
  BY DEF Lines, Collapsed
<1>10. Normal(text) = Glued(head, NewLine, CollapseWhitespace(last))
  BY <1>2, <1>6, <1>9 DEF Normal
<1>14. ASSUME NEW p \in Seq(AllTexts)
       PROVE  Collapsed(Append(p, NoText)) = Append(Collapsed(p), NoText)
  <2>1. CollapseWhitespace(NoText) = NoText
    BY <1>4, CollapseStep
  <2>2. Collapsed(Append(p, NoText)) = Append(Collapsed(p), CollapseWhitespace(NoText))
    BY <1>4, CollapsedAppend
  <2> QED BY <2>1, <2>2
<1>11. Normal(NoText) = NoText
  <2>1. Append(<<>>, NoText) = <<NoText>>
    OBVIOUS
  <2>2. Collapsed(<<NoText>>) = Append(Collapsed(<<>>), NoText)
    BY <1>5, <1>14, <2>1
  <2>3. Collapsed(<<>>) = <<>>
    BY <1>5, CollapsedIs, EmptySeq
  <2>4. Join(Append(<<>>, NoText), NewLine) = Glued(Join(<<>>, NewLine), NewLine, NoText)
    BY <1>4, <1>5, JoinAppend
  <2>5. Join(<<>>, NewLine) = NoText
    BY <1>4, <1>5, JoinAppend
  <2> QED BY <1>1, <1>9, <2>2, <2>3, <2>4, <2>5 DEF Normal, Glued
<1>12. ASSUME ch = NewLine
       PROVE  /\ Normal(Append(text, ch)) = Normal(text)
              /\ LastLine(Append(text, ch)) = NoText
  <2>1. next = Append(parts, NoText)
    BY <1>1, <1>12 DEF Cut
  <2>2. parts \in Seq(AllTexts)
    BY <1>1 DEF PartLists
  <2> HIDE DEF parts, next
  <2>3. next[Len(next)] = NoText
    BY <1>4, <2>1, <2>2, AppendProperties
  <2>4. Collapsed(next) = Append(Collapsed(parts), NoText)
    BY <1>14, <2>1, <2>2
  <2>5. Collapsed(parts) \in Seq(AllTexts)
    BY <2>2, CollapsedIs
  <2> DEFINE f == Collapsed(parts)
  <2> HIDE DEF f
  <2>6. Join(Append(f, NoText), NewLine) = Glued(Join(f, NewLine), NewLine, NoText)
    BY <1>4, <1>5, <2>5, JoinAppend DEF f
  <2>7. Join(Collapsed(next), NewLine) = Join(Collapsed(parts), NewLine)
    BY <2>4, <2>6 DEF f, Glued
  <2> QED BY <1>9, <2>3, <2>7 DEF Normal, LastLine, parts, next
<1>13. ASSUME ch # NewLine
       PROVE  /\ Normal(Append(text, ch)) =
                   Glued(head, NewLine, CollapseWhitespace(Append(last, ch)))
              /\ LastLine(Append(text, ch)) = Append(last, ch)
  <2>1. next = Append(front, Append(last, ch))
    <3>1. ch \notin {NewLine}
      BY <1>13
    <3>2. Cut(Append(front, last), ch, {NewLine}) = Append(front, Append(last, ch))
      BY <3>1, CutIsBlack, Zenon
    <3> QED BY <1>1, <1>2, <3>2
  <2> QED BY <1>4, <1>6, <1>9, <2>1 DEF Normal, LastLine
<1> HIDE DEF head
<1> QED BY <1>4, <1>7, <1>8, <1>10, <1>11, <1>12, <1>13

-----------------------------------------------------------------------------
(* Gluing a line that has been lengthened by a word's character.           *)
Lengthened(head, separator, line, between, ch) ==
    Glued(head, separator, line \o between \o <<ch>>) =
      Glued(head, separator, line)
      \o (IF line = NoText THEN IF Glued(head, separator, line) = NoText
                                 THEN NoText ELSE <<separator>>
          ELSE between) \o <<ch>>

(* Where the line was empty, it is glued first.                            *)
LEMMA GluedLonger ==
    ASSUME NEW head \in AllTexts, NEW line \in AllTexts, NEW between \in AllTexts,
           NEW ch \in Chars, NEW separator \in Chars,
           line = NoText => between = NoText
    PROVE  Lengthened(head, separator, line, between, ch)
<1> USE DEF Lengthened
<1> DEFINE x == <<ch>>
           s == <<separator>>
<1>1. x \in AllTexts /\ s \in AllTexts /\ NoText \in AllTexts /\ x # NoText
  <2>1. x # NoText
    BY DEF NoText
  <2> QED BY <2>1, Longer
<1> HIDE DEF x, s
<1>2. line \o between \o x # NoText
  BY <1>1, Joined3
<1>3. CASE line = NoText
  <2>1. Glued(head, separator, line) = head
    BY <1>3 DEF Glued
  <2>2. NoText \o NoText = NoText /\ NoText \o x = x
    BY <1>1, Joined3
  <2>3. line \o between \o x = x
    BY <1>3, <2>2
  <2>4. Glued(head, separator, x) = IF head = NoText THEN x ELSE head \o s \o x
    BY <1>1 DEF Glued, s
  <2>5. head = NoText => head \o NoText \o x = x
    BY <2>2
  <2> QED BY <1>3, <2>1, <2>3, <2>4, <2>5 DEF x, s
<1>4. CASE line # NoText
  <2>1. CASE head = NoText
    BY <1>2, <1>4, <2>1 DEF Glued, x
  <2>2. CASE head # NoText
    <3>1. Glued(head, separator, line) = head \o s \o line
      BY <1>4, <2>2 DEF Glued, s
    <3>2. Glued(head, separator, line \o between \o x) = head \o s \o (line \o between \o x)
      BY <1>2, <2>2 DEF Glued, s
    <3> DEFINE a == head \o s
               b == line \o between
    <3>3. a \in AllTexts /\ b \in AllTexts
      BY <1>1, Joined3
    <3> HIDE DEF a
    <3>4. (a \o line) \o between = a \o b
      BY <3>3, Associative DEF Associates
    <3> HIDE DEF b
    <3>5. (a \o b) \o x = a \o (b \o x)
      <4>1. Associates(a, b, x)
        BY <1>1, <3>3, Associative
      <4> QED BY <4>1 DEF Associates
    <3> QED BY <1>4, <3>1, <3>2, <3>4, <3>5 DEF a, b, x
  <2> QED BY <2>1, <2>2
<1> QED BY <1>3, <1>4

(* What a character does to a text on its lines, and to what is put before *)
(* the next word.                                                          *)
LEMMA NormalStep ==
    ASSUME NEW text \in AllTexts, NEW ch \in Chars
    PROVE  /\ Normal(NoText) = NoText /\ Gap(NoText) = NoText
           /\ Normal(text) \in AllTexts /\ Gap(text) \in AllTexts
           /\ Normal(text) = NoText => Gap(text) = NoText
           /\ Gap(text) \in {NoText, <<Blank>>, <<NewLine>>}
           /\ ch \notin Spaces =>
                /\ Normal(Append(text, ch)) = Normal(text) \o Gap(text) \o <<ch>>
                                  /\ Gap(Append(text, ch)) = NoText
           /\ ch \in Spaces => /\ Normal(Append(text, ch)) = Normal(text)
                               /\ Gap(Append(text, ch)) =
                                    IF Normal(text) = NoText THEN NoText
                                    ELSE IF ch = NewLine \/ Gap(text) = <<NewLine>>
                                    THEN <<NewLine>> ELSE <<Blank>>
<1> DEFINE last == LastLine(text)
           line == CollapseWhitespace(last)
           longer == Append(text, ch)
<1>1. last \in AllTexts /\ Normal(NoText) = NoText
  BY LineStep
<1>2. PICK head \in AllTexts :
        /\ Normal(text) = Glued(head, NewLine, line)
        /\ ch # NewLine => Normal(longer) =
                             Glued(head, NewLine, CollapseWhitespace(Append(last, ch)))
  BY LineStep
<1>3. /\ ch = NewLine => Normal(longer) = Normal(text) /\ LastLine(longer) = NoText
      /\ ch # NewLine => LastLine(longer) = Append(last, ch)
  BY LineStep
<1>4. NewLine \in Spaces /\ Blank \in Spaces /\ NewLine \in Chars /\ Blank \in Chars
  BY DEF Chars, Spaces
<1>5. <<NewLine>> \in AllTexts /\ <<Blank>> \in AllTexts /\ NoText \in AllTexts
      /\ <<NewLine>> # NoText /\ <<Blank>> # NoText /\ <<NewLine>> # <<Blank>> /\ <<ch>> # NoText
      /\ <<ch>> \in AllTexts
  <2>1. <<NewLine>> # NoText /\ <<Blank>> # NoText /\ <<ch>> # NoText
    BY DEF NoText
  <2>2. NewLine # Blank
    BY DEF NewLine, Blank
  <2> QED BY <1>4, <2>1, <2>2, Longer
<1> HIDE DEF longer
<1>6. CollapseWhitespace(NoText) = NoText /\ line \in AllTexts
      /\ (Word(last) # NoText => line # NoText)
  BY <1>1, CollapseStep
<1>7. /\ ch \in Spaces => /\ CollapseWhitespace(Append(last, ch)) = line
                          /\ Word(Append(last, ch)) = NoText
      /\ ch \notin Spaces => /\ CollapseWhitespace(Append(last, ch)) =
                                  line \o (IF Word(last) # NoText \/ line = NoText
                                           THEN NoText ELSE <<Blank>>) \o <<ch>>
                             /\ Word(Append(last, ch)) # NoText
  BY <1>1, CollapseStep
<1> HIDE DEF last, line
<1>8. Gap(text) = IF Normal(text) = NoText THEN NoText
                  ELSE IF line = NoText THEN <<NewLine>>
                  ELSE IF Word(last) = NoText THEN <<Blank>> ELSE NoText
  BY DEF Gap, last, line
<1>9. Gap(longer) = IF Normal(longer) = NoText THEN NoText
                    ELSE IF CollapseWhitespace(LastLine(longer)) = NoText THEN <<NewLine>>
                    ELSE IF Word(LastLine(longer)) = NoText THEN <<Blank>> ELSE NoText
  BY DEF Gap
<1>10. Normal(text) \in AllTexts
  BY <1>2, <1>4, <1>6, GluedType
<1>11. Gap(NoText) = NoText
  BY <1>1 DEF Gap
<1>12. CASE ch = NewLine
  <2>1. Gap(longer) = IF Normal(text) = NoText THEN NoText ELSE <<NewLine>>
    BY <1>3, <1>6, <1>9, <1>12
  <2> QED BY <1>1, <1>3, <1>4, <1>5, <1>8, <1>10, <1>11, <1>12, <2>1 DEF longer
<1>13. CASE ch # NewLine /\ ch \in Spaces
  <2>1. Normal(longer) = Normal(text)
    BY <1>2, <1>7, <1>13
  <2>2. Gap(longer) = IF Normal(text) = NoText THEN NoText
                      ELSE IF line = NoText THEN <<NewLine>> ELSE <<Blank>>
    BY <1>3, <1>7, <1>9, <1>13, <2>1
  <2>3. Normal(text) # NoText => (Gap(text) = <<NewLine>> <=> line = NoText)
    BY <1>5, <1>8
  <2> QED BY <1>1, <1>5, <1>8, <1>10, <1>11, <1>13, <2>1, <2>2, <2>3 DEF longer
<1>14. CASE ch \notin Spaces
  <2> DEFINE between == IF Word(last) # NoText \/ line = NoText THEN NoText ELSE <<Blank>>
             inner == IF line = NoText THEN IF Normal(text) = NoText THEN NoText ELSE <<NewLine>>
                      ELSE between
  <2>1. between \in AllTexts /\ (line = NoText => between = NoText)
    BY <1>5
  <2>2. ch # NewLine /\ CollapseWhitespace(Append(last, ch)) = line \o between \o <<ch>>
        /\ Word(Append(last, ch)) # NoText
    BY <1>4, <1>7, <1>14
  <2>3. line # NoText => Normal(text) # NoText
    BY <1>2, <1>4, <1>6, GluedType
  <2>4. Gap(text) = inner
    BY <1>6, <1>8, <2>3
  <2> HIDE DEF between
  <2>5. Glued(head, NewLine, line \o between \o <<ch>>) = Normal(text) \o inner \o <<ch>>
    <3>1. Lengthened(head, NewLine, line, between, ch)
      BY <1>4, <1>6, <2>1, GluedLonger
    <3> QED BY <1>2, <3>1 DEF Lengthened
  <2>6. Normal(longer) = Normal(text) \o Gap(text) \o <<ch>>
    BY <1>2, <2>2, <2>4, <2>5
  <2>7. Normal(text) \o Gap(text) \in AllTexts
    BY <1>5, <1>10, <1>8, Joined3
  <2>8. Normal(longer) # NoText
    <3> DEFINE a == Normal(text) \o Gap(text)
               x == <<ch>>
    <3>1. a \in AllTexts /\ x \in AllTexts /\ x # NoText
      BY <1>5, <2>7
    <3> HIDE DEF a, x
    <3>2. a \o x # NoText
      BY <3>1, Joined3
    <3> QED BY <2>6, <3>2 DEF a, x
  <2>9. CollapseWhitespace(LastLine(longer)) # NoText /\ Word(LastLine(longer)) # NoText
    <3> DEFINE a == line \o between
               x == <<ch>>
    <3>1. a \in AllTexts /\ x \in AllTexts /\ x # NoText
      BY <1>5, <1>6, <2>1, Joined3
    <3> HIDE DEF a, x
    <3>2. a \o x # NoText
      BY <3>1, Joined3
    <3> QED BY <1>3, <2>2, <3>2 DEF a, x
  <2>10. Gap(longer) = NoText
    BY <1>9, <2>8, <2>9
  <2> QED BY <1>1, <1>5, <1>8, <1>10, <1>11, <1>14, <2>6, <2>10 DEF longer
<1> QED BY <1>12, <1>13, <1>14

-----------------------------------------------------------------------------
(* A text on its lines begins and ends with a word, and its words are one  *)
(* character apart.                                                        *)
Clean(text) ==
    /\ text # NoText => text[Len(text)] \notin Spaces
    /\ \A i \in 1 .. Len(text) : text[i] \in Spaces => i > 1 /\ text[i - 1] \notin Spaces

(* A text and one more character, place by place.                          *)
LEMMA AppendAt ==
    ASSUME NEW text \in AllTexts, NEW ch \in Chars
    PROVE  /\ Append(text, ch) \in AllTexts /\ Len(Append(text, ch)) = Len(text) + 1
           /\ Len(text) \in Nat /\ Append(text, ch) # NoText
           /\ \A i \in 1 .. Len(text) : Append(text, ch)[i] = text[i]
           /\ Append(text, ch)[Len(text) + 1] = ch
<1>1. text \in Seq(Chars)
  BY DEF AllTexts
<1>2. Len(text) \in Nat
  BY <1>1, LenProperties
<1> QED BY <1>1, <1>2, AppendProperties DEF AllTexts, NoText

(* A word goes on, or another begins after one gap.                        *)
LEMMA CleanStep ==
    ASSUME NEW text \in AllTexts, NEW gap \in {NoText, <<Blank>>, <<NewLine>>}, NEW ch \in Chars,
           Clean(text), text = NoText => gap = NoText, ch \notin Spaces
    PROVE  Clean(text \o gap \o <<ch>>)
<1>1. Blank \in Spaces /\ NewLine \in Spaces /\ Blank \in Chars /\ NewLine \in Chars
  BY DEF Spaces, Chars
<1>2. ASSUME NEW t \in AllTexts,
             \A i \in 1 .. Len(t) : t[i] \in Spaces => i > 1 /\ t[i - 1] \notin Spaces
      PROVE  Clean(Append(t, ch))
  <2> DEFINE u == Append(t, ch)
  <2>1. /\ Len(u) = Len(t) + 1 /\ Len(t) \in Nat /\ u[Len(t) + 1] = ch
        /\ \A i \in 1 .. Len(t) : u[i] = t[i]
    BY AppendAt
  <2> HIDE DEF u
  <2>2. ASSUME NEW i \in 1 .. Len(u), u[i] \in Spaces PROVE i > 1 /\ u[i - 1] \notin Spaces
    <3>1. i \in 1 .. Len(t)
      BY <2>1, <2>2
    <3>2. i > 1 /\ t[i - 1] \notin Spaces
      BY <1>2, <2>1, <2>2, <3>1
    <3>3. i - 1 \in 1 .. Len(t)
      BY <2>1, <3>1, <3>2
    <3> QED BY <2>1, <3>2, <3>3
  <2> QED BY <2>1, <2>2 DEF Clean, u
<1>3. CASE gap = NoText
  <2>1. text \o gap = text
    BY <1>3, Joined3
  <2>2. Append(text, ch) = text \o <<ch>>
    BY Longer
  <2> QED BY <1>2, <2>1, <2>2 DEF Clean
<1>4. ASSUME NEW space \in Spaces, gap = <<space>> PROVE Clean(text \o gap \o <<ch>>)
  <2>1. space \in Chars
    BY DEF Chars
  <2>2. text # NoText
    BY <1>4 DEF NoText
  <2> DEFINE t == Append(text, space)
  <2>3. /\ t \in AllTexts /\ Len(t) = Len(text) + 1 /\ Len(text) \in Nat
        /\ t[Len(text) + 1] = space /\ \A i \in 1 .. Len(text) : t[i] = text[i]
    BY <2>1, AppendAt
  <2>4. t = text \o gap
    BY <1>4, <2>1, Longer
  <2> HIDE DEF t
  <2>5. Len(text) # 0
    <3>1. text \in Seq(Chars) /\ text # <<>>
      BY <2>2 DEF AllTexts, NoText
    <3> QED BY <3>1, EmptySeq
  <2>6. ASSUME NEW i \in 1 .. Len(t), t[i] \in Spaces PROVE i > 1 /\ t[i - 1] \notin Spaces
    <3>1. CASE i = Len(text) + 1
      <4>1. i - 1 \in 1 .. Len(text) /\ i - 1 = Len(text) /\ i > 1
        BY <2>3, <2>5, <3>1
      <4>2. t[i - 1] = text[Len(text)]
        BY <2>3, <4>1
      <4> QED BY <2>2, <4>1, <4>2 DEF Clean
    <3>2. CASE i # Len(text) + 1
      <4>1. i \in 1 .. Len(text)
        BY <2>3, <3>2
      <4>2. i > 1 /\ text[i - 1] \notin Spaces
        BY <2>3, <2>6, <4>1 DEF Clean
      <4>3. i - 1 \in 1 .. Len(text)
        BY <2>3, <4>1, <4>2
      <4> QED BY <2>3, <4>2, <4>3
    <3> QED BY <3>1, <3>2
  <2>7. Clean(Append(t, ch)) /\ Append(t, ch) = t \o <<ch>>
    BY <1>2, <2>3, <2>6, Longer
  <2> QED BY <2>4, <2>7
<1> QED BY <1>1, <1>3, <1>4

(* So texts are clean on their lines, by their lengths.                    *)
LEMMA NormalClean ==
    ASSUME NEW text \in AllTexts
    PROVE  Clean(Normal(text))
<1> DEFINE n == Len(text)
           G == {k \in 0 .. n : \A t \in AllTexts : Len(t) = k => Clean(Normal(t))}
<1>1. n \in Nat
  BY Joined3
<1>2. \A t \in AllTexts :
        t = NoText \/ \E front \in AllTexts, ch \in Chars : t = Append(front, ch)
  BY SequenceEmptyOrAppend DEF AllTexts, NoText
<1>3. Clean(Normal(NoText))
  <2>1. Normal(NoText) = NoText
    BY NormalStep, Longer, <1>1 DEF Chars, Spaces
  <2>2. Len(NoText) = 0
    BY DEF NoText
  <2> QED BY <2>1, <2>2 DEF Clean
<1>4. 0 \in G
  <2>1. ASSUME NEW t \in AllTexts, Len(t) = 0 PROVE t = NoText
    BY <1>2, <2>1, AppendAt
  <2> QED BY <1>1, <1>3, <2>1
<1>5. ASSUME NEW k \in 1 .. n, k - 1 \in G PROVE k \in G
  <2> SUFFICES ASSUME NEW t \in AllTexts, Len(t) = k PROVE Clean(Normal(t))
    BY <1>1
  <2>1. CASE t = NoText
    BY <1>3, <2>1
  <2>2. CASE t # NoText
    <3>1. PICK front \in AllTexts, ch \in Chars : t = Append(front, ch)
      BY <1>2, <2>2
    <3>2. Len(front) = k - 1
      BY <1>1, <3>1, AppendAt
    <3>3. Clean(Normal(front))
      BY <1>5, <3>2
    <3> HIDE DEF G, n
    <3>4. CASE ch \in Spaces
      <4>1. Normal(Append(front, ch)) = Normal(front)
        BY <3>4, NormalStep
      <4> QED BY <3>1, <3>3, <4>1
    <3>5. CASE ch \notin Spaces
      <4>1. /\ Normal(Append(front, ch)) = Normal(front) \o Gap(front) \o <<ch>>
            /\ Normal(front) \in AllTexts /\ Gap(front) \in {NoText, <<Blank>>, <<NewLine>>}
            /\ (Normal(front) = NoText => Gap(front) = NoText)
        BY <3>5, NormalStep
      <4>2. Clean(Normal(front) \o Gap(front) \o <<ch>>)
        BY <3>3, <3>5, <4>1, CleanStep
      <4> QED BY <3>1, <4>1, <4>2
    <3> QED BY <3>4, <3>5
  <2> QED BY <2>1, <2>2
<1>6. \A k \in 0 .. n : k \in G
  <2> HIDE DEF G
  <2> QED BY <1>1, <1>4, <1>5, Upwards
<1> QED BY <1>1, <1>6

(* The beginning of such a text loses at most a character to TrimEnd.      *)
LEMMA AppendAny == ASSUME NEW S, NEW s \in Seq(S), NEW e PROVE Append(s, e) = s \o <<e>>
OBVIOUS

(* What is cut off a clean text at its limit: at most one space more.      *)
LEMMA TruncateIs ==
    ASSUME NEW text \in AllTexts, Clean(text), NEW limit \in Nat
    PROVE  IF limit = 0 \/ Len(text) <= limit THEN Truncate(text, limit) = text
           ELSE \E n \in {limit - 1, limit - 2} :
                   Truncate(text, limit) = Append(SubSeq(text, 1, n), Ellipsis)
<1> SUFFICES ASSUME limit # 0, ~ (Len(text) <= limit)
             PROVE  \E n \in {limit - 1, limit - 2} :
                       Truncate(text, limit) = Append(SubSeq(text, 1, n), Ellipsis)
  BY DEF Truncate
<1> DEFINE m == limit - 1
           u == SubSeq(text, 1, m)
           black == {0} \cup {p \in DOMAIN u : u[p] \notin Spaces}
           k == Max(black)
<1>1. text \in Seq(Chars) /\ Len(text) \in Nat /\ m \in Nat /\ m <= Len(text) /\ m \in Int
  BY LenProperties DEF AllTexts
<1>2. \A i \in 1 .. m : text[i] \in Chars
  BY <1>1, ElementOfSeq
<1>3. u \in Seq(Chars) /\ Len(u) = m /\ \A i \in 1 .. m : u[i] = text[i]
  BY <1>1, <1>2, SubSeqProperties
<1>4. DOMAIN u = 1 .. m
  BY <1>3, LenProperties
<1> HIDE DEF m, u
<1>5. k \in black /\ \A y \in black : k >= y
  <2>1. black \in SUBSET (0 .. m) /\ black # {} /\ 0 \in Int
    BY <1>1, <1>4
  <2> HIDE DEF black
  <2> QED BY <1>1, <2>1, Extremes
<1> HIDE DEF k
<1>6. k \in {limit - 1, limit - 2}
  <2>1. CASE m = 0
    BY <1>4, <1>5, <2>1 DEF m
  <2>2. CASE m # 0 /\ u[m] \notin Spaces
    <3>1. m \in black /\ k \in 0 .. m
      BY <1>1, <1>4, <1>5, <2>2
    <3>2. k = m
      BY <1>1, <1>5, <3>1
    <3> QED BY <3>2 DEF m
  <2>3. CASE m # 0 /\ u[m] \in Spaces
    <3>1. m \in 1 .. Len(text) /\ m \in 1 .. m
      BY <1>1, <2>3
    <3>2. m > 1 /\ text[m - 1] \notin Spaces
      BY <1>3, <2>3, <3>1 DEF Clean
    <3>3. m - 1 \in 1 .. m /\ m - 1 \in black
      BY <1>1, <1>3, <1>4, <3>2
    <3>4. k \in 0 .. m /\ k # m
      BY <1>1, <1>4, <1>5, <2>3
    <3>5. k = m - 1
      BY <1>1, <1>5, <3>3, <3>4
    <3> QED BY <3>5 DEF m
  <2> QED BY <2>1, <2>2, <2>3
<1>7. SubSeq(u, 1, k) = SubSeq(text, 1, k) /\ SubSeq(text, 1, k) \in Seq(Chars)
  <2>1. k \in 0 .. m /\ k \in Int
    BY <1>1, <1>4, <1>5
  <2>2. \A i \in 1 .. k : i \in 1 .. m /\ u[i] \in Chars /\ text[i] \in Chars /\ u[i] = text[i]
    BY <1>1, <1>2, <1>3, <2>1
  <2> DEFINE a == SubSeq(u, 1, k)
             b == SubSeq(text, 1, k)
  <2>3. /\ a \in Seq(Chars) /\ Len(a) = IF 1 <= k THEN k - 1 + 1 ELSE 0
        /\ \A i \in 1 .. k - 1 + 1 : a[i] = u[1 + i - 1]
    BY <2>1, <2>2, SubSeqProperties
  <2>4. /\ b \in Seq(Chars) /\ Len(b) = IF 1 <= k THEN k - 1 + 1 ELSE 0
        /\ \A i \in 1 .. k - 1 + 1 : b[i] = text[1 + i - 1]
    BY <2>1, <2>2, SubSeqProperties
  <2> HIDE DEF a, b
  <2>5. Len(a) = k /\ \A i \in 1 .. k : a[i] = u[i]
    BY <2>1, <2>3
  <2>6. Len(b) = k /\ \A i \in 1 .. k : b[i] = text[i]
    BY <2>1, <2>4
  <2>7. \A i \in 1 .. Len(a) : a[i] = b[i]
    BY <2>2, <2>5, <2>6
  <2>8. a = b
    BY <2>3, <2>4, <2>5, <2>6, <2>7, SeqEqual
  <2> QED BY <2>4, <2>8 DEF a, b
<1>8. Truncate(text, limit) = SubSeq(text, 1, k) \o <<Ellipsis>>
  <2>1. Truncate(text, limit) = TrimEnd(u) \o <<Ellipsis>>
    BY DEF Truncate, u, m
  <2>2. TrimEnd(u) = SubSeq(u, 1, k)
    BY DEF TrimEnd, k
  <2> QED BY <1>7, <2>1, <2>2
<1> QED BY <1>6, <1>7, <1>8, AppendAny

-----------------------------------------------------------------------------
(* Documents, in terms of their nodes.                                     *)
Leaves == {"text", "img", "br"}
Ordered(doc) ==
    /\ Len(doc) \in Nat /\ DOMAIN doc = 1 .. Len(doc)
    /\ \A n \in 1 .. Len(doc) :
          /\ doc[n].parent \in 0 .. n - 1
          /\ \A j \in 1 .. n - 1 : doc[n].parent < j => doc[j].parent >= doc[n].parent
Shows(doc) ==
    \A n \in 1 .. Len(doc) :
       LET node == doc[n].node
       IN  /\ node.text \in AllTexts
           /\ node.text = NoText \/ node.kind = "text" \/ (node.kind = "img" /\ node.alt)
           /\ doc[n].parent # 0 => doc[doc[n].parent].node.kind \notin Leaves

(* The characters of a document, node by node: where those of a node begin *)
(* and end, and which they are.                                            *)
Marked == [node : Nat, char : Chars]
Marks(doc, n) == [c \in DOMAIN doc[n].node.text |-> [node |-> n, char |-> doc[n].node.text[c]]]
Charts(doc, chars) ==
    chars = [n \in 0 .. Len(doc) |-> IF n = 0 THEN <<>>
                                     ELSE IF ~Visible(doc, n) THEN chars[n - 1]
                                     ELSE chars[n - 1] \o Marks(doc, n)]

(* The characters of a node, with its number.                              *)
LEMMA MarksAre ==
    ASSUME NEW doc, Shows(doc), NEW n \in 1 .. Len(doc), Len(doc) \in Nat
    PROVE  LET text == doc[n].node.text
           IN  /\ Marks(doc, n) \in Seq(Marked) /\ Len(Marks(doc, n)) = Len(text)
               /\ \A c \in 1 .. Len(text) : Marks(doc, n)[c] = [node |-> n, char |-> text[c]]
<1> DEFINE text == doc[n].node.text
           m == [c \in 1 .. Len(text) |-> [node |-> n, char |-> text[c]]]
<1>1. text \in Seq(Chars)
  BY DEF Shows, AllTexts
<1> HIDE DEF text
<1>2. DOMAIN text = 1 .. Len(text) /\ Len(text) \in Nat
  BY <1>1, LenProperties
<1>3. \A c \in 1 .. Len(text) : text[c] \in Chars
  BY <1>1, ElementOfSeq
<1>4. Marks(doc, n) = m
  BY <1>2 DEF Marks, text
<1>5. n \in Nat
  OBVIOUS
<1>6. m \in [1 .. Len(text) -> Marked]
  BY <1>3, <1>5 DEF Marked
<1>7. \A c \in 1 .. Len(text) : m[c] = [node |-> n, char |-> text[c]]
  OBVIOUS
<1> HIDE DEF m
<1>8. m \in Seq(Marked) /\ Len(m) = Len(text)
  BY <1>2, <1>6
<1> QED BY <1>4, <1>7, <1>8 DEF text

(* The recursion of CharsOf ends.                                          *)
LEMMA ChartsAre ==
    ASSUME NEW doc, Shows(doc), Len(doc) \in Nat
    PROVE  \E chars : /\ chars[0] = <<>> /\ chars[Len(doc)] = CharsOf(doc)
                      /\ \A n \in 0 .. Len(doc) : chars[n] \in Seq(Marked)
                      /\ \A n \in 1 .. Len(doc) :
                            chars[n] = IF ~Visible(doc, n) THEN chars[n - 1]
                                       ELSE chars[n - 1] \o Marks(doc, n)
<1> DEFINE N == Len(doc)
           S == Seq(Marked)
           step == [x \in S \X (1 .. N) |-> IF ~Visible(doc, x[2]) THEN x[1]
                                            ELSE x[1] \o Marks(doc, x[2])]
           c == CHOOSE chars : Charts(doc, chars)
           base == <<>>
<1>1. N \in Nat /\ base \in S
  BY EmptySeq
<1>2. step \in [S \X (1 .. N) -> S]
  <2> SUFFICES ASSUME NEW x \in S \X (1 .. N)
               PROVE  (IF ~Visible(doc, x[2]) THEN x[1] ELSE x[1] \o Marks(doc, x[2])) \in S
    OBVIOUS
  <2>1. x[1] \in S /\ x[2] \in 1 .. N
    OBVIOUS
  <2>2. Marks(doc, x[2]) \in S
    BY <2>1, MarksAre
  <2>3. x[1] \o Marks(doc, x[2]) \in S
    BY <2>1, <2>2, ConcatProperties
  <2> QED BY <2>1, <2>3
<1> HIDE DEF N, S, step, base
<1>5. PICK f : Recurs(f, N, S, base, step)
  <2>1. N \in Nat /\ base \in S
    BY <1>1
  <2> QED BY <1>2, <2>1, Recursion
<1>6. \A n \in 1 .. N : n - 1 \in 0 .. N
  BY <1>1
<1>7. \A n \in 1 .. N : f[n] = IF ~Visible(doc, n) THEN f[n - 1] ELSE f[n - 1] \o Marks(doc, n)
  <2> SUFFICES ASSUME NEW n \in 1 .. N
               PROVE  f[n] = IF ~Visible(doc, n) THEN f[n - 1] ELSE f[n - 1] \o Marks(doc, n)
    OBVIOUS
  <2>1. <<f[n - 1], n>> \in S \X (1 .. N)
    BY <1>5, <1>6 DEF Recurs
  <2>2. step[<<f[n - 1], n>>] =
          IF ~Visible(doc, n) THEN f[n - 1] ELSE f[n - 1] \o Marks(doc, n)
    BY <2>1 DEF step
  <2> QED BY <1>5, <2>2 DEF Recurs
<1>8. Charts(doc, f)
  <2>1. \A n \in 0 .. N : n = 0 \/ n \in 1 .. N
    BY <1>1
  <2>2. f = [n \in 0 .. N |-> f[n]] /\ f[0] = <<>>
    BY <1>5 DEF Recurs, base
  <2> QED BY <1>7, <2>1, <2>2 DEF Charts, N
<1>9. Charts(doc, c)
  BY <1>8
<1> HIDE DEF c
<1>10. c[0] = <<>> /\ \A n \in 1 .. N :
         c[n] = IF ~Visible(doc, n) THEN c[n - 1] ELSE c[n - 1] \o Marks(doc, n)
  <2>1. 0 \in 0 .. N /\ \A n \in 1 .. N : n \in 0 .. N /\ n # 0
    BY <1>1
  <2> QED BY <1>9, <2>1 DEF Charts, N
<1> DEFINE G == {n \in 0 .. N : c[n] \in S}
<1>11. 0 \in G
  BY <1>1, <1>10 DEF base
<1>12. ASSUME NEW n \in 1 .. N, n - 1 \in G PROVE n \in G
  <2>1. n \in 0 .. N /\ c[n - 1] \in S
    BY <1>1, <1>12
  <2>2. Marks(doc, n) \in S
    BY MarksAre DEF N, S
  <2>3. c[n - 1] \o Marks(doc, n) \in S
    BY <2>1, <2>2, ConcatProperties DEF S
  <2> QED BY <1>10, <2>1, <2>3
<1>13. \A n \in 0 .. N : n \in G
  <2> HIDE DEF G
  <2> QED BY <1>1, <1>11, <1>12, Upwards
<1>14. CharsOf(doc) = c[N]
  BY DEF CharsOf, c, Charts, Marks, N
<1> QED BY <1>10, <1>13, <1>14 DEF N, S

(* Where the characters of a node end.                                     *)
Placed(doc, last) ==
    /\ last[0] = 0 /\ last[Len(doc)] = Len(CharsOf(doc))
    /\ \A n \in 0 .. Len(doc) : last[n] \in 0 .. Len(CharsOf(doc))
    /\ \A n \in 1 .. Len(doc) :
          IF ~Visible(doc, n) THEN last[n] = last[n - 1]
          ELSE /\ last[n] = last[n - 1] + Len(doc[n].node.text)
               /\ \A c \in 1 .. Len(doc[n].node.text) :
                     CharsOf(doc)[last[n - 1] + c] = [node |-> n, char |-> doc[n].node.text[c]]
    /\ \A n \in 0 .. Len(doc), p \in Nat :
          p \in 1 .. last[n] => CharsOf(doc)[p].node \in 1 .. n

(* The characters have such ends.                                          *)
LEMMA PlacedIs ==
    ASSUME NEW doc, Shows(doc), Len(doc) \in Nat
    PROVE  CharsOf(doc) \in Seq(Marked) /\ \E last : Placed(doc, last)
<1> DEFINE N == Len(doc)
           all == CharsOf(doc)
<1>1. PICK c : /\ c[0] = <<>> /\ c[Len(doc)] = CharsOf(doc)
               /\ \A n \in 0 .. Len(doc) : c[n] \in Seq(Marked)
               /\ \A n \in 1 .. Len(doc) :
                     c[n] = IF ~Visible(doc, n) THEN c[n - 1] ELSE c[n - 1] \o Marks(doc, n)
  BY ChartsAre
<1> DEFINE last == [n \in 0 .. N |-> Len(c[n])]
<1>2. N \in Nat /\ 0 \in 0 .. N /\ N \in 0 .. N
      /\ \A n \in 1 .. N : n \in 0 .. N /\ n - 1 \in 0 .. N
  OBVIOUS
<1>3. \A n \in 0 .. N : Len(c[n]) \in Nat
  BY <1>1, LenProperties
<1>4. ASSUME NEW n \in 1 .. N
      PROVE  /\ ~Visible(doc, n) => c[n] = c[n - 1]
             /\ Visible(doc, n) =>
                  /\ Len(c[n]) = Len(c[n - 1]) + Len(doc[n].node.text)
                  /\ \A p \in 1 .. Len(c[n - 1]) : c[n][p] = c[n - 1][p]
                  /\ \A k \in 1 .. Len(doc[n].node.text) :
                        c[n][Len(c[n - 1]) + k] = [node |-> n, char |-> doc[n].node.text[k]]
             /\ Len(doc[n].node.text) \in Nat
  <2> DEFINE a == c[n - 1]
             b == Marks(doc, n)
             t == doc[n].node.text
  <2>1. a \in Seq(Marked)
    BY <1>1, <1>2
  <2>2. /\ b \in Seq(Marked) /\ Len(b) = Len(t)
        /\ \A k \in 1 .. Len(t) : b[k] = [node |-> n, char |-> t[k]]
    BY MarksAre
  <2>3. Len(t) \in Nat
    BY <2>2, LenProperties
  <2>4. c[n] = IF ~Visible(doc, n) THEN a ELSE a \o b
    BY <1>1
  <2> HIDE DEF a, b, t
  <2>5. /\ Len(a \o b) = Len(a) + Len(t) /\ Len(a) \in Nat
        /\ \A i \in 1 .. Len(a) + Len(t) :
              (a \o b)[i] = IF i <= Len(a) THEN a[i] ELSE b[i - Len(a)]
    BY <2>1, <2>2, ConcatProperties, LenProperties
  <2>6. \A p \in 1 .. Len(a) : p \in 1 .. Len(a) + Len(t) /\ p <= Len(a)
    BY <2>3, <2>5
  <2>7. \A p \in 1 .. Len(a) : (a \o b)[p] = a[p]
    BY <2>5, <2>6
  <2>8. \A k \in 1 .. Len(t) : /\ Len(a) + k \in 1 .. Len(a) + Len(t) /\ ~ (Len(a) + k <= Len(a))
                               /\ (Len(a) + k) - Len(a) = k
    BY <2>3, <2>5
  <2>9. \A k \in 1 .. Len(t) : (a \o b)[Len(a) + k] = b[k]
    BY <2>5, <2>8
  <2> QED BY <2>2, <2>3, <2>4, <2>5, <2>7, <2>9 DEF a, t
<1> DEFINE G == {k \in 0 .. N : \A n \in 0 .. k : /\ Len(c[n]) <= Len(c[k])
                                                   /\ \A p \in 1 .. Len(c[n]) : c[k][p] = c[n][p]}
           H == {k \in 0 .. N : \A p \in 1 .. Len(c[k]) : c[k][p].node \in 1 .. k}
<1>5. 0 \in G /\ 0 \in H
  <2>1. Len(c[0]) = 0
    BY <1>1
  <2> QED BY <1>2, <2>1
<1>6. ASSUME NEW k \in 1 .. N, k - 1 \in G PROVE k \in G
  <2>1. k \in 0 .. N /\ Len(c[k - 1]) \in Nat /\ Len(c[k]) \in Nat
    BY <1>2, <1>3
  <2>2. Len(c[k - 1]) <= Len(c[k]) /\ \A p \in 1 .. Len(c[k - 1]) : c[k][p] = c[k - 1][p]
    <3>1. CASE Visible(doc, k)
      <4> DEFINE a == Len(c[k - 1])
                 t == Len(doc[k].node.text)
      <4>1. Len(c[k]) = a + t /\ t \in Nat /\ a \in Nat
        BY <1>4, <2>1, <3>1
      <4>2. \A p \in 1 .. Len(c[k - 1]) : c[k][p] = c[k - 1][p]
        BY <1>4, <3>1
      <4> HIDE DEF a, t
      <4>3. a <= Len(c[k])
        BY <4>1
      <4> QED BY <4>2, <4>3 DEF a
    <3>2. CASE ~Visible(doc, k)
      <4>1. c[k] = c[k - 1]
        BY <1>4, <3>2
      <4> QED BY <2>1, <4>1
    <3> QED BY <3>1, <3>2
  <2> SUFFICES ASSUME NEW n \in 0 .. k
               PROVE  Len(c[n]) <= Len(c[k]) /\ \A p \in 1 .. Len(c[n]) : c[k][p] = c[n][p]
    BY <2>1
  <2>3. CASE n = k
    BY <2>1, <2>3
  <2>4. CASE n # k
    <3>1. n \in 0 .. k - 1 /\ n \in 0 .. N
      BY <2>4
    <3>2. /\ Len(c[n]) <= Len(c[k - 1]) /\ Len(c[n]) \in Nat
          /\ \A p \in 1 .. Len(c[n]) : c[k - 1][p] = c[n][p]
      BY <1>3, <1>6, <3>1
    <3>3. \A p \in 1 .. Len(c[n]) : p \in 1 .. Len(c[k - 1])
      BY <2>1, <3>2
    <3> QED BY <2>1, <2>2, <3>2, <3>3
  <2> QED BY <2>3, <2>4
<1>7. ASSUME NEW k \in 1 .. N, k - 1 \in H PROVE k \in H
  <2>1. k \in 0 .. N /\ k - 1 \in 0 .. N /\ Len(c[k - 1]) \in Nat /\ Len(c[k]) \in Nat
    BY <1>2, <1>3
  <2> SUFFICES ASSUME NEW p \in 1 .. Len(c[k]) PROVE c[k][p].node \in 1 .. k
    BY <2>1
  <2>2. CASE p \in 1 .. Len(c[k - 1])
    <3>1. c[k - 1][p].node \in 1 .. k - 1
      BY <1>7, <2>2
    <3>2. c[k][p] = c[k - 1][p]
      BY <1>4, <2>2
    <3> QED BY <3>1, <3>2
  <2>3. CASE p \notin 1 .. Len(c[k - 1])
    <3>1. Visible(doc, k) /\ Len(c[k]) = Len(c[k - 1]) + Len(doc[k].node.text)
      BY <1>4, <2>3
    <3> DEFINE q == p - Len(c[k - 1])
    <3>2. q \in 1 .. Len(doc[k].node.text) /\ p = Len(c[k - 1]) + q
      <4> DEFINE a == Len(c[k - 1])
                 t == Len(doc[k].node.text)
      <4>1. t \in Nat /\ a \in Nat /\ p \in 1 .. a + t /\ p \notin 1 .. a
        BY <1>4, <2>1, <2>3, <3>1
      <4> HIDE DEF a, t
      <4>2. p - a \in 1 .. t /\ p = a + (p - a)
        BY <4>1
      <4> QED BY <4>2 DEF a, t
    <3> HIDE DEF q
    <3>3. c[k][p] = [node |-> k, char |-> doc[k].node.text[q]]
      BY <1>4, <3>1, <3>2
    <3> QED BY <3>3
  <2> QED BY <2>2, <2>3
<1>8. \A k \in 0 .. N : k \in G /\ k \in H
  <2> HIDE DEF G, H
  <2>1. \A k \in 0 .. N : k \in G
    BY <1>2, <1>5, <1>6, Upwards
  <2>2. \A k \in 0 .. N : k \in H
    BY <1>2, <1>5, <1>7, Upwards
  <2> QED BY <2>1, <2>2
<1>9. ASSUME NEW n \in 0 .. N
      PROVE  Len(c[n]) \in 0 .. Len(all) /\ \A p \in 1 .. Len(c[n]) : all[p] = c[n][p]
  <2>1. N \in G /\ n \in 0 .. N
    BY <1>2, <1>8
  <2>2. Len(c[n]) <= Len(c[N]) /\ \A p \in 1 .. Len(c[n]) : c[N][p] = c[n][p]
    BY <2>1
  <2> HIDE DEF G
  <2>3. Len(c[n]) \in Nat /\ Len(c[N]) \in Nat
    BY <1>2, <1>3
  <2> QED BY <1>1, <2>2, <2>3
<1>10. ASSUME NEW n \in 1 .. N
       PROVE  IF ~Visible(doc, n) THEN last[n] = last[n - 1]
              ELSE /\ last[n] = last[n - 1] + Len(doc[n].node.text)
                   /\ \A k \in 1 .. Len(doc[n].node.text) :
                        all[last[n - 1] + k] = [node |-> n, char |-> doc[n].node.text[k]]
  <2>1. last[n] = Len(c[n]) /\ last[n - 1] = Len(c[n - 1])
    BY <1>2
  <2>2. Len(c[n - 1]) \in Nat /\ n \in 0 .. N
    BY <1>2, <1>3
  <2>3. CASE Visible(doc, n)
    <3> SUFFICES ASSUME NEW k \in 1 .. Len(doc[n].node.text)
                 PROVE  all[Len(c[n - 1]) + k] = [node |-> n, char |-> doc[n].node.text[k]]
      BY <1>4, <2>1, <2>3
    <3>1. Len(c[n - 1]) + k \in 1 .. Len(c[n])
      <4> DEFINE a == Len(c[n - 1])
                 t == Len(doc[n].node.text)
      <4>1. t \in Nat /\ a \in Nat /\ k \in 1 .. t /\ Len(c[n]) = a + t
        BY <1>4, <2>2, <2>3
      <4> HIDE DEF a, t
      <4>2. a + k \in 1 .. a + t
        BY <4>1
      <4> QED BY <4>1, <4>2 DEF a
    <3>2. all[Len(c[n - 1]) + k] = c[n][Len(c[n - 1]) + k]
      BY <1>9, <2>2, <3>1
    <3> QED BY <1>4, <2>3, <3>2
  <2>4. CASE ~Visible(doc, n)
    BY <1>4, <2>1, <2>4
  <2> QED BY <2>3, <2>4
<1>11. ASSUME NEW n \in 0 .. N, NEW p \in Nat, p \in 1 .. last[n] PROVE all[p].node \in 1 .. n
  <2>1. p \in 1 .. Len(c[n])
    BY <1>11
  <2> QED BY <1>8, <1>9, <2>1
<1>12. \A n \in 0 .. N : last[n] \in 0 .. Len(all)
  BY <1>9
<1>13. last[0] = 0 /\ last[N] = Len(all)
  BY <1>1, <1>2
<1> HIDE DEF last
<1>14. Placed(doc, last)
  BY <1>10, <1>11, <1>12, <1>13 DEF Placed
<1>15. all \in Seq(Marked)
  BY <1>1, <1>2
<1> QED BY <1>14, <1>15

-----------------------------------------------------------------------------
(* What is seen of a document, character by character.                     *)
Blacks(doc, p) == {q \in 1 .. p : Black(CharsOf(doc), q)}
Watches(doc, seen) ==
    seen = [p \in 0 .. Len(CharsOf(doc)) |->
              IF p = 0 THEN <<>>
              ELSE IF ~Black(CharsOf(doc), p) THEN seen[p - 1]
              ELSE seen[p - 1] \o Between(doc, CharsOf(doc), p) \o <<CharsOf(doc)[p].char>>]
Watched(doc, seen) ==
    /\ seen[0] = NoText /\ seen[Len(CharsOf(doc))] = Seen(doc)
    /\ \A p \in 0 .. Len(CharsOf(doc)) :
          seen[p] \in AllTexts /\ (seen[p] = NoText <=> Blacks(doc, p) = {})
    /\ \A p \in 1 .. Len(CharsOf(doc)) :
          seen[p] = IF ~Black(CharsOf(doc), p) THEN seen[p - 1]
                    ELSE seen[p - 1] \o Between(doc, CharsOf(doc), p) \o <<CharsOf(doc)[p].char>>

(* A character is seen with what is between it and the last.               *)
LEMMA SeenStep ==
    ASSUME NEW text \in AllTexts, NEW doc, NEW chars, NEW p, chars[p].char \in Chars
    PROVE  /\ text \o Between(doc, chars, p) \o <<chars[p].char>> \in AllTexts
           /\ text \o Between(doc, chars, p) \o <<chars[p].char>> # NoText
<1> DEFINE b == Between(doc, chars, p)
           x == <<chars[p].char>>
<1>1. NewLine \in Chars /\ Blank \in Chars
  BY DEF Chars, Spaces
<1>2. <<NewLine>> \in AllTexts /\ <<Blank>> \in AllTexts /\ NoText \in AllTexts
      /\ x \in AllTexts
  BY <1>1, Longer
<1>3. b \in {<<>>, <<NewLine>>, <<Blank>>}
  BY DEF Between
<1>4. b \in AllTexts
  BY <1>2, <1>3 DEF NoText
<1>5. x # NoText
  BY DEF NoText
<1> HIDE DEF b, x
<1>6. text \o b \in AllTexts
  BY <1>4, Joined3
<1>7. (text \o b) \o x \in AllTexts /\ (text \o b) \o x # NoText
  BY <1>2, <1>5, <1>6, Joined3
<1> QED BY <1>7 DEF b, x

(* The recursion of Seen ends, and nothing is seen without a word.         *)
LEMMA WatchedIs ==
    ASSUME NEW doc, Shows(doc), Len(doc) \in Nat
    PROVE  \E seen : Watched(doc, seen)
<1> DEFINE chars == CharsOf(doc)
           n == Len(CharsOf(doc))
           Next1(text, p) == IF ~Black(chars, p) THEN text
                             ELSE text \o Between(doc, chars, p) \o <<chars[p].char>>
           step == [x \in AllTexts \X (1 .. n) |-> Next1(x[1], x[2])]
           c == CHOOSE seen : Watches(doc, seen)
           base == NoText
<1>1. chars \in Seq(Marked) /\ n \in Nat
  BY PlacedIs, LenProperties
<1>2. \A p \in 1 .. n : chars[p].char \in Chars
  <2>1. \A p \in 1 .. n : chars[p] \in Marked
    <3> HIDE DEF chars
    <3> QED BY <1>1, ElementOfSeq DEF chars
  <2>2. \A x \in Marked : x.char \in Chars
    BY DEF Marked
  <2> HIDE DEF chars
  <2> QED BY <2>1, <2>2
<1>3. base \in AllTexts
  BY Alone DEF AllTexts, NoText
<1> HIDE DEF chars, n, base
<1>4. ASSUME NEW text \in AllTexts, NEW p \in 1 .. n
      PROVE  /\ Next1(text, p) \in AllTexts
             /\ Black(chars, p) => Next1(text, p) # NoText
             /\ ~Black(chars, p) => Next1(text, p) = text
  <2>1. chars[p].char \in Chars
    BY <1>2
  <2>2. /\ text \o Between(doc, chars, p) \o <<chars[p].char>> \in AllTexts
        /\ text \o Between(doc, chars, p) \o <<chars[p].char>> # NoText
    BY <2>1, SeenStep
  <2> QED BY <2>2
<1>5. step \in [AllTexts \X (1 .. n) -> AllTexts]
  <2> HIDE DEF Next1
  <2> SUFFICES ASSUME NEW x \in AllTexts \X (1 .. n) PROVE Next1(x[1], x[2]) \in AllTexts
    OBVIOUS
  <2>1. x[1] \in AllTexts /\ x[2] \in 1 .. n
    OBVIOUS
  <2> QED BY <1>4, <2>1
<1> HIDE DEF Next1, step
<1>6. PICK f : Recurs(f, n, AllTexts, base, step)
  BY <1>1, <1>3, <1>5, Recursion
<1>7. \A p \in 1 .. n : p - 1 \in 0 .. n /\ p \in 0 .. n /\ p # 0
  BY <1>1
<1>8. ASSUME NEW p \in 1 .. n PROVE f[p] = Next1(f[p - 1], p)
  <2>1. <<f[p - 1], p>> \in AllTexts \X (1 .. n)
    BY <1>6, <1>7 DEF Recurs
  <2>2. step[<<f[p - 1], p>>] = Next1(f[p - 1], p)
    BY <2>1 DEF step
  <2> QED BY <1>6, <2>2 DEF Recurs
<1>9. Watches(doc, f)
  <2>1. \A p \in 0 .. n : p = 0 \/ p \in 1 .. n
    BY <1>1
  <2>2. f = [p \in 0 .. n |-> f[p]] /\ f[0] = <<>>
    BY <1>6 DEF Recurs, base, NoText
  <2>3. f = [p \in 0 .. n |-> IF p = 0 THEN <<>> ELSE Next1(f[p - 1], p)]
    BY <1>8, <2>1, <2>2
  <2> QED BY <2>3 DEF Watches, n, Next1, chars
<1>10. Watches(doc, c)
  BY <1>9
<1>11. Seen(doc) = c[n]
  BY DEF Seen, c, Watches, n
<1> HIDE DEF c
<1>12. c[0] = NoText /\ \A p \in 1 .. n : c[p] = Next1(c[p - 1], p)
  <2>1. 0 \in 0 .. n
    BY <1>1
  <2>2. c = [p \in 0 .. n |-> IF p = 0 THEN <<>> ELSE Next1(c[p - 1], p)]
    BY <1>10 DEF Watches, n, Next1, chars
  <2> QED BY <1>7, <2>1, <2>2 DEF NoText
<1> DEFINE G == {p \in 0 .. n : c[p] \in AllTexts /\ (c[p] = NoText <=> Blacks(doc, p) = {})}
<1>13. 0 \in G
  <2>1. Blacks(doc, 0) = {}
    BY DEF Blacks
  <2> QED BY <1>1, <1>3, <1>12, <2>1 DEF base
<1>14. ASSUME NEW p \in 1 .. n, p - 1 \in G PROVE p \in G
  <2>1. /\ c[p - 1] \in AllTexts /\ (c[p - 1] = NoText <=> Blacks(doc, p - 1) = {})
        /\ p \in 0 .. n /\ c[p] = Next1(c[p - 1], p)
    BY <1>7, <1>12, <1>14
  <2>2. 1 .. p = 1 .. p - 1 \cup {p}
    OBVIOUS
  <2>3. /\ ~Black(chars, p) => Blacks(doc, p) = Blacks(doc, p - 1)
        /\ Black(chars, p) => Blacks(doc, p) # {}
    BY <2>2 DEF Blacks, chars
  <2> QED BY <1>4, <2>1, <2>3
<1>15. \A p \in 0 .. n : p \in G
  <2> HIDE DEF G
  <2> QED BY <1>1, <1>13, <1>14, Upwards
<1> QED BY <1>11, <1>12, <1>15 DEF Watched, n, Next1, chars

-----------------------------------------------------------------------------
(* A node is inside of itself and of what its parent is inside of.         *)
LEMMA InsideUp ==
    ASSUME NEW doc, Ordered(doc), NEW n \in 1 .. Len(doc), NEW c \in 1 .. Len(doc)
    PROVE  Inside(doc, n, c) <=> c = n \/ Inside(doc, doc[n].parent, c)
<1> DEFINE N == Len(doc)
           b == doc[n].parent
<1>1. /\ N \in Nat /\ n \in Nat /\ c \in Nat /\ n <= N /\ c <= N /\ c >= 1
      /\ b \in Nat /\ b < n
      /\ \A k \in 1 .. N : doc[k].parent \in Int
      /\ \A k \in 1 .. N : k < n /\ b < k => doc[k].parent >= b
  BY DEF Ordered
<1>2. ASSUME Inside(doc, n, c), c # n PROVE Inside(doc, b, c)
  <2>1. c < n /\ n \in c + 1 .. n /\ \A k \in c + 1 .. n : doc[k].parent >= c
    BY <1>1, <1>2 DEF Inside
  <2>2. b >= c
    BY <2>1
  <2>3. \A k \in c + 1 .. b : k \in c + 1 .. n
    BY <1>1
  <2> HIDE DEF b
  <2> QED BY <1>1, <2>1, <2>2, <2>3 DEF Inside
<1>3. ASSUME Inside(doc, b, c) PROVE Inside(doc, n, c)
  <2>1. c <= b /\ \A k \in c + 1 .. b : doc[k].parent >= c
    BY <1>3 DEF Inside
  <2>2. ASSUME NEW k \in c + 1 .. n PROVE doc[k].parent >= c
    <3>1. k \in 1 .. N /\ k \in Int
      BY <1>1
    <3>2. CASE k <= b
      <4>1. k \in c + 1 .. b
        BY <1>1, <3>1, <3>2
      <4> QED BY <2>1, <4>1
    <3>3. CASE k = n
      BY <2>1, <3>3
    <3>4. CASE ~ (k <= b) /\ k # n
      <4>1. k < n /\ b < k
        BY <1>1, <3>1, <3>4
      <4>2. doc[k].parent >= b /\ doc[k].parent \in Int
        BY <1>1, <3>1, <4>1
      <4> HIDE DEF b
      <4> QED BY <1>1, <2>1, <4>2
    <3> QED BY <3>2, <3>3, <3>4
  <2> HIDE DEF b
  <2>3. c <= n
    BY <1>1, <2>1
  <2> QED BY <2>2, <2>3 DEF Inside
<1>4. Inside(doc, n, n)
  BY <1>1 DEF Inside
<1> QED BY <1>2, <1>3, <1>4

(* A node of a visible parent is visible, unless it is ignored.            *)
LEMMA VisibleDown ==
    ASSUME NEW doc, Ordered(doc), NEW n \in 1 .. Len(doc),
           doc[n].parent = 0 \/ Visible(doc, doc[n].parent), doc[n].node.kind # "ignored"
    PROVE  Visible(doc, n)
<1> DEFINE b == doc[n].parent
<1>1. b \in Nat /\ n \in Nat /\ n <= Len(doc) /\ Len(doc) \in Nat
  BY DEF Ordered
<1> SUFFICES ASSUME NEW c \in 1 .. n, Inside(doc, n, c) PROVE doc[c].node.kind # "ignored"
  BY DEF Visible
<1>2. c = n \/ Inside(doc, b, c)
  <2>1. c \in 1 .. Len(doc)
    BY <1>1
  <2> QED BY <2>1, InsideUp
<1>3. ASSUME Inside(doc, b, c) PROVE doc[c].node.kind # "ignored"
  <2>1. c \in 1 .. b /\ b # 0
    BY <1>1, <1>3 DEF Inside
  <2> QED BY <1>3, <2>1 DEF Visible
<1> QED BY <1>2, <1>3

(* What comes before the next word when the first p characters and the     *)
(* first k nodes are read, and b and what holds it are still open; within  *)
(* says that the text of node k is being read.                             *)
Lined(doc, i, k, b) ==
    \E c \in DOMAIN doc :
       /\ Visible(doc, c)
       /\ \/ doc[c].node.kind \in {"br", "block"} /\ i < c /\ c <= k
          \/ doc[c].node.kind = "block" /\ Inside(doc, i, c) /\ ~Inside(doc, b, c)
Spaced(doc, i, k, within) == \E n \in i .. k : Described(doc, n) /\ ~ (within /\ i = k)
LastBlack(doc, p) == Max(Blacks(doc, p))
From(doc, p) == CharsOf(doc)[LastBlack(doc, p)].node
Broken(doc, p) == \E r \in LastBlack(doc, p) + 1 .. p : CharsOf(doc)[r].char = NewLine
Ahead(doc, p, k, b, within) ==
    IF Blacks(doc, p) = {} THEN NoText
    ELSE IF Lined(doc, From(doc, p), k, b) \/ Broken(doc, p) THEN <<NewLine>>
    ELSE IF LastBlack(doc, p) < p \/ Spaced(doc, From(doc, p), k, within) THEN <<Blank>>
    ELSE NoText
Known(doc, last, seen) ==
    /\ Ordered(doc) /\ Shows(doc) /\ CharsOf(doc) \in Seq(Marked)
    /\ Placed(doc, last) /\ Watched(doc, seen)
Stands(doc, seen, text, p, k, b, within) ==
    text \in AllTexts /\ Normal(text) = seen[p] /\ Gap(text) = Ahead(doc, p, k, b, within)

(* The last character of a word among the first p.                         *)
LEMMA LastBlackIs ==
    ASSUME NEW doc, NEW p \in Nat, Blacks(doc, p) # {}
    PROVE  /\ LastBlack(doc, p) \in 1 .. p /\ Black(CharsOf(doc), LastBlack(doc, p))
           /\ \A r \in LastBlack(doc, p) + 1 .. p : ~Black(CharsOf(doc), r)
<1> DEFINE S == Blacks(doc, p)
<1>1. S \in SUBSET (1 .. p) /\ 1 \in Int /\ p \in Int /\ \A q \in S : Black(CharsOf(doc), q)
  BY DEF Blacks
<1> HIDE DEF S
<1>2. Max(S) \in S /\ \A y \in S : Max(S) >= y
  BY <1>1, Extremes DEF S
<1> DEFINE q == Max(S)
<1> HIDE DEF q
<1>3. ASSUME NEW r \in q + 1 .. p, Black(CharsOf(doc), r) PROVE FALSE
  <2>1. q \in 1 .. p
    BY <1>1, <1>2 DEF q
  <2>2. r \in 1 .. p /\ ~ (q >= r)
    BY <2>1
  <2>3. r \in S
    BY <1>3, <2>2 DEF S, Blacks
  <2> QED BY <1>2, <2>2, <2>3 DEF q
<1> QED BY <1>1, <1>2, <1>3 DEF LastBlack, S, q

(* A text stands where nothing that it would have to say has changed, and  *)
(* where a new line or a blank says what has.                              *)
LEMMA Moves ==
    ASSUME NEW doc, NEW last, NEW seen, Known(doc, last, seen),
           NEW m \in 0 .. Len(doc), NEW p \in Nat, p \in 0 .. last[m],
           NEW text, NEW k, NEW b, NEW within, Stands(doc, seen, text, p, k, b, within),
           NEW k2, NEW b2, NEW within2
    PROVE  /\ (\A i \in 1 .. m : /\ Lined(doc, i, k2, b2) <=> Lined(doc, i, k, b)
                                 /\ Spaced(doc, i, k2, within2) <=> Spaced(doc, i, k, within))
              => Stands(doc, seen, text, p, k2, b2, within2)
           /\ (\A i \in 1 .. m : Lined(doc, i, k2, b2))
              => Stands(doc, seen, Append(text, NewLine), p, k2, b2, within2)
           /\ (\A i \in 1 .. m : /\ Lined(doc, i, k2, b2) <=> Lined(doc, i, k, b)
                                 /\ Spaced(doc, i, k2, within2))
              => Stands(doc, seen, Append(text, Blank), p, k2, b2, within2)
<1> DEFINE i == From(doc, p)
           none == Blacks(doc, p) = {}
<1>1. p \in 0 .. Len(CharsOf(doc))
  BY DEF Known, Placed, Ordered
<1>2. ~none => i \in 1 .. m
  <2> SUFFICES ASSUME ~none PROVE i \in 1 .. m
    OBVIOUS
  <2>1. LastBlack(doc, p) \in 1 .. p
    BY LastBlackIs
  <2>2. LastBlack(doc, p) \in Nat /\ LastBlack(doc, p) \in 1 .. last[m]
    <3>1. last[m] \in Nat
      BY DEF Known, Placed, Ordered
    <3> QED BY <2>1, <3>1
  <2> QED BY <2>2 DEF Known, Placed, From
<1>3. seen[p] = NoText <=> none
  BY <1>1 DEF Known, Watched
<1>4. /\ NewLine \in Chars /\ Blank \in Chars /\ NewLine \in Spaces /\ Blank \in Spaces
      /\ NewLine # Blank /\ <<NewLine>> # NoText /\ <<Blank>> # NoText /\ <<NewLine>> # <<Blank>>
  <2>1. NewLine # Blank
    BY DEF NewLine, Blank
  <2> QED BY <2>1 DEF Chars, Spaces, NoText
<1>5. text \in AllTexts /\ Normal(text) = seen[p] /\ Gap(text) = Ahead(doc, p, k, b, within)
  BY DEF Stands
<1>6. Append(text, NewLine) \in AllTexts /\ Append(text, Blank) \in AllTexts
  BY <1>4, <1>5, Longer
<1>7. /\ Normal(Append(text, NewLine)) = seen[p]
      /\ Gap(Append(text, NewLine)) = IF none THEN NoText ELSE <<NewLine>>
  BY <1>3, <1>4, <1>5, NormalStep
<1>8. /\ Normal(Append(text, Blank)) = seen[p]
      /\ Gap(Append(text, Blank)) = IF none THEN NoText
                                    ELSE IF Gap(text) = <<NewLine>> THEN <<NewLine>> ELSE <<Blank>>
  BY <1>3, <1>4, <1>5, NormalStep
<1> HIDE DEF none, i
<1>9. Ahead(doc, p, k, b, within) =
        IF none THEN NoText ELSE IF Lined(doc, i, k, b) \/ Broken(doc, p) THEN <<NewLine>>
        ELSE IF LastBlack(doc, p) < p \/ Spaced(doc, i, k, within) THEN <<Blank>> ELSE NoText
  BY DEF Ahead, none, i
<1>10. Ahead(doc, p, k2, b2, within2) =
        IF none THEN NoText ELSE IF Lined(doc, i, k2, b2) \/ Broken(doc, p) THEN <<NewLine>>
        ELSE IF LastBlack(doc, p) < p \/ Spaced(doc, i, k2, within2) THEN <<Blank>> ELSE NoText
  BY DEF Ahead, none, i
<1>11. ASSUME \A j \in 1 .. m : /\ Lined(doc, j, k2, b2) <=> Lined(doc, j, k, b)
                                /\ Spaced(doc, j, k2, within2) <=> Spaced(doc, j, k, within)
       PROVE  Stands(doc, seen, text, p, k2, b2, within2)
  BY <1>2, <1>5, <1>9, <1>10, <1>11 DEF Stands
<1>12. ASSUME \A j \in 1 .. m : Lined(doc, j, k2, b2)
       PROVE  Stands(doc, seen, Append(text, NewLine), p, k2, b2, within2)
  BY <1>2, <1>6, <1>7, <1>10, <1>12 DEF Stands
<1>13. ASSUME \A j \in 1 .. m : /\ Lined(doc, j, k2, b2) <=> Lined(doc, j, k, b)
                                /\ Spaced(doc, j, k2, within2)
       PROVE  Stands(doc, seen, Append(text, Blank), p, k2, b2, within2)
  <2>1. ~none => (Gap(text) = <<NewLine>> <=> Lined(doc, i, k2, b2) \/ Broken(doc, p))
    BY <1>2, <1>4, <1>5, <1>9, <1>13
  <2> QED BY <1>2, <1>4, <1>6, <1>8, <1>10, <1>13, <2>1 DEF Stands
<1> QED BY <1>11, <1>12, <1>13

(* The second part of Moves: a new line is written.                        *)
LEMMA MovesToLine ==
    ASSUME NEW doc, NEW last, NEW seen, Known(doc, last, seen),
           NEW m \in 0 .. Len(doc), NEW p \in Nat, p \in 0 .. last[m],
           NEW text, NEW k, NEW b, NEW within, Stands(doc, seen, text, p, k, b, within),
           NEW k2, NEW b2, NEW within2, \A i \in 1 .. m : Lined(doc, i, k2, b2),
           NEW longer, longer = Append(text, NewLine)
    PROVE  Stands(doc, seen, longer, p, k2, b2, within2)
  BY Moves

(* The third part of Moves: a blank is written.                            *)
LEMMA MovesOn ==
    ASSUME NEW doc, NEW last, NEW seen, Known(doc, last, seen),
           NEW m \in 0 .. Len(doc), NEW p \in Nat, p \in 0 .. last[m],
           NEW text, NEW k, NEW b, NEW within, Stands(doc, seen, text, p, k, b, within),
           NEW k2, NEW b2, NEW within2,
           \A i \in 1 .. m : /\ Lined(doc, i, k2, b2) <=> Lined(doc, i, k, b)
                             /\ Spaced(doc, i, k2, within2),
           NEW longer, longer = Append(text, Blank)
    PROVE  Stands(doc, seen, longer, p, k2, b2, within2)
  BY Moves

-----------------------------------------------------------------------------
(* A line is between two nodes, of which the second has text, if what is   *)
(* read up to the second has one.                                          *)
LEMMA LineIs ==
    ASSUME NEW doc, Ordered(doc), NEW k \in 1 .. Len(doc), NEW i \in 1 .. k,
           doc[k].node.kind \notin {"br", "block"}
    PROVE  LineBetween(doc, i, k) <=> Lined(doc, i, k, k)
<1>1. /\ DOMAIN doc = 1 .. Len(doc) /\ k \in Nat /\ i \in Nat /\ i <= k
  BY DEF Ordered
<1>2. ASSUME LineBetween(doc, i, k) PROVE Lined(doc, i, k, k)
  <2>1. PICK c \in DOMAIN doc :
          /\ Visible(doc, c)
          /\ \/ doc[c].node.kind \in {"br", "block"} /\ i < c /\ c < k
             \/ doc[c].node.kind = "block" /\ ~ (Inside(doc, i, c) <=> Inside(doc, k, c))
    BY <1>2 DEF LineBetween
  <2>2. c \in Nat
    BY <1>1, <2>1
  <2>3. CASE doc[c].node.kind \in {"br", "block"} /\ i < c /\ c < k
    <3>1. c <= k
      BY <1>1, <2>2, <2>3
    <3> QED BY <2>1, <2>3, <3>1 DEF Lined
  <2>4. CASE doc[c].node.kind = "block" /\ Inside(doc, i, c) /\ ~Inside(doc, k, c)
    BY <2>1, <2>4 DEF Lined
  <2>5. CASE doc[c].node.kind = "block" /\ ~Inside(doc, i, c) /\ Inside(doc, k, c)
    <3>1. c <= k /\ \A n \in c + 1 .. k : doc[n].parent >= c
      BY <2>5 DEF Inside
    <3>2. \A n \in c + 1 .. i : n \in c + 1 .. k
      BY <1>1, <2>2
    <3>3. ~ (c <= i)
      BY <2>5, <3>1, <3>2 DEF Inside
    <3>4. i < c
      BY <1>1, <2>2, <3>3
    <3> QED BY <2>1, <2>5, <3>1, <3>4 DEF Lined
  <2> QED BY <2>1, <2>3, <2>4, <2>5
<1>3. ASSUME Lined(doc, i, k, k) PROVE LineBetween(doc, i, k)
  <2>1. PICK c \in DOMAIN doc :
          /\ Visible(doc, c)
          /\ \/ doc[c].node.kind \in {"br", "block"} /\ i < c /\ c <= k
             \/ doc[c].node.kind = "block" /\ Inside(doc, i, c) /\ ~Inside(doc, k, c)
    BY <1>3 DEF Lined
  <2>2. c \in Nat
    BY <1>1, <2>1
  <2>3. CASE doc[c].node.kind \in {"br", "block"} /\ i < c /\ c <= k
    <3>1. c # k
      BY <2>3
    <3>2. c < k /\ i # k
      BY <1>1, <2>2, <2>3, <3>1
    <3> QED BY <2>1, <2>3, <3>2 DEF LineBetween
  <2>4. CASE doc[c].node.kind = "block" /\ Inside(doc, i, c) /\ ~Inside(doc, k, c)
    <3>1. i # k
      BY <2>4
    <3> QED BY <2>1, <2>4, <3>1 DEF LineBetween
  <2> QED BY <2>1, <2>3, <2>4
<1> QED BY <1>2, <1>3

(* While the text of a node is read, what comes before the next character  *)
(* is what is between it and the last.                                     *)
LEMMA BetweenIs ==
    ASSUME NEW doc, NEW last, NEW seen, Known(doc, last, seen),
           NEW k \in 1 .. Len(doc), doc[k].node.kind \notin {"br", "block"},
           NEW p \in Nat, p \in 1 .. last[k], CharsOf(doc)[p].node = k
    PROVE  Ahead(doc, p - 1, k, k, TRUE) = Between(doc, CharsOf(doc), p)
<1> DEFINE chars == CharsOf(doc)
           previous == {q \in 1 .. p - 1 : Black(chars, q)}
           q0 == LastBlack(doc, p - 1)
           i == From(doc, p - 1)
<1>1. previous = Blacks(doc, p - 1)
  BY DEF Blacks
<1>2. Between(doc, chars, p) =
        IF previous = {} THEN NoText
        ELSE IF LineBetween(doc, i, k) \/ \E r \in q0 + 1 .. p - 1 : chars[r].char = NewLine
        THEN <<NewLine>>
        ELSE IF q0 + 1 < p \/ (i # k /\ \E n \in i .. k : Described(doc, n)) THEN <<Blank>>
        ELSE NoText
  BY <1>1 DEF Between, LastBlack, From, NoText
<1>3. CASE previous = {}
  BY <1>1, <1>2, <1>3 DEF Ahead
<1>4. CASE previous # {}
  <2> HIDE DEF previous
  <2>1. p - 1 \in Nat /\ last[k] \in Nat /\ k \in 0 .. Len(doc)
    <3>1. k \in 0 .. Len(doc)
      OBVIOUS
    <3> QED BY <3>1 DEF Known, Placed, Ordered
  <2>2. q0 \in 1 .. p - 1
    BY <1>1, <1>4, <2>1, LastBlackIs
  <2>3. q0 \in Nat /\ q0 \in 1 .. last[k]
    BY <2>1, <2>2
  <2>4. i \in 1 .. k
    BY <2>1, <2>3 DEF Known, Placed, From
  <2>5. LineBetween(doc, i, k) <=> Lined(doc, i, k, k)
    BY <2>4, LineIs DEF Known
  <2>6. q0 + 1 < p <=> q0 < p - 1
    BY <2>3
  <2>7. (i # k /\ \E n \in i .. k : Described(doc, n)) <=> Spaced(doc, i, k, TRUE)
    BY DEF Spaced
  <2>8. (\E r \in q0 + 1 .. p - 1 : chars[r].char = NewLine) <=> Broken(doc, p - 1)
    BY DEF Broken
  <2> HIDE DEF q0, i
  <2> QED BY <1>1, <1>2, <1>4, <2>5, <2>6, <2>7, <2>8 DEF Ahead, q0, i
<1> QED BY <1>3, <1>4

(* A character of the text of a node is read.                              *)
LEMMA ReadsChar ==
    ASSUME NEW doc, NEW last, NEW seen, Known(doc, last, seen),
           NEW k \in 1 .. Len(doc), doc[k].node.kind \notin {"br", "block"},
           NEW p \in Nat, p \in 1 .. last[k], CharsOf(doc)[p].node = k,
           NEW text, Stands(doc, seen, text, p - 1, k, k, TRUE)
    PROVE  Stands(doc, seen, Append(text, CharsOf(doc)[p].char), p, k, k, TRUE)
<1> DEFINE chars == CharsOf(doc)
           ch == chars[p].char
           longer == Append(text, ch)
           before == Ahead(doc, p - 1, k, k, TRUE)
           after == Ahead(doc, p, k, k, TRUE)
<1>1. last[k] \in 0 .. Len(chars) /\ Len(chars) \in Nat
  <2>1. k \in 0 .. Len(doc)
    BY DEF Known, Ordered
  <2> QED BY <2>1, LenProperties DEF Known, Placed
<1>2. /\ p \in 1 .. Len(chars) /\ p \in 0 .. Len(chars)
      /\ p - 1 \in 0 .. Len(chars) /\ p - 1 \in Nat
  BY <1>1
<1>3. ch \in Chars
  <2>1. chars[p] \in Marked
    BY <1>2, ElementOfSeq DEF Known
  <2> QED BY <2>1 DEF Marked
<1>4. text \in AllTexts /\ Normal(text) = seen[p - 1] /\ Gap(text) = before
  BY DEF Stands
<1>5. before = Between(doc, chars, p)
  BY BetweenIs
<1>6. /\ seen[p] = IF ~Black(chars, p) THEN seen[p - 1]
                   ELSE seen[p - 1] \o Between(doc, chars, p) \o <<ch>>
      /\ seen[p - 1] = NoText <=> Blacks(doc, p - 1) = {}
  BY <1>2 DEF Known, Watched
<1>7. longer \in AllTexts
  BY <1>3, <1>4, Longer
<1>8. Black(chars, p) <=> ch \notin Spaces
  BY DEF Black
<1>9. 1 .. p = 1 .. p - 1 \cup {p}
  OBVIOUS
<1>10. CASE Black(chars, p)
  <2>1. Blacks(doc, p) # {}
    BY <1>9, <1>10 DEF Blacks
  <2>2. LastBlack(doc, p) = p
    <3>1. /\ LastBlack(doc, p) \in 1 .. p
          /\ \A r \in LastBlack(doc, p) + 1 .. p : ~Black(chars, r)
      BY <2>1, LastBlackIs
    <3> DEFINE l == LastBlack(doc, p)
    <3> HIDE DEF l
    <3>2. l # p => p \in l + 1 .. p
      BY <3>1 DEF l
    <3> QED BY <1>10, <3>1, <3>2 DEF l
  <2>3. From(doc, p) = k
    BY <2>2 DEF From
  <2>4. ~Lined(doc, k, k, k)
    <3>1. k \in Nat /\ DOMAIN doc \subseteq Nat
      BY DEF Known, Ordered
    <3>2. \A c \in DOMAIN doc : ~ (k < c /\ c <= k)
      BY <3>1
    <3> QED BY <3>2 DEF Lined
  <2>5. ~Broken(doc, p)
    <3>1. p + 1 .. p = {}
      OBVIOUS
    <3> QED BY <2>2, <3>1 DEF Broken
  <2>6. ~ (LastBlack(doc, p) < p)
    BY <2>2
  <2>7. ~Spaced(doc, k, k, TRUE)
    BY DEF Spaced
  <2>8. after = NoText
    BY <2>1, <2>3, <2>4, <2>5, <2>6, <2>7 DEF Ahead
  <2>9. Normal(longer) = Normal(text) \o Gap(text) \o <<ch>> /\ Gap(longer) = NoText
    BY <1>3, <1>4, <1>8, <1>10, NormalStep
  <2>10. Normal(longer) = seen[p]
    BY <1>4, <1>5, <1>6, <1>10, <2>9
  <2> QED BY <1>7, <2>8, <2>9, <2>10 DEF Stands
<1>11. CASE ~Black(chars, p)
  <2>1. Blacks(doc, p) = Blacks(doc, p - 1)
    BY <1>9, <1>11 DEF Blacks
  <2>2. LastBlack(doc, p) = LastBlack(doc, p - 1) /\ From(doc, p) = From(doc, p - 1)
    BY <2>1 DEF LastBlack, From
  <2>3. /\ Normal(longer) = Normal(text)
        /\ Gap(longer) = IF Normal(text) = NoText THEN NoText
                         ELSE IF ch = NewLine \/ Gap(text) = <<NewLine>>
                         THEN <<NewLine>> ELSE <<Blank>>
    BY <1>3, <1>4, <1>8, <1>11, NormalStep
  <2>4. CASE Blacks(doc, p) = {}
    <3>1. after = NoText
      BY <2>4 DEF Ahead
    <3> QED BY <1>4, <1>6, <1>7, <1>11, <2>1, <2>3, <2>4, <3>1 DEF Stands
  <2>5. CASE Blacks(doc, p) # {}
    <3> DEFINE l == LastBlack(doc, p - 1)
    <3>1. l \in 1 .. p - 1
      BY <1>2, <2>1, <2>5, LastBlackIs
    <3> HIDE DEF l
    <3>2. l + 1 .. p = l + 1 .. p - 1 \cup {p} /\ l < p
      BY <3>1
    <3>3. Broken(doc, p) <=> Broken(doc, p - 1) \/ ch = NewLine
      BY <2>2, <3>2 DEF Broken, l
    <3> DEFINE lined == Lined(doc, From(doc, p), k, k)
    <3>4. after = IF lined \/ Broken(doc, p) THEN <<NewLine>> ELSE <<Blank>>
      BY <2>2, <2>5, <3>2 DEF Ahead, l
    <3>5. before = <<NewLine>> <=> lined \/ Broken(doc, p - 1)
      <4>1. NewLine # Blank
        BY DEF NewLine, Blank
      <4>2. <<NewLine>> # <<Blank>> /\ <<NewLine>> # NoText
        BY <4>1 DEF NoText
      <4> QED BY <2>1, <2>2, <2>5, <4>2 DEF Ahead
    <3> HIDE DEF lined, before, after
    <3>6. Gap(longer) = after
      BY <1>4, <1>6, <2>1, <2>3, <2>5, <3>3, <3>4, <3>5
    <3> QED BY <1>4, <1>6, <1>7, <1>11, <2>3, <3>6 DEF Stands, after
  <2> QED BY <2>4, <2>5
<1> QED BY <1>10, <1>11

(* The text of a node is read.                                             *)
LEMMA ReadsText ==
    ASSUME NEW doc, NEW last, NEW seen, Known(doc, last, seen),
           NEW k \in 1 .. Len(doc), Visible(doc, k),
           NEW text, Stands(doc, seen, text, last[k - 1], k, k, TRUE)
    PROVE  Stands(doc, seen, text \o doc[k].node.text, last[k], k, k, TRUE)
<1> DEFINE shown == doc[k].node.text
           n == Len(shown)
           a == last[k - 1]
<1>1. shown \in AllTexts /\ text \in AllTexts /\ shown \in Seq(Chars)
  BY DEF Known, Shows, Stands, AllTexts
<1>2. n \in Nat /\ a \in Nat /\ last[k] = a + n
      /\ \A c \in 1 .. n : CharsOf(doc)[a + c] = [node |-> k, char |-> shown[c]]
  <2>1. k \in 1 .. Len(doc) /\ k - 1 \in 0 .. Len(doc) /\ Len(CharsOf(doc)) \in Nat
    BY LenProperties DEF Known, Ordered
  <2>2. n \in Nat
    BY <1>1, Joined3
  <2> QED BY <2>1, <2>2 DEF Known, Placed
<1>3. n # 0 => doc[k].node.kind \notin {"br", "block"}
  <2>1. n # 0 => shown # NoText
    BY DEF NoText
  <2> QED BY <2>1 DEF Known, Shows
<1> DEFINE G == {c \in 0 .. n :
                   Stands(doc, seen, text \o SubSeq(shown, 1, c), a + c, k, k, TRUE)}
<1> HIDE DEF shown, n, a
<1>4. 0 \in G
  <2>1. SubSeq(shown, 1, 0) = NoText
    BY SubSeqEmpty DEF NoText
  <2>2. text \o NoText = text
    BY <1>1, Joined3
  <2>4. a + 0 = a /\ 0 \in 0 .. n
    BY <1>2
  <2>3. Stands(doc, seen, text, a, k, k, TRUE)
    BY DEF a
  <2>5. Stands(doc, seen, text \o SubSeq(shown, 1, 0), a + 0, k, k, TRUE)
    BY <2>1, <2>2, <2>3, <2>4
  <2> QED BY <2>4, <2>5
<1>5. ASSUME NEW c \in 1 .. n, c - 1 \in G PROVE c \in G
  <2> DEFINE t == text \o SubSeq(shown, 1, c - 1)
             p == a + c
  <2>1. Stands(doc, seen, t, p - 1, k, k, TRUE)
    <3>1. a + (c - 1) = p - 1
      BY <1>2
    <3> QED BY <1>5, <3>1
  <2>2. p \in Nat /\ p \in 1 .. last[k] /\ c \in 0 .. n
    BY <1>2
  <2>3. CharsOf(doc)[p].node = k /\ CharsOf(doc)[p].char = shown[c]
    <3> DEFINE mark == CharsOf(doc)[a + c]
    <3>1. mark = [node |-> k, char |-> shown[c]]
      BY <1>2
    <3> HIDE DEF mark
    <3>2. mark.node = k /\ mark.char = shown[c]
      BY <3>1
    <3> QED BY <3>2 DEF mark
  <2>4. doc[k].node.kind \notin {"br", "block"}
    BY <1>2, <1>3
  <2> HIDE DEF t, p
  <2>5. Stands(doc, seen, Append(t, CharsOf(doc)[p].char), p, k, k, TRUE)
    BY <2>1, <2>2, <2>3, <2>4, ReadsChar
  <2>6. Append(t, shown[c]) = text \o SubSeq(shown, 1, c)
    <3>1. /\ SubSeq(shown, 1, c - 1) \in AllTexts /\ shown[c] \in Chars
          /\ SubSeq(shown, 1, c) = SubSeq(shown, 1, c - 1) \o <<shown[c]>>
      <4>1. c \in 1 .. Len(shown) /\ 1 \in 1 .. Len(shown) /\ c \in Int /\ c - 1 \in Int
            /\ c \in 1 .. Len(shown)
        BY <1>2 DEF n
      <4>2. \A i \in 1 .. c - 1 : i \in 1 .. Len(shown)
        BY <1>2, <4>1
      <4>3. \A i \in 1 .. Len(shown) : shown[i] \in Chars
        BY <1>1, ElementOfSeq
      <4>4. SubSeq(shown, 1, c - 1) \in Seq(Chars)
        BY <4>1, <4>2, <4>3, SubSeqProperties
      <4>5. SubSeq(shown, 1, c) = SubSeq(shown, 1, c - 1) \o <<shown[c]>>
        BY <1>1, <4>1, SubSeqRecursiveSecond
      <4> QED BY <4>1, <4>3, <4>4, <4>5 DEF AllTexts
    <3> DEFINE u == SubSeq(shown, 1, c - 1)
               x == <<shown[c]>>
    <3>2. x \in AllTexts /\ t \in AllTexts /\ Append(t, shown[c]) = t \o x
      BY <2>1, <3>1, Longer DEF Stands
    <3> HIDE DEF u, x
    <3>3. u \in AllTexts
      BY <3>1 DEF u
    <3>4. Associates(text, u, x)
      BY <1>1, <3>2, <3>3, Associative
    <3> QED BY <3>1, <3>2, <3>4 DEF Associates, t, u, x
  <2> QED BY <2>2, <2>3, <2>5, <2>6 DEF p
<1>6. n \in G
  <2> HIDE DEF G
  <2>1. \A c \in 0 .. n : c \in G
    BY <1>2, <1>4, <1>5, Upwards
  <2> QED BY <1>2, <2>1
<1>7. SubSeq(shown, 1, n) = shown
  BY <1>1, SubSeqFull DEF n
<1> QED BY <1>2, <1>6, <1>7 DEF shown

-----------------------------------------------------------------------------
(* A node is opened and its own text read.                                 *)
LEMMA Opens ==
    ASSUME NEW doc, NEW last, NEW seen, Known(doc, last, seen), NEW n \in 1 .. Len(doc),
           doc[n].parent = 0 \/ Visible(doc, doc[n].parent), doc[n].node.kind # "ignored",
           NEW text, Stands(doc, seen, text, last[n - 1], n - 1, doc[n].parent, FALSE)
    PROVE  /\ Opening(doc[n].node) \in AllTexts
           /\ Stands(doc, seen, text \o Opening(doc[n].node), last[n], n, n, FALSE)
<1> DEFINE b == doc[n].parent
           node == doc[n].node
           shown == node.text
           p == last[n - 1]
<1>1. /\ DOMAIN doc = 1 .. Len(doc) /\ n \in Nat /\ n - 1 \in Nat /\ Len(doc) \in Nat
      /\ b \in Nat /\ b < n /\ n - 1 \in 0 .. Len(doc) /\ n \in 0 .. Len(doc)
      /\ p \in Nat /\ last[n] \in Nat /\ p \in 0 .. last[n - 1] /\ last[n] \in 0 .. last[n]
  <2>1. n - 1 \in 0 .. Len(doc) /\ n \in 0 .. Len(doc)
    BY DEF Known, Ordered
  <2> QED BY <2>1 DEF Known, Ordered, Placed
<1>2. Visible(doc, n)
  BY VisibleDown DEF Known
<1>3. /\ shown \in AllTexts /\ text \in AllTexts /\ NoText \in AllTexts
      /\ <<Blank>> \in AllTexts /\ <<NewLine>> \in AllTexts
      /\ Blank \in Chars /\ NewLine \in Chars
  <2>1. Blank \in Chars /\ NewLine \in Chars
    BY DEF Chars, Spaces
  <2>2. shown \in AllTexts /\ text \in AllTexts
    BY DEF Known, Shows, Stands
  <2> QED BY <2>1, <2>2, Longer
<1>4. shown = NoText \/ node.kind = "text" \/ Described(doc, n)
  BY <1>2 DEF Known, Shows, Described
<1> DEFINE lines == node.kind \in {"br", "block"}
<1>5. ASSUME NEW i \in 1 .. n - 1
      PROVE  Lined(doc, i, n, n) <=> Lined(doc, i, n - 1, b) \/ lines
  <2>1. \A c \in DOMAIN doc : /\ c \in Nat
                              /\ i < c /\ c <= n <=> (i < c /\ c <= n - 1) \/ c = n
                              /\ Inside(doc, n, c) <=> c = n \/ Inside(doc, b, c)
    <3>1. i \in Nat /\ i < n
      BY <1>1
    <3>2. \A c \in DOMAIN doc : Inside(doc, n, c) <=> c = n \/ Inside(doc, b, c)
      BY <1>1, InsideUp DEF Known
    <3> HIDE DEF b
    <3> QED BY <1>1, <3>1, <3>2
  <2>2. ~Inside(doc, i, n)
    <3>1. ~ (n <= i)
      BY <1>1
    <3> QED BY <3>1 DEF Inside
  <2>3. n \in DOMAIN doc
    BY <1>1
  <2> HIDE DEF b
  <2> QED BY <1>2, <2>1, <2>2, <2>3 DEF Lined
<1>6. ASSUME NEW i \in 1 .. n - 1
      PROVE  Spaced(doc, i, n, TRUE) <=> Spaced(doc, i, n - 1, FALSE) \/ Described(doc, n)
  <2>1. i .. n = i .. n - 1 \cup {n} /\ i # n
    BY <1>1
  <2> QED BY <2>1 DEF Spaced
<1>7. ASSUME NEW i \in 1 .. n, ~Described(doc, n)
      PROVE  Spaced(doc, i, n, FALSE) <=> Spaced(doc, i, n, TRUE)
  <2>1. i = n => i .. n = {n}
    BY <1>1
  <2> QED BY <1>7, <2>1 DEF Spaced
<1> HIDE DEF b, p, shown
<1>8. Stands(doc, seen, text, p, n - 1, b, FALSE)
  BY DEF p, b
<1>9. p \in 0 .. last[n - 1] /\ p = last[n - 1]
  BY <1>1 DEF p
<1>10. ASSUME NEW t, Stands(doc, seen, t, p, n, n, TRUE)
       PROVE  Stands(doc, seen, t \o shown, last[n], n, n, TRUE)
  BY <1>2, <1>9, <1>10, ReadsText DEF shown
<1>11. ASSUME NEW t, Stands(doc, seen, t, last[n], n, n, TRUE), ~Described(doc, n)
       PROVE  Stands(doc, seen, t, last[n], n, n, FALSE)
  BY <1>1, <1>7, <1>11, Moves
<1>12. CASE Described(doc, n)
  <2>1. ~lines /\ Opening(node) = <<Blank>> \o shown \o <<Blank>>
    BY <1>12 DEF Described, Opening, shown
  <2>2. \A i \in 1 .. n - 1 : /\ Lined(doc, i, n, n) <=> Lined(doc, i, n - 1, b)
                              /\ Spaced(doc, i, n, TRUE)
    BY <1>5, <1>6, <1>12, <2>1
  <2>3. Stands(doc, seen, Append(text, Blank), p, n, n, TRUE)
    BY <1>1, <1>8, <1>9, <2>2, MovesOn
  <2> DEFINE t == Append(text, Blank) \o shown
             bl == <<Blank>>
  <2>4. Stands(doc, seen, t, last[n], n, n, TRUE)
    BY <1>10, <2>3
  <2>5. \A i \in 1 .. n : Spaced(doc, i, n, FALSE)
    <3>1. \A i \in 1 .. n : n \in i .. n
      BY <1>1
    <3> QED BY <1>12, <3>1 DEF Spaced
  <2> HIDE DEF t
  <2>6. Stands(doc, seen, Append(t, Blank), last[n], n, n, FALSE)
    BY <1>1, <2>4, <2>5, MovesOn
  <2>7. /\ bl \in AllTexts /\ Append(text, Blank) = text \o bl /\ text \o bl \in AllTexts
        /\ t \in AllTexts /\ Append(t, Blank) = t \o bl
    BY <1>3, <2>4, Longer, Joined3, ZenonT(30) DEF Stands
  <2> HIDE DEF bl
  <2>8. bl \o shown \in AllTexts /\ bl \o shown \o bl \in AllTexts
    BY <1>3, <2>7, Joined3
  <2>9. Associates(text, bl, shown)
    BY <1>3, <2>7, Associative
  <2> DEFINE s == bl \o shown
  <2> HIDE DEF s
  <2>10. Associates(text, s, bl)
    BY <1>3, <2>7, <2>8, Associative DEF s
  <2>11. Append(t, Blank) = text \o (bl \o shown \o bl)
    BY <2>7, <2>9, <2>10 DEF Associates, t, s
  <2> QED BY <2>1, <2>6, <2>8, <2>11 DEF bl
<1>13. CASE lines
  <2>1. ~Described(doc, n) /\ node.kind # "text" /\ Opening(node) = <<NewLine>>
    BY <1>13 DEF Described, Opening
  <2>2. \A i \in 1 .. n - 1 : Lined(doc, i, n, n)
    BY <1>5, <1>13
  <2>3. Stands(doc, seen, Append(text, NewLine), p, n, n, TRUE)
    BY <1>1, <1>8, <1>9, <2>2, MovesToLine
  <2>4. Append(text, NewLine) \o shown = text \o <<NewLine>>
    <3>1. Append(text, NewLine) = text \o <<NewLine>> /\ Append(text, NewLine) \in AllTexts
      BY <1>3, Longer
    <3>2. shown = NoText
      BY <1>4, <2>1
    <3> QED BY <3>1, <3>2, Joined3
  <2>5. Stands(doc, seen, Append(text, NewLine) \o shown, last[n], n, n, TRUE)
    BY <1>10, <2>3
  <2> QED BY <1>3, <1>11, <2>1, <2>4, <2>5
<1>14. CASE ~lines /\ ~Described(doc, n)
  <2>1. Opening(node) = shown
    <3>1. ~ (node.kind = "img" /\ node.alt)
      BY <1>2, <1>14 DEF Described
    <3> QED BY <1>4, <1>14, <3>1 DEF Opening, shown
  <2>2. \A i \in 1 .. n - 1 : /\ Lined(doc, i, n, n) <=> Lined(doc, i, n - 1, b)
                              /\ Spaced(doc, i, n, TRUE) <=> Spaced(doc, i, n - 1, FALSE)
    BY <1>5, <1>6, <1>14
  <2>3. Stands(doc, seen, text, p, n, n, TRUE)
    BY <1>1, <1>8, <1>9, <2>2, Moves
  <2>4. Stands(doc, seen, text \o shown, last[n], n, n, TRUE)
    BY <1>10, <2>3
  <2> QED BY <1>3, <1>11, <1>14, <2>1, <2>4
<1> QED BY <1>12, <1>13, <1>14

(* The end of what is inside of a node.                                    *)
Ends(doc, n, e) ==
    /\ e \in n .. Len(doc) /\ \A k \in n + 1 .. e : doc[k].parent >= n
    /\ e = Len(doc) \/ doc[e + 1].parent < n

(* The end of a node is a node.                                            *)
LEMMA EndsType ==
    ASSUME NEW doc, Ordered(doc), NEW n \in 1 .. Len(doc), NEW e, Ends(doc, n, e)
    PROVE  /\ e \in Nat /\ n <= e /\ e <= Len(doc) /\ e \in 0 .. Len(doc)
           /\ n \in Nat /\ n - 1 \in 0 .. Len(doc) /\ Len(doc) \in Nat
<1>1. Len(doc) \in Nat
  BY DEF Ordered
<1>2. e \in n .. Len(doc)
  BY DEF Ends
<1> QED BY <1>1, <1>2

(* A node is closed.                                                       *)
LEMMA Closes ==
    ASSUME NEW doc, NEW last, NEW seen, Known(doc, last, seen), NEW n \in 1 .. Len(doc),
           Visible(doc, n), NEW e, Ends(doc, n, e),
           NEW text, Stands(doc, seen, text, last[e], e, n, FALSE)
    PROVE  /\ Closing(doc[n].node) \in AllTexts
           /\ Stands(doc, seen, text \o Closing(doc[n].node), last[e], e, doc[n].parent, FALSE)
<1> DEFINE b == doc[n].parent
<1>1. /\ DOMAIN doc = 1 .. Len(doc) /\ n \in Nat /\ e \in Nat /\ n <= e /\ e \in 0 .. Len(doc)
      /\ b \in Nat /\ b < n /\ last[e] \in Nat /\ last[e] \in 0 .. last[e]
  <2>1. e \in 0 .. Len(doc) /\ e \in Nat /\ n <= e
    BY EndsType DEF Known
  <2> QED BY <2>1 DEF Known, Ordered, Placed
<1>2. text \in AllTexts /\ NoText \in AllTexts /\ NewLine \in Chars /\ <<NewLine>> \in AllTexts
  <2>1. NewLine \in Chars
    BY DEF Chars, Spaces
  <2> QED BY <2>1, Longer DEF Stands
<1>3. \A c \in DOMAIN doc : Inside(doc, n, c) <=> c = n \/ Inside(doc, b, c)
  BY <1>1, InsideUp DEF Known
<1>4. ~Inside(doc, b, n)
  <2>1. ~ (n <= b)
    BY <1>1
  <2> QED BY <2>1 DEF Inside
<1>5. CASE doc[n].node.kind = "block"
  <2>1. ASSUME NEW i \in 1 .. e PROVE Lined(doc, i, e, b)
    <3>1. CASE i < n
      BY <1>1, <1>5, <3>1 DEF Lined
    <3>2. CASE ~ (i < n)
      <4>1. \A k \in n + 1 .. i : k \in n + 1 .. e
        BY <1>1
      <4>2. n <= i
        BY <1>1, <3>2
      <4>3. Inside(doc, i, n)
        BY <4>1, <4>2 DEF Inside, Ends
      <4> HIDE DEF b
      <4> QED BY <1>1, <1>4, <1>5, <4>3 DEF Lined
    <3> QED BY <3>1, <3>2
  <2> HIDE DEF b
  <2>2. Stands(doc, seen, Append(text, NewLine), last[e], e, b, FALSE)
    BY <1>1, <2>1, MovesToLine
  <2>3. Append(text, NewLine) = text \o <<NewLine>>
    BY <1>2, Longer
  <2> QED BY <1>2, <1>5, <2>2, <2>3 DEF Closing, b
<1>6. CASE doc[n].node.kind # "block"
  <2> HIDE DEF b
  <2>1. ASSUME NEW i \in 1 .. e PROVE Lined(doc, i, e, b) <=> Lined(doc, i, e, n)
    BY <1>3, <1>6 DEF Lined
  <2>2. Stands(doc, seen, text, last[e], e, b, FALSE)
    BY <1>1, <2>1, Moves
  <2>3. text \o NoText = text
    BY <1>2, Joined3
  <2> QED BY <1>2, <1>6, <2>2, <2>3 DEF Closing, b
<1> QED BY <1>5, <1>6

(* An ignored element is skipped, with what is inside.                     *)
LEMMA Skips ==
    ASSUME NEW doc, NEW last, NEW seen, Known(doc, last, seen), NEW n \in 1 .. Len(doc),
           doc[n].node.kind = "ignored", NEW e, Ends(doc, n, e), NEW b,
           NEW text, Stands(doc, seen, text, last[n - 1], n - 1, b, FALSE)
    PROVE  Stands(doc, seen, text, last[e], e, b, FALSE)
<1>1. /\ DOMAIN doc = 1 .. Len(doc) /\ n \in Nat /\ e \in Nat /\ n <= e /\ e <= Len(doc)
      /\ n - 1 \in 0 .. Len(doc) /\ Len(doc) \in Nat
      /\ \A k \in 0 .. Len(doc) : last[k] \in Nat
  <2>1. e \in Nat /\ n <= e /\ e <= Len(doc) /\ n - 1 \in 0 .. Len(doc)
    BY EndsType DEF Known
  <2> QED BY <2>1 DEF Known, Ordered, Placed
<1>2. ASSUME NEW k \in n .. e PROVE ~Visible(doc, k) /\ k \in 1 .. Len(doc)
  <2>1. n <= k /\ n \in 1 .. k /\ k \in 1 .. Len(doc) /\ \A j \in n + 1 .. k : j \in n + 1 .. e
    BY <1>1
  <2>2. Inside(doc, k, n)
    BY <2>1 DEF Inside, Ends
  <2> QED BY <2>1, <2>2 DEF Visible
<1>9. n \in Nat /\ e \in Nat /\ n <= e
  BY <1>1
<1> DEFINE G == {k \in 0 .. e - n + 1 : last[n - 1 + k] = last[n - 1]}
<1>3. 0 \in G
  BY <1>1
<1>4. ASSUME NEW k \in 1 .. e - n + 1, k - 1 \in G PROVE k \in G
  <2> DEFINE j == n - 1 + k
  <2>1. j \in n .. e /\ j - 1 = n - 1 + (k - 1) /\ k \in 0 .. e - n + 1
    BY <1>9
  <2> HIDE DEF j
  <2>2. last[j] = last[j - 1]
    BY <1>2, <2>1 DEF Known, Placed
  <2>3. last[j - 1] = last[n - 1]
    BY <1>4, <2>1
  <2> QED BY <2>1, <2>2, <2>3 DEF j
<1>5. last[e] = last[n - 1]
  <2>1. e - n + 1 \in Nat /\ n - 1 + (e - n + 1) = e /\ e - n + 1 \in 0 .. e - n + 1
    BY <1>9
  <2>2. \A k \in 0 .. e - n + 1 : k \in G
    <3> HIDE DEF G
    <3> QED BY <1>3, <1>4, <2>1, Upwards
  <2> QED BY <2>1, <2>2
<1>6. ASSUME NEW i \in 1 .. n - 1
      PROVE  /\ Lined(doc, i, e, b) <=> Lined(doc, i, n - 1, b)
             /\ Spaced(doc, i, e, FALSE) <=> Spaced(doc, i, n - 1, FALSE)
  <2>1. \A c \in 1 .. Len(doc) : Visible(doc, c) => (c <= e <=> c <= n - 1)
    <3>1. \A c \in 1 .. Len(doc) : c \in n .. e \/ (c <= e <=> c <= n - 1)
      BY <1>1
    <3> QED BY <1>2, <3>1
  <2>2. Lined(doc, i, e, b) <=> Lined(doc, i, n - 1, b)
    BY <1>1, <2>1 DEF Lined
  <2>3. i .. e = i .. n - 1 \cup n .. e
    BY <1>1
  <2>4. Spaced(doc, i, e, FALSE) <=> Spaced(doc, i, n - 1, FALSE)
    BY <1>2, <2>3 DEF Spaced, Described
  <2> QED BY <2>2, <2>4
<1>7. last[n - 1] \in Nat /\ last[n - 1] \in 0 .. last[n - 1]
  BY <1>1
<1>8. Stands(doc, seen, text, last[n - 1], e, b, FALSE)
  BY <1>1, <1>6, <1>7, Moves
<1> QED BY <1>5, <1>8

-----------------------------------------------------------------------------
(* A node's text, from the texts of the nodes that follow it.              *)
After(doc, n) == {c \in ChildrenOf(doc, doc[n].parent) : c > n}
Within(doc, f, n) ==
    IF Entered(doc[n].node) /\ ChildrenOf(doc, n) # {} THEN f[Min(ChildrenOf(doc, n))]
    ELSE NoText
Behind(doc, f, n) == IF After(doc, n) # {} THEN f[Min(After(doc, n))] ELSE NoText
TextAt(doc, f, n) ==
    Opening(doc[n].node) \o Within(doc, f, n) \o Closing(doc[n].node) \o Behind(doc, f, n)
NodeTextsOf(doc, f) == f = [n \in DOMAIN doc |-> TextAt(doc, f, n)]

(* Children and siblings come later; the first of them is one.             *)
LEMMA Followers ==
    ASSUME NEW doc, Ordered(doc), NEW n \in 0 .. Len(doc)
    PROVE  /\ ChildrenOf(doc, n) # {} => /\ Min(ChildrenOf(doc, n)) \in n + 1 .. Len(doc)
                                         /\ Min(ChildrenOf(doc, n)) \in ChildrenOf(doc, n)
                                         /\ \A c \in ChildrenOf(doc, n) :
                                              Min(ChildrenOf(doc, n)) <= c
           /\ n # 0 /\ After(doc, n) # {} => /\ Min(After(doc, n)) \in n + 1 .. Len(doc)
                                             /\ Min(After(doc, n)) \in After(doc, n)
                                             /\ \A c \in After(doc, n) : Min(After(doc, n)) <= c
<1> DEFINE N == Len(doc)
           C == ChildrenOf(doc, n)
           A == After(doc, n)
<1>1. N \in Nat /\ n \in Nat /\ n + 1 \in Int /\ N \in Int /\ DOMAIN doc = 1 .. N
      /\ \A k \in 1 .. N : doc[k].parent < k /\ doc[k].parent \in Nat
  BY DEF Ordered
<1>2. C \in SUBSET (n + 1 .. N)
  <2> SUFFICES ASSUME NEW c \in C PROVE c \in n + 1 .. N
    OBVIOUS
  <2>1. c \in 1 .. N /\ doc[c].parent = n
    BY <1>1 DEF ChildrenOf
  <2>2. n < c
    BY <1>1, <2>1
  <2> QED BY <1>1, <2>1, <2>2
<1>3. A \in SUBSET (n + 1 .. N)
  <2> SUFFICES ASSUME NEW c \in A PROVE c \in n + 1 .. N
    OBVIOUS
  <2>1. c \in 1 .. N /\ n < c
    BY <1>1 DEF After, ChildrenOf
  <2> QED BY <1>1, <2>1
<1> HIDE DEF C, A
<1>4. ASSUME NEW S \in SUBSET (n + 1 .. N), S # {}
      PROVE  Min(S) \in S /\ \A c \in S : Min(S) <= c
  BY <1>1, <1>4, Extremes
<1>5. C # {} => Min(C) \in C /\ Min(C) \in n + 1 .. N /\ \A c \in C : Min(C) <= c
  BY <1>2, <1>4
<1>6. A # {} => Min(A) \in A /\ Min(A) \in n + 1 .. N /\ \A c \in A : Min(A) <= c
  BY <1>3, <1>4
<1> QED BY <1>5, <1>6 DEF C, A

(* What is written for a node itself is a text.                            *)
LEMMA NodeTexts ==
    ASSUME NEW doc, Shows(doc), NEW n \in 1 .. Len(doc)
    PROVE  Opening(doc[n].node) \in AllTexts /\ Closing(doc[n].node) \in AllTexts
<1> DEFINE text == doc[n].node.text
           bl == <<Blank>>
           nl == <<NewLine>>
<1>1. Blank \in Chars /\ NewLine \in Chars
  BY DEF Chars, Spaces
<1>2. text \in AllTexts /\ bl \in AllTexts /\ nl \in AllTexts /\ NoText \in AllTexts
  <2>1. text \in AllTexts
    BY DEF Shows
  <2> QED BY <1>1, <2>1, Longer
<1>3. Opening(doc[n].node) \in {text, nl, bl \o text \o bl, NoText}
  BY DEF Opening
<1>4. Closing(doc[n].node) \in {nl, NoText}
  BY DEF Closing
<1> HIDE DEF text, bl, nl
<1>5. bl \o text \in AllTexts
  BY <1>2, Joined3
<1>6. bl \o text \o bl \in AllTexts
  BY <1>2, <1>5, Joined3
<1> QED BY <1>2, <1>3, <1>4, <1>6

FiveAssociate(t, o, i, c, a) == t \o o \o i \o c \o a = t \o (o \o i \o c \o a)

(* Joining is associative for five texts.                                  *)
LEMMA FourJoined ==
    ASSUME NEW t \in AllTexts, NEW o \in AllTexts, NEW i \in AllTexts,
           NEW c \in AllTexts, NEW a \in AllTexts
    PROVE  /\ o \o i \o c \o a \in AllTexts
           /\ FiveAssociate(t, o, i, c, a)
<1>1. o \o i \in AllTexts /\ Associates(t, o, i)
  BY Joined3, Associative
<1> DEFINE oi == o \o i
<1> HIDE DEF oi
<1>2. oi \o c \in AllTexts /\ Associates(t, oi, c)
  BY <1>1, Joined3, Associative DEF oi
<1> DEFINE oic == oi \o c
<1> HIDE DEF oic
<1>3. oic \o a \in AllTexts /\ Associates(t, oic, a)
  BY <1>2, Joined3, Associative DEF oic
<1> QED BY <1>1, <1>2, <1>3 DEF Associates, FiveAssociate, oi, oic

(* The text of a node is one if those of all later nodes are.              *)
LEMMA TextAtType ==
    ASSUME NEW doc, Ordered(doc), Shows(doc), NEW n \in 1 .. Len(doc), NEW f,
           \A m \in n + 1 .. Len(doc) : f[m] \in AllTexts
    PROVE  Within(doc, f, n) \in AllTexts /\ Behind(doc, f, n) \in AllTexts
           /\ TextAt(doc, f, n) \in AllTexts
<1>1. n \in 0 .. Len(doc) /\ n # 0
  OBVIOUS
<1>2. NoText \in AllTexts
  BY Alone DEF AllTexts, NoText
<1>3. Within(doc, f, n) \in AllTexts
  BY <1>1, <1>2, Followers DEF Within
<1>4. Behind(doc, f, n) \in AllTexts
  BY <1>1, <1>2, Followers DEF Behind
<1>5. Opening(doc[n].node) \in AllTexts /\ Closing(doc[n].node) \in AllTexts
  BY NodeTexts
<1>6. TextAt(doc, f, n) \in AllTexts
  BY <1>2, <1>3, <1>4, <1>5, FourJoined DEF TextAt
<1> QED BY <1>3, <1>4, <1>6

(* It depends on the texts of later nodes only.                            *)
LEMMA TextAtSame ==
    ASSUME NEW doc, Ordered(doc), NEW n \in 1 .. Len(doc), NEW f, NEW g,
           \A m \in n + 1 .. Len(doc) : f[m] = g[m]
    PROVE  TextAt(doc, f, n) = TextAt(doc, g, n)
<1>1. n \in 0 .. Len(doc) /\ n # 0
  OBVIOUS
<1>2. Within(doc, f, n) = Within(doc, g, n)
  BY <1>1, Followers DEF Within
<1>3. Behind(doc, f, n) = Behind(doc, g, n)
  BY <1>1, Followers DEF Behind
<1> QED BY <1>2, <1>3 DEF TextAt

(* Such texts exist: they are told from the last node to the first.        *)
LEMMA TextsAre ==
    ASSUME NEW doc, Ordered(doc), Shows(doc)
    PROVE  \E f : NodeTextsOf(doc, f)
<1> DEFINE N == Len(doc)
           S == [1 .. N -> AllTexts]
           Told(f, k) == [f EXCEPT ![N + 1 - k] = TextAt(doc, f, N + 1 - k)]
           step == [x \in S \X (1 .. N) |-> Told(x[1], x[2])]
           base == [n \in 1 .. N |-> NoText]
<1>1. N \in Nat /\ DOMAIN doc = 1 .. N
  BY DEF Ordered
<1>2. base \in S
  BY Alone DEF AllTexts, NoText
<1>3. ASSUME NEW f \in S, NEW k \in 1 .. N
      PROVE  /\ Told(f, k) \in S /\ N + 1 - k \in 1 .. N
             /\ Told(f, k)[N + 1 - k] = TextAt(doc, f, N + 1 - k)
             /\ \A n \in 1 .. N : n # N + 1 - k => Told(f, k)[n] = f[n]
  <2> DEFINE n == N + 1 - k
  <2>1. n \in 1 .. N
    BY <1>1
  <2>2. \A m \in n + 1 .. N : m \in 1 .. N
    BY <2>1
  <2> HIDE DEF n
  <2>3. TextAt(doc, f, n) \in AllTexts
    BY <2>1, <2>2, TextAtType
  <2> DEFINE x == TextAt(doc, f, n)
  <2> HIDE DEF x
  <2>4. /\ [f EXCEPT ![n] = x] \in S /\ [f EXCEPT ![n] = x][n] = x
        /\ \A m \in 1 .. N : m # n => [f EXCEPT ![n] = x][m] = f[m]
    BY <2>1, <2>3 DEF x
  <2> QED BY <2>1, <2>4 DEF n, x
<1>4. step \in [S \X (1 .. N) -> S]
  <2> HIDE DEF Told, S
  <2> SUFFICES ASSUME NEW x \in S \X (1 .. N) PROVE Told(x[1], x[2]) \in S
    OBVIOUS
  <2>1. x[1] \in S /\ x[2] \in 1 .. N
    OBVIOUS
  <2> QED BY <1>3, <2>1
<1> HIDE DEF N, S, Told, step, base
<1>5. PICK f : Recurs(f, N, S, base, step)
  BY <1>1, <1>2, <1>4, Recursion
<1>6. ASSUME NEW k \in 1 .. N PROVE f[k] = Told(f[k - 1], k) /\ f[k - 1] \in S
  <2>1. k - 1 \in 0 .. N
    BY <1>1
  <2>2. <<f[k - 1], k>> \in S \X (1 .. N)
    BY <1>5, <2>1 DEF Recurs
  <2>3. step[<<f[k - 1], k>>] = Told(f[k - 1], k)
    BY <2>2 DEF step
  <2> QED BY <1>5, <2>2, <2>3 DEF Recurs
<1> DEFINE G == {k \in 0 .. N : \A n \in N + 1 - k .. N : f[k][n] = TextAt(doc, f[k], n)}
<1>7. 0 \in G
  <2>1. N + 1 - 0 .. N = {} /\ 0 \in 0 .. N
    BY <1>1
  <2> QED BY <2>1
<1>8. ASSUME NEW k \in 1 .. N, k - 1 \in G PROVE k \in G
  <2> DEFINE g == f[k - 1]
             h == f[k]
             j == N + 1 - k
  <2>1. h = Told(g, k) /\ g \in S
    BY <1>6
  <2> HIDE DEF g, h
  <2>2. /\ j \in 1 .. N /\ h[j] = TextAt(doc, g, j)
        /\ \A n \in 1 .. N : n # j => h[n] = g[n]
    BY <1>3, <2>1
  <2>3. N + 1 - (k - 1) = j + 1 /\ k \in 0 .. N
    BY <1>1
  <2>4. \A n \in j + 1 .. N : g[n] = TextAt(doc, g, n)
    BY <1>8, <2>3 DEF g
  <2> HIDE DEF j
  <2>5. ASSUME NEW n \in j .. N PROVE h[n] = TextAt(doc, h, n)
    <3>1. n \in 1 .. N /\ \A m \in n + 1 .. N : m \in 1 .. N /\ m # j
      BY <1>1, <2>2
    <3>2. \A m \in n + 1 .. N : g[m] = h[m]
      BY <2>2, <3>1
    <3>3. TextAt(doc, g, n) = TextAt(doc, h, n)
      BY <3>1, <3>2, TextAtSame DEF N
    <3>4. n = j \/ n \in j + 1 .. N
      BY <2>2
    <3> QED BY <2>2, <2>4, <3>1, <3>3, <3>4
  <2> QED BY <2>3, <2>5 DEF j, h
<1>9. N \in G
  <2> HIDE DEF G
  <2>1. \A k \in 0 .. N : k \in G
    BY <1>1, <1>7, <1>8, Upwards
  <2> QED BY <1>1, <2>1
<1>10. f[N] \in S /\ \A n \in 1 .. N : f[N][n] = TextAt(doc, f[N], n)
  <2>1. N + 1 - N = 1 /\ N \in 0 .. N
    BY <1>1
  <2> QED BY <1>5, <1>9, <2>1 DEF Recurs
<1> DEFINE g == f[N]
<1> HIDE DEF g
<1>11. g = [n \in 1 .. N |-> TextAt(doc, g, n)]
  BY <1>10 DEF g, S
<1> QED BY <1>1, <1>11 DEF NodeTextsOf

-----------------------------------------------------------------------------
(* What is inside of a node ends somewhere.                                *)
LEMMA EndsExist ==
    ASSUME NEW doc, Ordered(doc), NEW n \in 1 .. Len(doc)
    PROVE  \E e : Ends(doc, n, e)
<1> DEFINE N == Len(doc)
           S == {k \in n .. N : k = N \/ doc[k + 1].parent < n}
           e == Min(S)
<1>1. N \in Nat /\ n \in Nat /\ n \in Int /\ N \in Int /\ n <= N
      /\ \A k \in 1 .. N : doc[k].parent \in Nat
  BY DEF Ordered
<1>2. S \in SUBSET (n .. N) /\ N \in S
  BY <1>1
<1>3. e \in S /\ \A y \in S : e <= y
  <2> HIDE DEF S
  <2> QED BY <1>1, <1>2, Extremes
<1> HIDE DEF e
<1>4. e \in n .. N /\ (e = N \/ doc[e + 1].parent < n)
  BY <1>3
<1>5. ASSUME NEW k \in n + 1 .. e PROVE doc[k].parent >= n
  <2> DEFINE j == k - 1
  <2>1. j \in n .. N /\ ~ (e <= j) /\ j + 1 = k /\ k \in 1 .. N
    BY <1>1, <1>4
  <2>2. ~ (doc[k].parent < n)
    BY <1>3, <2>1
  <2>3. doc[k].parent \in Nat
    BY <1>1, <2>1
  <2> QED BY <1>1, <2>2, <2>3
<1> QED BY <1>4, <1>5 DEF Ends

(* The first child of a node is the next node.                             *)
LEMMA FirstChild ==
    ASSUME NEW doc, Ordered(doc), NEW n \in 0 .. Len(doc)
    PROVE  IF ChildrenOf(doc, n) = {} THEN Ends(doc, n, n)
           ELSE /\ n + 1 \in 1 .. Len(doc) /\ doc[n + 1].parent = n
                /\ Min(ChildrenOf(doc, n)) = n + 1
<1> DEFINE N == Len(doc)
           C == ChildrenOf(doc, n)
           m == Min(C)
<1>0. DOMAIN doc = 1 .. N
  BY DEF Ordered
<1>1. N \in Nat /\ n \in Nat /\ n <= N
  BY DEF Ordered
<1>2. CASE C = {}
  <2>0. n \in n .. N /\ n + 1 .. n = {}
    BY <1>1
  <2>1. n = N => Ends(doc, n, n)
    BY <2>0 DEF Ends
  <2>2. ASSUME n # N PROVE Ends(doc, n, n)
    <3>1. n + 1 \in 1 .. N
      BY <1>1, <2>2
    <3>2. doc[n + 1].parent \in 0 .. n + 1 - 1 /\ doc[n + 1].parent # n
      BY <1>0, <1>2, <3>1 DEF Ordered, ChildrenOf
    <3>3. doc[n + 1].parent < n
      BY <1>1, <3>2
    <3> QED BY <2>0, <3>3 DEF Ends
  <2>3. Ends(doc, n, n)
    BY <2>1, <2>2
  <2> QED BY <1>2, <2>3
<1>3. CASE C # {}
  <2>1. m \in n + 1 .. N /\ m \in C /\ \A c \in C : m <= c
    BY <1>3, Followers
  <2>2. doc[m].parent = n /\ m \in 1 .. N
    BY <1>0, <2>1 DEF ChildrenOf
  <2> HIDE DEF C, m
  <2>3. ASSUME m # n + 1 PROVE FALSE
    <3>1. n + 1 \in 1 .. m - 1 /\ n + 1 \in 1 .. N /\ n < n + 1 /\ ~ (m <= n + 1)
      BY <1>1, <2>1, <2>3
    <3>2. doc[n + 1].parent >= n /\ doc[n + 1].parent \in 0 .. n + 1 - 1
      BY <2>2, <3>1 DEF Ordered
    <3>3. doc[n + 1].parent = n
      BY <1>1, <3>2
    <3>4. n + 1 \in C
      BY <1>0, <3>1, <3>3 DEF C, ChildrenOf
    <3> QED BY <2>1, <3>1, <3>4
  <2>4. n + 1 \in 1 .. N
    BY <1>1, <2>1
  <2> QED BY <1>3, <2>2, <2>3, <2>4 DEF C, m
<1> QED BY <1>2, <1>3

(* The next child of its parent comes after all that is inside of a node;  *)
(* where there is none, what is inside of its parent ends, too.            *)
LEMMA NextChild ==
    ASSUME NEW doc, Ordered(doc), NEW n \in 1 .. Len(doc), NEW e, Ends(doc, n, e)
    PROVE  IF After(doc, n) = {} THEN Ends(doc, doc[n].parent, e)
           ELSE /\ e + 1 \in n + 1 .. Len(doc) /\ doc[e + 1].parent = doc[n].parent
                /\ Min(After(doc, n)) = e + 1
<1> DEFINE N == Len(doc)
           b == doc[n].parent
           A == After(doc, n)
           m == Min(A)
<1>0. DOMAIN doc = 1 .. N
  BY DEF Ordered
<1>1. N \in Nat /\ n \in Nat /\ e \in Nat /\ n <= e /\ e <= N /\ 1 <= n
  <2>1. 1 <= n
    OBVIOUS
  <2> QED BY <2>1, EndsType
<1>2. b \in Nat /\ b < n
  BY <1>1 DEF Ordered
<1>3. \A k \in n + 1 .. e : doc[k].parent >= n /\ k \in 1 .. N /\ doc[k].parent \in Nat
  <2>1. \A k \in n + 1 .. e : k \in 1 .. N
    BY <1>1
  <2> QED BY <2>1 DEF Ends, Ordered
<1>4. ASSUME NEW k \in b + 1 .. e PROVE doc[k].parent >= b
  <2>1. k \in n + 1 .. e \/ k = n \/ (k \in 1 .. n - 1 /\ b < k)
    BY <1>1, <1>2
  <2>2. CASE k \in n + 1 .. e
    BY <1>1, <1>2, <1>3, <2>2
  <2>3. CASE k = n
    BY <1>2, <2>3
  <2>4. CASE k \in 1 .. n - 1 /\ b < k
    BY <2>4 DEF Ordered
  <2> QED BY <2>1, <2>2, <2>3, <2>4
<1>5. \A k \in A : doc[k].parent = b /\ k \in 1 .. N /\ k > n
  BY <1>0 DEF After, ChildrenOf
<1>6. ASSUME NEW k \in A PROVE k \in e + 1 .. N
  <2>1. doc[k].parent = b /\ k \in 1 .. N /\ k > n
    BY <1>5
  <2>2. k \notin n + 1 .. e
    BY <1>2, <1>3, <2>1
  <2> QED BY <1>1, <2>1, <2>2
<1>7. CASE e = N
  <2>1. A = {}
    BY <1>1, <1>6, <1>7
  <2>2. Ends(doc, b, e)
    BY <1>1, <1>2, <1>4, <1>7 DEF Ends
  <2> QED BY <2>1, <2>2
<1>8. CASE e # N
  <2> DEFINE q == doc[e + 1].parent
  <2>1. e + 1 \in 1 .. N /\ e + 1 \in n + 1 .. N /\ n \in 1 .. e + 1 - 1 /\ e + 1 > n
    BY <1>1, <1>8
  <2>2. q < n /\ q \in Nat
    <3>0. \A k \in 1 .. N : doc[k].parent \in Nat
      BY DEF Ordered
    <3>1. q \in Nat
      BY <2>1, <3>0
    <3>2. q < n
      BY <1>8 DEF Ends
    <3> QED BY <3>1, <3>2
  <2>3. b >= q
    BY <2>1, <2>2 DEF Ordered
  <2>4. CASE q = b
    <3>1. e + 1 \in A
      BY <1>0, <2>1, <2>4 DEF After, ChildrenOf
    <3>2. m \in A /\ \A c \in A : m <= c
      <4>1. n \in 0 .. Len(doc) /\ n # 0
        BY <1>1
      <4> QED BY <3>1, <4>1, Followers
    <3> HIDE DEF A, m
    <3>3. m \in e + 1 .. N /\ m <= e + 1
      BY <1>6, <3>1, <3>2
    <3>4. m = e + 1
      BY <1>1, <3>3
    <3> QED BY <2>1, <2>4, <3>1, <3>4 DEF A, m
  <2>5. CASE q < b
    <3>1. ASSUME NEW k \in A PROVE FALSE
      <4>1. k \in e + 1 .. N /\ doc[k].parent = b /\ k \in 1 .. N
        BY <1>5, <1>6
      <4>2. k # e + 1
        BY <1>2, <2>2, <2>5, <4>1
      <4>3. e + 1 \in 1 .. k - 1 /\ b < e + 1
        BY <1>1, <1>2, <4>1, <4>2
      <4>4. doc[e + 1].parent >= b
        BY <4>1, <4>3 DEF Ordered
      <4> QED BY <1>2, <2>2, <2>5, <4>4
    <3>2. e \in b .. N
      BY <1>1, <1>2
    <3>3. Ends(doc, b, e)
      BY <1>4, <2>5, <3>2 DEF Ends
    <3>4. A = {}
      BY <3>1
    <3> QED BY <3>3, <3>4
  <2>6. q = b \/ q < b
    <3> HIDE DEF q, b
    <3> QED BY <1>2, <2>2, <2>3
  <2> QED BY <2>4, <2>5, <2>6
<1> QED BY <1>7, <1>8

-----------------------------------------------------------------------------
(* The text of a node, its siblings' included, goes on where the text      *)
(* before it stands, up to the end of what is inside of its parent.        *)
Reaches(doc, last, seen, n, text) ==
    \E e : Ends(doc, n, e) /\ Stands(doc, seen, text, last[e], e, n, FALSE)
Adds(doc, last, seen, n, part) ==
    doc[n].parent = 0 \/ Visible(doc, doc[n].parent) =>
       \A t : Stands(doc, seen, t, last[n - 1], n - 1, doc[n].parent, FALSE)
              => Reaches(doc, last, seen, doc[n].parent, t \o part)

(* That, of one text.                                                      *)
LEMMA AddsTo ==
    ASSUME NEW doc, NEW last, NEW seen, NEW n \in Int, NEW part,
           Adds(doc, last, seen, n, part),
           doc[n].parent = 0 \/ Visible(doc, doc[n].parent),
           NEW t, Stands(doc, seen, t, last[n - 1], n - 1, doc[n].parent, FALSE)
    PROVE  Reaches(doc, last, seen, doc[n].parent, t \o part)
BY DEF Adds

(* A node that is not ignored is opened, its children follow.              *)
LEMMA GoesInside ==
    ASSUME NEW doc, NEW last, NEW seen, Known(doc, last, seen), NEW n \in 1 .. Len(doc),
           NEW f,
           \A m \in n + 1 .. Len(doc) : f[m] \in AllTexts /\ Adds(doc, last, seen, m, f[m]),
           Visible(doc, n), doc[n].node.kind # "ignored",
           NEW t, Stands(doc, seen, t, last[n], n, n, FALSE)
    PROVE  Reaches(doc, last, seen, n, t \o Within(doc, f, n))
<1>1. n \in Nat /\ Len(doc) \in Nat /\ n \in 0 .. Len(doc) /\ n <= Len(doc) /\ n # 0
  BY DEF Known, Ordered
<1>2. t \in AllTexts
  BY DEF Stands
<1>3. Ordered(doc) /\ Shows(doc)
  BY DEF Known
<1>4. CASE ChildrenOf(doc, n) = {}
  <2>1. Ends(doc, n, n)
    BY <1>1, <1>3, <1>4, FirstChild
  <2>2. t \o Within(doc, f, n) = t
    BY <1>2, <1>4, Joined3 DEF Within
  <2> QED BY <2>1, <2>2 DEF Reaches
<1>5. CASE ChildrenOf(doc, n) # {}
  <2>1. n + 1 \in 1 .. Len(doc) /\ doc[n + 1].parent = n /\ Min(ChildrenOf(doc, n)) = n + 1
    BY <1>1, <1>3, <1>5, FirstChild
  <2>2. doc[n].node.kind \notin Leaves
    BY <1>1, <1>3, <2>1 DEF Shows
  <2>3. Within(doc, f, n) = f[n + 1]
    BY <1>5, <2>1, <2>2 DEF Within, Entered, Leaves
  <2>4. n + 1 \in n + 1 .. Len(doc)
    BY <1>1, <2>1
  <2>5. Adds(doc, last, seen, n + 1, f[n + 1])
    BY <2>4
  <2> DEFINE x == f[n + 1]
  <2> HIDE DEF x
  <2>6. Reaches(doc, last, seen, n, t \o x)
    <3> DEFINE m == n + 1
    <3>1. m \in Int /\ m - 1 = n
      BY <1>1
    <3>2. Adds(doc, last, seen, m, x) /\ doc[m].parent = n
      BY <2>1, <2>5 DEF x
    <3> HIDE DEF m
    <3>3. Stands(doc, seen, t, last[m - 1], m - 1, doc[m].parent, FALSE)
      BY <3>1, <3>2
    <3>4. Reaches(doc, last, seen, doc[m].parent, t \o x)
      BY <3>1, <3>2, <3>3, AddsTo
    <3> QED BY <3>2, <3>4
  <2> QED BY <2>3, <2>6 DEF x
<1> QED BY <1>4, <1>5

(* A node is left, its next sibling follows.                               *)
LEMMA GoesOn ==
    ASSUME NEW doc, NEW last, NEW seen, Known(doc, last, seen), NEW n \in 1 .. Len(doc),
           NEW f,
           \A m \in n + 1 .. Len(doc) : f[m] \in AllTexts /\ Adds(doc, last, seen, m, f[m]),
           doc[n].parent = 0 \/ Visible(doc, doc[n].parent), NEW e, Ends(doc, n, e),
           NEW t, Stands(doc, seen, t, last[e], e, doc[n].parent, FALSE)
    PROVE  Reaches(doc, last, seen, doc[n].parent, t \o Behind(doc, f, n))
<1> DEFINE b == doc[n].parent
<1>1. n \in Nat /\ Len(doc) \in Nat /\ e \in Nat
  BY EndsType DEF Known
<1>2. t \in AllTexts
  BY DEF Stands
<1>3. Ordered(doc)
  BY DEF Known
<1>4. CASE After(doc, n) = {}
  <2>1. Ends(doc, b, e)
    BY <1>3, <1>4, NextChild
  <2>2. t \o Behind(doc, f, n) = t
    BY <1>2, <1>4, Joined3 DEF Behind
  <2> QED BY <2>1, <2>2 DEF Reaches
<1>5. CASE After(doc, n) # {}
  <2>1. e + 1 \in n + 1 .. Len(doc) /\ doc[e + 1].parent = b /\ Min(After(doc, n)) = e + 1
    BY <1>3, <1>5, NextChild
  <2>2. Behind(doc, f, n) = f[e + 1]
    BY <1>5, <2>1 DEF Behind
  <2>3. Adds(doc, last, seen, e + 1, f[e + 1])
    BY <2>1
  <2> DEFINE x == f[e + 1]
  <2> HIDE DEF x, b
  <2>4. b = 0 \/ Visible(doc, b)
    BY DEF b
  <2>5. Reaches(doc, last, seen, b, t \o x)
    <3> DEFINE m == e + 1
    <3>1. m \in Int /\ m - 1 = e
      BY <1>1
    <3>2. Adds(doc, last, seen, m, x) /\ doc[m].parent = b
      BY <2>1, <2>3 DEF x
    <3>3. Stands(doc, seen, t, last[e], e, b, FALSE)
      BY DEF b
    <3> HIDE DEF m
    <3>4. Stands(doc, seen, t, last[m - 1], m - 1, doc[m].parent, FALSE)
      BY <3>1, <3>2, <3>3
    <3>5. doc[m].parent = 0 \/ Visible(doc, doc[m].parent)
      BY <2>4, <3>2
    <3>6. Reaches(doc, last, seen, doc[m].parent, t \o x)
      BY <3>1, <3>2, <3>4, <3>5, AddsTo
    <3> QED BY <3>2, <3>6
  <2> QED BY <2>2, <2>5 DEF x, b
<1> QED BY <1>4, <1>5

(* So does the text of a node if those of all that follow do.              *)
LEMMA NodeAdds ==
    ASSUME NEW doc, NEW last, NEW seen, Known(doc, last, seen), NEW n \in 1 .. Len(doc),
           NEW f,
           \A m \in n + 1 .. Len(doc) : f[m] \in AllTexts /\ Adds(doc, last, seen, m, f[m])
    PROVE  Adds(doc, last, seen, n, TextAt(doc, f, n))
<1> DEFINE b == doc[n].parent
           node == doc[n].node
           o == Opening(node)
           i == Within(doc, f, n)
           c == Closing(node)
           a == Behind(doc, f, n)
<1> SUFFICES ASSUME b = 0 \/ Visible(doc, b),
                    NEW t, Stands(doc, seen, t, last[n - 1], n - 1, b, FALSE)
             PROVE  Reaches(doc, last, seen, b, t \o TextAt(doc, f, n))
  BY DEF Adds
<1>1. Ordered(doc) /\ Shows(doc)
  BY DEF Known
<1>2. o \in AllTexts /\ i \in AllTexts /\ c \in AllTexts /\ a \in AllTexts /\ t \in AllTexts
  <2>1. o \in AllTexts /\ c \in AllTexts
    BY <1>1, NodeTexts
  <2>2. i \in AllTexts /\ a \in AllTexts
    BY <1>1, TextAtType
  <2> QED BY <2>1, <2>2 DEF Stands
<1>3. ASSUME node.kind = "ignored" PROVE o = NoText /\ i = NoText /\ c = NoText
  BY <1>3 DEF Opening, Within, Entered, Closing
<1> HIDE DEF o, i, c, a, b
<1>4. PICK e : Ends(doc, n, e) /\ Stands(doc, seen, t \o o \o i \o c, last[e], e, b, FALSE)
  <2>1. CASE node.kind = "ignored"
    <3>1. PICK e : Ends(doc, n, e)
      BY <1>1, EndsExist
    <3>2. Stands(doc, seen, t, last[e], e, b, FALSE)
      BY <2>1, <3>1, Skips
    <3>3. t \o o \o i \o c = t
      BY <1>2, <1>3, <2>1, Joined3
    <3> QED BY <3>1, <3>2, <3>3
  <2>2. CASE node.kind # "ignored"
    <3>1. Stands(doc, seen, t \o o, last[n], n, n, FALSE)
      BY <2>2, Opens DEF b, o
    <3>2. Visible(doc, n)
      BY <1>1, <2>2, VisibleDown DEF b
    <3> DEFINE to == t \o o
    <3> HIDE DEF to
    <3>3. Reaches(doc, last, seen, n, to \o i)
      BY <2>2, <3>1, <3>2, GoesInside DEF to, i
    <3>4. PICK e : Ends(doc, n, e) /\ Stands(doc, seen, to \o i, last[e], e, n, FALSE)
      BY <3>3 DEF Reaches
    <3> DEFINE toi == to \o i
    <3> HIDE DEF toi
    <3>5. Stands(doc, seen, toi \o c, last[e], e, b, FALSE)
      BY <3>2, <3>4, Closes DEF toi, c, b
    <3> QED BY <3>4, <3>5 DEF to, toi
  <2> QED BY <2>1, <2>2
<1> DEFINE toic == t \o o \o i \o c
<1> HIDE DEF toic
<1>5. Reaches(doc, last, seen, b, toic \o a)
  BY <1>4, GoesOn DEF toic, a, b
<1>6. t \o o \o i \o c \o a = t \o (o \o i \o c \o a)
  <2>1. FiveAssociate(t, o, i, c, a)
    BY <1>2, FourJoined
  <2> QED BY <2>1 DEF FiveAssociate
<1>7. TextAt(doc, f, n) = o \o i \o c \o a
  BY DEF TextAt, o, i, c, a
<1> QED BY <1>5, <1>6, <1>7 DEF toic

(* The text of a document is what is seen of it, on its lines.             *)
LEMMA ChildrenTextIs ==
    ASSUME NEW doc, NEW last, NEW seen, Known(doc, last, seen)
    PROVE  ChildrenText(doc) \in AllTexts /\ Normal(ChildrenText(doc)) = Seen(doc)
<1> DEFINE N == Len(doc)
           c == CHOOSE f : NodeTextsOf(doc, f)
<1>1. Ordered(doc) /\ Shows(doc)
  BY DEF Known
<1>2. N \in Nat /\ DOMAIN doc = 1 .. N
  BY <1>1 DEF Ordered
<1>3. ChildrenText(doc) = IF doc = <<>> THEN NoText ELSE c[Min(ChildrenOf(doc, 0))]
  BY DEF ChildrenText, NodeTextsOf, TextAt, Within, Behind, After
<1>4. NodeTextsOf(doc, c)
  <2>1. \E f : NodeTextsOf(doc, f)
    BY <1>1, TextsAre
  <2> QED BY <2>1
<1> HIDE DEF c
<1>5. \A n \in 1 .. N : c[n] = TextAt(doc, c, n)
  BY <1>2, <1>4 DEF NodeTextsOf
<1> DEFINE G == {n \in 1 .. N : c[n] \in AllTexts /\ Adds(doc, last, seen, n, c[n])}
<1>6. ASSUME NEW n \in 1 .. N, \A m \in n + 1 .. N : m \in G PROVE n \in G
  <2>1. \A m \in n + 1 .. Len(doc) : c[m] \in AllTexts /\ Adds(doc, last, seen, m, c[m])
    BY <1>6
  <2>2. TextAt(doc, c, n) \in AllTexts
    BY <1>1, <2>1, TextAtType
  <2>3. Adds(doc, last, seen, n, TextAt(doc, c, n))
    BY <2>1, NodeAdds
  <2> QED BY <1>5, <2>2, <2>3
<1>7. \A n \in 1 .. N : n \in G
  <2> HIDE DEF G
  <2> QED BY <1>2, <1>6, Downwards
<1>8. NoText \in AllTexts /\ Normal(NoText) = NoText /\ Gap(NoText) = NoText
  <2>1. NoText \in AllTexts
    BY Alone DEF AllTexts, NoText
  <2>2. Blank \in Chars
    BY DEF Chars, Spaces
  <2>3. Normal(NoText) = NoText
    BY <2>1, <2>2, LineStep
  <2> QED BY <2>1, <2>3 DEF Gap
<1>9. /\ last[0] = 0 /\ last[N] = Len(CharsOf(doc))
      /\ seen[0] = NoText /\ seen[Len(CharsOf(doc))] = Seen(doc)
  BY DEF Known, Placed, Watched
<1>10. Stands(doc, seen, NoText, last[0], 0, 0, FALSE)
  <2>1. Blacks(doc, 0) = {}
    BY DEF Blacks
  <2> QED BY <1>8, <1>9, <2>1 DEF Stands, Ahead
<1>11. CASE N = 0
  <2>1. doc = <<>>
    BY <1>2, <1>11
  <2> QED BY <1>3, <1>8, <1>9, <1>11, <2>1
<1>12. CASE N # 0
  <2>1. 1 \in 1 .. N /\ 0 \in 0 .. N
    BY <1>2, <1>12
  <2>2. ChildrenOf(doc, 0) # {}
    <3>1. doc[1].parent \in 0 .. 1 - 1
      BY <1>1, <2>1 DEF Ordered
    <3> QED BY <1>2, <2>1, <3>1 DEF ChildrenOf
  <2>3. doc[1].parent = 0 /\ Min(ChildrenOf(doc, 0)) = 1
    BY <1>1, <2>1, <2>2, FirstChild
  <2>4. c[1] \in AllTexts /\ Adds(doc, last, seen, 1, c[1])
    BY <1>7, <2>1
  <2> DEFINE x == c[1]
  <2> HIDE DEF x
  <2>5. Reaches(doc, last, seen, 0, NoText \o x)
    <3> DEFINE k == 1 - 1
    <3>0. k = 0
      OBVIOUS
    <3> HIDE DEF k
    <3>1. Stands(doc, seen, NoText, last[k], k, doc[1].parent, FALSE)
      BY <1>10, <2>3, <3>0
    <3>2. Reaches(doc, last, seen, doc[1].parent, NoText \o x)
      BY <2>3, <2>4, <3>1 DEF Adds, x, k
    <3> QED BY <2>3, <3>2
  <2>6. NoText \o x = x
    BY <2>4, Joined3 DEF x
  <2>7. PICK e : Ends(doc, 0, e) /\ Stands(doc, seen, x, last[e], e, 0, FALSE)
    BY <2>5, <2>6 DEF Reaches
  <2>8. e = N
    <3>1. e \in 0 .. N /\ (e = N \/ doc[e + 1].parent < 0)
      BY <2>7 DEF Ends
    <3>2. ASSUME e # N PROVE FALSE
      <4>1. e + 1 \in 1 .. N
        <5> HIDE DEF N, G
        <5>1. e \in 0 .. N /\ N \in Nat /\ e # N
          BY <1>2, <3>1, <3>2
        <5> QED BY <5>1
      <4>2. doc[e + 1].parent \in Nat
        BY <1>1, <4>1 DEF Ordered
      <4> QED BY <3>1, <3>2, <4>2
    <3> QED BY <3>2
  <2>9. doc # <<>>
    BY <1>12
  <2>10. ChildrenText(doc) = x
    BY <1>3, <2>3, <2>9 DEF x
  <2> QED BY <1>9, <2>4, <2>7, <2>8, <2>10 DEF Stands, x
<1> QED BY <1>11, <1>12

-----------------------------------------------------------------------------
(* The texts of the nodes of the inputs are texts.                         *)
LEMMA Widens == ASSUME NEW S, NEW T, S \subseteq T, NEW s \in Seq(S) PROVE s \in Seq(T)
<1>1. Len(s) \in Nat /\ s \in [1 .. Len(s) -> S]
  BY LenProperties
<1>2. s \in [1 .. Len(s) -> T]
  BY <1>1
<1> QED BY <1>1, <1>2

(* The preview of a document whose nodes are in order and whose            *)
(* characters are texts: its text on its lines, and cut at the limit.      *)
LEMMA PreviewIs ==
    ASSUME NEW doc, Ordered(doc), Shows(doc), NEW limit \in Nat
    PROVE  LET seen == Seen(doc)
               shown == PreviewText(doc, limit)
           IN  IF limit = 0 \/ Len(seen) <= limit THEN shown = seen
               ELSE \E n \in {limit - 1, limit - 2} :
                       shown = Append(SubSeq(seen, 1, n), Ellipsis)
<1> DEFINE text == ChildrenText(doc)
<1>1. Len(doc) \in Nat
  BY DEF Ordered
<1>2. PICK last : Placed(doc, last)
  BY <1>1, PlacedIs
<1>3. PICK seen : Watched(doc, seen)
  BY <1>1, WatchedIs
<1>4. Known(doc, last, seen)
  BY <1>1, <1>2, <1>3, PlacedIs DEF Known
<1>5. text \in AllTexts /\ Normal(text) = Seen(doc)
  BY <1>4, ChildrenTextIs
<1>6. Seen(doc) \in AllTexts /\ Clean(Seen(doc))
  <2>1. Len(CharsOf(doc)) \in 0 .. Len(CharsOf(doc))
    BY <1>1, PlacedIs, LenProperties
  <2>2. Seen(doc) \in AllTexts
    BY <1>3, <2>1 DEF Watched
  <2>3. Clean(Normal(text))
    BY <1>5, NormalClean
  <2> QED BY <1>5, <2>2, <2>3
<1>7. PreviewText(doc, limit) = Truncate(Seen(doc), limit)
  BY <1>5 DEF PreviewText, NormalizeLines, Normal
<1> QED BY <1>6, <1>7, TruncateIs

(* Every input is such a document.                                         *)
LEMMA TextRule ==
    ASSUME RulesAssumption, kind = "text", TextInput
    PROVE  PreviewIsFaithful
<1>1. PICK n \in 0 .. MaxNodes :
        \E parents \in Documents(n), nodes \in [1 .. n -> TextNodes], limit \in Limits :
        /\ \A i \in 1 .. n :
             parents[i] # 0 => nodes[parents[i]].kind \in {"block", "inline", "ignored"}
        /\ input = [doc |-> [i \in 1 .. n |-> [parent |-> parents[i], node |-> nodes[i]]],
                    limit |-> limit]
  BY DEF TextInput
<1>2. PICK parents \in Documents(n), nodes \in [1 .. n -> TextNodes], limit \in Limits :
        /\ \A i \in 1 .. n :
             parents[i] # 0 => nodes[parents[i]].kind \in {"block", "inline", "ignored"}
        /\ input = [doc |-> [i \in 1 .. n |-> [parent |-> parents[i], node |-> nodes[i]]],
                    limit |-> limit]
  BY <1>1
<1> DEFINE doc == input.doc
<1>3. n \in Nat /\ limit \in Nat
  BY DEF RulesAssumption
<1>4. /\ doc = [i \in 1 .. n |-> [parent |-> parents[i], node |-> nodes[i]]]
      /\ input.limit = limit
  BY <1>2
<1> HIDE DEF doc
<1>5. /\ DOMAIN doc = 1 .. n /\ Len(doc) = n
      /\ \A i \in 1 .. n : doc[i].parent = parents[i] /\ doc[i].node = nodes[i]
  BY <1>3, <1>4
<1>6. \A i \in 1 .. n : /\ parents[i] \in 0 .. i - 1
                        /\ \A j \in 1 .. i - 1 : parents[i] < j => parents[j] >= parents[i]
  <2>1. /\ \A i \in 1 .. n : parents[i] \in 0 .. n
        /\ \A i \in 1 .. n :
             /\ parents[i] < i
             /\ \A j \in 1 .. i - 1 : parents[i] < j => parents[j] >= parents[i]
    BY DEF Documents
  <2>2. \A i \in 1 .. n : parents[i] \in 0 .. i - 1
    BY <1>3, <2>1
  <2> QED BY <2>1, <2>2
<1>7. Ordered(doc)
  <2>1. \A i \in 1 .. n : \A j \in 1 .. i - 1 : j \in 1 .. n
    BY <1>3
  <2> QED BY <1>3, <1>5, <1>6, <2>1 DEF Ordered
<1>8. Shows(doc)
  <2> SUFFICES ASSUME NEW i \in 1 .. n
               PROVE  LET node == doc[i].node
                      IN  /\ node.text \in AllTexts
                          /\ \/ node.text = NoText \/ node.kind = "text"
                             \/ (node.kind = "img" /\ node.alt)
                          /\ doc[i].parent # 0 => doc[doc[i].parent].node.kind \notin Leaves
    BY <1>5 DEF Shows
  <2>1. doc[i].node = nodes[i] /\ doc[i].parent = parents[i] /\ nodes[i] \in TextNodes
    BY <1>5
  <2>2. nodes[i].text \in AllTexts
    <3>1. nodes[i].text \in Seq(STRING)
      BY <2>1 DEF RulesAssumption
    <3>2. STRING \subseteq Chars
      BY DEF Chars
    <3> QED BY <3>1, <3>2, Widens DEF AllTexts
  <2>3. \/ nodes[i].text = NoText \/ nodes[i].kind = "text"
        \/ (nodes[i].kind = "img" /\ nodes[i].alt)
    BY <2>1 DEF RulesAssumption
  <2>4. ASSUME parents[i] # 0 PROVE doc[parents[i]].node.kind \notin Leaves
    <3>1. parents[i] \in 1 .. n
      BY <1>3, <1>6, <2>4, SMTT(30)
    <3>2. nodes[parents[i]].kind \in {"block", "inline", "ignored"}
      BY <1>2, <2>4
    <3>3. doc[parents[i]].node = nodes[parents[i]]
      BY <1>5, <3>1
    <3> QED BY <3>2, <3>3 DEF Leaves
  <2> QED BY <2>1, <2>2, <2>3, <2>4
<1> QED BY <1>3, <1>4, <1>7, <1>8, PreviewIs DEF PreviewIsFaithful, doc

-----------------------------------------------------------------------------
(* A refresh asks the server for what it then looks for among the rows,    *)
(* for every selection the wire can carry.                                 *)
THEOREM SelectionsAgreeHolds == RulesSpec => []SelectionsAgree
<1> USE RulesAssumption
<1>1. RulesInit => SelectionsAgree
  <2>1. kind = "selection" /\ SelectionInput => SelectionsAgree
    BY SelectionRule
  <2>2. kind # "selection" => SelectionsAgree
    BY DEF SelectionsAgree
  <2> QED BY <2>1, <2>2 DEF RulesInit
<1>2. SelectionsAgree /\ [Next]_<<kind, input>> => SelectionsAgree'
  BY DEF Next, SelectionsAgree
<1> QED BY <1>1, <1>2, PTL DEF RulesSpec

(* A mark of a row that is shown leaves the list as long as it is, with    *)
(* the same times from top to bottom; a row leaves it for one of its own   *)
(* time only; nothing moves if SQLite finds rows of one time as before;    *)
(* and the limit cuts off the end (snapshot_entries).                      *)
THEOREM ListStandsStillHolds == RulesSpec => []ListStandsStill
<1> USE RulesAssumption
<1>1. RulesInit => ListStandsStill
  <2>1. kind = "snapshot" /\ SnapshotInput => ListStandsStill
    BY SnapshotRule
  <2>2. kind # "snapshot" => ListStandsStill
    BY DEF ListStandsStill
  <2> QED BY <2>1, <2>2 DEF RulesInit
<1>2. ListStandsStill /\ [Next]_<<kind, input>> => ListStandsStill'
  BY DEF Next, ListStandsStill
<1> QED BY <1>1, <1>2, PTL DEF RulesSpec

(* What ListStandsStill leaves open does happen, at the limit: of one row  *)
(* more than fit, all of one time and in the selection, any one can be     *)
(* shown and then be missing in the answer to its mark, although it is     *)
(* retained by then, when the plan with retained rows (store.rs:934-945)   *)
(* finds the rows in another order than the one without.  This is contrary *)
(* to SYNC_AND_DATA.md:87-89.                                              *)
THEOREM MarkedRowMayLeave ==
    ASSUME NEW limit \in Nat \ {0}, NEW Table, NEW rows \in [1 .. limit + 1 -> Table],
           NEW selection, NEW newestFirst \in BOOLEAN, NEW time \in Int,
           \A j \in DOMAIN rows :
              rows[j].published = time /\ SelectionClause(selection, rows[j]),
           NEW i \in DOMAIN rows
    PROVE  \E found, other \in Plans(rows) :
              /\ i \in Range(SnapshotEntries(rows, selection, newestFirst, {}, limit, found))
              /\ i \notin Range(SnapshotEntries([rows EXCEPT ![i].status = "read"],
                                                selection, newestFirst, {i}, limit, other))
<1> DEFINE n == limit + 1
           D == 1 .. n
           Precedes(found) == {pair \in D \X D : found[pair[1]] < found[pair[2]]}
           FirstRows(found) == FirstOf(Ranked(D, Precedes(found)), limit)
           first == [j \in D |-> IF j = i THEN 1 ELSE IF j < i THEN j + 1 ELSE j]
           last == [j \in D |-> IF j = i THEN n ELSE IF j > i THEN j - 1 ELSE j]
           marked == [rows EXCEPT ![i].status = "read"]
<1>1. /\ limit \in Nat /\ limit > 0 /\ n \in Nat /\ limit < n
      /\ DOMAIN rows = D /\ Len(rows) = n /\ i \in D
  OBVIOUS
<1>2. IsFiniteSet(D) /\ Cardinality(D) = n
  BY <1>1, PlacesUpTo
<1>3. /\ first \in Plans(rows) /\ last \in Plans(rows)
      /\ \A j \in D : first[j] \in D /\ last[j] \in D
      /\ first[i] = 1 /\ last[i] = n
  <2>1. \A j \in D : first[j] \in D /\ last[j] \in D
    BY <1>1
  <2>2. \A j, k \in D : first[j] = first[k] => j = k
    BY <1>1
  <2>3. \A j, k \in D : last[j] = last[k] => j = k
    BY <1>1
  <2>4. first \in [D -> D] /\ last \in [D -> D] /\ first[i] = 1 /\ last[i] = n
    BY <1>1, <2>1
  <2> HIDE DEF first, last
  <2> QED BY <1>1, <2>1, <2>2, <2>3, <2>4 DEF Plans, Injection, IsInjective
<1> HIDE DEF first, last
<1>4. ASSUME NEW table, DOMAIN table = D, NEW found, \A j \in D : table[j].published = time
      PROVE  FirstOf(InOrder(table, D, newestFirst, found), limit) = FirstRows(found)
  <2> HIDE DEF D
  <2>1. {pair \in D \X D :
           \/ Published(table, newestFirst, pair[1], pair[2])
           \/ /\ table[pair[1]].published = table[pair[2]].published
              /\ found[pair[1]] < found[pair[2]]} = Precedes(found)
    BY <1>4 DEF Published
  <2> QED BY <2>1 DEF InOrder
<1>5. ASSUME NEW found
      PROVE  SnapshotEntries(rows, selection, newestFirst, {}, limit, found) = FirstRows(found)
  <2>1. Clause(rows, selection) \cup ({} \cap DOMAIN rows) = D
    BY <1>1 DEF Clause
  <2>2. FirstOf(InOrder(rows, D, newestFirst, found), limit) = FirstRows(found)
    BY <1>1, <1>4
  <2> HIDE DEF D, FirstRows
  <2> QED BY <2>1, <2>2 DEF SnapshotEntries
<1>6. ASSUME NEW found
      PROVE  SnapshotEntries(marked, selection, newestFirst, {i}, limit, found) = FirstRows(found)
  <2>1. /\ DOMAIN marked = D
        /\ \A j \in D : marked[j].published = time
        /\ \A j \in D \ {i} : marked[j] = rows[j]
    BY <1>1
  <2> HIDE DEF marked
  <2>2. Clause(marked, selection) \cup ({i} \cap DOMAIN marked) = D
    BY <1>1, <2>1 DEF Clause
  <2>3. FirstOf(InOrder(marked, D, newestFirst, found), limit) = FirstRows(found)
    BY <1>4, <2>1
  <2> HIDE DEF D, FirstRows
  <2> QED BY <2>2, <2>3 DEF SnapshotEntries
<1>7. ASSUME NEW found \in Plans(rows)
      PROVE  /\ Len(FirstRows(found)) = limit /\ DOMAIN FirstRows(found) = 1 .. limit
             /\ Range(FirstRows(found)) \subseteq D
             /\ \A k \in D \ Range(FirstRows(found)) : \A j \in Range(FirstRows(found)) :
                   found[j] < found[k]
  <2> DEFINE before == Precedes(found)
  <2>1. /\ \A j \in D : found[j] \in Int
        /\ \A j, k \in D : found[j] = found[k] => j = k
    <3>1. found \in Injection(D, D)
      BY <1>1 DEF Plans
    <3> QED BY <3>1 DEF Injection, IsInjective
  <2>2. \A j, k \in D : <<j, k>> \in before <=> found[j] < found[k]
    OBVIOUS
  <2> HIDE DEF D, before
  <2>3. Orders(before, D)
    BY <2>1, <2>2 DEF Orders
  <2>4. FirstCount(D, limit) = limit
    BY <1>1, <1>2 DEF FirstCount
  <2> DEFINE list == FirstOf(Ranked(D, before), limit)
  <2>5. /\ Len(list) = limit /\ DOMAIN list = 1 .. limit /\ Range(list) \subseteq D
        /\ \A k \in D \ Range(list) : \A j \in Range(list) : <<j, k>> \in before
    <3> HIDE DEF list
    <3>1. list = FirstOf(Ranked(D, before), limit)
      BY DEF list
    <3> QED BY <1>1, <1>2, <2>3, <2>4, <3>1, FirstIs
  <2>6. FirstRows(found) = list
    BY DEF before
  <2> HIDE DEF list, FirstRows
  <2> QED BY <2>2, <2>5, <2>6
<1> HIDE DEF FirstRows
<1>8. i \in Range(FirstRows(first))
  <2> SUFFICES ASSUME i \notin Range(FirstRows(first)) PROVE FALSE
    OBVIOUS
  <2> DEFINE j == FirstRows(first)[1]
  <2>1. j \in Range(FirstRows(first)) /\ j \in D
    BY <1>1, <1>3, <1>7 DEF Range
  <2> HIDE DEF j
  <2>2. first[j] < first[i]
    BY <1>1, <1>3, <1>7, <2>1
  <2> QED BY <1>1, <1>3, <2>1, <2>2
<1>9. i \notin Range(FirstRows(last))
  <2> SUFFICES ASSUME i \in Range(FirstRows(last)) PROVE FALSE
    OBVIOUS
  <2>1. ASSUME NEW k \in D PROVE \E p \in 1 .. limit : FirstRows(last)[p] = k
    <3>1. k \in Range(FirstRows(last))
      <4> SUFFICES ASSUME k \notin Range(FirstRows(last)) PROVE FALSE
        OBVIOUS
      <4>1. last[i] < last[k] /\ last[k] \in D
        BY <1>3, <1>7
      <4> QED BY <1>1, <1>3, <4>1
    <3> QED BY <1>3, <1>7, <3>1 DEF Range
  <2> DEFINE places == 1 .. limit
             place == [k \in D |-> CHOOSE p \in places : FirstRows(last)[p] = k]
  <2>2. \A k \in D : place[k] \in places /\ FirstRows(last)[place[k]] = k
    BY <2>1
  <2>3. place \in [1 .. n -> places]
    BY <2>2
  <2>4. IsFiniteSet(places) /\ Cardinality(places) < n
    BY <1>1, PlacesUpTo
  <2> HIDE DEF place, places
  <2>5. PICK x \in 1 .. n, y \in 1 .. n : x # y /\ place[x] = place[y]
    <3> HIDE DEF n
    <3> QED BY <1>1, <2>3, <2>4, TooFewPlaces
  <2> QED BY <2>2, <2>5
<1> QED BY <1>3, <1>5, <1>6, <1>8, <1>9

(* The navigation shows and counts every feed of a known category once,    *)
(* sorted by title, for any number of feeds and categories.                *)
THEOREM NavigationCountsHolds == RulesSpec => []NavigationCounts
<1> USE RulesAssumption
<1>1. RulesInit => NavigationCounts
  <2>1. kind = "navigation" /\ NavigationInput => NavigationCounts
    BY NavigationRule
  <2>2. kind # "navigation" => NavigationCounts
    BY DEF NavigationCounts
  <2> QED BY <2>1, <2>2 DEF RulesInit
<1>2. NavigationCounts /\ [Next]_<<kind, input>> => NavigationCounts'
  BY DEF Next, NavigationCounts
<1> QED BY <1>1, <1>2, PTL DEF RulesSpec

(* A template of any length whose braces are closed says the count         *)
(* wherever it is asked for, and everything else as it is written.         *)
THEOREM TemplateFilledHolds == RulesSpec => []TemplateFilled
<1> USE RulesAssumption
<1>1. RulesInit => TemplateFilled
  <2>1. kind = "template" /\ TemplateInput => TemplateFilled
    BY TemplateRule
  <2>2. kind # "template" => TemplateFilled
    BY DEF TemplateFilled
  <2> QED BY <2>1, <2>2 DEF RulesInit
<1>2. TemplateFilled /\ [Next]_<<kind, input>> => TemplateFilled'
  BY DEF Next, TemplateFilled
<1> QED BY <1>1, <1>2, PTL DEF RulesSpec

(* The walk through a text of any number of elements finds its first       *)
(* usable image, and an enclosure is taken only without one.               *)
THEOREM FirstImageTakenHolds == RulesSpec => []FirstImageTaken
<1> USE RulesAssumption
<1>1. RulesInit => FirstImageTaken
  <2>1. kind = "image" /\ ImageInput => FirstImageTaken
    BY TextImageRule
  <2>2. kind # "image" => FirstImageTaken
    BY DEF FirstImageTaken
  <2> QED BY <2>1, <2>2 DEF RulesInit
<1>2. FirstImageTaken /\ [Next]_<<kind, input>> => FirstImageTaken'
  BY DEF Next, FirstImageTaken
<1> QED BY <1>1, <1>2, PTL DEF RulesSpec

(* The preview of every text is what a reader sees.                        *)
THEOREM PreviewIsFaithfulHolds == RulesSpec => []PreviewIsFaithful
<1> USE RulesAssumption
<1>1. RulesInit => PreviewIsFaithful
  <2>1. kind = "text" /\ TextInput => PreviewIsFaithful
    BY TextRule
  <2>2. kind # "text" => PreviewIsFaithful
    BY DEF PreviewIsFaithful
  <2> QED BY <2>1, <2>2 DEF RulesInit
<1>2. PreviewIsFaithful /\ [Next]_<<kind, input>> => PreviewIsFaithful'
  BY DEF Next, PreviewIsFaithful
<1> QED BY <1>1, <1>2, PTL DEF RulesSpec

(* Every image becomes an icon that holds all of it, and every surface of  *)
(* an icon is symmetric and leaves its border free.                        *)
THEOREM IconFitsHolds == RulesSpec => []IconFits
<1> USE RulesAssumption
<1>1. RulesInit => IconFits
  <2>1. kind = "icon" /\ IconInput => IconFits
    BY ImageRule DEF IconFits, SurfaceIsSymmetric
  <2>2. kind = "surface" /\ SurfaceInput => IconFits
    BY SurfaceRule DEF IconFits, ImageFits
  <2>3. kind \notin {"icon", "surface"} => IconFits
    BY DEF IconFits, ImageFits, SurfaceIsSymmetric
  <2> QED BY <2>1, <2>2, <2>3 DEF RulesInit
<1>2. IconFits /\ [Next]_<<kind, input>> => IconFits'
  BY DEF Next, IconFits, ImageFits, SurfaceIsSymmetric
<1> QED BY <1>1, <1>2, PTL DEF RulesSpec
=============================================================================
