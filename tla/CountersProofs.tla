---------------------------- MODULE CountersProofs ----------------------------
(***************************************************************************)
(* Proofs about Counters: in every state the numbers of the browser that   *)
(* are trusted are exact.  The argument: a stored number counts what the   *)
(* store has last seen on the server, which differs from what the account  *)
(* will have only by the wishes that are pending; a confirmation moves     *)
(* both by the same amount, and a refresh fetches its numbers and its      *)
(* articles from one state of the server, unless somebody interferes.      *)
(***************************************************************************)
EXTENDS Counters, SyncServiceProofs, FiniteSetTheorems

(* What one set counts more than another is what it has of its own.        *)
LEMMA Exchange ==
    ASSUME NEW A, NEW B, IsFiniteSet(A), IsFiniteSet(B)
    PROVE  /\ Cardinality(A) \in Nat /\ Cardinality(B) \in Nat
           /\ Cardinality(A \ B) \in Nat /\ Cardinality(B \ A) \in Nat
           /\ Cardinality(B) = Cardinality(A) - Cardinality(A \ B) + Cardinality(B \ A)
<1>1. /\ IsFiniteSet(A \ B) /\ Cardinality(A \ B) = Cardinality(A) - Cardinality(A \cap B)
      /\ IsFiniteSet(B \ A) /\ Cardinality(B \ A) = Cardinality(B) - Cardinality(B \cap A)
  BY FS_Difference
<1>2. A \cap B = B \cap A /\ IsFiniteSet(A \cap B)
  BY FS_Intersection
<1>3. /\ Cardinality(A) \in Nat /\ Cardinality(B) \in Nat /\ Cardinality(A \cap B) \in Nat
      /\ Cardinality(A \ B) \in Nat /\ Cardinality(B \ A) \in Nat
  BY <1>1, <1>2, FS_CardinalityType
<1>4. Cardinality(B \cap A) = Cardinality(A \cap B)
  BY <1>2
<1> QED BY <1>1, <1>3, <1>4

(* One field of each of some articles: as many cells as articles.          *)
LEMMA CellsCount ==
    ASSUME NEW S, IsFiniteSet(S), NEW field
    PROVE  Cardinality(S \X {field}) = Cardinality(S)
<1>1. IsFiniteSet({field}) /\ Cardinality({field}) = 1
  BY FS_Singleton
<1>2. Cardinality(S \X {field}) = Cardinality(S) * Cardinality({field})
  BY <1>1, FS_Product
<1>3. Cardinality(S) \in Nat
  BY FS_CardinalityType
<1> QED BY <1>1, <1>2, <1>3

(* The clamp of a number, and the greater of two.                          *)
LEMMA Greater ==
    ASSUME NEW m \in Int, NEW n \in Int
    PROVE  Max({m, n}) = IF m > n THEN m ELSE n
<1> DEFINE g == IF m > n THEN m ELSE n
<1>1. g \in {m, n} /\ \A y \in {m, n} : g >= y
  OBVIOUS
<1>2. \A x \in {m, n} : (\A y \in {m, n} : x >= y) => x = g
  OBVIOUS
<1> QED BY <1>1, <1>2 DEF Max

(* AtLeast0 leaves the numbers it is meant for alone.                      *)
LEMMA Clamp ==
    ASSUME NEW n \in Int
    PROVE  AtLeast0(n) \in Nat /\ (n \in Nat => AtLeast0(n) = n)
<1>1. AtLeast0(n) = IF 0 > n THEN 0 ELSE n
  BY Greater DEF AtLeast0
<1> QED BY <1>1

-----------------------------------------------------------------------------
(* How many articles have a value in a field of a table.                   *)
Having(S, field, v, table) == {e \in S : table[<<e, field>>] = v}

(* They are finitely many.                                                *)
LEMMA HavingFinite ==
    ASSUME IsFiniteSet(Entry), NEW S \in SUBSET Entry, NEW field, NEW v, NEW T
    PROVE  /\ IsFiniteSet(Having(S, field, v, T))
           /\ Cardinality(Having(S, field, v, T)) \in Nat
<1>1. Having(S, field, v, T) \in SUBSET Entry
  BY DEF Having
<1>2. IsFiniteSet(Having(S, field, v, T))
  BY <1>1, FS_Subset
<1> QED BY <1>2, FS_CardinalityType

(* The numbers of the browser in these terms.                              *)
LEMMA NumbersAre ==
    ASSUME FromUserInterface, NEW T
    PROVE  /\ \A f \in Feed : UnreadIn(f, T) = Cardinality(Having(Articles(f), "read", 0, T))
           /\ StarredIn(T) = Cardinality(Having(Entry, "starred", 1, T))
           /\ \A sel \in Selections :
                /\ sel.unreadOnly =>
                     /\ ~sel.starred /\ CountedCells(sel) = ReadCells(sel.scope)
                     /\ CountIn(sel, T) = Cardinality(Having(sel.scope, "read", 0, T))
                /\ sel.starred =>
                     /\ ~sel.unreadOnly /\ CountedCells(sel) = StarCells(Entry)
                     /\ CountIn(sel, T) = Cardinality(Having(Entry, "starred", 1, T))
                /\ ~sel.starred /\ ~sel.unreadOnly =>
                     CountedCells(sel) = {} /\ CountIn(sel, T) = Cardinality(sel.scope)
<1>1. \A f \in Feed : UnreadIn(f, T) = Cardinality(Having(Articles(f), "read", 0, T))
  BY DEF UnreadIn, Having
<1>2. StarredIn(T) = Cardinality(Having(Entry, "starred", 1, T))
  BY DEF StarredIn, Having
<1>3. ASSUME NEW sel \in Selections, sel.unreadOnly
      PROVE  /\ ~sel.starred /\ CountedCells(sel) = ReadCells(sel.scope)
             /\ CountIn(sel, T) = Cardinality(Having(sel.scope, "read", 0, T))
  <2>1. ~sel.starred /\ sel.scope \in SUBSET Entry
    BY <1>3, ServiceAssumption DEF FromUserInterface, SelectionType
  <2>2. {e \in Entry : Matches(sel, T, e)} = Having(sel.scope, "read", 0, T)
    BY <1>3, <2>1 DEF Matches, Having
  <2> QED BY <1>3, <2>1, <2>2 DEF CountedCells, CountIn
<1>4. ASSUME NEW sel \in Selections, sel.starred
      PROVE  /\ ~sel.unreadOnly /\ CountedCells(sel) = StarCells(Entry)
             /\ CountIn(sel, T) = Cardinality(Having(Entry, "starred", 1, T))
  <2>1. ~sel.unreadOnly /\ sel.scope = Entry
    BY <1>4, CountersAssumption DEF FromUserInterface
  <2>2. {e \in Entry : Matches(sel, T, e)} = Having(Entry, "starred", 1, T)
    BY <1>4, <2>1 DEF Matches, Having
  <2> QED BY <1>4, <2>1, <2>2 DEF CountedCells, CountIn
<1>5. ASSUME NEW sel \in Selections, ~sel.starred, ~sel.unreadOnly
      PROVE  CountedCells(sel) = {} /\ CountIn(sel, T) = Cardinality(sel.scope)
  <2>1. sel.scope \in SUBSET Entry
    BY ServiceAssumption DEF SelectionType
  <2>2. {e \in Entry : Matches(sel, T, e)} = sel.scope
    BY <1>5, <2>1 DEF Matches
  <2> QED BY <1>5, <2>2 DEF CountedCells, CountIn
<1> QED BY <1>1, <1>2, <1>3, <1>4, <1>5

(* The tables are tables, and trusted cells are cells.                     *)
LEMMA TablesTyped ==
    ASSUME IInv
    PROVE  Seen \in [Cell -> Val] /\ Wanted \in [Cell -> Val] /\ server \in [Cell -> Val]
  BY DEF IInv, TypeOK, StoreTypeOK, ServerTypeOK, Seen, Wanted, Row

(* The pending wishes that raise a column, and those that lower it, are    *)
(* the differences between what was seen and what will be.                 *)
LEMMA DeltaIs ==
    ASSUME IInv, IsFiniteSet(Entry), NEW S \in SUBSET Entry, NEW field \in {"read", "starred"},
           \A e \in S : e \in known /\ ~HasPending(<<e, field>>)
                           => baseline[<<e, field>>] = server[<<e, field>>]
    PROVE  Delta(S \X {field}) =
             Cardinality(Having(S, field, 1, Wanted) \ Having(S, field, 1, Seen))
               - Cardinality(Having(S, field, 0, Wanted) \ Having(S, field, 0, Seen))
<1> DEFINE raised == Having(S, field, 1, Wanted) \ Having(S, field, 1, Seen)
           lowered == Having(S, field, 0, Wanted) \ Having(S, field, 0, Seen)
<1>1. ASSUME NEW e \in S
      PROVE  LET c == <<e, field>>
             IN  /\ c \in Cell
                 /\ e \in raised <=> e \in known /\ HasPending(c) /\ local[c] > baseline[c]
                 /\ e \in lowered <=> e \in known /\ HasPending(c) /\ local[c] < baseline[c]
  <2> DEFINE c == <<e, field>>
  <2>1. c \in Cell /\ c[1] = e /\ c[2] = field
    BY DEF Cell
  <2>2. /\ local[c] \in {0, 1} /\ baseline[c] \in {0, 1} /\ server[c] \in {0, 1}
        /\ pending[c].desired \in {0, 1}
    BY <2>1 DEF IInv, TypeOK, StoreTypeOK, ServerTypeOK, Val, Row
  <2>3. /\ Seen[c] = IF e \in known THEN baseline[c] ELSE server[c]
        /\ Wanted[c] = IF HasPending(c) THEN pending[c].desired ELSE server[c]
    BY <2>1 DEF Seen, Wanted
  <2>4. /\ e \in known => local[c] = IF HasPending(c) THEN pending[c].desired ELSE baseline[c]
        /\ HasPending(c) => e \in known
    BY <2>1 DEF IInv, Agreement, WishesKnown
  <2>5. e \in raised <=> Wanted[c] = 1 /\ Seen[c] # 1
    BY DEF Having
  <2>6. e \in lowered <=> Wanted[c] = 0 /\ Seen[c] # 0
    BY DEF Having
  <2>7. e \in known /\ ~HasPending(c) => baseline[c] = server[c]
    OBVIOUS
  <2> HIDE DEF c, raised, lowered
  <2>8. /\ e \in raised <=> e \in known /\ HasPending(c) /\ local[c] > baseline[c]
        /\ e \in lowered <=> e \in known /\ HasPending(c) /\ local[c] < baseline[c]
    BY <2>2, <2>3, <2>4, <2>5, <2>6, <2>7
  <2> QED BY <2>1, <2>8 DEF c
<1>2. {c \in Wished(S \X {field}) : local[c] > baseline[c]} = raised \X {field}
  <2>1. raised \subseteq S
    BY DEF Having
  <2> HIDE DEF raised
  <2> QED BY <1>1, <2>1 DEF Wished
<1>3. {c \in Wished(S \X {field}) : local[c] < baseline[c]} = lowered \X {field}
  <2>1. lowered \subseteq S
    BY DEF Having
  <2> HIDE DEF lowered
  <2> QED BY <1>1, <2>1 DEF Wished
<1>4. IsFiniteSet(raised) /\ IsFiniteSet(lowered)
  <2>1. raised \in SUBSET Entry /\ lowered \in SUBSET Entry
    BY DEF Having
  <2> QED BY <2>1, FS_Subset
<1>5. /\ Cardinality(raised \X {field}) = Cardinality(raised)
      /\ Cardinality(lowered \X {field}) = Cardinality(lowered)
  BY <1>4, CellsCount
<1> HIDE DEF raised, lowered
<1>6. Delta(S \X {field}) = Cardinality(raised) - Cardinality(lowered)
  BY <1>2, <1>3, <1>5 DEF Delta
<1> QED BY <1>6 DEF raised, lowered

(* What leaves one value takes the other.                                  *)
LEMMA OtherValue ==
    ASSUME NEW S \in SUBSET Entry, NEW field \in {"read", "starred"},
           NEW T \in [Cell -> Val], NEW U \in [Cell -> Val], NEW v \in Val
    PROVE  Having(S, field, v, T) \ Having(S, field, v, U)
             = Having(S, field, 1 - v, U) \ Having(S, field, 1 - v, T)
<1>1. ASSUME NEW e \in S
      PROVE  T[<<e, field>>] \in {0, 1} /\ U[<<e, field>>] \in {0, 1}
  <2>1. <<e, field>> \in Cell
    BY DEF Cell
  <2> QED BY <2>1 DEF Val
<1>2. ASSUME NEW e \in S
      PROVE  T[<<e, field>>] = v /\ U[<<e, field>>] # v
               <=> U[<<e, field>>] = 1 - v /\ T[<<e, field>>] # 1 - v
  BY <1>1 DEF Val
<1> QED BY <1>2 DEF Having

(* The wishes that are pending make up the difference between a number as  *)
(* it was seen and as it will be.                                          *)
LEMMA DeltaMakesUp ==
    ASSUME IInv, IsFiniteSet(Entry), NEW S \in SUBSET Entry, NEW field \in {"read", "starred"},
           \A e \in S : e \in known /\ ~HasPending(<<e, field>>)
                           => baseline[<<e, field>>] = server[<<e, field>>]
    PROVE  /\ Delta(S \X {field}) \in Int
           /\ Cardinality(Having(S, field, 1, Seen)) \in Nat
           /\ Cardinality(Having(S, field, 0, Seen)) \in Nat
           /\ Cardinality(Having(S, field, 1, Wanted)) \in Nat
           /\ Cardinality(Having(S, field, 0, Wanted)) \in Nat
           /\ Cardinality(Having(S, field, 1, Wanted))
                = Cardinality(Having(S, field, 1, Seen)) + Delta(S \X {field})
           /\ Cardinality(Having(S, field, 0, Wanted))
                = Cardinality(Having(S, field, 0, Seen)) - Delta(S \X {field})
<1> DEFINE raised == Having(S, field, 1, Wanted) \ Having(S, field, 1, Seen)
           lowered == Having(S, field, 0, Wanted) \ Having(S, field, 0, Seen)
<1>1. Seen \in [Cell -> Val] /\ Wanted \in [Cell -> Val]
  BY TablesTyped
<1>2. Delta(S \X {field}) = Cardinality(raised) - Cardinality(lowered)
  BY DeltaIs
<1>3. /\ Having(S, field, 0, Seen) \ Having(S, field, 0, Wanted) = raised
      /\ Having(S, field, 1, Seen) \ Having(S, field, 1, Wanted) = lowered
  <2>1. 0 \in Val /\ 1 \in Val /\ 1 - 0 = 1 /\ 1 - 1 = 0
    BY DEF Val
  <2>2. Having(S, field, 0, Seen) \ Having(S, field, 0, Wanted)
          = Having(S, field, 1 - 0, Wanted) \ Having(S, field, 1 - 0, Seen)
    BY <1>1, <2>1, OtherValue
  <2>3. Having(S, field, 1, Seen) \ Having(S, field, 1, Wanted)
          = Having(S, field, 1 - 1, Wanted) \ Having(S, field, 1 - 1, Seen)
    BY <1>1, <2>1, OtherValue
  <2> QED BY <2>1, <2>2, <2>3
<1>4. /\ Cardinality(Having(S, field, 0, Seen)) \in Nat
      /\ Cardinality(Having(S, field, 0, Wanted)) \in Nat
      /\ Cardinality(raised) \in Nat /\ Cardinality(lowered) \in Nat
      /\ Cardinality(Having(S, field, 0, Wanted)) =
           Cardinality(Having(S, field, 0, Seen)) - Cardinality(raised) + Cardinality(lowered)
  <2> DEFINE A == Having(S, field, 0, Seen)
             B == Having(S, field, 0, Wanted)
  <2>1. IsFiniteSet(A) /\ IsFiniteSet(B)
    BY HavingFinite
  <2>2. A \ B = raised /\ B \ A = lowered
    BY <1>3
  <2> HIDE DEF A, B, raised, lowered
  <2>3. /\ Cardinality(A) \in Nat /\ Cardinality(B) \in Nat
        /\ Cardinality(A \ B) \in Nat /\ Cardinality(B \ A) \in Nat
        /\ Cardinality(B) = Cardinality(A) - Cardinality(A \ B) + Cardinality(B \ A)
    BY <2>1, Exchange
  <2>4. /\ Cardinality(A) \in Nat /\ Cardinality(B) \in Nat
        /\ Cardinality(raised) \in Nat /\ Cardinality(lowered) \in Nat
        /\ Cardinality(B) = Cardinality(A) - Cardinality(raised) + Cardinality(lowered)
    BY <2>2, <2>3
  <2> QED BY <2>4 DEF A, B
<1>5. /\ Cardinality(Having(S, field, 1, Seen)) \in Nat
      /\ Cardinality(Having(S, field, 1, Wanted)) \in Nat
      /\ Cardinality(raised) \in Nat /\ Cardinality(lowered) \in Nat
      /\ Cardinality(Having(S, field, 1, Wanted)) =
           Cardinality(Having(S, field, 1, Seen)) - Cardinality(lowered) + Cardinality(raised)
  <2> DEFINE A == Having(S, field, 1, Seen)
             B == Having(S, field, 1, Wanted)
  <2>1. IsFiniteSet(A) /\ IsFiniteSet(B)
    BY HavingFinite
  <2>2. A \ B = lowered /\ B \ A = raised
    BY <1>3
  <2> HIDE DEF A, B, raised, lowered
  <2>3. /\ Cardinality(A) \in Nat /\ Cardinality(B) \in Nat
        /\ Cardinality(A \ B) \in Nat /\ Cardinality(B \ A) \in Nat
        /\ Cardinality(B) = Cardinality(A) - Cardinality(A \ B) + Cardinality(B \ A)
    BY <2>1, Exchange
  <2>4. /\ Cardinality(A) \in Nat /\ Cardinality(B) \in Nat
        /\ Cardinality(lowered) \in Nat /\ Cardinality(raised) \in Nat
        /\ Cardinality(B) = Cardinality(A) - Cardinality(lowered) + Cardinality(raised)
    BY <2>2, <2>3
  <2> QED BY <2>4 DEF A, B
<1> HIDE DEF raised, lowered
<1> QED BY <1>2, <1>4, <1>5

-----------------------------------------------------------------------------
(* In every state of the invariant the numbers shown are the exact ones.   *)
LEMMA FeedShown ==
    ASSUME CountersInv, FromUserInterface, NEW f \in trusted.feeds
    PROVE  ShownFeed(f) = UnreadIn(f, Wanted)
<1> DEFINE S == Articles(f)
<1>1. IInv /\ f \in Feed /\ IsFiniteSet(Entry) /\ S \in SUBSET Entry
  BY CountersAssumption DEF CountersInv, CountersTypeOK, Articles
<1>2. \A e \in S : e \in known /\ ~HasPending(<<e, "read">>)
                     => baseline[<<e, "read">>] = server[<<e, "read">>]
  <2> SUFFICES ASSUME NEW e \in S
               PROVE  e \in known /\ ~HasPending(<<e, "read">>)
                        => baseline[<<e, "read">>] = server[<<e, "read">>]
    OBVIOUS
  <2>1. <<e, "read">> \in Cell /\ FeedOf[e] = f
    BY DEF Cell, Articles
  <2>2. <<e, "read">> \in TrustedCells
    BY <2>1 DEF TrustedCells
  <2> QED BY <2>2 DEF CountersInv, TrustedSeen
<1> HIDE DEF S
<1>3. /\ Delta(S \X {"read"}) \in Int
      /\ Cardinality(Having(S, "read", 0, Seen)) \in Nat
      /\ Cardinality(Having(S, "read", 0, Wanted)) \in Nat
      /\ Cardinality(Having(S, "read", 0, Wanted))
           = Cardinality(Having(S, "read", 0, Seen)) - Delta(S \X {"read"})
  BY <1>1, <1>2, DeltaMakesUp
<1>4. feedUnread[f] = Cardinality(Having(S, "read", 0, Seen))
  BY <1>1, NumbersAre DEF CountersInv, NumbersStored, S
<1>5. ShownFeed(f) = AtLeast0(Cardinality(Having(S, "read", 0, Wanted)))
  BY <1>3, <1>4 DEF ShownFeed, ReadCells, S
<1>6. ShownFeed(f) = Cardinality(Having(S, "read", 0, Wanted))
  BY <1>3, <1>5, Clamp
<1> QED BY <1>1, <1>6, NumbersAre DEF S

(* The number of starred articles, likewise.                               *)
LEMMA StarredShown ==
    ASSUME CountersInv, FromUserInterface, trusted.starred
    PROVE  ShownStarred = StarredIn(Wanted)
<1>1. IInv /\ IsFiniteSet(Entry)
  BY CountersAssumption DEF CountersInv
<1>2. \A e \in Entry : e \in known /\ ~HasPending(<<e, "starred">>)
                     => baseline[<<e, "starred">>] = server[<<e, "starred">>]
  <2> SUFFICES ASSUME NEW e \in Entry
               PROVE  e \in known /\ ~HasPending(<<e, "starred">>)
                        => baseline[<<e, "starred">>] = server[<<e, "starred">>]
    OBVIOUS
  <2>1. <<e, "starred">> \in TrustedCells
    BY DEF TrustedCells, Cell
  <2> QED BY <2>1 DEF CountersInv, TrustedSeen
<1>3. /\ Delta(Entry \X {"starred"}) \in Int
      /\ Cardinality(Having(Entry, "starred", 1, Seen)) \in Nat
      /\ Cardinality(Having(Entry, "starred", 1, Wanted)) \in Nat
      /\ Cardinality(Having(Entry, "starred", 1, Wanted))
           = Cardinality(Having(Entry, "starred", 1, Seen)) + Delta(Entry \X {"starred"})
  BY <1>1, <1>2, DeltaMakesUp
<1>4. starredTotal = Cardinality(Having(Entry, "starred", 1, Seen))
  BY NumbersAre DEF CountersInv, NumbersStored
<1>5. ShownStarred = AtLeast0(Cardinality(Having(Entry, "starred", 1, Wanted)))
  BY <1>3, <1>4 DEF ShownStarred, StarCells
<1>6. ShownStarred = Cardinality(Having(Entry, "starred", 1, Wanted))
  BY <1>3, <1>5, Clamp
<1> QED BY <1>6, NumbersAre

(* The total of a selection; what the store has of it locally is not more. *)
LEMMA TotalShown ==
    ASSUME CountersInv, FromUserInterface, NEW sel \in trusted.totals
    PROVE  ShownTotal(sel) = CountIn(sel, Wanted)
<1>1. /\ IInv /\ sel \in Selections /\ IsFiniteSet(Entry) /\ sel.scope \in SUBSET Entry
      /\ sel.starred \in BOOLEAN /\ sel.unreadOnly \in BOOLEAN
  BY CountersAssumption, ServiceAssumption DEF CountersInv, CountersTypeOK, SelectionType
<1>2. \A c \in CountedCells(sel) : c \in Cell => c \in TrustedCells
  BY DEF TrustedCells
<1>3. totals[sel] = CountIn(sel, Seen)
  BY DEF CountersInv, NumbersStored
<1>4. totals[sel] \in Nat /\ CountIn(sel, Wanted) \in Nat
      /\ totals[sel] + PendingDelta(sel) = CountIn(sel, Wanted)
  <2>1. CASE sel.unreadOnly
    <3> DEFINE S == sel.scope
    <3>1. \A e \in S : e \in known /\ ~HasPending(<<e, "read">>)
                         => baseline[<<e, "read">>] = server[<<e, "read">>]
      <4> SUFFICES ASSUME NEW e \in S
                   PROVE  e \in known /\ ~HasPending(<<e, "read">>)
                            => baseline[<<e, "read">>] = server[<<e, "read">>]
        OBVIOUS
      <4>1. <<e, "read">> \in Cell /\ <<e, "read">> \in CountedCells(sel)
        BY <1>1, <2>1, NumbersAre DEF Cell, ReadCells
      <4> QED BY <1>2, <4>1 DEF CountersInv, TrustedSeen
    <3>2. ~sel.starred
      BY <1>1, <2>1, NumbersAre
    <3>3. /\ CountIn(sel, Seen) = Cardinality(Having(S, "read", 0, Seen))
          /\ CountIn(sel, Wanted) = Cardinality(Having(S, "read", 0, Wanted))
      BY <1>1, <2>1, NumbersAre
    <3> HIDE DEF S
    <3>4. /\ Delta(S \X {"read"}) \in Int
          /\ Cardinality(Having(S, "read", 0, Seen)) \in Nat
          /\ Cardinality(Having(S, "read", 0, Wanted)) \in Nat
          /\ Cardinality(Having(S, "read", 0, Wanted))
               = Cardinality(Having(S, "read", 0, Seen)) - Delta(S \X {"read"})
      BY <1>1, <3>1, DeltaMakesUp DEF S
    <3>5. PendingDelta(sel) = -Delta(S \X {"read"})
      BY <2>1, <3>2 DEF PendingDelta, ReadCells, S
    <3> QED BY <1>3, <3>3, <3>4, <3>5
  <2>2. CASE sel.starred
    <3>1. \A e \in Entry : e \in known /\ ~HasPending(<<e, "starred">>)
                         => baseline[<<e, "starred">>] = server[<<e, "starred">>]
      <4> SUFFICES ASSUME NEW e \in Entry
                   PROVE  e \in known /\ ~HasPending(<<e, "starred">>)
                            => baseline[<<e, "starred">>] = server[<<e, "starred">>]
        OBVIOUS
      <4>1. <<e, "starred">> \in Cell /\ <<e, "starred">> \in CountedCells(sel)
        BY <1>1, <2>2, NumbersAre DEF Cell, StarCells
      <4> QED BY <1>2, <4>1 DEF CountersInv, TrustedSeen
    <3>2. /\ CountIn(sel, Seen) = Cardinality(Having(Entry, "starred", 1, Seen))
          /\ CountIn(sel, Wanted) = Cardinality(Having(Entry, "starred", 1, Wanted))
      BY <1>1, <2>2, NumbersAre
    <3>3. /\ Delta(Entry \X {"starred"}) \in Int
          /\ Cardinality(Having(Entry, "starred", 1, Seen)) \in Nat
          /\ Cardinality(Having(Entry, "starred", 1, Wanted)) \in Nat
          /\ Cardinality(Having(Entry, "starred", 1, Wanted))
               = Cardinality(Having(Entry, "starred", 1, Seen)) + Delta(Entry \X {"starred"})
      BY <1>1, <3>1, DeltaMakesUp
    <3>4. PendingDelta(sel) = Delta(Entry \X {"starred"})
      BY <2>2 DEF PendingDelta, StarCells
    <3> QED BY <1>3, <3>2, <3>3, <3>4
  <2>3. CASE ~sel.unreadOnly /\ ~sel.starred
    <3>1. /\ CountIn(sel, Seen) = Cardinality(sel.scope)
          /\ CountIn(sel, Wanted) = Cardinality(sel.scope)
      BY <1>1, <2>3, NumbersAre
    <3>2. Cardinality(sel.scope) \in Nat
      BY <1>1, FS_Subset, FS_CardinalityType
    <3>3. PendingDelta(sel) = 0
      BY <2>3 DEF PendingDelta
    <3> QED BY <1>3, <3>1, <3>2, <3>3
  <2> QED BY <1>1, <2>1, <2>2, <2>3
<1>5. LocalTotal(sel) \in Nat /\ LocalTotal(sel) <= CountIn(sel, Wanted)
  <2> DEFINE shown == {e \in known : Matches(sel, local, e)}
             wanted == {e \in Entry : Matches(sel, Wanted, e)}
  <2>1. ASSUME NEW e \in known, Matches(sel, local, e)
        PROVE  e \in Entry /\ Matches(sel, Wanted, e)
    <3>1. e \in Entry /\ e \in sel.scope
      BY <1>1, <2>1 DEF IInv, TypeOK, StoreTypeOK, Matches
    <3>2. ASSUME NEW c \in Cell, c[1] = e, c \in CountedCells(sel)
          PROVE  local[c] = Wanted[c]
      <4>1. c \in TrustedCells
        BY <1>2, <3>2
      <4>2. local[c] = IF HasPending(c) THEN pending[c].desired ELSE baseline[c]
        BY <1>1, <3>2, <2>1 DEF IInv, Agreement
      <4>3. ~HasPending(c) => baseline[c] = server[c]
        BY <2>1, <3>2, <4>1 DEF CountersInv, TrustedSeen
      <4> QED BY <4>2, <4>3, <3>2 DEF Wanted
    <3>3. sel.unreadOnly => local[<<e, "read">>] = Wanted[<<e, "read">>]
      <4> SUFFICES ASSUME sel.unreadOnly PROVE local[<<e, "read">>] = Wanted[<<e, "read">>]
        OBVIOUS
      <4>1. /\ <<e, "read">> \in Cell /\ <<e, "read">>[1] = e
            /\ <<e, "read">> \in CountedCells(sel)
        BY <3>1 DEF Cell, CountedCells, ReadCells
      <4> QED BY <3>2, <4>1
    <3>4. sel.starred => local[<<e, "starred">>] = Wanted[<<e, "starred">>]
      <4> SUFFICES ASSUME sel.starred PROVE local[<<e, "starred">>] = Wanted[<<e, "starred">>]
        OBVIOUS
      <4>1. <<e, "starred">> \in Cell /\ <<e, "starred">>[1] = e
            /\ <<e, "starred">> \in CountedCells(sel)
        BY <3>1 DEF Cell, CountedCells, StarCells
      <4> QED BY <3>2, <4>1
    <3> QED BY <2>1, <3>1, <3>3, <3>4 DEF Matches
  <2>2. shown \in SUBSET wanted /\ wanted \in SUBSET Entry
    BY <2>1
  <2>3. IsFiniteSet(wanted)
    BY <1>1, <2>2, FS_Subset
  <2>4. IsFiniteSet(shown) /\ Cardinality(shown) <= Cardinality(wanted)
    BY <2>2, <2>3, FS_Subset
  <2>5. Cardinality(shown) \in Nat
    BY <2>4, FS_CardinalityType
  <2> QED BY <2>4, <2>5 DEF LocalTotal, CountIn
<1>6. totals[sel] # NoTotal
  BY <1>4 DEF NoTotal
<1>7. AtLeast0(totals[sel] + PendingDelta(sel)) = CountIn(sel, Wanted)
  BY <1>4, Clamp
<1>8. Max({LocalTotal(sel), CountIn(sel, Wanted)}) = CountIn(sel, Wanted)
  <2> DEFINE m == LocalTotal(sel)
             n == CountIn(sel, Wanted)
  <2>1. m \in Int /\ n \in Int /\ m <= n
    BY <1>4, <1>5
  <2> HIDE DEF m, n
  <2>2. Max({m, n}) = IF m > n THEN m ELSE n
    BY <2>1, Greater
  <2>3. Max({m, n}) = n
    BY <2>1, <2>2
  <2> QED BY <2>3 DEF m, n
<1> QED BY <1>6, <1>7, <1>8 DEF ShownTotal

-----------------------------------------------------------------------------
(* Every step of the counters is a step of the service, or none.           *)
LEMMA CountersStepIsServiceStep == [CountersNext]_allVars => [Next]_vars
<1>1. UNCHANGED allVars => UNCHANGED vars
  BY DEF allVars
<1>2. ASSUME NEW t \in Caller,
             UnreadCounters(t) \/ StarredTotal(t) \/ FetchArticles(t)
               \/ ApplyCounts(t) \/ AckCounts(t)
      PROVE  [Next]_vars
  BY <1>2 DEF UnreadCounters, StarredTotal, FetchArticles, ApplyCounts, AckCounts, Next,
             FlushStep
<1>3. ASSUME NEW t \in Caller, Flush(t) \/ OtherFlushStep(t) \/ RefreshFails(t)
      PROVE  Next
  BY <1>3 DEF OtherFlushStep, Next, FlushStep, FaultStep
<1>4. ASSUME NEW t \in Caller, NEW sel \in Selections, Refresh(t, sel)
      PROVE  Next
  BY <1>4 DEF Next
<1>5. Interference \/ UserStep \/ Crash => Next
  BY DEF Interference, Next
<1> QED BY <1>1, <1>2, <1>3, <1>4, <1>5 DEF CountersNext

(* What is counted in finite sets is a number.                             *)
LEMMA NumbersTyped ==
    /\ \A f, T : UnreadIn(f, T) \in Nat
    /\ \A T : StarredIn(T) \in Nat
    /\ \A sel, T : CountIn(sel, T) \in Nat
    /\ \A S \in SUBSET Entry : Cardinality(S) \in Nat
<1>1. \A S \in SUBSET Entry : Cardinality(S) \in Nat
  BY CountersAssumption, FS_Subset, FS_CardinalityType
<1> QED BY <1>1 DEF UnreadIn, StarredIn, CountIn, Articles

(* Tables that agree on what a number counts give the same number.         *)
LEMMA SameCount ==
    ASSUME NEW T, NEW U
    PROVE  /\ \A f : (\A c \in ReadCells(Articles(f)) : T[c] = U[c])
                       => UnreadIn(f, T) = UnreadIn(f, U)
           /\ (\A c \in StarCells(Entry) : T[c] = U[c]) => StarredIn(T) = StarredIn(U)
           /\ \A sel : (\A c \in CountedCells(sel) : T[c] = U[c])
                         => CountIn(sel, T) = CountIn(sel, U)
<1>1. ASSUME NEW f, \A c \in ReadCells(Articles(f)) : T[c] = U[c]
      PROVE  UnreadIn(f, T) = UnreadIn(f, U)
  <2>1. \A e \in Articles(f) : <<e, "read">> \in ReadCells(Articles(f))
    BY DEF ReadCells
  <2>2. {e \in Articles(f) : T[<<e, "read">>] = 0} = {e \in Articles(f) : U[<<e, "read">>] = 0}
    BY <1>1, <2>1
  <2> QED BY <2>2 DEF UnreadIn
<1>2. ASSUME \A c \in StarCells(Entry) : T[c] = U[c]
      PROVE  StarredIn(T) = StarredIn(U)
  <2>1. \A e \in Entry : <<e, "starred">> \in StarCells(Entry)
    BY DEF StarCells
  <2>2. {e \in Entry : T[<<e, "starred">>] = 1} = {e \in Entry : U[<<e, "starred">>] = 1}
    BY <1>2, <2>1
  <2> QED BY <2>2 DEF StarredIn
<1>3. ASSUME NEW sel, \A c \in CountedCells(sel) : T[c] = U[c]
      PROVE  CountIn(sel, T) = CountIn(sel, U)
  <2>1. ASSUME NEW e \in sel.scope
        PROVE  /\ sel.unreadOnly => <<e, "read">> \in CountedCells(sel)
               /\ sel.starred => <<e, "starred">> \in CountedCells(sel)
    BY DEF CountedCells, ReadCells, StarCells
  <2>2. \A e \in Entry : Matches(sel, T, e) <=> Matches(sel, U, e)
    BY <1>3, <2>1 DEF Matches
  <2>3. {e \in Entry : Matches(sel, T, e)} = {e \in Entry : Matches(sel, U, e)}
    BY <2>2
  <2> QED BY <2>3 DEF CountIn
<1> QED BY <1>1, <1>2, <1>3

(* The cells that a record of trusted numbers counts.                      *)
CellsOf(tr) ==
    {c \in Cell : \/ c[2] = "read" /\ FeedOf[c[1]] \in tr.feeds
                  \/ c[2] = "starred" /\ tr.starred
                  \/ \E sel \in tr.totals : c \in CountedCells(sel)}

(* Those of the numbers that are trusted now, and after a step.            *)
LEMMA CellsOfTrusted == TrustedCells = CellsOf(trusted) /\ TrustedCells' = CellsOf(trusted')
  BY DEF TrustedCells, CellsOf

(* Every cell that a trusted number counts is one of them.                 *)
LEMMA CountedAreCells ==
    ASSUME NEW tr, tr.totals \subseteq Selections
    PROVE  /\ \A f \in tr.feeds : ReadCells(Articles(f)) \subseteq CellsOf(tr)
           /\ tr.starred => StarCells(Entry) \subseteq CellsOf(tr)
           /\ \A sel \in tr.totals : CountedCells(sel) \subseteq CellsOf(tr)
<1>1. \A f \in tr.feeds : ReadCells(Articles(f)) \subseteq CellsOf(tr)
  BY DEF ReadCells, Articles, CellsOf, Cell
<1>2. tr.starred => StarCells(Entry) \subseteq CellsOf(tr)
  BY DEF StarCells, CellsOf, Cell
<1>3. ASSUME NEW sel \in tr.totals PROVE CountedCells(sel) \subseteq CellsOf(tr)
  <2>1. sel.scope \subseteq Entry
    BY ServiceAssumption DEF SelectionType
  <2>2. CountedCells(sel) \subseteq Cell
    BY <2>1, CellFacts DEF CountedCells
  <2> QED BY <2>2 DEF CellsOf
<1> QED BY <1>1, <1>2, <1>3

(* A step that leaves the stored numbers alone, trusts no more of them and *)
(* changes none of the cells they count keeps them right.                  *)
LEMMA NumbersStay ==
    ASSUME CountersInv, UNCHANGED countVars,
           trusted'.feeds \subseteq trusted.feeds,
           trusted'.starred => trusted.starred,
           trusted'.totals \subseteq trusted.totals,
           \A c \in TrustedCells' : Seen'[c] = Seen[c]
    PROVE  NumbersStored'
<1> DEFINE T == Seen
           U == Seen'
<1>1. \A c \in CellsOf(trusted') : T[c] = U[c]
  BY CellsOfTrusted
<1>2. /\ \A f \in trusted'.feeds : ReadCells(Articles(f)) \subseteq CellsOf(trusted')
      /\ trusted'.starred => StarCells(Entry) \subseteq CellsOf(trusted')
      /\ \A sel \in trusted'.totals : CountedCells(sel) \subseteq CellsOf(trusted')
  <2>1. trusted'.totals \subseteq Selections
    BY DEF CountersInv, CountersTypeOK
  <2> QED BY <2>1, CountedAreCells
<1>3. /\ \A f \in trusted.feeds : feedUnread[f] = UnreadIn(f, T)
      /\ trusted.starred => starredTotal = StarredIn(T)
      /\ \A sel \in trusted.totals : totals[sel] = CountIn(sel, T)
  BY DEF CountersInv, NumbersStored
<1>4. feedUnread' = feedUnread /\ starredTotal' = starredTotal /\ totals' = totals
  BY DEF countVars
<1> HIDE DEF T, U
<1>5. \A f \in trusted'.feeds : UnreadIn(f, T) = UnreadIn(f, U)
  BY <1>1, <1>2, SameCount
<1>6. trusted'.starred => StarredIn(T) = StarredIn(U)
  BY <1>1, <1>2, SameCount
<1>7. \A sel \in trusted'.totals : CountIn(sel, T) = CountIn(sel, U)
  BY <1>1, <1>2, SameCount
<1>8. /\ \A f \in trusted'.feeds : feedUnread'[f] = UnreadIn(f, U)
      /\ trusted'.starred => starredTotal' = StarredIn(U)
      /\ \A sel \in trusted'.totals : totals'[sel] = CountIn(sel, U)
  BY <1>3, <1>4, <1>5, <1>6, <1>7
<1> QED BY <1>8 DEF NumbersStored, U

-----------------------------------------------------------------------------
(* A call that ends, or that fetches nothing, keeps the types of the       *)
(* numbers.                                                                *)
LEMMA ForgetTypes ==
    ASSUME CountersTypeOK, ForgetCounts
    PROVE  CountersTypeOK'
<1>1. NoCounts \in [step : 0 .. 2, feeds : [Feed -> Nat], starred : Nat]
  BY DEF NoCounts
<1>2. counts' \in [Caller -> [step : 0 .. 2, feeds : [Feed -> Nat], starred : Nat]]
  <2>1. counts' = [t \in Caller |-> IF pc'[t] = "idle" THEN NoCounts ELSE counts[t]]
    BY DEF ForgetCounts
  <2> HIDE DEF NoCounts
  <2> QED BY <1>1, <2>1 DEF CountersTypeOK
<1>3. disturbed' \subseteq Cell
  BY DEF ForgetCounts, CountersTypeOK
<1> QED BY <1>2, <1>3 DEF ForgetCounts, countVars, CountersTypeOK

(* A refresh fetches numbers.                                              *)
LEMMA FetchTypes ==
    ASSUME CountersTypeOK, NEW t \in Caller,
           UnreadCounters(t) \/ StarredTotal(t) \/ FetchArticles(t)
    PROVE  CountersTypeOK'
<1> DEFINE C == [step : 0 .. 2, feeds : [Feed -> Nat], starred : Nat]
<1>1. counts \in [Caller -> C] /\ StarredIn(server) \in Nat
  BY NumbersTyped DEF CountersTypeOK
<1>2. CASE UnreadCounters(t)
  <2> DEFINE new == [step |-> IF selection[t].starred THEN 2 ELSE 1,
                     feeds |-> [f \in Feed |-> UnreadIn(f, server)], starred |-> 0]
  <2>1. [f \in Feed |-> UnreadIn(f, server)] \in [Feed -> Nat]
    BY NumbersTyped
  <2>2. new \in C
    BY <2>1
  <2>3. counts' = [counts EXCEPT ![t] = new]
    BY <1>2 DEF UnreadCounters
  <2> HIDE DEF new, C
  <2>4. counts' \in [Caller -> C]
    BY <1>1, <2>2, <2>3
  <2> QED BY <1>2, <2>4 DEF UnreadCounters, countVars, trustVars, CountersTypeOK, C
<1>3. CASE StarredTotal(t)
  <2>1. counts' = [counts EXCEPT ![t].step = 2, ![t].starred = StarredIn(server)]
    BY <1>3 DEF StarredTotal
  <2>2. /\ DOMAIN counts' = Caller
        /\ \A u \in Caller : u # t => counts'[u] = counts[u]
    BY <1>1, <2>1
  <2>3. counts'[t] = [counts[t] EXCEPT !.step = 2, !.starred = StarredIn(server)]
    BY <1>1, <2>1
  <2>4. counts'[t] \in C
    <3> DEFINE r == counts[t]
               n == StarredIn(server)
    <3>1. r \in C /\ n \in Nat /\ 2 \in 0 .. 2
      BY <1>1
    <3> HIDE DEF r, n
    <3>2. [r EXCEPT !.step = 2, !.starred = n] \in C
      BY <3>1
    <3> QED BY <2>3, <3>2 DEF r, n
  <2>5. counts' = [u \in Caller |-> counts'[u]]
    BY <1>1, <2>1
  <2> HIDE DEF C
  <2>6. counts' \in [Caller -> C]
    BY <1>1, <2>2, <2>4, <2>5
  <2> QED BY <1>3, <2>6 DEF StarredTotal, countVars, trustVars, CountersTypeOK, C
<1>4. CASE FetchArticles(t)
  BY <1>4 DEF FetchArticles, countVars, trustVars, CountersTypeOK
<1> QED BY <1>2, <1>3, <1>4

(* apply_snapshot stores numbers.                                          *)
LEMMA ApplyCountTypes ==
    ASSUME CountersInv, NEW t \in Caller, ApplyCounts(t)
    PROVE  CountersTypeOK'
<1> DEFINE C == [step : 0 .. 2, feeds : [Feed -> Nat], starred : Nat]
<1>1. counts[t] \in C /\ counts \in [Caller -> C]
  BY DEF CountersInv, CountersTypeOK
<1>2. Cardinality(listing[t]) \in Nat
  BY NumbersTyped DEF CountersInv, IInv, TypeOK, ThreadTypeOK
<1>3. feedUnread' \in [Feed -> Nat] /\ starredTotal' \in Nat
  BY <1>1, <1>2 DEF ApplyCounts, FeedsOf, StarredOf
<1>4. totals' \in [Selections -> Nat \cup {NoTotal}]
  BY <1>2 DEF ApplyCounts, TotalsOf, CountersInv, CountersTypeOK
<1>5. counts' \in [Caller -> C]
  <2>1. NoCounts \in C
    BY DEF NoCounts
  <2> HIDE DEF C
  <2> QED BY <1>1, <2>1 DEF ApplyCounts
<1>6. disturbed' \subseteq Cell
  BY DEF ApplyCounts
<1>7. trusted' \in [feeds : SUBSET Feed, starred : BOOLEAN, totals : SUBSET Selections]
  <2>1. {f \in Feed : Fresh(t, ReadCells(Articles(f)))} \in SUBSET Feed
    OBVIOUS
  <2>2. Fresh(t, StarCells(Entry)) \in BOOLEAN
    BY DEF Fresh
  <2>3. trusted' = TrustedAfter(t)
    BY DEF ApplyCounts
  <2> QED BY <2>1, <2>2, <2>3 DEF TrustedAfter
<1> QED BY <1>3, <1>4, <1>5, <1>6, <1>7 DEF CountersTypeOK

(* What a confirmation moves the numbers by.                               *)
LEMMA MovedTyped ==
    ASSUME IInv, NEW t \in Caller, Ack(t)
    PROVE  /\ cell[t] \in Cell /\ cell[t][1] \in Entry /\ cell[t][1] \in known
           /\ cell[t][2] \in {"read", "starred"}
           /\ todo[t][cell[t]].desired \in Val /\ baseline[cell[t]] \in Val
           /\ Moved(cell[t], todo[t][cell[t]]) \in Int
<1>1. cell[t] \in Cell /\ cell[t][1] \in known
  BY DEF Ack, Acknowledge, IInv, TypeOK, ThreadTypeOK
<1>2. cell[t][1] \in Entry /\ cell[t][2] \in {"read", "starred"}
  BY <1>1 DEF Cell
<1>3. todo[t][cell[t]].desired \in Val /\ baseline[cell[t]] \in Val
  BY <1>1 DEF IInv, TypeOK, StoreTypeOK, ThreadTypeOK, Row
<1>4. Moved(cell[t], todo[t][cell[t]]) \in Int
  BY <1>3 DEF Moved, Val
<1> QED BY <1>1, <1>2, <1>3, <1>4

(* A confirmation leaves numbers, for they are clamped at 0.               *)
LEMMA AckCountTypes ==
    ASSUME CountersInv, NEW t \in Caller, AckCounts(t)
    PROVE  CountersTypeOK'
<1> DEFINE c == cell[t]
           m == Moved(c, todo[t][c])
<1>1. m \in Int /\ c[1] \in Entry /\ FeedOf[c[1]] \in Feed
  BY MovedTyped, CountersAssumption DEF AckCounts, CountersInv
<1>2. feedUnread \in [Feed -> Nat] /\ starredTotal \in Nat
      /\ totals \in [Selections -> Nat \cup {NoTotal}]
  BY DEF CountersInv, CountersTypeOK
<1>3. feedUnread' \in [Feed -> Nat]
  <2>1. feedUnread' = IF c[2] = "read"
                      THEN [feedUnread EXCEPT ![FeedOf[c[1]]] = AtLeast0(@ - m)]
                      ELSE feedUnread
    BY DEF AckCounts, FeedsAfterAck
  <2> HIDE DEF c, m
  <2>2. \A f \in Feed : AtLeast0(feedUnread[f] - m) \in Nat
    <3> SUFFICES ASSUME NEW f \in Feed PROVE AtLeast0(feedUnread[f] - m) \in Nat
      OBVIOUS
    <3>1. feedUnread[f] - m \in Int
      BY <1>1, <1>2
    <3> QED BY <3>1, Clamp
  <2> QED BY <1>1, <1>2, <2>1, <2>2
<1>4. starredTotal' \in Nat
  <2>1. starredTotal' = IF c[2] = "starred" THEN AtLeast0(starredTotal + m) ELSE starredTotal
    BY DEF AckCounts
  <2> HIDE DEF c, m
  <2>2. starredTotal + m \in Int
    BY <1>1, <1>2
  <2> QED BY <1>2, <2>1, <2>2, Clamp
<1>5. totals' \in [Selections -> Nat \cup {NoTotal}]
  <2>1. totals' = [sel \in Selections |-> TotalAfterAck(sel, c, todo[t][c])]
    BY DEF AckCounts
  <2>2. ASSUME NEW sel \in Selections
        PROVE  TotalAfterAck(sel, c, todo[t][c]) \in Nat \cup {NoTotal}
    <3>1. CASE totals[sel] = NoTotal
      BY <3>1 DEF TotalAfterAck
    <3>2. CASE totals[sel] # NoTotal
      <4>1. totals[sel] \in Nat
        BY <1>2, <3>2
      <4> DEFINE a == AtLeast0(totals[sel] - m)
                 b == AtLeast0(totals[sel] + m)
      <4>2. TotalAfterAck(sel, c, todo[t][c]) \in {a, b, totals[sel]}
        BY <3>2 DEF TotalAfterAck
      <4> HIDE DEF c, m
      <4>3. totals[sel] - m \in Int /\ totals[sel] + m \in Int
        BY <1>1, <4>1
      <4>4. a \in Nat /\ b \in Nat
        BY <4>3, Clamp
      <4> HIDE DEF a, b
      <4> QED BY <4>1, <4>2, <4>4
    <3> QED BY <3>1, <3>2
  <2> HIDE DEF c, m
  <2> QED BY <2>1, <2>2
<1> QED BY <1>3, <1>4, <1>5 DEF AckCounts, trustVars, CountersInv, CountersTypeOK

(* Another client's change is remembered as a cell.                        *)
LEMMA DistrustTypes ==
    ASSUME CountersTypeOK, NEW c \in Cell, Distrust(c)
    PROVE  CountersTypeOK'
<1>1. disturbed' \subseteq Cell
  BY DEF Distrust, CountersTypeOK
<1>2. trusted' \in [feeds : SUBSET Feed, starred : BOOLEAN, totals : SUBSET Selections]
  <2>1. (trusted.starred /\ c[2] = "read") \in BOOLEAN
    OBVIOUS
  <2>2. trusted.feeds \in SUBSET Feed /\ trusted.totals \in SUBSET Selections
    BY DEF CountersTypeOK
  <2> QED BY <2>1, <2>2 DEF Distrust
<1> QED BY <1>1, <1>2 DEF Distrust, countVars, CountersTypeOK

(* Every step keeps the types of the numbers.                              *)
LEMMA CountersTypeStep ==
    ASSUME CountersInv, [CountersNext]_allVars
    PROVE  CountersTypeOK'
<1>1. CASE UNCHANGED allVars
  BY <1>1 DEF allVars, countVars, trustVars, CountersInv, CountersTypeOK
<1>2. CASE Interference
  <2>1. PICK c \in OtherCells : Distrust(c)
    BY <1>2 DEF Interference
  <2>2. c \in Cell
    BY ServiceAssumption
  <2> QED BY <2>1, <2>2, DistrustTypes DEF CountersInv
<1>3. CASE ForgetCounts
  BY <1>3, ForgetTypes DEF CountersInv
<1>4. CASE \E t \in Caller : UnreadCounters(t) \/ StarredTotal(t) \/ FetchArticles(t)
  BY <1>4, FetchTypes DEF CountersInv
<1>5. CASE \E t \in Caller : ApplyCounts(t) \/ AckCounts(t)
  BY <1>5, ApplyCountTypes, AckCountTypes
<1> QED BY <1>1, <1>2, <1>3, <1>4, <1>5 DEF CountersNext

(* What the invariant says beyond the types.                               *)
Counted == NumbersStored /\ TrustedSeen /\ TrustedSent /\ NumbersFetched

-----------------------------------------------------------------------------
(* The gate: a thread that is at work is the only one, and outside a       *)
(* refresh no numbers have been fetched.                                   *)
LEMMA OthersFetchedNothing ==
    ASSUME CountersInv, NEW t \in Caller, pc[t] # "idle"
    PROVE  /\ \A u \in Caller : u # t => pc[u] = "idle" /\ counts[u].step = 0
           /\ pc[t] \notin {"browse", "apply"} => counts[t].step = 0
<1>1. \A u \in Caller : u # t => pc[u] = "idle"
  BY OthersIdle, ServiceAssumption DEF CountersInv
<1>2. \A u \in Caller : counts[u].step # 0 => pc[u] \in {"browse", "apply"}
  BY DEF CountersInv, NumbersFetched
<1> QED BY <1>1, <1>2

(* Nothing fetched: nothing to keep right.                                 *)
LEMMA NothingFetched ==
    ASSUME \A u \in Caller : counts'[u].step = 0 /\ pc'[u] # "apply"
    PROVE  NumbersFetched'
  BY DEF NumbersFetched

(* Nor when nothing is being sent.                                         *)
LEMMA NothingSent ==
    ASSUME \A u \in Caller : pc'[u] \notin {"toggle", "ack"}
    PROVE  TrustedSent'
  BY DEF TrustedSent

(* A step that leaves the store, the server and the numbers alone.         *)
LEMMA StoreStays ==
    ASSUME CountersInv, UNCHANGED <<storeVars, server, countVars, trusted>>
    PROVE  NumbersStored' /\ TrustedSeen'
<1>1. Seen' = Seen /\ TrustedCells' = TrustedCells
  BY DEF Seen, TrustedCells, storeVars
<1>2. NumbersStored'
  BY <1>1, NumbersStay
<1>3. \A c \in Cell : HasPending(c)' = HasPending(c)
  BY DEF HasPending, HasRow, storeVars
<1>4. TrustedSeen'
  BY <1>1, <1>3 DEF CountersInv, TrustedSeen, TrustedCells, storeVars
<1> QED BY <1>2, <1>4

-----------------------------------------------------------------------------
(* The steps of a refresh that fetch.                                      *)
LEMMA FetchKeeps ==
    ASSUME CountersInv, NEW t \in Caller,
           UnreadCounters(t) \/ StarredTotal(t) \/ FetchArticles(t)
    PROVE  Counted'
<1>1. /\ pc[t] = "browse" /\ pc'[t] \in {"browse", "apply"}
      /\ \A u \in Caller : u # t => pc'[u] = pc[u] /\ counts'[u] = counts[u]
      /\ UNCHANGED <<storeVars, server, selection, countVars, trusted, disturbed>>
  BY DEF UnreadCounters, StarredTotal, FetchArticles, Browse, vars, threadVars, serverVars,
         trustVars, CountersInv, IInv, TypeOK, ThreadTypeOK, CountersTypeOK
<1>2. \A u \in Caller : u # t => pc'[u] = "idle" /\ counts'[u].step = 0
  BY <1>1, OthersFetchedNothing
<1>3. NumbersStored' /\ TrustedSeen'
  BY <1>1, StoreStays
<1>4. TrustedSent'
  BY <1>1, <1>2, NothingSent
<1>5. NumbersFetched'
  <2> DEFINE n == counts'[t]
  <2>1. pc'[t] = "apply" => /\ counts[t].step = 2 /\ n = counts[t]
                            /\ \A c \in Cell : value'[t][c] = server[c]
    BY <1>1 DEF UnreadCounters, StarredTotal, FetchArticles, Browse, vars, threadVars,
                CountersInv, IInv, TypeOK, ThreadTypeOK, ServerTypeOK
  <2>2. \A f \in Feed : Undisturbed(ReadCells(Articles(f))) => n.feeds[f] = UnreadIn(f, server)
    <3>1. CASE UnreadCounters(t)
      BY <3>1 DEF UnreadCounters, CountersInv, CountersTypeOK
    <3>2. CASE StarredTotal(t) \/ FetchArticles(t)
      <4>1. n.feeds = counts[t].feeds /\ counts[t].step # 0
        BY <3>2 DEF StarredTotal, FetchArticles, CountersInv, CountersTypeOK
      <4> QED BY <4>1 DEF CountersInv, NumbersFetched
    <3> QED BY <3>1, <3>2
  <2>3. n.step = 2 /\ ~selection[t].starred /\ Undisturbed(StarCells(Entry))
          => n.starred = StarredIn(server)
    <3>1. CASE UnreadCounters(t)
      BY <3>1 DEF UnreadCounters, CountersInv, CountersTypeOK
    <3>2. CASE StarredTotal(t)
      BY <3>2 DEF StarredTotal, CountersInv, CountersTypeOK
    <3>3. CASE FetchArticles(t)
      BY <3>3 DEF FetchArticles, CountersInv, NumbersFetched
    <3> QED BY <3>1, <3>2, <3>3
  <2> HIDE DEF n
  <2> QED BY <1>1, <1>2, <2>1, <2>2, <2>3 DEF NumbersFetched, Undisturbed, n
<1> QED BY <1>3, <1>4, <1>5 DEF Counted

(* The steps of a call that write neither the store nor the server.        *)
LEMMA QuietKeeps ==
    ASSUME CountersInv, NEW t \in Caller, ForgetCounts,
           \/ Flush(t) \/ ListPending(t) \/ FlushDone(t) \/ FlushFails(t) \/ RefreshFails(t)
           \/ \E sel \in Selections : Refresh(t, sel)
    PROVE  Counted'
<1>1. /\ \A u \in Caller : u # t => pc[u] = "idle" /\ counts[u].step = 0
      /\ pc[t] \notin {"browse", "apply"} => counts[t].step = 0
  <2>1. CASE pc[t] # "idle"
    BY <2>1, OthersFetchedNothing
  <2>2. CASE pc[t] = "idle"
    <3>1. gate = NoCaller
      BY <2>2 DEF Flush, Refresh, Enter, GateFree, ListPending, FlushDone, FlushFails,
                  RefreshFails
    <3>2. \A u \in Caller : pc[u] = "idle"
      BY <3>1, ServiceAssumption DEF CountersInv, IInv, GateHeld
    <3> QED BY <3>2 DEF CountersInv, NumbersFetched
  <2> QED BY <2>1, <2>2
<1>2. UNCHANGED <<storeVars, server, countVars, trusted>>
  BY DEF Flush, Refresh, Enter, ListPending, FlushDone, FlushFails, RefreshFails, serverVars,
         ForgetCounts
<1>3. /\ \A u \in Caller : u # t => pc'[u] = "idle"
      /\ pc'[t] \in {"idle", "list", "send", "browse"}
      /\ pc[t] \in {"browse", "apply"} => pc'[t] = "idle"
  <2>1. pc \in [Caller -> Phase]
    BY DEF CountersInv, IInv, TypeOK, ThreadTypeOK
  <2>2. \E p \in {"idle", "list", "send", "browse"} : pc' = [pc EXCEPT ![t] = p]
    BY DEF Flush, Refresh, Enter, ListPending, FlushDone, FlushFails, RefreshFails, EndFlush,
           Leave, Go
  <2>3. pc[t] \in {"browse", "apply"} => pc' = [pc EXCEPT ![t] = "idle"]
    BY DEF Flush, Refresh, Enter, ListPending, FlushDone, FlushFails, RefreshFails, Leave
  <2> QED BY <1>1, <2>1, <2>2, <2>3
<1>4. \A u \in Caller : counts'[u].step = 0
  BY <1>1, <1>3 DEF ForgetCounts, NoCounts
<1>5. NumbersFetched' /\ TrustedSent'
  BY <1>3, <1>4, NothingFetched, NothingSent
<1> QED BY <1>2, <1>5, StoreStays DEF Counted

(* A restart forgets what was fetched; the store and the server stay.      *)
LEMMA CrashKeeps ==
    ASSUME CountersInv, Crash, ForgetCounts
    PROVE  Counted'
<1>1. \A u \in Caller : pc'[u] = "idle" /\ counts'[u].step = 0
  BY DEF Crash, ForgetCounts, NoCounts
<1>2. UNCHANGED <<storeVars, server, countVars, trusted>>
  BY DEF Crash, serverVars, ForgetCounts
<1> QED BY <1>1, <1>2, NothingFetched, NothingSent, StoreStays DEF Counted

-----------------------------------------------------------------------------
(* A wish that is sent reaches an article the store knows: its number is   *)
(* what was seen, and moves when the wish is confirmed.                    *)
LEMMA SendKeeps ==
    ASSUME CountersInv, NEW t \in Caller, NEW c \in Cell, ForgetCounts,
           \/ SetReadBatch(t, c) \/ EntryStarred(t, c)
           \/ ToggleStarred(t) /\ c = cell[t]
    PROVE  Counted'
<1>1. /\ pc[t] \in {"send", "toggle"} /\ HasRow(todo[t], c)
      /\ pc'[t] \in {"toggle", "ack"} /\ cell'[t] = c /\ todo' = todo
      /\ UNCHANGED storeVars
      /\ \A d \in Cell : d # c => server'[d] = server[d]
      /\ \A u \in Caller : u # t => pc'[u] = pc[u]
  BY DEF SetReadBatch, EntryStarred, ToggleStarred, Sending, Go, NextForStar, CountersInv,
         IInv, TypeOK, ServerTypeOK, ThreadTypeOK, RowSent
<1>2. todo[t][c].desired \in Val /\ server[c] \in Val
  BY DEF CountersInv, IInv, TypeOK, ServerTypeOK, ThreadTypeOK, Row
<1>3. c \in TrustedCells => server'[c] = IF pc'[t] = "ack" THEN todo[t][c].desired
                                                          ELSE 1 - todo[t][c].desired
  <2>1. CASE SetReadBatch(t, c) \/ EntryStarred(t, c)
    BY <1>2, <2>1 DEF SetReadBatch, EntryStarred, NextForStar, Go, Val, CountersInv, IInv,
                      TypeOK, ServerTypeOK, ThreadTypeOK
  <2>2. CASE ToggleStarred(t) /\ c = cell[t]
    <3>1. pc[t] = "toggle" /\ pc'[t] = "ack" /\ server'[c] = 1 - server[c]
      BY <2>2 DEF ToggleStarred, Go, CountersInv, IInv, TypeOK, ServerTypeOK, ThreadTypeOK
    <3>2. c \in TrustedCells => server[c] = 1 - todo[t][c].desired
      BY <2>2, <3>1 DEF CountersInv, TrustedSent
    <3> QED BY <1>2, <3>1, <3>2 DEF Val
  <2> QED BY <2>1, <2>2
<1>4. HasPending(c) /\ c[1] \in known
  <2>1. todo[t][c].revision \in Nat /\ pending[c].revision \in Nat
    BY DEF CountersInv, IInv, TypeOK, StoreTypeOK, ThreadTypeOK, Row
  <2>2. HasPending(c)
    BY <1>1, <2>1 DEF CountersInv, IInv, RowsListed, HasPending, HasRow
  <2> QED BY <2>2 DEF CountersInv, IInv, WishesKnown
<1>5. UNCHANGED <<countVars, trusted>> /\ TrustedCells' = TrustedCells
  BY DEF ForgetCounts, TrustedCells
<1>6. NumbersStored'
  <2>1. \A d \in Cell : Seen'[d] = Seen[d]
    BY <1>1, <1>4 DEF Seen, storeVars
  <2> QED BY <1>5, <2>1, NumbersStay DEF TrustedCells
<1>7. TrustedSeen'
  <2>1. \A d \in Cell : HasPending(d)' = HasPending(d)
    BY <1>1 DEF HasPending, HasRow, storeVars
  <2> QED BY <1>1, <1>4, <1>5, <2>1 DEF CountersInv, TrustedSeen, TrustedCells, storeVars
<1>8. /\ \A u \in Caller : u # t => pc'[u] = "idle"
      /\ \A u \in Caller : counts[u].step = 0
  BY <1>1, OthersFetchedNothing
<1>9. TrustedSent'
  BY <1>1, <1>3, <1>5, <1>8 DEF TrustedSent
<1>10. NumbersFetched'
  <2>1. \A u \in Caller : counts'[u].step = 0 /\ pc'[u] # "apply"
    BY <1>1, <1>8 DEF ForgetCounts, NoCounts
  <2> QED BY <2>1, NothingFetched
<1> QED BY <1>6, <1>7, <1>9, <1>10 DEF Counted

(* The user only adds wishes: no number and nothing it counts changes.     *)
LEMMA UserKeeps ==
    ASSUME CountersInv, FromUserInterface, UserStep, ForgetCounts
    PROVE  Counted'
<1>1. UNCHANGED <<known, baseline, server, countVars, trusted, threadVars>>
  <2>1. UNCHANGED <<countVars, trusted>>
    BY DEF ForgetCounts
  <2>2. UNCHANGED <<known, baseline, server, threadVars>>
    BY DEF UserStep, MarkRead, ToggleStar, UndoRead, Discard, SetReadManual, SetReadAutomatic,
           SetStarred, Undo, DiscardUndo, serverVars
  <2> QED BY <2>1, <2>2
<1>2. \A c \in Cell : HasPending(c) => HasPending(c)'
  <2>1. \A c \in Cell : WishedFor(c) \/ LeftAlone(c)
    BY UserWishes DEF CountersInv
  <2>2. \A c \in Cell : pending[c].revision \in Nat
    BY DEF CountersInv, IInv, TypeOK, StoreTypeOK, Row
  <2> QED BY <2>1, <2>2 DEF WishedFor, LeftAlone, HasPending, HasRow
<1>3. TrustedCells' = TrustedCells /\ Seen' = Seen
  BY <1>1 DEF TrustedCells, Seen
<1>4. NumbersStored'
  BY <1>1, <1>3, NumbersStay
<1>5. TrustedSeen'
  BY <1>1, <1>2, <1>3 DEF CountersInv, TrustedSeen, TrustedCells
<1>6. TrustedSent'
  BY <1>1, <1>3 DEF CountersInv, TrustedSent, threadVars
<1>7. NumbersFetched'
  <2>1. ASSUME NEW u \in Caller, counts'[u].step # 0 \/ pc'[u] = "apply"
        PROVE  counts'[u] = counts[u] /\ counts[u].step # 0
    BY <1>1, <2>1 DEF ForgetCounts, NoCounts, threadVars, CountersInv, NumbersFetched
  <2>2. (\E u \in Caller : counts'[u].step # 0) => disturbed' = disturbed
    BY DEF ForgetCounts
  <2> QED BY <1>1, <1>3, <2>1, <2>2 DEF CountersInv, NumbersFetched, Undisturbed, threadVars
<1> QED BY <1>4, <1>5, <1>6, <1>7 DEF Counted

(* What others change is no longer trusted.                                *)
LEMMA InterferenceKeeps ==
    ASSUME CountersInv, Interference
    PROVE  Counted'
<1>1. PICK c \in OtherCells : OtherClient(c) /\ Distrust(c)
  BY DEF Interference
<1>2. /\ c \in Cell
      /\ \A d \in Cell : d # c => server'[d] = server[d]
      /\ UNCHANGED <<storeVars, threadVars, countVars, counts>>
  BY <1>1, ServiceAssumption DEF OtherClient, Distrust, CountersInv, IInv, TypeOK, ServerTypeOK
<1>3. /\ trusted'.feeds \subseteq trusted.feeds
      /\ trusted'.starred => trusted.starred
      /\ trusted'.totals \subseteq trusted.totals
      /\ c \notin TrustedCells'
  <2>1. trusted' = [feeds |-> IF c[2] = "read" THEN trusted.feeds \ {FeedOf[c[1]]}
                              ELSE trusted.feeds,
                    starred |-> trusted.starred /\ c[2] = "read",
                    totals |-> {sel \in trusted.totals : c \notin CountedCells(sel)}]
    BY <1>1 DEF Distrust
  <2> QED BY <2>1 DEF TrustedCells
<1>4. TrustedCells' \subseteq TrustedCells
  BY <1>3 DEF TrustedCells
<1>5. \A d \in TrustedCells' : d \in Cell /\ d # c /\ server'[d] = server[d]
  BY <1>2, <1>3 DEF TrustedCells
<1>6. NumbersStored'
  <2>1. \A d \in TrustedCells' : Seen'[d] = Seen[d]
    BY <1>2, <1>5 DEF Seen, storeVars
  <2> QED BY <1>2, <1>3, <2>1, NumbersStay
<1>7. TrustedSeen'
  BY <1>2, <1>4, <1>5 DEF CountersInv, TrustedSeen, storeVars, HasPending, HasRow
<1>8. TrustedSent'
  <2> SUFFICES ASSUME NEW u \in Caller, pc'[u] \in {"toggle", "ack"}, cell'[u] \in TrustedCells'
               PROVE  LET wish == todo'[u][cell'[u]].desired
                      IN  server'[cell'[u]] = IF pc'[u] = "ack" THEN wish ELSE 1 - wish
    BY DEF TrustedSent
  <2>1. pc' = pc /\ cell' = cell /\ todo' = todo
    BY <1>2 DEF threadVars
  <2> QED BY <1>4, <1>5, <2>1 DEF CountersInv, TrustedSent
<1>9. NumbersFetched'
  <2>1. pc' = pc /\ selection' = selection /\ value' = value /\ counts' = counts
    BY <1>2 DEF threadVars
  <2>2. CASE \A u \in Caller : counts[u].step = 0
    BY <2>1, <2>2 DEF CountersInv, NumbersFetched
  <2>3. CASE ~ \A u \in Caller : counts[u].step = 0
    <3>1. disturbed' = disturbed \cup {c}
      BY <1>1, <2>3 DEF Distrust
    <3>2. \A f \in Feed : Undisturbed(ReadCells(Articles(f)))' =>
             /\ Undisturbed(ReadCells(Articles(f)))
             /\ UnreadIn(f, server') = UnreadIn(f, server)
      <4> SUFFICES ASSUME NEW f \in Feed, Undisturbed(ReadCells(Articles(f)))'
                   PROVE  /\ Undisturbed(ReadCells(Articles(f)))
                          /\ UnreadIn(f, server') = UnreadIn(f, server)
        OBVIOUS
      <4>1. c \notin ReadCells(Articles(f)) /\ Undisturbed(ReadCells(Articles(f)))
        BY <3>1 DEF Undisturbed
      <4>2. ReadCells(Articles(f)) \subseteq Cell
        BY DEF ReadCells, Articles, Cell
      <4> DEFINE T == server'
                 U == server
      <4>3. \A d \in ReadCells(Articles(f)) : T[d] = U[d]
        BY <1>2, <4>1, <4>2
      <4> HIDE DEF T, U
      <4>4. UnreadIn(f, T) = UnreadIn(f, U)
        BY <4>3, SameCount
      <4> QED BY <4>1, <4>4 DEF T, U
    <3>3. Undisturbed(StarCells(Entry))' =>
             /\ Undisturbed(StarCells(Entry))
             /\ StarredIn(server') = StarredIn(server)
      <4> SUFFICES ASSUME Undisturbed(StarCells(Entry))'
                   PROVE  /\ Undisturbed(StarCells(Entry))
                          /\ StarredIn(server') = StarredIn(server)
        OBVIOUS
      <4>1. c \notin StarCells(Entry) /\ Undisturbed(StarCells(Entry))
        BY <3>1 DEF Undisturbed
      <4>2. StarCells(Entry) \subseteq Cell
        BY DEF StarCells, Cell
      <4> DEFINE T == server'
                 U == server
      <4>3. \A d \in StarCells(Entry) : T[d] = U[d]
        BY <1>2, <4>1, <4>2
      <4> HIDE DEF T, U
      <4>4. StarredIn(T) = StarredIn(U)
        BY <4>3, SameCount
      <4> QED BY <4>1, <4>4 DEF T, U
    <3>4. \A d \in Cell : d \notin disturbed' \/ d \in TrustedCells' =>
             /\ server'[d] = server[d]
             /\ d \notin disturbed \/ d \in TrustedCells
      BY <1>2, <1>4, <1>5, <3>1
    <3> QED BY <2>1, <3>2, <3>3, <3>4 DEF CountersInv, NumbersFetched
  <2> QED BY <2>2, <2>3
<1> QED BY <1>6, <1>7, <1>8, <1>9 DEF Counted

-----------------------------------------------------------------------------
(* A change of one cell moves the number of its column by as much.         *)
LEMMA OneCellMoves ==
    ASSUME NEW S \in SUBSET Entry, NEW field \in {"read", "starred"}, NEW e \in S,
           NEW T \in [Cell -> Val], NEW U \in [Cell -> Val],
           \A d \in Cell : d # <<e, field>> => U[d] = T[d]
    PROVE  /\ Cardinality(Having(S, field, 1, T)) \in Nat
           /\ Cardinality(Having(S, field, 0, T)) \in Nat
           /\ Cardinality(Having(S, field, 1, U)) \in Nat
           /\ Cardinality(Having(S, field, 0, U)) \in Nat
           /\ Cardinality(Having(S, field, 1, U))
                = Cardinality(Having(S, field, 1, T)) + (U[<<e, field>>] - T[<<e, field>>])
           /\ Cardinality(Having(S, field, 0, U))
                = Cardinality(Having(S, field, 0, T)) - (U[<<e, field>>] - T[<<e, field>>])
<1> DEFINE c == <<e, field>>
           A1 == Having(S, field, 1, T)
           A0 == Having(S, field, 0, T)
           B1 == Having(S, field, 1, U)
           B0 == Having(S, field, 0, U)
<1>1. /\ IsFiniteSet(A1) /\ IsFiniteSet(A0) /\ IsFiniteSet(B1) /\ IsFiniteSet(B0)
      /\ Cardinality(A1) \in Nat /\ Cardinality(A0) \in Nat
      /\ Cardinality(B1) \in Nat /\ Cardinality(B0) \in Nat
  BY HavingFinite, CountersAssumption
<1>2. T[c] \in {0, 1} /\ U[c] \in {0, 1}
  BY DEF Cell, Val
<1>3. ASSUME NEW x \in S, x # e
      PROVE  U[<<x, field>>] = T[<<x, field>>]
  <2>1. <<x, field>> \in Cell /\ <<x, field>> # c
    BY <1>3 DEF Cell
  <2> QED BY <2>1
<1>4. /\ U[c] = T[c] => B1 = A1 /\ B0 = A0
      /\ T[c] = 0 /\ U[c] = 1 => /\ B1 = A1 \cup {e} /\ e \notin A1
                                 /\ A0 = B0 \cup {e} /\ e \notin B0
      /\ T[c] = 1 /\ U[c] = 0 => /\ A1 = B1 \cup {e} /\ e \notin B1
                                 /\ B0 = A0 \cup {e} /\ e \notin A0
  BY <1>2, <1>3 DEF Having
<1> HIDE DEF c, A1, A0, B1, B0
<1>5. CASE U[c] = T[c]
  <2>1. Cardinality(B1) = Cardinality(A1) /\ Cardinality(B0) = Cardinality(A0)
    BY <1>4, <1>5
  <2>2. U[c] - T[c] = 0
    BY <1>2, <1>5
  <2>3. /\ Cardinality(B1) = Cardinality(A1) + (U[c] - T[c])
        /\ Cardinality(B0) = Cardinality(A0) - (U[c] - T[c])
    BY <1>1, <2>1, <2>2
  <2> QED BY <1>1, <2>3 DEF c, A1, A0, B1, B0
<1>6. CASE T[c] = 0 /\ U[c] = 1
  <2>1. /\ Cardinality(B1) = Cardinality(A1) + 1
        /\ Cardinality(A0) = Cardinality(B0) + 1
    BY <1>1, <1>4, <1>6, FS_AddElement
  <2>2. /\ Cardinality(B1) = Cardinality(A1) + (U[c] - T[c])
        /\ Cardinality(B0) = Cardinality(A0) - (U[c] - T[c])
    BY <1>1, <1>6, <2>1
  <2> QED BY <1>1, <2>2 DEF c, A1, A0, B1, B0
<1>7. CASE T[c] = 1 /\ U[c] = 0
  <2>1. /\ Cardinality(A1) = Cardinality(B1) + 1
        /\ Cardinality(B0) = Cardinality(A0) + 1
    BY <1>1, <1>4, <1>7, FS_AddElement
  <2>2. /\ Cardinality(B1) = Cardinality(A1) + (U[c] - T[c])
        /\ Cardinality(B0) = Cardinality(A0) - (U[c] - T[c])
    BY <1>1, <1>7, <2>1
  <2> QED BY <1>1, <2>2 DEF c, A1, A0, B1, B0
<1> QED BY <1>2, <1>5, <1>6, <1>7

(* acknowledge: the numbers move as far as what was seen does.             *)
LEMMA AckMoves ==
    ASSUME CountersInv, FromUserInterface, NEW t \in Caller, AckCounts(t)
    PROVE  NumbersStored'
<1> DEFINE c == cell[t]
           e == c[1]
           m == Moved(c, todo[t][c])
           T == Seen
           U == Seen'
<1>1. /\ c \in Cell /\ e \in Entry /\ e \in known /\ c[2] \in {"read", "starred"}
      /\ todo[t][c].desired \in Val /\ baseline[c] \in Val /\ m \in Int
  BY MovedTyped DEF AckCounts, CountersInv
<1>2. c = <<e, c[2]>>
  BY <1>1 DEF Cell
<1>3. /\ baseline' = [baseline EXCEPT ![c] = todo[t][c].desired]
      /\ UNCHANGED <<known, server, trusted>>
  BY DEF AckCounts, Ack, Acknowledge, serverVars, trustVars
<1>4. T \in [Cell -> Val] /\ U \in [Cell -> Val]
  <2>1. T \in [Cell -> Val] /\ baseline \in [Cell -> Val] /\ server \in [Cell -> Val]
    BY TablesTyped DEF CountersInv, IInv, TypeOK, StoreTypeOK, ServerTypeOK
  <2>2. baseline' \in [Cell -> Val]
    BY <1>1, <1>3, <2>1
  <2> QED BY <1>3, <2>1, <2>2 DEF Seen
<1>5. /\ \A d \in Cell : d # c => U[d] = T[d]
      /\ U[c] - T[c] = m
  <2>1. baseline \in [Cell -> Val]
    BY DEF CountersInv, IInv, TypeOK, StoreTypeOK
  <2> QED BY <1>1, <1>3, <2>1 DEF Seen, Moved
<1>6. /\ \A f \in trusted.feeds : f \in Feed /\ feedUnread[f] = UnreadIn(f, T)
      /\ trusted.starred => starredTotal = StarredIn(T)
      /\ \A sel \in trusted.totals : sel \in Selections /\ totals[sel] = CountIn(sel, T)
  BY DEF CountersInv, CountersTypeOK, NumbersStored
<1>7. /\ feedUnread \in [Feed -> Nat]
      /\ starredTotal \in Nat
      /\ feedUnread' = IF c[2] = "read"
                       THEN [feedUnread EXCEPT ![FeedOf[e]] = AtLeast0(@ - m)]
                       ELSE feedUnread
      /\ starredTotal' = IF c[2] = "starred" THEN AtLeast0(starredTotal + m) ELSE starredTotal
      /\ totals' = [sel \in Selections |-> TotalAfterAck(sel, c, todo[t][c])]
  BY DEF AckCounts, FeedsAfterAck, CountersInv, CountersTypeOK
<1> HIDE DEF c, e, m, T, U
<1>8. ASSUME NEW f \in trusted.feeds
      PROVE  feedUnread'[f] = UnreadIn(f, U)
  <2>1. CASE c[2] = "read" /\ FeedOf[e] = f
    <3>1. e \in Articles(f) /\ Articles(f) \in SUBSET Entry
      BY <1>1, <2>1 DEF Articles
    <3> DEFINE X == Articles(f)
               k == Cardinality(Having(X, "read", 0, T))
               n == Cardinality(Having(X, "read", 0, U))
    <3>2. c = <<e, "read">>
      BY <1>2, <2>1
    <3> HIDE DEF X
    <3>3. k \in Nat /\ n \in Nat /\ n = k - (U[<<e, "read">>] - T[<<e, "read">>])
      BY <1>4, <1>5, <3>1, <3>2, OneCellMoves DEF X
    <3>4. UnreadIn(f, T) = k /\ UnreadIn(f, U) = n
      BY <1>6, NumbersAre DEF X
    <3> HIDE DEF k, n
    <3>5. n = k - m
      BY <1>5, <3>2, <3>3
    <3>6. feedUnread'[f] = AtLeast0(k - m)
      BY <1>6, <1>7, <2>1, <3>4
    <3>7. AtLeast0(n) = n
      BY <3>3, Clamp
    <3> QED BY <3>4, <3>5, <3>6, <3>7
  <2>2. CASE ~(c[2] = "read" /\ FeedOf[e] = f)
    <3>1. feedUnread'[f] = feedUnread[f]
      BY <1>6, <1>7, <2>2
    <3>2. \A d \in ReadCells(Articles(f)) : d \in Cell /\ d # c
      BY <1>2, <2>2 DEF ReadCells, Articles, Cell
    <3>3. UnreadIn(f, T) = UnreadIn(f, U)
      BY <1>5, <3>2, SameCount
    <3> QED BY <1>6, <3>1, <3>3
  <2> QED BY <2>1, <2>2
<1>9. ASSUME trusted.starred
      PROVE  starredTotal' = StarredIn(U)
  <2>1. CASE c[2] = "starred"
    <3> DEFINE k == Cardinality(Having(Entry, "starred", 1, T))
               n == Cardinality(Having(Entry, "starred", 1, U))
    <3>1. c = <<e, "starred">>
      BY <1>2, <2>1
    <3>2. k \in Nat /\ n \in Nat /\ n = k + (U[<<e, "starred">>] - T[<<e, "starred">>])
      BY <1>1, <1>4, <1>5, <3>1, OneCellMoves
    <3>3. StarredIn(T) = k /\ StarredIn(U) = n
      BY NumbersAre
    <3> HIDE DEF k, n
    <3>4. n = k + m
      BY <1>5, <3>1, <3>2
    <3>5. starredTotal' = AtLeast0(k + m)
      BY <1>6, <1>7, <1>9, <2>1, <3>3
    <3>6. AtLeast0(n) = n
      BY <3>2, Clamp
    <3> QED BY <3>3, <3>4, <3>5, <3>6
  <2>2. CASE c[2] # "starred"
    <3>1. \A d \in StarCells(Entry) : d \in Cell /\ d # c
      BY <2>2 DEF StarCells, Cell
    <3>2. StarredIn(T) = StarredIn(U)
      BY <1>5, <3>1, SameCount
    <3> QED BY <1>6, <1>7, <1>9, <2>2, <3>2
  <2> QED BY <2>1, <2>2
<1>10. ASSUME NEW sel \in trusted.totals
       PROVE  totals'[sel] = CountIn(sel, U)
  <2>1. /\ sel \in Selections /\ totals[sel] = CountIn(sel, T) /\ sel.scope \in SUBSET Entry
        /\ sel.starred \in BOOLEAN /\ sel.unreadOnly \in BOOLEAN
    BY <1>6, ServiceAssumption DEF SelectionType
  <2>2. totals[sel] # NoTotal
    BY <2>1, NumbersTyped DEF NoTotal
  <2>3. CASE c[2] = "read" /\ sel.unreadOnly /\ e \in sel.scope
    <3> DEFINE X == sel.scope
               k == Cardinality(Having(X, "read", 0, T))
               n == Cardinality(Having(X, "read", 0, U))
    <3>1. c = <<e, "read">>
      BY <1>2, <2>3
    <3>2. ~sel.starred /\ CountIn(sel, T) = k /\ CountIn(sel, U) = n
      BY <2>1, <2>3, NumbersAre
    <3>3. X \in SUBSET Entry /\ e \in X
      BY <2>1, <2>3
    <3> HIDE DEF X
    <3>4. k \in Nat /\ n \in Nat /\ n = k - (U[<<e, "read">>] - T[<<e, "read">>])
      BY <1>4, <1>5, <3>1, <3>3, OneCellMoves
    <3> HIDE DEF k, n
    <3>5. n = k - m
      BY <1>5, <3>1, <3>4
    <3>6. totals'[sel] = AtLeast0(k - m)
      BY <1>7, <2>1, <2>2, <2>3, <3>2 DEF TotalAfterAck, CountedUnread, m, e
    <3>7. AtLeast0(n) = n
      BY <3>4, Clamp
    <3> QED BY <3>2, <3>5, <3>6, <3>7
  <2>4. CASE c[2] = "starred" /\ sel.starred
    <3> DEFINE k == Cardinality(Having(Entry, "starred", 1, T))
               n == Cardinality(Having(Entry, "starred", 1, U))
    <3>1. c = <<e, "starred">>
      BY <1>2, <2>4
    <3>2. ~sel.unreadOnly /\ CountIn(sel, T) = k /\ CountIn(sel, U) = n
      BY <2>1, <2>4, NumbersAre
    <3>3. k \in Nat /\ n \in Nat /\ n = k + (U[<<e, "starred">>] - T[<<e, "starred">>])
      BY <1>1, <1>4, <1>5, <3>1, OneCellMoves
    <3> HIDE DEF k, n
    <3>4. n = k + m
      BY <1>5, <3>1, <3>3
    <3>5. totals'[sel] = AtLeast0(k + m)
      BY <1>7, <2>1, <2>2, <2>4, <3>2 DEF TotalAfterAck, CountedUnread, m, e
    <3>6. AtLeast0(n) = n
      BY <3>3, Clamp
    <3> QED BY <3>2, <3>4, <3>5, <3>6
  <2>5. CASE /\ ~(c[2] = "read" /\ sel.unreadOnly /\ e \in sel.scope)
             /\ ~(c[2] = "starred" /\ sel.starred)
    <3>1. totals'[sel] = totals[sel]
      BY <1>7, <2>1, <2>2, <2>5 DEF TotalAfterAck, CountedUnread, e
    <3>2. \A d \in CountedCells(sel) : d \in Cell /\ d # c
      BY <1>2, <2>1, <2>5 DEF CountedCells, ReadCells, StarCells, Cell
    <3>3. CountIn(sel, T) = CountIn(sel, U)
      BY <1>5, <3>2, SameCount
    <3> QED BY <2>1, <3>1, <3>3
  <2> QED BY <2>3, <2>4, <2>5
<1>11. trusted' = trusted
  BY <1>3
<1> QED BY <1>8, <1>9, <1>10, <1>11 DEF NumbersStored, U

(* After a confirmation the store has seen what the server has.            *)
LEMMA AckKeeps ==
    ASSUME CountersInv, FromUserInterface, NEW t \in Caller, AckCounts(t)
    PROVE  Counted'
<1> DEFINE c == cell[t]
<1>1. /\ pc[t] = "ack" /\ pc'[t] = "send" /\ c \in Cell
      /\ \A u \in Caller : u # t => pc'[u] = pc[u]
      /\ baseline' = [baseline EXCEPT ![c] = todo[t][c].desired]
      /\ pending' = [pending EXCEPT ![c] = RowAfterAck(c, todo[t][c])]
      /\ UNCHANGED <<known, server, trusted, counts>>
  BY DEF AckCounts, Ack, Acknowledge, Go, serverVars, trustVars, CountersInv, IInv, TypeOK,
         ThreadTypeOK
<1>2. /\ baseline'[c] = todo[t][c].desired
      /\ \A d \in Cell : d # c => baseline'[d] = baseline[d] /\ pending'[d] = pending[d]
  BY <1>1 DEF CountersInv, IInv, TypeOK, StoreTypeOK
<1>3. TrustedCells' = TrustedCells
  BY <1>1 DEF TrustedCells
<1>4. c \in TrustedCells => baseline'[c] = server'[c]
  BY <1>1, <1>2 DEF CountersInv, TrustedSent
<1> HIDE DEF c
<1>5. TrustedSeen'
  <2> SUFFICES ASSUME NEW d \in TrustedCells, d[1] \in known, ~HasPending(d)'
               PROVE  baseline'[d] = server'[d]
    BY <1>1, <1>3 DEF TrustedSeen
  <2>1. CASE d = c
    BY <1>4, <2>1
  <2>2. CASE d # c
    <3>1. d \in Cell /\ pending'[d] = pending[d] /\ baseline'[d] = baseline[d]
      BY <1>2, <2>2 DEF TrustedCells
    <3>2. ~HasPending(d)
      BY <3>1 DEF HasPending, HasRow
    <3> QED BY <1>1, <3>1, <3>2 DEF CountersInv, TrustedSeen
  <2> QED BY <2>1, <2>2
<1>6. /\ \A u \in Caller : u # t => pc'[u] = "idle"
      /\ \A u \in Caller : counts'[u].step = 0
  BY <1>1, OthersFetchedNothing
<1>7. NumbersFetched' /\ TrustedSent'
  <2>1. \A u \in Caller : pc'[u] \in {"idle", "send"}
    BY <1>1, <1>6
  <2> QED BY <1>6, <2>1, NothingFetched, NothingSent
<1> QED BY <1>5, <1>7, AckMoves DEF Counted

-----------------------------------------------------------------------------
(* apply_snapshot: what is fresh is as the server has it, and a total that *)
(* is kept counts the new articles as the server has them.                 *)
LEMMA AppliedCells ==
    ASSUME CountersInv, NEW t \in Caller, ApplyCounts(t)
    PROVE  /\ \A cells : Fresh(t, cells) => \A c \in cells \cap Cell :
                /\ value[t][c] = server[c] /\ c \notin disturbed /\ Seen'[c] = server[c]
                /\ c[1] \in known' => baseline'[c] = server[c]
           /\ \A sel \in trusted.totals :
                (\A c \in CountedCells(sel) : c[1] \in known => baseline'[c] = baseline[c])
                  => \A c \in CountedCells(sel) :
                       /\ c \in TrustedCells /\ Seen'[c] = Seen[c]
                       /\ c[1] \in known' \ known => baseline'[c] = server[c]
<1>1. /\ pc[t] = "apply" /\ server' = server
      /\ known' = known \cup listing[t]
      /\ baseline' = [c \in Cell |-> Observed(c, selection[t], listing[t], value[t])]
  BY DEF ApplyCounts, Apply, ApplySnapshot
<1>2. \A c \in Cell : c \notin disturbed \/ c \in TrustedCells => value[t][c] = server[c]
  BY <1>1 DEF CountersInv, NumbersFetched
<1>3. ASSUME NEW cells, Fresh(t, cells), NEW c \in cells \cap Cell
      PROVE  /\ value[t][c] = server[c] /\ c \notin disturbed /\ Seen'[c] = server[c]
             /\ c[1] \in known' => baseline'[c] = server[c]
  <2>1. c \notin disturbed /\ (c[1] \in known' => baseline'[c] = value[t][c])
    BY <1>3 DEF Fresh
  <2>2. value[t][c] = server[c]
    BY <1>2, <2>1
  <2>3. Seen'[c] = server[c]
    BY <1>1, <2>1, <2>2 DEF Seen
  <2> QED BY <2>1, <2>2, <2>3
<1>4. ASSUME NEW sel \in trusted.totals,
             \A c \in CountedCells(sel) : c[1] \in known => baseline'[c] = baseline[c],
             NEW c \in CountedCells(sel)
      PROVE  /\ c \in TrustedCells /\ Seen'[c] = Seen[c]
             /\ c[1] \in known' \ known => baseline'[c] = server[c]
  <2>1. c \in TrustedCells
    <3>1. trusted.totals \subseteq Selections
      BY DEF CountersInv, CountersTypeOK
    <3> QED BY <3>1, CountedAreCells, CellsOfTrusted
  <2>2. c \in Cell
    BY <2>1 DEF TrustedCells
  <2>3. c[1] \in known' \ known => baseline'[c] = server[c]
    BY <1>1, <1>2, <2>1, <2>2 DEF Observed
  <2>4. Seen'[c] = Seen[c]
    BY <1>1, <1>4, <2>2, <2>3 DEF Seen
  <2> QED BY <2>1, <2>3, <2>4
<1> QED BY <1>3, <1>4

(* The numbers a refresh stores, and the totals it keeps, are right.       *)
LEMMA ApplyMoves ==
    ASSUME CountersInv, FromUserInterface, NEW t \in Caller, ApplyCounts(t)
    PROVE  NumbersStored'
<1> DEFINE sel == selection[t]
           list == listing[t]
           vals == value[t]
           U == Seen'
<1>1. /\ pc[t] = "apply" /\ sel \in Selections /\ counts[t].step = 2
      /\ list = {e \in Entry : Matches(sel, vals, e)}
      /\ feedUnread' = counts[t].feeds
      /\ starredTotal' = IF sel.starred THEN Cardinality(list) ELSE counts[t].starred
      /\ totals' = [totals EXCEPT ![sel] = Cardinality(list)]
  BY DEF ApplyCounts, Apply, FeedsOf, StarredOf, TotalsOf, CountersInv, IInv, Browsed,
         NumbersFetched
<1>2. trusted' = TrustedAfter(t)
  BY DEF ApplyCounts
<1>3. /\ \A f \in Feed : Undisturbed(ReadCells(Articles(f)))
                           => counts[t].feeds[f] = UnreadIn(f, server)
      /\ ~sel.starred /\ Undisturbed(StarCells(Entry)) => counts[t].starred = StarredIn(server)
  BY <1>1 DEF CountersInv, NumbersFetched
<1>4. ASSUME NEW f \in trusted'.feeds
      PROVE  feedUnread'[f] = UnreadIn(f, U)
  <2>1. f \in Feed /\ Fresh(t, ReadCells(Articles(f)))
    BY <1>2 DEF TrustedAfter
  <2>2. ReadCells(Articles(f)) \subseteq Cell
    BY DEF ReadCells, Articles, Cell
  <2>3. \A c \in ReadCells(Articles(f)) : U[c] = server[c] /\ c \notin disturbed
    BY <2>1, <2>2, AppliedCells
  <2>4. Undisturbed(ReadCells(Articles(f)))
    BY <2>3 DEF Undisturbed
  <2> DEFINE T == server
  <2>5. \A c \in ReadCells(Articles(f)) : U[c] = T[c]
    BY <2>3
  <2>6. UnreadIn(f, T) = counts[t].feeds[f]
    BY <1>3, <2>1, <2>4
  <2> HIDE DEF T, U
  <2>7. UnreadIn(f, U) = UnreadIn(f, T)
    BY <2>5, SameCount
  <2> QED BY <1>1, <2>6, <2>7
<1>5. ASSUME trusted'.starred
      PROVE  starredTotal' = StarredIn(U)
  <2>1. Fresh(t, StarCells(Entry))
    BY <1>2, <1>5 DEF TrustedAfter
  <2>2. StarCells(Entry) \subseteq Cell
    BY DEF StarCells, Cell
  <2>3. \A c \in StarCells(Entry) :
           U[c] = server[c] /\ vals[c] = server[c] /\ c \notin disturbed
    BY <2>1, <2>2, AppliedCells
  <2>4. Undisturbed(StarCells(Entry))
    BY <2>3 DEF Undisturbed
  <2> DEFINE T == server
             W == vals
  <2>5. \A c \in StarCells(Entry) : U[c] = T[c] /\ W[c] = U[c]
    BY <2>3
  <2>6. ~sel.starred => counts[t].starred = StarredIn(T)
    BY <1>3, <2>4
  <2>7. sel.starred => Cardinality(list) = CountIn(sel, W)
    BY <1>1 DEF CountIn
  <2> HIDE DEF T, U, W, list, sel
  <2>8. sel.starred => CountIn(sel, W) = StarredIn(W)
    BY <1>1, NumbersAre
  <2>9. StarredIn(U) = StarredIn(T) /\ StarredIn(W) = StarredIn(U)
    BY <2>5, SameCount
  <2> QED BY <1>1, <2>6, <2>7, <2>8, <2>9
<1>6. ASSUME NEW s \in trusted'.totals
      PROVE  totals'[s] = CountIn(s, U)
  <2>1. s \in Selections
    BY <1>2, <1>6 DEF TrustedAfter
  <2>2. CountedCells(s) \subseteq Cell
    <3>1. s.scope \subseteq Entry
      BY <2>1, ServiceAssumption DEF SelectionType
    <3> QED BY <3>1, CellFacts DEF CountedCells
  <2>3. CASE s = sel
    <3>1. Fresh(t, CountedCells(s))
      BY <1>2, <1>6, <2>3 DEF TrustedAfter
    <3>2. \A c \in CountedCells(s) : U[c] = vals[c]
      BY <2>2, <3>1, AppliedCells
    <3> DEFINE W == vals
    <3>3. Cardinality(list) = CountIn(s, W)
      BY <1>1, <2>3 DEF CountIn
    <3>4. \A c \in CountedCells(s) : U[c] = W[c]
      BY <3>2
    <3>5. totals'[s] = Cardinality(list)
      BY <1>1, <2>1, <2>3 DEF CountersInv, CountersTypeOK
    <3> HIDE DEF W, U, list
    <3>6. CountIn(s, U) = CountIn(s, W)
      BY <3>4, SameCount
    <3> QED BY <3>3, <3>5, <3>6
  <2>4. CASE s # sel
    <3>1. s \in trusted.totals
          /\ \A c \in CountedCells(s) : c[1] \in known => baseline'[c] = baseline[c]
      BY <1>2, <1>6, <2>4 DEF TrustedAfter
    <3> DEFINE T == Seen
    <3>2. \A c \in CountedCells(s) : U[c] = T[c]
      BY <3>1, AppliedCells
    <3>3. totals'[s] = totals[s]
      BY <1>1, <2>1, <2>4 DEF CountersInv, CountersTypeOK
    <3>4. totals[s] = CountIn(s, T)
      BY <3>1 DEF CountersInv, NumbersStored
    <3> HIDE DEF T, U
    <3>5. CountIn(s, U) = CountIn(s, T)
      BY <3>2, SameCount
    <3> QED BY <3>3, <3>4, <3>5
  <2> QED BY <2>3, <2>4
<1> HIDE DEF U
<1> QED BY <1>4, <1>5, <1>6 DEF NumbersStored, U

(* And the columns it leaves are the server's where they are trusted.      *)
LEMMA ApplyKeeps ==
    ASSUME CountersInv, FromUserInterface, NEW t \in Caller, ApplyCounts(t)
    PROVE  Counted'
<1>1. /\ pc[t] = "apply" /\ pc' = [pc EXCEPT ![t] = "idle"]
      /\ counts' = [counts EXCEPT ![t] = NoCounts]
      /\ server' = server /\ pending' = pending /\ trusted' = TrustedAfter(t)
  BY DEF ApplyCounts, Apply, ApplySnapshot, Leave
<1>2. \A u \in Caller : pc'[u] = "idle" /\ counts'[u].step = 0
  <2>1. \A u \in Caller : u # t => pc[u] = "idle" /\ counts[u].step = 0
    BY <1>1, OthersFetchedNothing
  <2>2. pc \in [Caller -> Phase] /\ DOMAIN counts = Caller
    BY DEF CountersInv, CountersTypeOK, IInv, TypeOK, ThreadTypeOK
  <2> QED BY <1>1, <2>1, <2>2 DEF NoCounts
<1>3. NumbersFetched' /\ TrustedSent'
  BY <1>2, NothingFetched, NothingSent
<1>4. TrustedSeen'
  <2> SUFFICES ASSUME NEW c \in TrustedCells', c[1] \in known', ~HasPending(c)
               PROVE  baseline'[c] = server[c]
    BY <1>1 DEF TrustedSeen, HasPending, HasRow
  <2>1. c \in Cell /\ c = <<c[1], c[2]>> /\ c[1] \in Entry
    BY DEF TrustedCells, Cell
  <2>2. \/ c[2] = "read" /\ FeedOf[c[1]] \in trusted'.feeds
        \/ c[2] = "starred" /\ trusted'.starred
        \/ \E sel \in trusted'.totals : c \in CountedCells(sel)
    BY DEF TrustedCells
  <2>3. CASE c[2] = "read" /\ FeedOf[c[1]] \in trusted'.feeds
    <3> DEFINE f == FeedOf[c[1]]
    <3>1. Fresh(t, ReadCells(Articles(f)))
      BY <1>1, <2>3 DEF TrustedAfter
    <3>2. c \in ReadCells(Articles(f))
      BY <2>1, <2>3 DEF ReadCells, Articles
    <3> QED BY <2>1, <3>1, <3>2, AppliedCells
  <2>4. CASE c[2] = "starred" /\ trusted'.starred
    <3>1. Fresh(t, StarCells(Entry))
      BY <1>1, <2>4 DEF TrustedAfter
    <3>2. c \in StarCells(Entry)
      BY <2>1, <2>4 DEF StarCells
    <3> QED BY <2>1, <3>1, <3>2, AppliedCells
  <2>5. ASSUME NEW sel \in trusted'.totals, c \in CountedCells(sel)
        PROVE  baseline'[c] = server[c]
    <3>1. CASE sel = selection[t]
      <4>1. Fresh(t, CountedCells(sel))
        BY <1>1, <2>5, <3>1 DEF TrustedAfter
      <4> QED BY <2>1, <2>5, <4>1, AppliedCells
    <3>2. CASE sel # selection[t]
      <4>1. sel \in trusted.totals
            /\ \A d \in CountedCells(sel) : d[1] \in known => baseline'[d] = baseline[d]
        BY <1>1, <2>5, <3>2 DEF TrustedAfter
      <4>2. c \in TrustedCells /\ (c[1] \in known' \ known => baseline'[c] = server[c])
        BY <2>5, <4>1, AppliedCells
      <4>3. c[1] \in known => baseline'[c] = baseline[c] /\ baseline[c] = server[c]
        BY <2>5, <4>1, <4>2 DEF CountersInv, TrustedSeen
      <4> QED BY <4>2, <4>3
    <3> QED BY <3>1, <3>2
  <2> QED BY <2>2, <2>3, <2>4, <2>5
<1> QED BY <1>3, <1>4, ApplyMoves DEF Counted

-----------------------------------------------------------------------------
(* Every step keeps the invariant.                                         *)
LEMMA CountersStep ==
    ASSUME FromUserInterface, CountersInv, [CountersNext]_allVars
    PROVE  CountersInv'
<1>1. IInv'
  BY IInvStep, CountersStepIsServiceStep DEF CountersInv
<1>2. CountersTypeOK'
  BY CountersTypeStep
<1>3. Counted'
  <2>1. CASE UNCHANGED allVars
    BY <2>1 DEF allVars, vars, threadVars, serverVars, storeVars, countVars, trustVars,
       CountersInv, Counted, NumbersStored, TrustedSeen, TrustedSent, NumbersFetched,
       TrustedCells, Seen, Undisturbed, HasPending, HasRow
  <2>2. ASSUME NEW t \in Caller,
               UnreadCounters(t) \/ StarredTotal(t) \/ FetchArticles(t)
        PROVE  Counted'
    BY <2>2, FetchKeeps
  <2>3. ASSUME NEW t \in Caller, ApplyCounts(t) \/ AckCounts(t)
        PROVE  Counted'
    BY <2>3, ApplyKeeps, AckKeeps
  <2>4. ASSUME NEW t \in Caller, Flush(t) \/ OtherFlushStep(t) \/ RefreshFails(t), ForgetCounts
        PROVE  Counted'
    <3>1. CASE \/ Flush(t) \/ ListPending(t) \/ FlushDone(t) \/ FlushFails(t)
               \/ RefreshFails(t)
      BY <2>4, <3>1, QuietKeeps
    <3>2. CASE ToggleStarred(t)
      <4>1. cell[t] \in Cell
        BY <3>2 DEF ToggleStarred, CountersInv, IInv, TypeOK, ThreadTypeOK
      <4> QED BY <2>4, <3>2, <4>1, SendKeeps
    <3>3. CASE \E c \in Cell : SetReadBatch(t, c) \/ EntryStarred(t, c)
      BY <2>4, <3>3, SendKeeps
    <3> QED BY <2>4, <3>1, <3>2, <3>3 DEF OtherFlushStep
  <2>5. ASSUME NEW t \in Caller, NEW sel \in Selections, Refresh(t, sel), ForgetCounts
        PROVE  Counted'
    BY <2>5, QuietKeeps
  <2>6. CASE UserStep /\ ForgetCounts
    BY <2>6, UserKeeps
  <2>7. CASE Interference
    BY <2>7, InterferenceKeeps
  <2>8. CASE Crash /\ ForgetCounts
    BY <2>8, CrashKeeps
  <2> QED BY <2>1, <2>2, <2>3, <2>4, <2>5, <2>6, <2>7, <2>8 DEF CountersNext
<1> QED BY <1>1, <1>2, <1>3 DEF CountersInv, Counted

(* It holds at the start, when no number is trusted.                       *)
LEMMA CountersStart == CountersInit => CountersInv
<1> SUFFICES ASSUME CountersInit PROVE CountersInv
  OBVIOUS
<1>1. IInv
  BY InitIInv DEF CountersInit
<1>2. CountersTypeOK
  <2>1. NoCounts \in [step : 0 .. 2, feeds : [Feed -> Nat], starred : Nat]
    BY DEF NoCounts
  <2>2. counts \in [Caller -> [step : 0 .. 2, feeds : [Feed -> Nat], starred : Nat]]
    <3> HIDE DEF NoCounts
    <3> QED BY <2>1 DEF CountersInit
  <2>3. trusted \in [feeds : SUBSET Feed, starred : BOOLEAN, totals : SUBSET Selections]
    BY DEF CountersInit, Nothing
  <2> QED BY <2>2, <2>3 DEF CountersInit, CountersTypeOK
<1>3. \A t \in Caller : pc[t] = "idle" /\ counts[t].step = 0
  BY DEF CountersInit, Init, ThreadsIdle, NoCounts
<1>4. trusted.feeds = {} /\ ~trusted.starred /\ trusted.totals = {}
  BY DEF CountersInit, Nothing
<1>5. NumbersStored /\ TrustedSeen
  BY <1>4 DEF NumbersStored, TrustedSeen, TrustedCells
<1>6. TrustedSent /\ NumbersFetched
  BY <1>3 DEF TrustedSent, NumbersFetched
<1> QED BY <1>1, <1>2, <1>5, <1>6 DEF CountersInv

-----------------------------------------------------------------------------
(* The counters are laid over the service: what is proved of the service   *)
(* holds of it with its counters.                                          *)
THEOREM CountersKeepTheService == CountersSpec => Spec
<1>1. CountersInit => Init
  BY DEF CountersInit
<1>2. [CountersNext]_allVars => [Next]_vars
  BY CountersStepIsServiceStep
<1> QED BY <1>1, <1>2, PTL DEF CountersSpec, Spec

(* The unread counts of the feeds and the number of starred articles that  *)
(* the browser shows are those the account will have when the pending      *)
(* wishes are done, from an undisturbed refresh on: for any number of      *)
(* articles, feeds, selections, threads and wishes.                        *)
THEOREM CountsExactHolds ==
    ASSUME FromUserInterface
    PROVE  CountersSpec => []CountsExact
<1>1. CountersInit => CountersInv
  BY CountersStart
<1>2. CountersInv /\ [CountersNext]_allVars => CountersInv'
  BY CountersStep
<1>3. CountersInv => CountsExact
  BY FeedShown, StarredShown DEF CountsExact
<1> QED BY <1>1, <1>2, <1>3, PTL DEF CountersSpec

(* So is the total of every selection, each from its own refresh on,       *)
(* whatever the refreshes of other selections store.                       *)
THEOREM TotalsExactHolds ==
    ASSUME FromUserInterface
    PROVE  CountersSpec => []TotalsExact
<1>1. CountersInit => CountersInv
  BY CountersStart
<1>2. CountersInv /\ [CountersNext]_allVars => CountersInv'
  BY CountersStep
<1>3. CountersInv => TotalsExact
  BY TotalShown DEF TotalsExact
<1> QED BY <1>1, <1>2, <1>3, PTL DEF CountersSpec
=============================================================================
