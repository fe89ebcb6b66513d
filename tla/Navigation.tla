----------------------------- MODULE Navigation -----------------------------
(***************************************************************************)
(* The tree of categories and feeds a refresh stores and the browser shows *)
(* (rust-core/src/domain/navigation.rs): feeds under their category, the   *)
(* unread counts of both, each level sorted by title.                      *)
(*                                                                         *)
(* A title is a number, its text in lower case, and the letter case it is  *)
(* written in; titles are compared by the number.                          *)
(***************************************************************************)
EXTENDS Sorting, Sequences

(* sort_by_title, of the items at some positions: sort_by is stable, so    *)
(* what has equal keys keeps the order it was given in.                    *)
BeforeAnyOrder(items, i, j) ==
    items[i].title.key < items[j].title.key
        \/ (items[i].title.key = items[j].title.key /\ i > j)
Before(items, i, j) ==
    items[i].title.key < items[j].title.key
        \/ (items[i].title.key = items[j].title.key /\ i < j)
SortByTitle(items, positions) ==
    LET ranked == Ranked(positions, {pair \in positions \X positions :
                                       Before(items, pair[1], pair[2])})
    IN  [p \in DOMAIN ranked |-> items[ranked[p]]]

(* A later category of the same id takes the place of an earlier one.      *)
HasParent(categories, feed) == \E i \in DOMAIN categories : categories[i].id = feed.category_id
Parent(categories, feed) ==
    CHOOSE i \in DOMAIN categories :
        /\ categories[i].id = feed.category_id
        /\ \A j \in DOMAIN categories : categories[j].id = feed.category_id => j <= i

(* The positions of the feeds of a category and of all that are not        *)
(* skipped because they have no known category, and what they add up to.   *)
UnreadOf(counters, feed) == IF feed.id \in DOMAIN counters THEN counters[feed.id] ELSE 0
Counted(categories, feeds) == {f \in DOMAIN feeds : HasParent(categories, feeds[f])}
FeedsOf(categories, feeds, i) ==
    {f \in Counted(categories, feeds) : Parent(categories, feeds[f]) = i}
Total(counters, feeds, positions) ==
    LET sum[n \in 0 .. Len(feeds)] ==
            IF n = 0 THEN 0
            ELSE sum[n - 1] + IF n \in positions THEN UnreadOf(counters, feeds[n]) ELSE 0
    IN  sum[Len(feeds)]

BuildNavigation(categories, feeds, counters) ==
    LET Node(i) == [id |-> categories[i].id, title |-> categories[i].title,
                    unread_count |-> Total(counters, feeds, FeedsOf(categories, feeds, i)),
                    feeds |-> SortByTitle(feeds, FeedsOf(categories, feeds, i))]
        nodes == [i \in DOMAIN categories |-> Node(i)]
    IN  [categories |-> SortByTitle(nodes, DOMAIN nodes),
         unread_total |-> Total(counters, feeds, Counted(categories, feeds))]
=============================================================================
