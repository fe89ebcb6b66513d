----------------------------- MODULE Pagination -----------------------------
(***************************************************************************)
(* fetch_complete_selection (rust-core/src/remote/miniflux.rs): the ids of *)
(* a selection are read page by page behind an ascending-id cursor, and    *)
(* the result is either an error or a set that the store may take as       *)
(* complete (what it does not list is then marked read, or not starred).   *)
(*                                                                         *)
(* The selection changes between pages: articles leave it when another     *)
(* client reads them, new articles with higher ids than all others join    *)
(* it, and old ones join it again when another client marks them unread.   *)
(* A faulty page repeats or reorders articles.                             *)
(***************************************************************************)
EXTENDS Naturals, Sequences, FiniteSets, SequencesExt

CONSTANTS
    LastId,         \* bound: article ids are 1 .. LastId
    PageSize,       \* BROWSE_PAGE_SIZE
    Rejoining       \* whether old articles may join during a fetch

ASSUME PaginationAssumption ==
    /\ LastId \in Nat
    /\ PageSize \in Nat \ {0}
    /\ Rejoining \in BOOLEAN

VARIABLES
    remote,         \* the ids in the selection, on the server
    newest,         \* the highest id the server has given
    phase,          \* "idle", "fetching", "ok" or "error"
    cursor,         \* after_entry_id
    expected,       \* expected_total; 0 before the first page
    firstPage,      \* whether expected_total is still to be set
    collected,      \* the ids in entries
    always          \* history: ids in the selection all through the fetch

vars == <<remote, newest, phase, cursor, expected, firstPage, collected, always>>

Id == 1 .. LastId

Init ==
    /\ newest \in 0 .. LastId
    /\ remote \in SUBSET (1 .. newest)
    /\ phase = "idle"
    /\ cursor = 0 /\ expected = 0 /\ firstPage = TRUE /\ collected = {}
    /\ always = {}

Start ==
    /\ phase = "idle"
    /\ phase' = "fetching"
    /\ always' = remote
    /\ UNCHANGED <<remote, newest, cursor, expected, firstPage, collected>>

-----------------------------------------------------------------------------
(* External: a page lists the next ids behind the cursor; a faulty one     *)
(* lists as many of them, in another order or repeatedly.                  *)
After(S, after) == {id \in S : id > after}
Listed(after) ==
    LET behind == After(remote, after)
    IN  {id \in behind : Cardinality({j \in behind : j < id}) < PageSize}
Pages(after) == [1 .. Cardinality(Listed(after)) -> Listed(after)]

(* last_id: an id has to be larger than the cursor and than the ids before *)
(* it on the page, so that none is listed twice.                           *)
Ascending(after, page) ==
    \A i \in DOMAIN page : page[i] > after /\ \A j \in 1 .. i - 1 : page[i] > page[j]

(* What a page makes of the fetch: a stable and exactly counted result, an *)
(* error, or the need for another page.  Only the first page's total       *)
(* counts.                                                                 *)
VerdictAnyOrder(page, total, count) ==
    IF count > total THEN "error"
    ELSE IF count = total THEN "ok"
    ELSE IF Len(page) < PageSize THEN "error"
    ELSE "fetching"
VerdictAsksAgain(page, total, count) ==
    IF ~Ascending(cursor, page) \/ count > total THEN "error"
    ELSE IF count = total THEN "ok" ELSE "fetching"
Verdict(page, total, count) ==
    IF ~Ascending(cursor, page) \/ count > total THEN "error"
    ELSE IF count = total THEN "ok"
    ELSE IF Len(page) < PageSize THEN "error"
    ELSE "fetching"

(* The cursor of the next page: the last id of this one.                   *)
NextCursor(page) == IF page = <<>> THEN cursor ELSE Last(page)

TakePage(page) ==
    LET total == IF firstPage THEN Cardinality(remote) ELSE expected
        ids == collected \cup ToSet(page)
    IN  /\ phase = "fetching"
        /\ phase' = Verdict(page, total, Cardinality(collected) + Len(page))
        /\ expected' = total
        /\ firstPage' = FALSE
        /\ collected' = ids
        /\ cursor' = NextCursor(page)
        /\ UNCHANGED <<remote, newest, always>>

FetchPage == \E page \in Pages(cursor) : TakePage(page)

PageFails ==
    /\ phase = "fetching"
    /\ phase' = "error"
    /\ UNCHANGED <<remote, newest, cursor, expected, firstPage, collected, always>>

(* External: the selection changes on the server.                          *)
Leaves(id) ==
    /\ phase = "fetching" /\ id \in remote
    /\ remote' = remote \ {id}
    /\ always' = always \ {id}
    /\ UNCHANGED <<newest, phase, cursor, expected, firstPage, collected>>

Joins(id) ==
    /\ phase = "fetching" /\ id \notin remote
    /\ id = newest + 1 \/ (Rejoining /\ id <= newest)
    /\ remote' = remote \cup {id}
    /\ newest' = IF id > newest THEN id ELSE newest
    /\ UNCHANGED <<phase, cursor, expected, firstPage, collected, always>>

Next ==
    \/ Start \/ FetchPage \/ PageFails
    \/ \E id \in Id : Leaves(id) \/ Joins(id)

Spec == Init /\ [][Next]_vars
FairSpec == Spec /\ WF_vars(Start) /\ WF_vars(FetchPage)

-----------------------------------------------------------------------------
(* "Only an exact, fully loaded remote ID set is applied as complete       *)
(* absence information" (SYNC_AND_DATA.md): an article that a successful   *)
(* fetch leaves out was really absent at some moment of the fetch, or the  *)
(* store would mark it read although nobody has read it.                   *)
AbsenceIsReal == phase = "ok" => always \subseteq collected

(* A fetch comes to an end, whatever the server answers.                   *)
FetchEnds == phase = "fetching" ~> phase \in {"ok", "error"}
=============================================================================
