----------------------------- MODULE Selections -----------------------------
(***************************************************************************)
(* What belongs to a selection, which the core decides in three places: as *)
(* the query of GET /v1/entries (remote/miniflux.rs, remote/dto.rs), as a  *)
(* clause over the stored rows (persistence/store.rs) and as predicates of *)
(* the domain (domain/entry.rs).  A refresh takes an article that is in    *)
(* the clause and not in the answer for one that the server has moved out  *)
(* of the selection, so the first two must not differ by anything else.    *)
(*                                                                         *)
(* An article as Miniflux answers it is a record of its feed_id, the       *)
(* nested feed with its id and category, its status and its star.          *)
(***************************************************************************)
EXTENDS Transport, Sorting, FiniteSetsExt

(* browse_filter, in sync.rs and as the client's own function; limit,      *)
(* offset and the order belong to Pagination.                              *)
AnyStatus == {"read", "unread"}
BaseFilterKept(unreadOnly) ==
    [status |-> IF unreadOnly THEN {"unread"} ELSE {}, statuses |-> AnyStatus]
BaseFilter(unreadOnly) ==
    [status |-> IF unreadOnly THEN {"unread"} ELSE {},
     statuses |-> IF unreadOnly THEN {} ELSE AnyStatus]
ClientFilter(unreadOnly, starred, categoryId, feedId) ==
    [base |-> BaseFilter(unreadOnly), starred |-> starred,
     category_id |-> IF categoryId > 0 THEN categoryId ELSE 0,
     feed_id |-> IF feedId > 0 THEN feedId ELSE 0]
BrowseFilter(selection) ==
    [base |-> BaseFilter(IsUnreadOnly(selection)),
     starred |-> selection.kind = "starred",
     category_id |-> IF selection.kind = "category" THEN selection.id ELSE 0,
     feed_id |-> IF selection.kind = "feed" THEN selection.id ELSE 0]

(* EntriesFilter::to_query: a set of values for every key that is given.   *)
ToQuery(filter) ==
    [status |-> filter.base.status \cup filter.base.statuses,
     starred |-> IF filter.starred THEN {"1"} ELSE {},
     category_id |-> IF filter.category_id > 0 THEN {filter.category_id} ELSE {},
     feed_id |-> IF filter.feed_id > 0 THEN {filter.feed_id} ELSE {}]

(* External: Miniflux restricts by every key that is given, repeated ones  *)
(* by any of their values.                                                 *)
ServerLists(query, entry) ==
    /\ query.status = {} \/ entry.status \in query.status
    /\ "1" \in query.starred => entry.starred
    /\ query.category_id = {} \/ entry.feed.category \in query.category_id
    /\ query.feed_id = {} \/ entry.feed.id \in query.feed_id

-----------------------------------------------------------------------------
(* entry_to_domain: the row of an article; a feed id that is left out, so  *)
(* that it decodes as 0, is the nested feed's.                             *)
EntryToDomain(entry) ==
    [feed_id |-> IF entry.feed_id = 0 THEN entry.feed.id ELSE entry.feed_id,
     category_id |-> entry.feed.category,
     status |-> entry.status, starred |-> entry.starred]

(* selection_clause over a stored row, after normalize_selection.          *)
NormalizeSelection(selection) ==
    IF selection.kind \in {"category", "feed"} /\ selection.id <= 0
    THEN [kind |-> "all", id |-> 0, unreadOnly |-> TRUE] ELSE selection
SelectionClause(selection, row) ==
    /\ IsUnreadOnly(selection) => row.status = "unread"
    /\ CASE selection.kind = "starred" -> row.starred
         [] selection.kind = "category" -> row.category_id = selection.id
         [] selection.kind = "feed" -> row.feed_id = selection.id
         [] OTHER -> TRUE

(* Entry::matches_scope, matches_read_state.                               *)
MatchesScope(selection, row) ==
    CASE selection.kind = "category" -> row.category_id = selection.id
      [] selection.kind = "feed" -> row.feed_id = selection.id
      [] OTHER -> TRUE
MatchesReadState(selection, row) == IsUnreadOnly(selection) => row.status = "unread"

(* snapshot_entries: the rows of the clause and the retained ones, by the  *)
(* time they were published, and the first SNAPSHOT_LIMIT of them.  The    *)
(* statement has no second key, so rows of one time come in the order in   *)
(* which SQLite's plan finds them, which may be any.  A retained row adds  *)
(* an OR to the clause, and with that the plan is another one: without it  *)
(* SQLite walks an index by time, with it it collects the rows and sorts.  *)
Plans(rows) == Injection(DOMAIN rows, 1 .. Len(rows))
Published(rows, newestFirst, i, j) ==
    IF newestFirst THEN rows[i].published > rows[j].published
    ELSE rows[i].published < rows[j].published
InOrder(rows, ids, newestFirst, found) ==
    Ranked(ids, {pair \in ids \X ids :
                   \/ Published(rows, newestFirst, pair[1], pair[2])
                   \/ /\ rows[pair[1]].published = rows[pair[2]].published
                      /\ found[pair[1]] < found[pair[2]]})
Clause(rows, selection) == {i \in DOMAIN rows : SelectionClause(selection, rows[i])}
FirstOf(ordered, limit) == SubSeq(ordered, 1, Min({limit, Len(ordered)}))
SnapshotRetainedLast(rows, selection, newestFirst, retain, limit, found) ==
    LET first == FirstOf(InOrder(rows, Clause(rows, selection), newestFirst, found), limit)
    IN  InOrder(rows, Range(first) \cup (retain \cap DOMAIN rows), newestFirst, found)
SnapshotEntries(rows, selection, newestFirst, retain, limit, found) ==
    FirstOf(InOrder(rows, Clause(rows, selection) \cup (retain \cap DOMAIN rows),
                    newestFirst, found), limit)

(* snapshot.rs: the selection that is echoed to the user interface.        *)
SelectionDto(selection) ==
    [selection EXCEPT !.id = IF selection.kind \in {"unread", "starred"} THEN 0 ELSE @]
=============================================================================
