------------------------------ MODULE Counters ------------------------------
(***************************************************************************)
(* The numbers of the browser over SyncService: the unread count of every  *)
(* feed, the number of starred articles and the total of every selection   *)
(* (rust-core/src/persistence/store.rs, browse in sync.rs).                *)
(*                                                                         *)
(* The server's numbers are stored by a refresh (remote_unread_count,      *)
(* remote_starred_total, selection_totals), moved by confirmations, and    *)
(* shown after the wishes that are still pending are added.  Nothing else  *)
(* relates them to the articles: they are fetched in other requests than   *)
(* the articles, for other selections, and clamped at 0.                   *)
(***************************************************************************)
EXTENDS SyncService, FiniteSetsExt

CONSTANTS
    Feed,           \* the feeds, all of them in a category
    FeedOf,         \* the feed of an article
    MaxCount        \* bound: a stored number that has drifted upwards

(* The starred selection has neither a feed nor a category.                *)
ASSUME CountersAssumption ==
    /\ IsFiniteSet(Entry)
    /\ FeedOf \in [Entry -> Feed] /\ MaxCount \in Nat
    /\ \A sel \in Selections : sel.starred => sel.scope = Entry

VARIABLES
    feedUnread,     \* feeds.remote_unread_count
    starredTotal,   \* accounts.remote_starred_total
    totals,         \* selection_totals; NoTotal if there is no row
    counts,         \* what a refresh has fetched of the server's numbers
    disturbed,      \* history: cells others changed since a refresh fetched
    trusted         \* history: the numbers that have to be exact

countVars == <<feedUnread, starredTotal, totals>>
trustVars == <<disturbed, trusted>>
allVars == <<vars, countVars, counts, trustVars>>

NoTotal == -1
NoCounts == [step |-> 0, feeds |-> [f \in Feed |-> 0], starred |-> 0]
Nothing == [feeds |-> {}, starred |-> FALSE, totals |-> {}]

Articles(f) == {e \in Entry : FeedOf[e] = f}
AtLeast0(n) == Max({0, n})

(* The numbers as a table of cells has them.                               *)
UnreadIn(f, table) == Cardinality({e \in Articles(f) : table[<<e, "read">>] = 0})
StarredIn(table) == Cardinality({e \in Entry : table[<<e, "starred">>] = 1})
CountIn(sel, table) == Cardinality({e \in Entry : Matches(sel, table, e)})

CountersInit ==
    /\ Init
    /\ feedUnread = [f \in Feed |-> 0]
    /\ starredTotal = 0
    /\ totals = [sel \in Selections |-> NoTotal]
    /\ counts = [t \in Caller |-> NoCounts]
    /\ disturbed = {}
    /\ trusted = Nothing

-----------------------------------------------------------------------------
(* browse: the unread counters first, then the starred total unless the    *)
(* selection is the starred one, then the articles.                        *)
UnreadCounters(t) ==
    /\ pc[t] = "browse" /\ counts[t].step = 0
    /\ counts' = [counts EXCEPT ![t] =
         [step |-> IF selection[t].starred THEN 2 ELSE 1,
          feeds |-> [f \in Feed |-> UnreadIn(f, server)], starred |-> 0]]
    /\ UNCHANGED <<vars, countVars, trustVars>>

StarredTotal(t) ==
    /\ pc[t] = "browse" /\ counts[t].step = 1
    /\ counts' = [counts EXCEPT ![t].step = 2, ![t].starred = StarredIn(server)]
    /\ UNCHANGED <<vars, countVars, trustVars>>

FetchArticles(t) ==
    /\ counts[t].step = 2 /\ Browse(t)
    /\ UNCHANGED <<countVars, counts, trustVars>>

-----------------------------------------------------------------------------
(* The cells that decide whether an article is counted in a selection.     *)
CountedCells(sel) ==
    (IF sel.unreadOnly THEN ReadCells(sel.scope) ELSE {})
        \cup (IF sel.starred THEN StarCells(sel.scope) ELSE {})

(* After a refresh a number is trusted if nobody interfered with its cells *)
(* and the columns of the articles it counts are as the server has them; a *)
(* total that was fetched earlier is if its columns did not move now.      *)
Fresh(t, cells) ==
    \A c \in cells : c \notin disturbed /\ (c[1] \in known' => baseline'[c] = value[t][c])
TrustedAfter(t) ==
    [feeds |-> {f \in Feed : Fresh(t, ReadCells(Articles(f)))},
     starred |-> Fresh(t, StarCells(Entry)),
     totals |-> {sel \in Selections :
        IF sel = selection[t] THEN Fresh(t, CountedCells(sel))
        ELSE sel \in trusted.totals
             /\ \A c \in CountedCells(sel) : c[1] \in known => baseline'[c] = baseline[c]}]

(* apply_snapshot: the numbers of the refresh replace the stored ones.     *)
TotalsKept(t) == IF totals[selection[t]] # NoTotal THEN totals
                 ELSE [totals EXCEPT ![selection[t]] = Cardinality(listing[t])]
TotalsOf(t) == [totals EXCEPT ![selection[t]] = Cardinality(listing[t])]
StarredOf(t) == IF selection[t].starred THEN Cardinality(listing[t]) ELSE counts[t].starred
FeedsOf(t) == counts[t].feeds

ApplyCounts(t) ==
    /\ Apply(t)
    /\ feedUnread' = FeedsOf(t)
    /\ starredTotal' = StarredOf(t)
    /\ totals' = TotalsOf(t)
    /\ counts' = [counts EXCEPT ![t] = NoCounts]
    /\ trusted' = TrustedAfter(t)
    /\ disturbed' = {}

(* acknowledge: a confirmation that changes the column moves the numbers,  *)
(* by what the column was and not by what was wished.                      *)
MovedAsWished(c, sent) == IF sent.desired = 1 THEN 1 ELSE -1
Moved(c, sent) == sent.desired - baseline[c]
CountedUnread(sel, e) == sel.unreadOnly /\ ~sel.starred /\ e \in sel.scope
FeedsAfterAck(c, sent) ==
    IF c[2] = "read"
    THEN [feedUnread EXCEPT ![FeedOf[c[1]]] = AtLeast0(@ - Moved(c, sent))]
    ELSE feedUnread
TotalAfterAck(sel, c, sent) ==
    IF totals[sel] = NoTotal THEN NoTotal
    ELSE IF c[2] = "read" /\ CountedUnread(sel, c[1])
         THEN AtLeast0(totals[sel] - Moved(c, sent))
    ELSE IF c[2] = "starred" /\ sel.starred
         THEN AtLeast0(totals[sel] + Moved(c, sent))
    ELSE totals[sel]

AckCounts(t) ==
    LET c == cell[t]  sent == todo[t][c]
    IN  /\ Ack(t)
        /\ feedUnread' = FeedsAfterAck(c, sent)
        /\ starredTotal' = IF c[2] = "starred" THEN AtLeast0(starredTotal + Moved(c, sent))
                           ELSE starredTotal
        /\ totals' = [sel \in Selections |-> TotalAfterAck(sel, c, sent)]
        /\ \A sel \in Selections : totals'[sel] <= MaxCount
        /\ UNCHANGED <<counts, trustVars>>

-----------------------------------------------------------------------------
(* External: what another client changes is counted right again only after *)
(* a refresh.  A request that takes effect late is one more change of this *)
(* kind: it is left to OtherClient, and no request is abandoned here.      *)
Distrust(c) ==
    /\ disturbed' = IF \A t \in Caller : counts[t].step = 0 THEN {} ELSE disturbed \cup {c}
    /\ trusted' = [feeds |-> IF c[2] = "read" THEN trusted.feeds \ {FeedOf[c[1]]}
                             ELSE trusted.feeds,
                   starred |-> trusted.starred /\ c[2] = "read",
                   totals |-> {sel \in trusted.totals : c \notin CountedCells(sel)}]
    /\ UNCHANGED <<countVars, counts>>

Interference == \E c \in OtherCells : OtherClient(c) /\ Distrust(c)

(* What leaves the numbers alone; a refresh that ends drops what it had.   *)
OtherFlushStep(t) ==
    \/ ListPending(t) \/ ToggleStarred(t) \/ FlushDone(t) \/ FlushFails(t)
    \/ \E c \in Cell : SetReadBatch(t, c) \/ EntryStarred(t, c)

ForgetCounts ==
    /\ counts' = [t \in Caller |-> IF pc'[t] = "idle" THEN NoCounts ELSE counts[t]]
    /\ disturbed' = IF \A t \in Caller : counts'[t].step = 0 THEN {} ELSE disturbed
    /\ UNCHANGED <<countVars, trusted>>

CountersNext ==
    \/ \E t \in Caller :
         \/ UnreadCounters(t) \/ StarredTotal(t) \/ FetchArticles(t)
         \/ ApplyCounts(t) \/ AckCounts(t)
         \/ (Flush(t) \/ OtherFlushStep(t) \/ RefreshFails(t)) /\ ForgetCounts
         \/ \E sel \in Selections : Refresh(t, sel) /\ ForgetCounts
    \/ UserStep /\ ForgetCounts
    \/ Interference
    \/ Crash /\ ForgetCounts

CountersSpec == CountersInit /\ [][CountersNext]_allVars

-----------------------------------------------------------------------------
(* What the browser shows: the stored number and what the pending wishes   *)
(* change of it (pending_read_delta_for_feed, starred_total,               *)
(* selection_pending_delta, local_snapshot).                               *)
Wished(cells) == {c \in cells : c[1] \in known /\ HasPending(c)}
Delta(cells) ==
    Cardinality({c \in Wished(cells) : local[c] > baseline[c]})
        - Cardinality({c \in Wished(cells) : local[c] < baseline[c]})

ShownFeed(f) == AtLeast0(feedUnread[f] - Delta(ReadCells(Articles(f))))
ShownStarred == AtLeast0(starredTotal + Delta(StarCells(Entry)))

PendingDelta(sel) ==
    IF sel.starred THEN Delta(StarCells(Entry))
    ELSE IF sel.unreadOnly THEN -Delta(ReadCells(sel.scope))
    ELSE 0
LocalTotal(sel) == Cardinality({e \in known : Matches(sel, local, e)})
ShownTotal(sel) ==
    IF totals[sel] = NoTotal THEN LocalTotal(sel)
    ELSE Max({LocalTotal(sel), AtLeast0(totals[sel] + PendingDelta(sel))})

-----------------------------------------------------------------------------
(* The state of the account when the wishes that are pending are done.     *)
Wanted == [c \in Cell |-> IF HasPending(c) THEN pending[c].desired ELSE server[c]]

(* The counts of feeds and of starred articles are exact, from a refresh   *)
(* whose requests nobody interfered with on: through wishes, flushes that  *)
(* send, fail and repeat, newer wishes for what is being sent, lost        *)
(* replies, restarts and refreshes of other selections; and whatever went  *)
(* wrong before, such as a number that was clamped.                        *)
CountsExact ==
    /\ \A f \in trusted.feeds : ShownFeed(f) = UnreadIn(f, Wanted)
    /\ trusted.starred => ShownStarred = StarredIn(Wanted)

(* So are the totals of the selections, each from its own refresh on.      *)
TotalsExact == \A sel \in trusted.totals : ShownTotal(sel) = CountIn(sel, Wanted)

-----------------------------------------------------------------------------
(* The inductive invariant behind both, beside IInv.  The cells that the   *)
(* trusted numbers count:                                                  *)
TrustedCells ==
    {c \in Cell : \/ c[2] = "read" /\ FeedOf[c[1]] \in trusted.feeds
                  \/ c[2] = "starred" /\ trusted.starred
                  \/ \E sel \in trusted.totals : c \in CountedCells(sel)}

(* A stored number counts what the store has last seen on the server of    *)
(* the articles it knows, and what the server has of the others.           *)
Seen == [c \in Cell |-> IF c[1] \in known THEN baseline[c] ELSE server[c]]
NumbersStored ==
    /\ \A f \in trusted.feeds : feedUnread[f] = UnreadIn(f, Seen)
    /\ trusted.starred => starredTotal = StarredIn(Seen)
    /\ \A sel \in trusted.totals : totals[sel] = CountIn(sel, Seen)

(* What it has last seen is out of date only where a wish is pending, ...  *)
TrustedSeen ==
    \A c \in TrustedCells : c[1] \in known /\ ~HasPending(c) => baseline[c] = server[c]

(* ... and a wish that is being sent is what the server is about to have,  *)
(* or has when the number moves.                                           *)
TrustedSent ==
    \A t \in Caller :
        pc[t] \in {"toggle", "ack"} /\ cell[t] \in TrustedCells =>
            LET wish == todo[t][cell[t]].desired
            IN  server[cell[t]] = IF pc[t] = "ack" THEN wish ELSE 1 - wish

(* Numbers are fetched inside the gate, and are the server's as long as    *)
(* nobody else changes what they count.                                    *)
Undisturbed(cells) == cells \cap disturbed = {}
NumbersFetched ==
    \A t \in Caller :
        /\ counts[t].step # 0 => pc[t] \in {"browse", "apply"}
        /\ counts[t].step # 0 => \A f \in Feed :
             Undisturbed(ReadCells(Articles(f))) => counts[t].feeds[f] = UnreadIn(f, server)
        /\ counts[t].step = 2 /\ ~selection[t].starred /\ Undisturbed(StarCells(Entry))
             => counts[t].starred = StarredIn(server)
        /\ pc[t] = "apply" =>
             /\ counts[t].step = 2
             /\ \A c \in Cell : c \notin disturbed \/ c \in TrustedCells
                                => value[t][c] = server[c]

CountersTypeOK ==
    /\ feedUnread \in [Feed -> Nat]
    /\ starredTotal \in Nat
    /\ totals \in [Selections -> Nat \cup {NoTotal}]
    /\ counts \in [Caller -> [step : 0 .. 2, feeds : [Feed -> Nat], starred : Nat]]
    /\ disturbed \subseteq Cell
    /\ trusted \in [feeds : SUBSET Feed, starred : BOOLEAN, totals : SUBSET Selections]

CountersInv ==
    /\ IInv
    /\ CountersTypeOK
    /\ NumbersStored
    /\ TrustedSeen
    /\ TrustedSent
    /\ NumbersFetched
=============================================================================
