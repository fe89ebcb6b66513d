----------------------------- MODULE MCCounters -----------------------------
(***************************************************************************)
(* An instance of Counters for TLC: two articles, each in a feed of its    *)
(* own.  The user reads one and stars the other, another client reads and  *)
(* unreads the first one too, and refreshes are for the unread articles of *)
(* the first feed and for the starred articles.  The first article is      *)
(* starred and the second one unread all the time.                         *)
(***************************************************************************)
EXTENDS Counters

CONSTANTS e1, e2, t1, f1, f2

TwoEntries == {e1, e2}
OneCaller == {t1}
TwoFeeds == {f1, f2}
OneFeedEach == [e \in Entry |-> IF e = e1 THEN f1 ELSE f2]

FirstUnread == [starred |-> FALSE, unreadOnly |-> TRUE, scope |-> {e1}]
Starred == [starred |-> TRUE, unreadOnly |-> FALSE, scope |-> Entry]
Views == {FirstUnread, Starred}

FirstReadSecondStarred == {<<e1, "read">>, <<e2, "starred">>}
FirstRead == {<<e1, "read">>}

MCInit ==
    CountersInit /\ server[<<e1, "starred">>] = 1 /\ server[<<e2, "read">>] = 0
MCSpec == MCInit /\ [][CountersNext]_allVars
=============================================================================
