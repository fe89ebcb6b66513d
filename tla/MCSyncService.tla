--------------------------- MODULE MCSyncService ---------------------------
(***************************************************************************)
(* Instances of SyncService for TLC.                                       *)
(***************************************************************************)
EXTENDS SyncService, TLC

CONSTANTS e1, e2, t1, t2

OneEntry == {e1}
TwoEntries == {e1, e2}
OneCaller == {t1}
TwoCallers == {t1, t2}

(* Selections of the user interface: the unread view, the starred view,    *)
(* everything, and the unread articles of the feed of e1.                  *)
Unread == [starred |-> FALSE, unreadOnly |-> TRUE, scope |-> Entry]
Starred == [starred |-> TRUE, unreadOnly |-> FALSE, scope |-> Entry]
All == [starred |-> FALSE, unreadOnly |-> FALSE, scope |-> Entry]
FeedUnread == [starred |-> FALSE, unreadOnly |-> TRUE, scope |-> {e1}]

UnreadAndStarred == {Unread, Starred}
UnreadViews == {Unread, FeedUnread}
OnlyAll == {All}

AllCells == Cell
ReadColumn == ReadCells(Entry)
StarColumn == StarCells(Entry)
Nothing == {}

CallerSymmetry == Permutations(Caller)
=============================================================================
