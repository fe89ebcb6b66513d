---------------------------- MODULE MCAlgorithms ----------------------------
(***************************************************************************)
(* An instance of Rules for TLC.                                           *)
(***************************************************************************)
EXTENDS Rules

SomeIds == {-1, 0, 1, 2}
SomeFeedIds == {1, 2}
SomeTitles == {[key |-> 1, case |-> 1], [key |-> 1, case |-> 2], [key |-> 2, case |-> 1]}
SomeCounters == {<<>>, <<1, 2, 4>>, [f \in {2, 3} |-> f]}
Leaf(shown, characters) == [kind |-> shown, alt |-> shown = "img", text |-> characters]
SomeTextNodes ==
    {Leaf(shown, NoText) : shown \in {"br", "block", "inline", "ignored"}}
    \cup {Leaf("text", t) : t \in {<<"a">>, <<" ", "b">>, <<"c", "\n", "d">>, <<" ">>}}
    \cup {Leaf("img", <<"e">>)}
SomeLimits == {0, 1, 3}
SomeSides == 1 .. 40
SomeSizes == {8, 9, 12, 16}
SomeElements ==
    [kind : {"inline"}, width : {-1}, height : {-1}, src : {"http"}, srcset : {<<>>}]
    \cup [kind : {"img"}, width : {1, 3}, height : {-1, 2}, src : {"http"}, srcset : {<<>>}]
    \cup [kind : {"img"}, width : {-1}, height : {-1}, src : Candidates,
          srcset : {<<"none">>, <<"http", "data">>, <<"relative", "none">>}]
Row(feed, time, shown) == [feed_id |-> feed, category_id |-> feed, published |-> time,
                           status |-> shown, starred |-> feed = 1]
SomeRows ==
    {Row(1, time, shown) : time \in {1, 2}, shown \in {"read", "unread"}}
    \cup {Row(2, time, "unread") : time \in {1, 2}}
Chosen(k, id, unreadOnly) == [kind |-> k, id |-> id, unreadOnly |-> unreadOnly]
SomeRowSelections ==
    {Chosen("all", 0, FALSE), Chosen("unread", 0, FALSE), Chosen("starred", 0, FALSE),
     Chosen("feed", 1, TRUE)}
SomeRowLimits == {1, 2}
=============================================================================
