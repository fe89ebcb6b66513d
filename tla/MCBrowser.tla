----------------------------- MODULE MCBrowser -----------------------------
(***************************************************************************)
(* An instance of Browser for TLC: two articles, both in the first view.   *)
(***************************************************************************)
EXTENDS Browser, TLC

CONSTANTS e1, e2, inbox, feed, s1, s2

TwoArticles == {e1, e2}
TwoViews == {inbox, feed}
TwoSlots == {s1, s2}
Symmetry == Permutations(TwoSlots) \cup Permutations(TwoArticles)
OneIsEmpty == [v \in View |-> IF v = inbox THEN TwoArticles ELSE {}]
=============================================================================
