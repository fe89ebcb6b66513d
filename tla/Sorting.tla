------------------------------ MODULE Sorting ------------------------------
(***************************************************************************)
(* Sorting by rank: the members of a finite set in a strict order, which   *)
(* is given as a set of pairs.  It stands for sort_by of the standard      *)
(* library, which is stable, so that its order has what has equal keys by  *)
(* position, and for SQLite's ORDER BY, which has it in any order: there   *)
(* the pairs depend on one that the caller chooses.                        *)
(***************************************************************************)
EXTENDS Integers, FiniteSets

Ranked(S, before) ==
    [p \in 1 .. Cardinality(S) |->
        CHOOSE i \in S : Cardinality({j \in S : <<j, i>> \in before}) = p - 1]
=============================================================================
