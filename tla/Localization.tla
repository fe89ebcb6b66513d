---------------------------- MODULE Localization ----------------------------
(***************************************************************************)
(* The count in a message of the core (rust-core/src/localization.rs).     *)
(*                                                                         *)
(* A template is a sequence of tokens: Open and Close stand for the two    *)
(* braces, Count for ".Count" and any blanks around it, Text for the rest. *)
(***************************************************************************)
EXTENDS Integers, Sequences

Open == "{{"   Close == "}}"   Count == ".Count"   Text == "text"   Number == "number"
Token == {Open, Close, Count, Text}

(* apply_count_template, from the first token on.  What is between braces  *)
(* is replaced if it is the count, and kept with its braces if not; braces *)
(* that are never closed are written, and then the rest once more.         *)
FindFrom(token, template, i) ==
    LET places == {p \in i .. Len(template) : template[p] = token}
    IN  IF places = {} THEN 0 ELSE CHOOSE p \in places : \A q \in places : p <= q
Slice(template, i, j) == SubSeq(template, i, j)

AfterClosedTwice(close) == close
AfterClosed(close) == close + 1
ApplyCountTemplate(template) ==
    LET n == Len(template)
        filled[i \in 1 .. n + 1] ==
            LET open == FindFrom(Open, template, i)
                close == IF open = 0 THEN 0 ELSE FindFrom(Close, template, open)
                inner == Slice(template, open + 1, close - 1)
                rest == Slice(template, i, n)
            IN  IF open = 0 THEN rest
                ELSE IF close = 0 THEN rest \o rest
                ELSE Slice(template, i, open - 1)
                     \o (IF inner = <<Count>> THEN <<Number>> ELSE Slice(template, open, close))
                     \o filled[AfterClosed(close)]
    IN  filled[1]
=============================================================================
