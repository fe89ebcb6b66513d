------------------------------ MODULE Article ------------------------------
(***************************************************************************)
(* The preview text of an article (rust-core/src/article.rs).              *)
(*                                                                         *)
(* A document is a sequence of nodes in document order; each tells its     *)
(* parent by number, 0 for the document itself.  What the HTML parser      *)
(* makes of a text, and what the names of elements are, is abstracted: an  *)
(* element is a block, ignored, a br, an image, or inline.  Characters are *)
(* members of a set, among them Blank and NewLine.                         *)
(***************************************************************************)
EXTENDS Integers, Sequences, FiniteSetsExt

Blank == " "   NewLine == "\n"   Ellipsis == "..."
Spaces == {Blank, NewLine}
NoText == <<>>

(* append_node_text: a block begins and ends a line.  Nothing below an     *)
(* ignored element is shown.                                               *)
Opening(node) ==
    CASE node.kind = "text" -> node.text
      [] node.kind \in {"br", "block"} -> <<NewLine>>
      [] node.kind = "img" /\ node.alt -> <<Blank>> \o node.text \o <<Blank>>
      [] OTHER -> NoText
Entered(node) == node.kind \notin {"text", "ignored"}
NoClosing(node) == NoText
Closing(node) == IF node.kind = "block" THEN <<NewLine>> ELSE NoText

(* A node's text is followed by that of its siblings.                      *)
ChildrenOf(doc, n) == {c \in DOMAIN doc : doc[c].parent = n}
ChildrenText(doc) ==
    LET text[n \in DOMAIN doc] ==
            LET inside == ChildrenOf(doc, n)
                after == {c \in ChildrenOf(doc, doc[n].parent) : c > n}
            IN  Opening(doc[n].node)
                \o (IF Entered(doc[n].node) /\ inside # {} THEN text[Min(inside)] ELSE NoText)
                \o Closing(doc[n].node)
                \o (IF after # {} THEN text[Min(after)] ELSE NoText)
    IN  IF doc = <<>> THEN NoText ELSE text[Min(ChildrenOf(doc, 0))]

(* split: the parts of a text between separating characters; and join, of  *)
(* the parts that are not empty.                                           *)
Parts(text, separators) ==
    LET parts[k \in 0 .. Len(text)] ==
            IF k = 0 THEN <<NoText>>
            ELSE IF text[k] \in separators THEN Append(parts[k - 1], NoText)
            ELSE [parts[k - 1] EXCEPT ![Len(parts[k - 1])] = Append(@, text[k])]
    IN  parts[Len(text)]
Glued(text, between, part) ==
    IF part = NoText THEN text ELSE IF text = NoText THEN part ELSE text \o <<between>> \o part
Join(parts, between) ==
    LET text[k \in 0 .. Len(parts)] ==
            IF k = 0 THEN NoText ELSE Glued(text[k - 1], between, parts[k])
    IN  text[Len(parts)]

(* collapse_whitespace, normalize_lines, truncate.                         *)
CollapseWhitespace(line) == Join(Parts(line, Spaces), Blank)
Lines(text) ==
    LET lines == Parts(text, {NewLine})
    IN  [i \in DOMAIN lines |-> CollapseWhitespace(lines[i])]
TrimEnd(text) == SubSeq(text, 1, Max({0} \cup {p \in DOMAIN text : text[p] \notin Spaces}))
Truncate(text, limit) ==
    IF limit = 0 \/ Len(text) <= limit THEN text
    ELSE TrimEnd(SubSeq(text, 1, limit - 1)) \o <<Ellipsis>>
NormalizeLines(text, limit) == Truncate(Join(Lines(text), NewLine), limit)

PreviewText(doc, limit) == NormalizeLines(ChildrenText(doc), limit)
=============================================================================
