---------------------------- MODULE ArticleImage ----------------------------
(***************************************************************************)
(* The image of an article (rust-core/src/article.rs, remote/mod.rs).      *)
(*                                                                         *)
(* A document is a sequence of nodes in document order; a node is the      *)
(* number of its parent, 0 for the document itself, and its element.  An   *)
(* element has a kind ("img" for img and source), its sides, an address    *)
(* and the addresses of a srcset.  An address is absolute, relative, of a  *)
(* scheme that shows no image ("data"), or NoUrl.                          *)
(***************************************************************************)
EXTENDS Integers, Sequences, FiniteSetsExt

NoUrl == "none"

(* resolve_image_url_with_base.                                            *)
Resolve(candidate, base) ==
    CASE candidate = "http" -> "http"
      [] candidate = "relative" /\ base -> "joined"
      [] OTHER -> NoUrl

(* srcset_url: the last candidate that is not empty.                       *)
SrcsetUrl(candidates) ==
    LET given == {i \in DOMAIN candidates : candidates[i] # NoUrl}
    IN  IF given = {} THEN NoUrl ELSE candidates[Max(given)]

(* tiny_image: both sides are given and at most 2; positive_dimension      *)
(* takes what is not a number for not given.                               *)
NotGiven == -1
TinySide(element) ==
    \/ element.width # NotGiven /\ element.width <= 2
    \/ element.height # NotGiven /\ element.height <= 2
TinyImage(element) ==
    /\ element.width # NotGiven /\ element.height # NotGiven
    /\ element.width <= 2 /\ element.height <= 2

(* first_image_url: the addresses of a node in the order of                *)
(* IMAGE_ATTRIBUTES, the srcset ones by their last candidate; a node       *)
(* before its children, and these in their order.                          *)
ImageUrl(element, base) ==
    LET own == Resolve(element.src, base)
    IN  IF element.kind # "img" \/ TinyImage(element) THEN NoUrl
        ELSE IF own # NoUrl THEN own ELSE Resolve(SrcsetUrl(element.srcset), base)
FirstImageUrl(doc, base) ==
    LET found[n \in 0 .. Len(doc)] ==
            LET own == IF n = 0 THEN NoUrl ELSE ImageUrl(doc[n].element, base)
                good == {c \in n + 1 .. Len(doc) : doc[c].parent = n /\ found[c].url # NoUrl}
            IN  IF own # NoUrl THEN [node |-> n, url |-> own]
                ELSE IF good # {} THEN found[Min(good)]
                ELSE [node |-> 0, url |-> NoUrl]
    IN  found[0]

(* first_image_enclosure_url, which takes over when the text has no image. *)
FirstEnclosure(enclosures, base) ==
    LET good == {i \in DOMAIN enclosures :
                   enclosures[i].isImage /\ Resolve(enclosures[i].src, base) # NoUrl}
    IN  IF good = {} THEN NoUrl ELSE Resolve(enclosures[Min(good)].src, base)
EntryImage(doc, enclosures, base) ==
    LET found == FirstImageUrl(doc, base)
    IN  IF found.url = NoUrl THEN FirstEnclosure(enclosures, base) ELSE found.url
=============================================================================
