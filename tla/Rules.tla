-------------------------------- MODULE Rules --------------------------------
(***************************************************************************)
(* The pure algorithms of the core against definitions that say what they  *)
(* are for: what belongs to a selection, the list and the navigation, the  *)
(* texts and images of articles, and where an icon is drawn.  A state is   *)
(* an input of one of them: Init enumerates the inputs, and nothing moves. *)
(***************************************************************************)
EXTENDS Selections, Navigation, Localization, Article, ArticleImage, IconImages

CONSTANTS
    Ids,            \* feed and category ids of a selection, bad ones too
    FeedIds,        \* feed and category ids of an article
    Rows,           \* rows of the store, as a snapshot sees them
    MaxRows,        \* bound: rows of the store
    RowSelections,  \* selections of a snapshot
    RowLimits,      \* limits of a snapshot, in place of SNAPSHOT_LIMIT
    Titles,         \* titles of feeds and categories
    UnreadCounters, \* unread counters of feeds, which may miss some
    MaxCategories,  \* bound: categories of a navigation
    MaxFeeds,       \* bound: feeds of a navigation
    MaxTokens,      \* bound: tokens of a template
    TextNodes,      \* nodes of an article's text, as its preview sees them
    MaxNodes,       \* bound: nodes of a text
    Limits,         \* limits of a preview, 0 for none
    Elements,       \* the same, as the search for an image sees them
    MaxElements,    \* bound: elements of a text
    MaxEnclosures,  \* bound: enclosures of an article
    Sides,          \* sides of an image before it is made an icon
    IconSizes       \* sides of an icon, 32 in the program (DEFAULT_SIZE); on
                    \* one below 8 the corners of the surface overlap

Candidates == {NoUrl, "http", "relative", "data"}
ASSUME RulesAssumption ==
    /\ Ids \subseteq Int /\ FeedIds \subseteq Nat \ {0}
    /\ Rows \subseteq [feed_id : FeedIds, category_id : FeedIds, published : Int,
                        status : {"read", "unread"}, starred : BOOLEAN]
    /\ \A sel \in RowSelections :
          sel.kind \in {"all", "unread", "starred", "category", "feed"}
    /\ MaxRows \in Nat /\ RowLimits \subseteq Nat
    /\ Titles \subseteq [key : Nat, case : Nat]
    /\ \A counters \in UnreadCounters : \A id \in DOMAIN counters : counters[id] \in Nat
    /\ MaxCategories \in Nat /\ MaxFeeds \in Nat /\ MaxTokens \in Nat
    /\ TextNodes \subseteq [kind : {"text", "img", "br", "block", "inline", "ignored"},
                             alt : BOOLEAN, text : Seq(STRING)]
    /\ \A node \in TextNodes :
          node.text = NoText \/ node.kind = "text" \/ (node.kind = "img" /\ node.alt)
    /\ MaxNodes \in Nat /\ Limits \subseteq Nat
    /\ Elements \subseteq [kind : {"img", "inline"}, width : Nat \cup {NotGiven},
                            height : Nat \cup {NotGiven}, src : Candidates,
                            srcset : Seq(Candidates)]
    /\ MaxElements \in Nat /\ MaxEnclosures \in Nat
    /\ Sides \subseteq Nat \ {0}
    /\ IconSizes \subseteq Nat /\ \A size \in IconSizes : size >= 8

VARIABLES kind, input

(* Inputs: a selection of the wire and an article as Miniflux answers it.  *)
SelectionInput ==
    \E k \in {"all", "unread", "starred", "category", "feed", "other"}, id \in Ids,
       unreadOnly \in BOOLEAN, feed \in FeedIds, category \in FeedIds,
       status \in {"read", "unread", "removed"}, starred \in BOOLEAN, given \in BOOLEAN :
          input = [dto |-> [kind |-> k, id |-> id, unreadOnly |-> unreadOnly],
                   entry |-> [feed_id |-> IF given THEN feed ELSE 0,
                              feed |-> [id |-> feed, category |-> category],
                              status |-> status, starred |-> starred]]

(* Rows of the store, of which some may be published at the same time, and *)
(* rows that are retained.                                                 *)
SnapshotInput ==
    \E rows \in [1 .. MaxRows -> Rows], retain \in SUBSET (1 .. MaxRows),
       newestFirst \in BOOLEAN, limit \in RowLimits, selection \in RowSelections :
          input = [rows |-> rows, selection |-> selection, retain |-> retain,
                   newestFirst |-> newestFirst, limit |-> limit]

(* Categories of which two may share an id, and feeds with ids of their    *)
(* own in a category that may be unknown.                                  *)
NavigationInput ==
    \E m \in 0 .. MaxCategories, n \in 0 .. MaxFeeds, counters \in UnreadCounters :
    \E ids \in [1 .. m -> FeedIds], names \in [1 .. m -> Titles],
       parents \in [1 .. n -> FeedIds \cup {0}], titles \in [1 .. n -> Titles] :
          input = [categories |-> [i \in 1 .. m |-> [id |-> ids[i], title |-> names[i]]],
                   feeds |-> [f \in 1 .. n |-> [id |-> f, title |-> titles[f],
                                                category_id |-> parents[f]]],
                   counters |-> counters]

TemplateInput == \E n \in 0 .. MaxTokens : \E template \in [1 .. n -> Token] : input = template

(* The nodes of a text in document order: what comes after a node and      *)
(* before another that its parent holds is below that parent, too.         *)
Documents(n) ==
    {parents \in [1 .. n -> 0 .. n] :
        \A i \in 1 .. n :
           /\ parents[i] < i
           /\ \A j \in 1 .. i - 1 : parents[i] < j => parents[j] >= parents[i]}
TextInput ==
    \E n \in 0 .. MaxNodes : \E parents \in Documents(n), nodes \in [1 .. n -> TextNodes],
                               limit \in Limits :
        /\ \A i \in 1 .. n :
             parents[i] # 0 => nodes[parents[i]].kind \in {"block", "inline", "ignored"}
        /\ input = [doc |-> [i \in 1 .. n |-> [parent |-> parents[i], node |-> nodes[i]]],
                    limit |-> limit]
ImageInput ==
    \E n \in 0 .. MaxElements, k \in 0 .. MaxEnclosures, base \in BOOLEAN :
    \E parents \in Documents(n), elements \in [1 .. n -> Elements],
       enclosures \in [1 .. k -> [isImage : BOOLEAN, src : Candidates]] :
        /\ \A i \in 1 .. n : parents[i] # 0 => elements[parents[i]].kind = "inline"
        /\ input = [doc |-> [i \in 1 .. n |-> [parent |-> parents[i], element |-> elements[i]]],
                    base |-> base, enclosures |-> enclosures]

IconInput == \E w \in Sides, h \in Sides, size \in IconSizes :
                input = [w |-> w, h |-> h, size |-> size]
SurfaceInput == \E w \in IconSizes, h \in IconSizes :
                \E x \in 0 .. w - 1, y \in 0 .. h - 1 :
                   input = [w |-> w, h |-> h, x |-> x, y |-> y]

RulesInit ==
    \/ kind = "selection" /\ SelectionInput
    \/ kind = "snapshot" /\ SnapshotInput
    \/ kind = "navigation" /\ NavigationInput
    \/ kind = "template" /\ TemplateInput
    \/ kind = "text" /\ TextInput
    \/ kind = "image" /\ ImageInput
    \/ kind = "icon" /\ IconInput
    \/ kind = "surface" /\ SurfaceInput
Next == UNCHANGED <<kind, input>>
RulesSpec == RulesInit /\ [][Next]_<<kind, input>>

-----------------------------------------------------------------------------
(* A refresh asks the server for exactly what it then looks for among the  *)
(* stored rows, for every selection the wire can carry: otherwise articles *)
(* would be taken for gone (reconcile_complete_selection) that the server  *)
(* was never asked for.  The client's own filter and the domain's          *)
(* predicates agree, and only removed articles are listed by neither.      *)
SelectionsAgree ==
    kind = "selection" =>
        LET sel == Normalize(input.dto)
            row == EntryToDomain(input.entry)
            listed == ServerLists(ToQuery(BrowseFilter(sel)), input.entry)
        IN  /\ listed => SelectionClause(sel, row)
            /\ SelectionClause(sel, row) /\ row.status # "removed" => listed
            /\ SelectionClause(sel, row)
                 <=> /\ MatchesScope(sel, row) /\ MatchesReadState(sel, row)
                     /\ (sel.kind = "starred" => row.starred)
            /\ BrowseFilter(sel) = ClientFilter(IsUnreadOnly(sel), sel.kind = "starred",
                                      IF sel.kind = "category" THEN sel.id ELSE 0,
                                      IF sel.kind = "feed" THEN sel.id ELSE 0)
            /\ NormalizeSelection(sel) = sel /\ Normalize(SelectionDto(sel)) = sel

(* The list that is shown for an input s, and the one that answers a mark  *)
(* of the row i as read or unread: the row is retained from then on        *)
(* (SyncService::mark_read), and SQLite's plan may be another one.         *)
ListShown(s, found) ==
    SnapshotEntries(s.rows, s.selection, s.newestFirst, s.retain, s.limit, found)
ListAfterMark(s, i, status, found) ==
    SnapshotEntries([s.rows EXCEPT ![i].status = status], s.selection,
                    s.newestFirst, s.retain \cup {i}, s.limit, found)

(* The list does not move under the user, but for rows of the same time:   *)
(* a mark of a shown row leaves it as long as it is, with the same times   *)
(* from top to bottom, although retained rows count against the limit; a   *)
(* row leaves it only for one of the same time; and nothing moves at all   *)
(* if SQLite finds the rows in the same order.  The limit cuts off the end.*)
Undisturbed(s, list, next) ==
    LET Time(i) == s.rows[i].published
    IN  /\ Len(next) = Len(list)
        /\ \A p \in DOMAIN list : Time(next[p]) = Time(list[p])
        /\ \A gone \in Range(list) \ Range(next) :
           \E new \in Range(next) \ Range(list) : Time(new) = Time(gone)
CutAtTheEnd(s, list) ==
    \A i \in DOMAIN s.rows \ Range(list) :
        i \in s.retain \/ SelectionClause(s.selection, s.rows[i]) =>
            /\ Len(list) = s.limit
            /\ \A j \in Range(list) : ~Published(s.rows, s.newestFirst, i, j)
StandsStill(s) ==
    LET plans == Plans(s.rows)
    IN  /\ \A found \in plans :
             \A i \in Range(ListShown(s, found)), status \in {"read", "unread"} :
                ListAfterMark(s, i, status, found) = ListShown(s, found)
        /\ \A list \in {ListShown(s, found) : found \in plans} :
             /\ CutAtTheEnd(s, list)
             /\ \A i \in Range(list), status \in {"read", "unread"} :
                \A next \in {ListAfterMark(s, i, status, found) : found \in plans} :
                   Undisturbed(s, list, next)
ListStandsStill == kind = "snapshot" => StandsStill(input)

-----------------------------------------------------------------------------
(* The navigation loses no feed of a known category and shows none twice,  *)
(* the counts of categories and the total add up to the articles of their  *)
(* feeds, and feeds and categories are sorted by title without swapping    *)
(* those whose titles are equal.                                           *)
Sorted(items, original) ==
    \A p, q \in DOMAIN items : p < q =>
        \/ items[p].title.key < items[q].title.key
        \/ /\ items[p].title.key = items[q].title.key
           /\ \E i, j \in DOMAIN original :
                /\ i < j
                /\ original[i].title = items[p].title /\ original[i].id = items[p].id
                /\ original[j].title = items[q].title /\ original[j].id = items[q].id
Articles(feeds, counters) ==
    UNION {{f} \X (1 .. IF f.id \in DOMAIN counters THEN counters[f.id] ELSE 0) : f \in feeds}
Tells(nav, categories, feeds, counters) ==
    LET cats == nav.categories
        given == Range(feeds)
        Shows(i, p, f) == cats[i].feeds[p] = f
        Known(f) == \E i \in DOMAIN cats : cats[i].id = f.category_id
    IN  /\ \A f \in given :
             /\ Known(f) <=> \E i \in DOMAIN cats : \E p \in DOMAIN cats[i].feeds :
                               Shows(i, p, f)
             /\ \A i, j \in DOMAIN cats :
                \A p \in DOMAIN cats[i].feeds, q \in DOMAIN cats[j].feeds :
                   Shows(i, p, f) /\ Shows(j, q, f) => i = j /\ p = q
        /\ \A i \in DOMAIN cats :
             /\ \A f \in Range(cats[i].feeds) : f \in given /\ f.category_id = cats[i].id
             /\ cats[i].unread_count = Cardinality(Articles(Range(cats[i].feeds), counters))
             /\ Sorted(cats[i].feeds, feeds)
        /\ nav.unread_total = Cardinality(Articles({f \in given : Known(f)}, counters))
        /\ Sorted(cats, categories)
NavigationCounts ==
    kind = "navigation" =>
        Tells(BuildNavigation(input.categories, input.feeds, input.counters),
              input.categories, input.feeds, input.counters)

-----------------------------------------------------------------------------
(* A template whose braces are closed says the count wherever it is asked  *)
(* for, and everything else as it is written.                              *)
Read(s, token) ==
    IF ~s.inside
    THEN IF token = Open THEN [inside |-> TRUE, held |-> <<Open>>, out |-> s.out]
         ELSE [inside |-> FALSE, held |-> <<>>, out |-> Append(s.out, token)]
    ELSE IF token = Close
    THEN [inside |-> FALSE, held |-> <<>>,
          out |-> s.out \o (IF s.held = <<Open, Count>> THEN <<Number>>
                            ELSE Append(s.held, Close))]
    ELSE [inside |-> TRUE, held |-> Append(s.held, token), out |-> s.out]
Scan(template) ==
    LET after[k \in 0 .. Len(template)] ==
            IF k = 0 THEN [inside |-> FALSE, held |-> <<>>, out |-> <<>>]
            ELSE Read(after[k - 1], template[k])
    IN  after[Len(template)]
TemplateFilled ==
    kind = "template" /\ ~Scan(input).inside =>
        ApplyCountTemplate(input) = Scan(input).out

-----------------------------------------------------------------------------
(* What a reader sees of a document: the words outside of ignored          *)
(* elements, those of image descriptions included.  Words are on one line  *)
(* if neither a block nor a line break of the document is between them,    *)
(* and are glued together only if the text glues them.                     *)
Inside(doc, n, b) == b <= n /\ \A k \in b + 1 .. n : doc[k].parent >= b
Visible(doc, n) == \A b \in 1 .. n : Inside(doc, n, b) => doc[b].node.kind # "ignored"
Described(doc, n) == doc[n].node.kind = "img" /\ doc[n].node.alt /\ Visible(doc, n)
LineBetween(doc, i, j) ==
    i # j /\ \E b \in DOMAIN doc :
        /\ Visible(doc, b)
        /\ \/ doc[b].node.kind \in {"br", "block"} /\ i < b /\ b < j
           \/ doc[b].node.kind = "block" /\ ~ (Inside(doc, i, b) <=> Inside(doc, j, b))

(* The visible characters of the document one by one, with their nodes,    *)
(* and the black ones of the first p with what is between them.            *)
CharsOf(doc) ==
    LET chars[n \in 0 .. Len(doc)] ==
            IF n = 0 THEN <<>>
            ELSE IF ~Visible(doc, n) THEN chars[n - 1]
            ELSE chars[n - 1] \o [c \in DOMAIN doc[n].node.text |->
                                    [node |-> n, char |-> doc[n].node.text[c]]]
    IN  chars[Len(doc)]
Black(chars, p) == chars[p].char \notin Spaces
Between(doc, chars, p) ==
    LET previous == {q \in 1 .. p - 1 : Black(chars, q)}
        q == Max(previous)
        i == chars[q].node  j == chars[p].node
    IN  IF previous = {} THEN <<>>
        ELSE IF LineBetween(doc, i, j) \/ \E r \in q + 1 .. p - 1 : chars[r].char = NewLine
        THEN <<NewLine>>
        ELSE IF q + 1 < p \/ (i # j /\ \E n \in i .. j : Described(doc, n))
        THEN <<Blank>> ELSE <<>>
Seen(doc) ==
    LET chars == CharsOf(doc)
        seen[p \in 0 .. Len(chars)] ==
            IF p = 0 THEN <<>>
            ELSE IF ~Black(chars, p) THEN seen[p - 1]
            ELSE seen[p - 1] \o Between(doc, chars, p) \o <<chars[p].char>>
    IN  seen[Len(chars)]

(* The preview is what a reader sees, or its beginning and an ellipsis     *)
(* within the limit, of which at most a space is cut off, too.             *)
PreviewIsFaithful ==
    kind = "text" =>
        LET seen == Seen(input.doc)
            shown == PreviewText(input.doc, input.limit)
        IN  IF input.limit = 0 \/ Len(seen) <= input.limit THEN shown = seen
            ELSE \E n \in {input.limit - 1, input.limit - 2} :
                    shown = Append(SubSeq(seen, 1, n), Ellipsis)

-----------------------------------------------------------------------------
(* The image of an article is the first of its text, in document order, of *)
(* a usable size with a usable address, and an enclosure only without one. *)
Usable(candidate, base) == candidate = "http" \/ (candidate = "relative" /\ base)
Offers(element, base) ==
    LET last == {element.srcset[i] : i \in {j \in DOMAIN element.srcset :
                   /\ element.srcset[j] # NoUrl
                   /\ \A k \in DOMAIN element.srcset : k > j => element.srcset[k] = NoUrl}}
    IN  /\ element.kind = "img"
        /\ ~(element.width \in 0 .. 2 /\ element.height \in 0 .. 2)
        /\ \E c \in {element.src} \cup last : Usable(c, base)
FirstImageTaken ==
    kind = "image" =>
        LET base == input.base
            offered == {n \in DOMAIN input.doc : Offers(input.doc[n].element, base)}
        IN  /\ FirstImageUrl(input.doc, base).node = IF offered = {} THEN 0 ELSE Min(offered)
            /\ (EntryImage(input.doc, input.enclosures, base) = NoUrl)
                 <=> offered = {} /\ ~ \E e \in Range(input.enclosures) :
                                         e.isImage /\ Usable(e.src, base)

-----------------------------------------------------------------------------
(* An image of any sides becomes an icon that holds all of it: it fits,    *)
(* fills one side, is centred to a pixel, and keeps its proportions to     *)
(* half a pixel, unless it is so thin that it would vanish.                *)
Apart(a, b) == IF a > b THEN a - b ELSE b - a
ImageFits ==
    kind = "icon" =>
        LET w == input.w  h == input.h  size == input.size
        IN  \A box \in Boxes(w, h, size) :
              /\ box.width \in 1 .. size /\ box.height \in 1 .. size
              /\ size \in {box.width, box.height}
              /\ Apart(box.x, size - box.width - box.x) <= 1
              /\ Apart(box.y, size - box.height - box.y) <= 1
              /\ Min({box.width, box.height}) > 1 =>
                   2 * Apart(box.width * h, box.height * w) <= Max({w, h})

(* The surface of a dark icon is symmetric, leaves the border of the icon  *)
(* free, and covers every pixel the icon is drawn on next to the axes.     *)
SurfaceIsSymmetric ==
    kind = "surface" =>
        LET w == input.w  h == input.h  x == input.x  y == input.y
            Covered(px, py) == Coverage(px, py, w, h)
        IN  /\ Covered(x, y) = Covered(w - 1 - x, y)
            /\ Covered(x, y) = Covered(x, h - 1 - y)
            /\ x = 0 \/ y = 0 => Covered(x, y) = 0
            /\ 2 * x + 1 \in {w, w + 1} /\ y >= Padding(w, h)
                 /\ y < Padding(w, h) + Target(h, w, h) => Covered(x, y) = 16

(* Both, for every size of image and icon (resize_and_encode,              *)
(* dark_mode_variant).                                                     *)
IconFits == ImageFits /\ SurfaceIsSymmetric
=============================================================================
