------------------------------- MODULE Blocks -------------------------------
(***************************************************************************)
(* The formats that list located blocks: dots.ocr (src/mapping/dots.cpp),  *)
(* Nemotron Parse 2.0 and 3.5 (nemotron.cpp).  A block is                  *)
(* [label, box, body], the body a sequence of markup tokens; a LaTeX table *)
(* and a chart's rows are single tokens of it.                             *)
(***************************************************************************)
EXTENDS Chandra

CONSTANT MaxLatexColumns

(* What a body reads as plain text, and what it holds of one kind. *)
BodyText(body) == FlattenSeq([i \in DOMAIN body |-> body[i].text])
TokensOf(body, kind) == SelectSeq(body, LAMBDA token : token.kind = kind)

(* A page in the making: the writer, the open list and table-of-contents   *)
(* groups, where each block starts, and which blocks are captions.         *)
NewPage(image) ==
    [w |-> NewWriter(image), list |-> NoRef, toc |-> NoRef, starts |-> <<>>, captions |-> <<>>]
StartBlock(p) == [p EXCEPT !.starts = Append(@, BodySize(p.w))]

FinishPage(p, codeOwners) ==
    [ok |-> TRUE, w |-> FinishWriter(LinkAdjacentCaptions(p.w, p.starts, p.captions, codeOwners))]

(* A run of list items shares one group, and so does a table of contents. *)
KeepGroups(p, label) ==
    [p EXCEPT !.list = IF label = "List-item" THEN @ ELSE NoRef,
              !.toc = IF label = "TOC" THEN @ ELSE NoRef]
OpenList(p) ==
    IF p.list # NoRef THEN p
    ELSE LET w == AddGroup(p.w, "list", Body) IN [p EXCEPT !.w = w, !.list = LastGroup(w)]
OpenToc(p) ==
    IF p.toc # NoRef THEN p
    ELSE LET w == AddGroup(p.w, "toc", Body) IN [p EXCEPT !.w = w, !.toc = LastGroup(w)]

BlockLabels ==
    [Text |-> "text", Title |-> "title", Caption |-> "caption", Footnote |-> "footnote",
     Formula |-> "formula", Bibliography |-> "reference"]
      @@ ("Section-header" :> "section_header" @@ "Page-header" :> "page_header"
          @@ "Page-footer" :> "page_footer")
LabelFor(label) == IF label \in DOMAIN BlockLabels THEN BlockLabels[label] ELSE "text"

(* fill_inline: an empty item gets its text from inline markup, if any. *)
FillInline(w, item, body) ==
    LET OrPlain(inline) == IF inline.ok THEN inline.w ELSE SetText(inline.w, item, BodyText(body))
    IN  OrPlain(AddInlineText(w, body, "text", 0, item))

(* The text of a body as an item, or under a parent, by the same rule. *)
AddRich(w, label, box, body, parent) ==
    LET OrPlain(inline) ==
            IF inline.ok THEN inline.w
            ELSE AddText(inline.w, label, box, BodyText(body), IF parent = NoRef THEN Body ELSE parent)
    IN  OrPlain(AddInlineText(w, body, label, box, parent))

PutFilled(p, label, b, parent) ==
    [p EXCEPT !.w = FillInline(AddText(@, label, b.box, <<>>, parent), NextRef(p.w.doc, "texts"), b.body)]
(* A heading, or an item of the open list. *)
PutHeading(p, b) ==
    LET listed == b.label = "List-item"
        q == IF listed THEN OpenList(p) ELSE p
    IN  PutFilled(q, IF listed THEN "list_item" ELSE LabelFor(b.label), b,
                  IF listed THEN q.list ELSE Body)
-----------------------------------------------------------------------------
(* map_dots_json: a block without a usable box is skipped, but remembered. *)
DotsLabel(category) == IF category = "Bibliography" THEN "text" ELSE LabelFor(category)
Fenced(body) == TokensOf(body, "fence") # <<>>

DotsItem(p, b) ==
    CASE b.label = "Table" -> [p EXCEPT !.w = AddHtmlTable(@, ParseMarkup(b.body, "html"), b.box, Body)]
      [] b.label = "Picture" -> [p EXCEPT !.w = AddPicture(@, b.box, Body)]
      [] b.label \in {"Title", "Section-header", "List-item"} -> PutHeading(p, b)
      [] OTHER ->
           [p EXCEPT !.w = IF Fenced(b.body) THEN AddText(@, "code", b.box, BodyText(b.body), Body)
                           ELSE IF b.label = "Formula"
                           THEN AddText(@, "formula", b.box, BodyText(b.body), Body)
                           ELSE AddRich(@, DotsLabel(b.label), b.box, b.body, NoRef)]

DotsBlock(p, b) ==
    LET q == StartBlock(p)
        r == IF b.label = "Caption" THEN [q EXCEPT !.captions = Append(@, Len(q.starts))] ELSE q
    IN  IF b.box = 0 THEN r ELSE DotsItem(KeepGroups(r, b.label), b)

MapDotsJson(blocks, image) ==
    FinishPage(FoldLeft(DotsBlock, NewPage(image), blocks), TRUE)
-----------------------------------------------------------------------------
(* latex_tabular_to_html.  An empty cell under a span belongs to it; one   *)
(* with text ends the span above it.                                       *)
LatexOwner(s) == IF s.col \in DOMAIN s.owners THEN s.owners[s.col] ELSE 0
Spanned(s, r) == LatexOwner(s) # 0 /\ s.cells[LatexOwner(s)].row + s.cells[LatexOwner(s)].rows > r

LatexCell(s, r, raw) ==
    LET cut == IF Spanned(s, r) THEN [s.cells EXCEPT ![LatexOwner(s)].rows = r - s.cells[LatexOwner(s)].row]
               ELSE s.cells
    IN  IF Spanned(s, r) /\ raw.text = <<>> THEN [s EXCEPT !.col = @ + raw.cols]
        ELSE IF s.wide \/ s.col + raw.cols > MaxLatexColumns THEN [s EXCEPT !.wide = TRUE]
        ELSE [s EXCEPT !.cells = Append(cut, [row |-> r] @@ raw),
                       !.owners = [c \in s.col .. s.col + raw.cols - 1 |-> Len(s.cells) + 1] @@ @,
                       !.col = @ + raw.cols]

LatexCells(rows) ==
    LET Row(s, r) == FoldLeft(LAMBDA t, raw : LatexCell(t, r, raw), [s EXCEPT !.col = 0], rows[r])
    IN  FoldLeft(Row, [cells |-> <<>>, owners |-> << >>, col |-> 0, wide |-> FALSE],
                 [r \in DOMAIN rows |-> r])

MarkupToken(kind, tag, attrs, text) ==
    [kind |-> kind, tag |-> tag, attrs |-> attrs, text |-> text, empty |-> FALSE]
OpenToken(tag) == MarkupToken("open", tag, NoAttrs, <<>>)
CloseToken(tag) == MarkupToken("close", tag, NoAttrs, <<>>)

(* Too wide a table is no table. *)
LatexTree(rows) ==
    LET read == LatexCells(rows)
        CellTokens(cell) ==
            <<MarkupToken("open", "td", [NoAttrs EXCEPT !.cols = cell.cols, !.rows = cell.rows], <<>>),
              MarkupToken("text", "", NoAttrs, cell.text), CloseToken("td")>>
        RowTokens(r) ==
            LET cells == SelectSeq(read.cells, LAMBDA cell : cell.row = r)
            IN  <<OpenToken("tr")>> \o FlattenSeq([i \in DOMAIN cells |-> CellTokens(cells[i])])
                  \o <<CloseToken("tr")>>
    IN  ParseMarkup(IF read.wide THEN <<>>
                    ELSE <<OpenToken("table")>> \o FlattenSeq([r \in DOMAIN rows |-> RowTokens(r)])
                           \o <<CloseToken("table")>>, "html")

(* The rows of the first LaTeX table or chart in a body. *)
RowsIn(body, kind) == IF TokensOf(body, kind) = <<>> THEN <<>> ELSE TokensOf(body, kind)[1].rows

(* nemotron_v2_table_cells: trailing empty rows are dropped. *)
LatexSpanCells(rows) ==
    LET Cells(tree) ==
            IF FirstTable(tree) = <<>> THEN <<>>
            ELSE ChandraTableCells(TableOf(Builder(tree, NewWriter("none")), FirstTable(tree)[1])).cells
        LastRow(cells) ==
            FoldLeft(LAMBDA n, cell : IF cell.text = Blank THEN n ELSE Larger(n, cell.endRow), 0, cells)
        Trimmed(cells) == SelectSeq(cells, LAMBDA cell : cell.row < LastRow(cells))
    IN  Trimmed(Cells(LatexTree(rows)))
-----------------------------------------------------------------------------
(* Nemotron Parse writes <x><y> body <x><y><class>; coordinates are tokens *)
(* [kind, at], classes [kind, label].                                      *)
IsCoord(tokens, i) == i \in DOMAIN tokens /\ tokens[i].kind = "coord"
IsClass(tokens, i) == i \in DOMAIN tokens /\ tokens[i].kind = "class"
MarkupIn(tokens) == SelectSeq(tokens, LAMBDA token : token.kind \notin {"coord", "class"})

(* nemotron_v2_regions: a region runs from a coordinate to the first one   *)
(* that a class follows; one that is never closed ends the search.         *)
RECURSIVE V2Regions(_, _)
V2Regions(tokens, from) ==
    LET opens == {i \in from .. Len(tokens) : IsCoord(tokens, i)}
        start == Min(opens)
        ends == {j \in start + 1 .. Len(tokens) : IsCoord(tokens, j) /\ IsClass(tokens, j + 1)}
    IN  IF opens = {} \/ ends = {} THEN <<>>
        ELSE <<[label |-> tokens[Min(ends) + 1].label, box |-> start,
                body |-> MarkupIn(SubSeq(tokens, start, Min(ends)))]>>
               \o V2Regions(tokens, Min(ends) + 2)

V2Label(label) == IF label = "Inline-formula" THEN "formula" ELSE LabelFor(label)

ChartPicture(w, box, rows) ==
    SetTabularChart(AddPicture(w, box, Body), NextRef(w.doc, "pictures"), rows)

V2Item(p, b) ==
    LET q == KeepGroups(p, b.label)
        Listed(l) == [l EXCEPT !.w = AddText(@, "list_item", b.box, BodyText(b.body), l.list)]
    IN  CASE b.label = "List-item" -> Listed(OpenList(q))
          [] b.label = "Table" ->
               [q EXCEPT !.w = AddTable(@, b.box, LatexSpanCells(RowsIn(b.body, "latex")), Body)]
          [] b.label \in {"Picture", "Chart"} ->
               [q EXCEPT !.w = ChartPicture(@, b.box, IF b.label = "Picture" THEN <<>>
                                                      ELSE RowsIn(b.body, "chart"))]
          [] OTHER ->
               [q EXCEPT !.w = AddText(@, V2Label(b.label), b.box, BodyText(b.body), Body)]

MapNemotronParseV2(tokens, image) ==
    [ok |-> TRUE, w |-> FinishWriter(FoldLeft(V2Item, NewPage(image), V2Regions(tokens, 1)).w)]

(* nemotron_v35_blocks: a class ends the segment since the last one; the   *)
(* segment's first and last coordinates are its box.                       *)
V35BlockAt(tokens, j) ==
    LET before == {i \in 1 .. j - 1 : IsClass(tokens, i)}
        coords == {i \in Max(before \cup {0}) + 1 .. j - 1 : IsCoord(tokens, i)}
    IN  IF Cardinality(coords) < 2 THEN <<>>
        ELSE <<[label |-> tokens[j].label,
                box |-> 10 * tokens[Min(coords)].at + tokens[Max(coords)].at,
                body |-> MarkupIn(SubSeq(tokens, Min(coords), Max(coords)))]>>

(* Mutant: a block the model repeats is kept. *)
DistinctAll(blocks) == blocks

Distinct(blocks) ==
    FoldLeft(LAMBDA seen, b : IF b \in ToSet(seen) THEN seen ELSE Append(seen, b), <<>>, blocks)

V35Blocks(tokens) ==
    LET Blocks(j) == IF IsClass(tokens, j) THEN V35BlockAt(tokens, j) ELSE <<>>
    IN  Distinct(FlattenSeq([j \in DOMAIN tokens |-> Blocks(j)]))

LatexTable(w, body, box, parent) == AddHtmlTable(w, LatexTree(RowsIn(body, "latex")), box, parent)

(* chart: one picture per panel that has a table, or else one picture. *)
AddChart(w, b) ==
    LET panels == SelectSeq(TokensOf(b.body, "panel"), LAMBDA t : t.rows # <<>>)
        charts == IF panels = <<>> THEN <<RowsIn(b.body, "chart")>>
                  ELSE [i \in DOMAIN panels |-> panels[i].rows]
    IN  FoldLeft(LAMBDA v, rows : ChartPicture(v, b.box, rows), w, charts)

(* rich_text: what a page header or footer adds is furniture. *)
Furnish(before, w) ==
    LET fresh == SelectSeq([i \in DOMAIN w.entries |-> w.entries[i].ref],
                           LAMBDA ref : ref.kind \in {"texts", "groups"} /\ ref \notin Refs(before.doc))
    IN  FoldLeft(LAMBDA v, ref : SetContentLayer(v, ref, "furniture"), w, fresh)
RichText(w, label, box, body, parent) ==
    LET Layered(v) == IF label \in {"page_header", "page_footer"} THEN Furnish(w, v) ELSE v
    IN  Layered(AddRich(w, label, box, body, parent))

V35Item(p, b) ==
    LET t == OpenToc(p)
        picture == NextRef(p.w.doc, "pictures")
    IN  CASE b.label = "TOC" ->
               [t EXCEPT !.w = IF TokensOf(b.body, "latex") # <<>> THEN LatexTable(@, b.body, b.box, t.toc)
                               ELSE RichText(@, "text", b.box, b.body, t.toc)]
          [] b.label = "Table" -> [p EXCEPT !.w = LatexTable(@, b.body, b.box, Body)]
          [] b.label = "Chart" -> [p EXCEPT !.w = AddChart(@, b)]
          [] b.label = "Picture" ->
               [p EXCEPT !.w = IF b.body = <<>> THEN AddPicture(@, b.box, Body)
                               ELSE RichText(AddPicture(@, b.box, Body), "text", 0, b.body, picture)]
          [] b.label \in {"Title", "Section-header", "List-item"} -> PutHeading(p, b)
          [] b.label \in {"Formula", "Code"} ->
               [p EXCEPT !.w = AddText(@, IF b.label = "Code" THEN "code" ELSE "formula",
                                       b.box, BodyText(b.body), Body)]
          [] OTHER -> [p EXCEPT !.w = RichText(@, LabelFor(b.label), b.box, b.body, NoRef)]

V35Block(p, b) ==
    LET q == KeepGroups(StartBlock(p), b.label)
    IN  V35Item(IF b.label = "Caption" THEN [q EXCEPT !.captions = Append(@, Len(q.starts))] ELSE q, b)

MapNemotronParseV35(tokens, image) ==
    FinishPage(FoldLeft(V35Block, NewPage(image), V35Blocks(tokens)), FALSE)
=============================================================================
