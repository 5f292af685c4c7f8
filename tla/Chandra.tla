------------------------------ MODULE Chandra ------------------------------
(***************************************************************************)
(* Chandra layout HTML (src/mapping/chandra.cpp), also the builder that    *)
(* other layout formats hand their HTML fragments to.  A builder's state   *)
(* is the tree, the writer, the provenances already claimed and what the   *)
(* picture being walked skips; a context is the parent, the provenance and *)
(* the label of what is walked.  A box is named by the node it stands on.  *)
(***************************************************************************)
EXTENDS Layout, MarkupTree

LayoutLabel ==
    [Title |-> "title", Caption |-> "caption", Footnote |-> "footnote",
     Bibliography |-> "reference"]
      @@ ("Section-Header" :> "section_header" @@ "Page-Header" :> "page_header"
          @@ "Page-Footer" :> "page_footer" @@ "Equation-Block" :> "formula"
          @@ "Code-Block" :> "code")
LayoutLabelOf(name) == IF name \in DOMAIN LayoutLabel THEN LayoutLabel[name] ELSE "text"

PictureLabels == {"Figure", "Image", "Diagram", "Chemical-Block"}
NotTextOwners == PictureLabels \cup {"Table", "List-Group", "Form"}
HeadingTags == {"h1", "h2"}
Unseen == {"script", "style", "head"}

(* A block's box, handed to the first item that claims it. *)
NoProv == [id |-> 0, box |-> 0, owner |-> FALSE]
BoxFor(s, prov) == IF prov.id \in s.claimed THEN 0 ELSE prov.box
TextProv(prov) == IF prov.owner THEN prov ELSE NoProv

(* Mutant: every item of a block gets its box. *)
ClaimNever(s, prov) == s

Claim(s, prov) == [s EXCEPT !.claimed = @ \cup {prov.id}]

Builder(tree, w) ==
    [tree |-> tree, w |-> w, claimed |-> {}, skip |-> [img |-> FALSE, chem |-> FALSE]]
Context(parent, prov, label) == [parent |-> parent, prov |-> prov, label |-> label]
Tag(s, n) == TagOf(s.tree, n)
Attrs(s, n) == s.tree.nodes[n].attrs
IsLayoutBlock(s, n) == Attrs(s, n).label # "" \/ Attrs(s, n).box # "none"
-----------------------------------------------------------------------------
(* Inline runs [label, style, text].  A style is the set of tags that set  *)
(* it; <b> stands for <strong> as well, and so on.                         *)
Run(label, style, text) == [label |-> label, style |-> style, text |-> text]
Styled(style, tag) ==
    IF tag \in {"sup", "sub"} THEN (style \ {"sup", "sub"}) \cup {tag}
    ELSE IF tag \in {"b", "i", "u", "s", "a"} THEN style \cup {tag} ELSE style
Inputs == {"checkbox", "field_value"}

RECURSIVE InlineRuns(_, _, _)
InlineRuns(s, n, inherited) ==
    LET tag == Tag(s, n)
        style == Styled(inherited, tag)
        text == AllText(s.tree, n)
        type == Attrs(s, n).type
    IN  CASE IsText(s.tree, n) -> <<Run("text", style, text)>>
          [] tag = "input" ->
               IF type = "hidden" THEN <<>>
               ELSE <<Run(IF type = "checkbox" THEN "checkbox" ELSE "field_value", style, <<>>)>>
          [] tag = "math" -> <<Run("formula", style, text)>>
          [] tag = "code" -> <<Run("code", style, text)>>
          [] tag = "br" -> <<Run("text", style, <<>>)>>
          [] tag \in Unseen \/ (s.skip.chem /\ tag = "chem") -> <<>>
          [] OTHER -> LET kids == Kids(s.tree, n)
                      IN  FlattenSeq([i \in DOMAIN kids |-> InlineRuns(s, kids[i], style)])

(* Neighbouring text of one style is one run; empty runs are dropped,      *)
(* except inputs.                                                          *)
MergeRun(runs, run) ==
    IF /\ runs # <<>> /\ run.label = "text"
       /\ Last(runs).label = "text" /\ Last(runs).style = run.style
    THEN [runs EXCEPT ![Len(runs)].text = @ \o run.text] ELSE Append(runs, run)
KeptRuns(runs) ==
    SelectSeq(FoldLeft(MergeRun, <<>>, runs),
              LAMBDA run : run.text # <<>> \/ run.label \in Inputs)

(* A formula block whose other runs are only punctuation is one formula. *)
Punctuation == 0
AllMath(runs) ==
    \A i \in DOMAIN runs :
        runs[i].label = "formula" \/ ToSet(runs[i].text) \subseteq {Punctuation}
JoinRuns(runs) ==
    <<Run("formula", {}, FlattenSeq([i \in DOMAIN runs |-> runs[i].text]))>>

PutItem(s, label, prov, text, parent, layer) ==
    LET Layered(w) == SetContentLayer(w, LastText(w), layer)
    IN  [Claim(s, prov) EXCEPT !.w = Layered(AddText(@, label, BoxFor(s, prov), text, parent))]

(* Several runs make an inline group, under an item that carries the label *)
(* and the box unless the label is plain text.                             *)
OpenInline(s, c, label, layer) ==
    LET Grouped(t, parent) == [t EXCEPT !.w = AddGroup(@, "inline", parent)]
        Layered(t) == [t EXCEPT !.w = SetContentLayer(@, LastGroup(@), layer)]
        plain == label = "text"
    IN  Layered(Grouped(IF plain THEN s ELSE PutItem(s, label, TextProv(c.prov), <<>>, c.parent, layer),
                        IF plain THEN c.parent ELSE NextRef(s.w.doc, "texts")))

(* A single run of plain text fills the empty item it would go under. *)
Fills(s, parent, label) ==
    /\ label = "text" /\ parent.kind = "texts"
    /\ ChildCount(s.w, parent) = 0 /\ TextOf(s.w, parent) = <<>>

PutRun(s, run, parent, c, label, single, layer) ==
    LET own == IF run.label = "text" /\ single THEN label ELSE run.label
    IN  IF single /\ Fills(s, parent, own)
        THEN [s EXCEPT !.w = SetText(@, parent, run.text)]
        ELSE PutItem(s, own, IF own = label THEN TextProv(c.prov) ELSE NoProv,
                      run.text, parent, layer)

EmitKept(s, kept, c, label, layer) ==
    LET single == Len(kept) = 1
        parent == IF single THEN c.parent ELSE NextRef(s.w.doc, "groups")
    IN  IF kept = <<>> THEN s
        ELSE FoldLeft(LAMBDA t, run : PutRun(t, run, parent, c, label, single, layer),
                      IF single THEN s ELSE OpenInline(s, c, label, layer), kept)

EmitJoined(s, all, c) ==
    LET formula == Len(all) > 1 /\ c.label = "formula"
    IN  EmitKept(s, IF formula /\ AllMath(all) THEN JoinRuns(all) ELSE all, c,
                 IF formula /\ ~AllMath(all) THEN "text" ELSE c.label,
                 IF c.label \in {"page_header", "page_footer"} THEN "furniture" ELSE "body")

(* emit_runs *)
EmitRuns(s, runs, c) == EmitJoined(s, KeptRuns(runs), c)
-----------------------------------------------------------------------------
RECURSIVE BuildBlock(_, _, _)

(* Inline nodes hold no block, locate nothing and are no pictures. *)
InlineNode(s, n) ==
    \/ IsText(s.tree, n)
    \/ /\ Tag(s, n) \notin HtmlBlockTags \cup {"img", "chem"} /\ ~IsLayoutBlock(s, n)
       /\ ~(Tag(s, n) = "math" /\ Attrs(s, n).type = "block")
       /\ ~HasBelow(s.tree, n, HtmlBlockTags)

(* Inside a picture: described, not content. *)
Skipped(s, n) ==
    \/ s.skip.img /\ Tag(s, n) = "img"
    \/ s.skip.chem /\ Tag(s, n) = "chem"

(* walk: runs of inline nodes are emitted where a block ends them. *)
Emitted(acc, c) == EmitRuns(acc.s, acc.runs, c)
WalkNode(acc, n, c) ==
    IF Skipped(acc.s, n) THEN acc
    ELSE IF InlineNode(acc.s, n) THEN [acc EXCEPT !.runs = @ \o InlineRuns(acc.s, n, {})]
    ELSE [s |-> BuildBlock(Emitted(acc, c), n, c), runs |-> <<>>]
Walk(s, nodes, c) ==
    Emitted(FoldLeft(LAMBDA acc, n : WalkNode(acc, n, c), [s |-> s, runs |-> <<>>], nodes), c)
WalkChildren(s, n, c) == Walk(s, Kids(s.tree, n), c)
Plain(parent) == Context(parent, NoProv, "text")

(* The items of a list: [list, nodes], a nested list or an item's content. *)
(* Without <ul> or <ol>, what lies between items is an item too, unless it *)
(* is blank and comes last.                                                *)
Unit(list, nodes) == [list |-> list, nodes |-> nodes]
BlankNode(s, n) == IsText(s.tree, n) /\ s.tree.nodes[n].text = <<>>
OwnContent(s, n) == IF Tag(s, n) \in {"li", "p"} THEN Kids(s.tree, n) ELSE <<n>>

ListedUnits(s, n) ==
    LET nodes == SelectSeq(Kids(s.tree, n), LAMBDA k : ~BlankNode(s, k))
    IN  [i \in DOMAIN nodes |-> IF Tag(s, nodes[i]) \in {"ul", "ol"} THEN Unit(nodes[i], <<>>)
                                ELSE Unit(0, OwnContent(s, nodes[i]))]

LooseUnits(s, n) ==
    LET Gathered(acc) == IF acc.loose = <<>> THEN acc.units ELSE Append(acc.units, Unit(0, acc.loose))
        Ended(end) == IF \A k \in ToSet(end.loose) : BlankNode(s, k) THEN end.units ELSE Gathered(end)
        Step(acc, k) ==
            IF Tag(s, k) \in {"li", "p", "br"}
            THEN [units |-> Gathered(acc) \o (IF Tag(s, k) = "br" THEN <<>>
                                              ELSE <<Unit(0, OwnContent(s, k))>>),
                  loose |-> <<>>]
            ELSE [acc EXCEPT !.loose = Append(@, k)]
    IN  Ended(FoldLeft(Step, [units |-> <<>>, loose |-> <<>>], Kids(s.tree, n)))

RECURSIVE BuildList(_, _, _)
PutUnit(s, unit, group) ==
    IF unit.list # 0 THEN BuildList(s, unit.list, group)
    ELSE Walk([s EXCEPT !.w = AddText(@, "list_item", 0, <<>>, group)], unit.nodes,
              Plain(NextRef(s.w.doc, "texts")))
BuildList(s, n, parent) ==
    LET group == NextRef(s.w.doc, "groups")
    IN  FoldLeft(LAMBDA t, unit : PutUnit(t, unit, group), [s EXCEPT !.w = AddGroup(@, "list", parent)],
                 IF Tag(s, n) \in {"ul", "ol"} THEN ListedUnits(s, n) ELSE LooseUnits(s, n))

(* The rows of a table, as chandra_table_cells finds them. *)
RowsOf(s, n) == SelectSeq(Kids(s.tree, n), LAMBDA k : Tag(s, k) = "tr")
RowCells(s, row) ==
    LET cells == SelectSeq(Kids(s.tree, row), LAMBDA k : Tag(s, k) \in {"td", "th"})
    IN  [i \in DOMAIN cells |->
            [colspan |-> Attrs(s, cells[i]).cols, rowspan |-> Attrs(s, cells[i]).rows,
             text |-> Len(AllText(s.tree, cells[i])), id |-> cells[i]]]
TableOf(s, n) ==
    LET parts == SelectSeq(Kids(s.tree, n), LAMBDA k : Tag(s, k) \in {"tr", "tbody"})
        Part(k) == LET rows == IF Tag(s, k) = "tr" THEN <<k>> ELSE RowsOf(s, k)
                   IN  [tag |-> Tag(s, k), rows |-> [r \in DOMAIN rows |-> RowCells(s, rows[r])]]
    IN  [i \in DOMAIN parts |-> Part(parts[i])]

IsRich(s, n) == \E k \in ToSet(ElementsBelow(s.tree, n)) : Tag(s, k) # "span"
IsCaption(s, n) ==
    Tag(s, n) \in {"caption", "figcaption"} \/ Attrs(s, n).label \in {"Caption", "Footnote"}

(* A rich cell's content is a group of the table's, and the cell, if the   *)
(* caps keep it, refers to it.                                             *)
Referred(rich, s, at) ==
    [s |-> s, rich |-> rich \cup (IF ChildCount(s.w, at[3]) > 0 THEN {at} ELSE {})]
PutCell(acc, table, cell, n) ==
    LET group == NextRef(acc.s.w.doc, "groups")
    IN  IF ~IsRich(acc.s, n) THEN acc
        ELSE Referred(acc.rich, WalkChildren([acc.s EXCEPT !.w = AddGroup(@, "group", table)], n,
                                             Plain(group)),
                      <<cell.row, cell.col, group>>)
RichCells(s, table, read) ==
    FoldLeft(LAMBDA acc, i : PutCell(acc, table, read.cells[i], read.nodes[i]), [s |-> s, rich |-> {}],
             [i \in DOMAIN read.cells |-> i])

SetCells(filled, table, data) ==
    LET Kept(at) == \E i \in DOMAIN data.cells :
                        data.cells[i].row = at[1] /\ data.cells[i].col = at[2]
        rich == {at \in filled.rich : Kept(at)}
    IN  [filled.s EXCEPT !.w = SetTableData(@, table, [data EXCEPT !.rich = rich])]

(* A table without cells is only its content. *)
BuildCells(s, n, c, read) ==
    LET table == NextRef(s.w.doc, "tables")
        t == [Claim(s, c.prov) EXCEPT !.w = AddBareTable(@, BoxFor(s, c.prov), c.parent)]
        captions == SelectSeq(Elements(s.tree, n), LAMBDA k : IsCaption(s, k))
    IN  IF read.cells = <<>> THEN WalkChildren(s, n, [c EXCEPT !.label = "text"])
        ELSE FoldLeft(LAMBDA u, k : BuildBlock(u, k, Context(table, NoProv, "caption")),
                      SetCells(RichCells(t, table, read), table, FillSpanTable(read.cells)),
                      captions)
BuildTable(s, n, c) == BuildCells(s, n, c, ChandraTableCells(TableOf(s, n)))

(* <img> describes the picture it is in, and so does the text beside it; a *)
(* lone <chem> is the picture's molecule.  Other content is kept.          *)
BuildPicture(s, n, c) ==
    LET Within(tag) == IF Tag(s, n) = tag THEN {n}
                       ELSE {k \in ToSet(ElementsBelow(s.tree, n)) : Tag(s, k) = tag}
        lone == Cardinality(Within("chem")) = 1
        picture == NextRef(s.w.doc, "pictures")
        Labelled(w) == IF lone THEN SetField(w, picture, "label", "molecule") ELSE w
        kept == SelectSeq(Kids(s.tree, n),
                          LAMBDA k : IF IsText(s.tree, k) THEN Within("img") = {}
                                     ELSE Tag(s, k) # "img" /\ ~(Tag(s, k) = "chem" /\ lone))
        inside == IF Tag(s, n) = "chem" THEN <<>> ELSE kept
        t == [Claim(s, c.prov) EXCEPT !.w = Labelled(AddPicture(@, BoxFor(s, c.prov), c.parent))]
    IN  [Walk([t EXCEPT !.skip = [img |-> TRUE, chem |-> lone]], inside, Plain(picture))
           EXCEPT !.skip = s.skip]

(* A caption's texts belong to the picture or table it is written in. *)
LinkFresh(before, t, owner, label) ==
    LET fresh == SelectSeq([i \in 1 .. Len(t.w.doc.texts) |-> Ref("texts", i)],
                           LAMBDA ref : ref \notin Refs(before.w.doc) /\ LabelOf(t.w, ref) = label)
        Link(w, ref) == IF label = "footnote" THEN LinkFootnote(w, owner, ref)
                        ELSE LinkCaption(w, owner, ref)
    IN  IF owner.kind \in {"pictures", "tables"} THEN [t EXCEPT !.w = FoldLeft(Link, @, fresh)] ELSE t
BuildCaption(s, n, c, label) ==
    LinkFresh(s, WalkChildren(s, n, [c EXCEPT !.label = label]), c.parent, label)

(* block: a located or labelled element has a provenance of its own. *)
BuildBlock(s, n, outer) ==
    LET tag == Tag(s, n)
        label == Attrs(s, n).label
        own == [id |-> n, box |-> IF Attrs(s, n).box = "good" THEN n ELSE 0,
                owner |-> label \notin NotTextOwners]
        c == IF IsLayoutBlock(s, n) THEN Context(outer.parent, own, LayoutLabelOf(label)) ELSE outer
        Has(tags) == HasBelow(s.tree, n, tags)
        runs == InlineRuns(s, n, {})
    IN  CASE label \in PictureLabels \/ tag \in {"figure", "img", "chem"} -> BuildPicture(s, n, c)
          [] tag = "table" -> BuildTable(s, n, c)
          [] tag \in {"ul", "ol"} \/ (label = "List-Group" /\ ~Has({"ul", "ol"})) ->
               BuildList(s, n, c.parent)
          [] tag \in {"pre", "code"} \/ (label = "Code-Block" /\ ~Has({"pre"})) ->
               PutItem(s, "code", TextProv(c.prov), AllText(s.tree, n), c.parent, "body")
          [] tag = "math" ->
               PutItem(s, "formula", TextProv(c.prov), AllText(s.tree, n), c.parent, "body")
          [] tag \notin HtmlBlockTags /\ IsLayoutBlock(s, n) ->
               EmitRuns(s, runs, IF label = "" /\ Len(runs) = 1
                                 THEN [c EXCEPT !.label = runs[1].label] ELSE c)
          [] label = "Form" \/ tag = "form" ->
               LET w == AddFieldRegion(s.w, BoxFor(s, c.prov), c.parent)
               IN  WalkChildren([Claim(s, c.prov) EXCEPT !.w = w], n,
                                Plain(LastRef(w.doc, "field_regions")))
          [] tag \in {"caption", "figcaption"} \/ label \in {"Caption", "Footnote"} ->
               BuildCaption(s, n, c, IF label = "Footnote" THEN "footnote" ELSE "caption")
          [] tag \in Unseen \cup {"hr"} -> s
          [] OTHER ->
               WalkChildren(s, n, IF tag \in HeadingTags /\ c.label = "text"
                                  THEN [c EXCEPT !.label = "section_header"] ELSE c)
-----------------------------------------------------------------------------
HasElement(tree) == Elements(tree, 1) # <<>>

(* add_html_fragment; HTML without an element adds nothing. *)
AddHtmlFragment(w, tree, label, box, parent) ==
    WalkChildren(Builder(tree, w), 1,
                 Context(parent, [id |-> 1, box |-> box, owner |-> TRUE], label)).w

(* add_html_table: the first table, captions flattened to their text. *)
FlattenCaption(tree, k) ==
    IF TagOf(tree, k) \in {"caption", "figcaption"}
    THEN [tree EXCEPT !.nodes = Append([@ EXCEPT ![k].kids = <<Len(tree.nodes) + 1>>],
                                       Node("", NoAttrs, AllText(tree, k)))]
    ELSE tree
FirstTable(tree) == SelectSeq(ElementsBelow(tree, 1), LAMBDA n : TagOf(tree, n) = "table")

TableOrBare(s, n, box, parent, read) ==
    IF read.cells = <<>> THEN AddBareTable(s.w, box, parent)
    ELSE BuildCells(s, n, Context(parent, [id |-> 1, box |-> box, owner |-> FALSE], "text"), read).w
AddHtmlTable(w, tree, box, parent) ==
    LET n == FirstTable(tree)[1]
        s == Builder(FoldLeft(LAMBDA t, k : FlattenCaption(t, k), tree, Elements(tree, n)), w)
    IN  IF FirstTable(tree) = <<>> THEN AddBareTable(w, box, parent)
        ELSE TableOrBare(s, n, box, parent, ChandraTableCells(TableOf(s, n)))

(* add_inline_text: without a parent, an item of that label takes the box  *)
(* and becomes the parent.  The caller adds plain text when it fails.      *)
InlineTags == {"a", "b", "br", "code", "div", "i", "p", "s", "span", "sub", "sup", "table", "u"}
HasInlineHtmlTag(tokens) ==
    \E i \in DOMAIN tokens : tokens[i].kind \in {"open", "close"} /\ tokens[i].tag \in InlineTags

FillFragment(w, tree, label, box, parent) ==
    IF ~HasElement(tree) THEN [ok |-> FALSE, w |-> w]
    ELSE [ok |-> TRUE, w |-> AddHtmlFragment(w, tree, label, box, parent)]
AddInlineText(w, tokens, label, box, parent) ==
    LET own == parent = NoRef
    IN  IF ~HasInlineHtmlTag(tokens) THEN [ok |-> FALSE, w |-> w]
        ELSE FillFragment(IF own THEN AddText(w, label, box, <<>>, Body) ELSE w,
                          ParseMarkup(tokens, "html"), IF own THEN "text" ELSE label,
                          IF own THEN 0 ELSE box, IF own THEN NextRef(w.doc, "texts") ELSE parent)
-----------------------------------------------------------------------------
(* map_chandra_html: the outermost layout blocks; without any, all HTML.   *)
RECURSIVE LayoutBlocks(_, _)
LayoutBlocks(s, n) ==
    LET kids == Elements(s.tree, n)
    IN  FlattenSeq([i \in DOMAIN kids |-> IF IsLayoutBlock(s, kids[i]) THEN <<kids[i]>>
                                          ELSE LayoutBlocks(s, kids[i])])

TopElements(s) == SelectSeq(Elements(s.tree, 1), LAMBDA n : Tag(s, n) \notin Unseen)
BuildPage(s, blocks) ==
    IF blocks # <<>> THEN FoldLeft(LAMBDA t, n : BuildBlock(t, n, Plain(Body)), s, blocks)
    ELSE Walk(s, TopElements(s), Plain(Body))
FinishHtml(s) ==
    [ok |-> /\ LayoutBlocks(s, 1) \o TopElements(s) # <<>>
            /\ \/ s.w.entries # <<>>
               \/ \E n \in DOMAIN s.tree.nodes : Attrs(s, n).label = "Blank-Page",
     w |-> FinishWriter(s.w)]
MapChandraHtml(tokens, image) ==
    LET s == Builder(ParseMarkup(tokens, "html"), NewWriter(image))
    IN  IF \A i \in DOMAIN tokens : tokens[i].kind = "text" /\ tokens[i].text = <<>>
        THEN [ok |-> TRUE, w |-> FinishWriter(NewWriter(image))]
        ELSE FinishHtml(BuildPage(s, LayoutBlocks(s, 1)))
=============================================================================
