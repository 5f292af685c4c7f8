------------------------------ MODULE DocLang ------------------------------
(***************************************************************************)
(* DocLang XML (src/mapping/doclang.cpp).  A builder's state is the tree,  *)
(* the writer and the code item added last.  A <location> stands for a     *)
(* whole quartet, good or bad; its box is named by its node.  The column   *)
(* attribute of a heading is its level.                                    *)
(***************************************************************************)
EXTENDS Chandra

HeadTags == {"location", "layer", "label", "custom"}
FormatTags == {"bold", "italic"}
SimpleTags == FormatTags \cup {"br", "rtl", "checkbox", "content"}
HostTags == {"text", "caption", "footnote", "page_header", "page_footer"}
BlockTags ==
    HostTags \cup {"heading", "list", "group", "table", "index", "picture", "code", "formula"}

(* Blanks and head elements come before the body of an element. *)
InHead(s, n) == BlankNode(s, n) \/ Tag(s, n) \in HeadTags
HeadLength(s, nodes) ==
    Min({i \in DOMAIN nodes : ~InHead(s, nodes[i])} \cup {Len(nodes) + 1}) - 1
HeadNodes(s, n) == SubSeq(Kids(s.tree, n), 1, HeadLength(s, Kids(s.tree, n)))
AfterHead(s, nodes) == SubSeq(nodes, HeadLength(s, nodes) + 1, Len(nodes))
BodyNodes(s, n) == AfterHead(s, Kids(s.tree, n))

(* box_of: the first quartet among the nodes. *)
BoxAmong(s, nodes) ==
    LET located == SelectSeq(nodes, LAMBDA k : Tag(s, k) = "location" /\ Attrs(s, k).box = "good")
    IN  IF located = <<>> THEN 0 ELSE located[1]
HeadBox(s, n) == BoxAmong(s, HeadNodes(s, n))

(* head_layer: the first <layer>, if its value is one. *)
HeadLayer(s, n) ==
    LET layers == SelectSeq(HeadNodes(s, n), LAMBDA k : Tag(s, k) = "layer")
    IN  IF layers = <<>> THEN "" ELSE Attrs(s, layers[1]).label
ApplyLayer(s, ref, n) ==
    IF HeadLayer(s, n) = "" THEN s ELSE [s EXCEPT !.w = SetContentLayer(@, ref, HeadLayer(s, n))]

(* layer_subtree: the layer goes to all that was added since. *)
LayerSubtree(before, s, n) ==
    LET Fresh(kind) ==
            [i \in 1 .. Len(s.w.doc[kind]) - Len(before.w.doc[kind]) |->
                Ref(kind, Len(before.w.doc[kind]) + i)]
    IN  FoldLeft(LAMBDA t, ref : ApplyLayer(t, ref, n), s, Fresh("texts") \o Fresh("groups"))

RECURSIVE GetText(_, _)
GetText(s, n) ==
    LET kids == SelectSeq(Kids(s.tree, n), LAMBDA k : Tag(s, k) \notin {"location", "custom"})
    IN  s.tree.nodes[n].text \o FlattenSeq([i \in DOMAIN kids |-> GetText(s, kids[i])])

(* simple_text: the one piece of text of an element that holds only inline *)
(* wrappers, or nothing.                                                   *)
RECURSIVE SimpleText(_, _)
SimpleText(s, n) ==
    LET kids == SelectSeq(Kids(s.tree, n), LAMBDA k : Tag(s, k) \notin HeadTags)
        Piece(k) == IF IsText(s.tree, k) THEN s.tree.nodes[k].text ELSE SimpleText(s, k)
        pieces == SelectSeq(kids, LAMBDA k : Piece(k) # <<>>)
        Simple(k) == \/ IsText(s.tree, k)
                     \/ Tag(s, k) \in SimpleTags /\ (Piece(k) # <<>> \/ GetText(s, k) = <<>>)
    IN  IF Len(pieces) = 1 /\ \A i \in DOMAIN kids : Simple(kids[i]) THEN Piece(pieces[1]) ELSE <<>>

EmptyBlock(s, n) == BodyNodes(s, n) = <<>>

(* text_with_formatting: with a single formatting child, only its text. *)
RECURSIVE FormattedText(_, _)
FormattedText(s, n) ==
    LET elements == SelectSeq(Elements(s.tree, n), LAMBDA k : Tag(s, k) # "location")
    IN  IF Len(elements) = 1 /\ Tag(s, elements[1]) \in FormatTags \cup {"rtl"}
        THEN FormattedText(s, elements[1]) ELSE GetText(s, n)

Put(s, label, box, text, parent) == [s EXCEPT !.w = AddText(@, label, box, text, parent)]
PutGroup(s, label, parent) == [s EXCEPT !.w = AddGroup(@, label, parent)]
-----------------------------------------------------------------------------
RECURSIVE Dispatch(_, _, _)
DispatchAll(s, nodes, parent) == FoldLeft(LAMBDA t, k : Dispatch(t, k, parent), s, nodes)

RECURSIVE PutRuns(_, _, _)
PutNode(s, k, parent) ==
    CASE BlankNode(s, k) -> s
      [] IsText(s.tree, k) -> Put(s, "text", 0, s.tree.nodes[k].text, parent)
      [] Tag(s, k) \in FormatTags -> PutRuns(s, Kids(s.tree, k), parent)
      [] OTHER -> Dispatch(s, k, parent)
PutRuns(s, nodes, parent) == FoldLeft(LAMBDA t, k : PutNode(t, k, parent), s, nodes)

(* inline_host: an item with the box, and its content in a group below. *)
InlineHost(s, n, parent, label) ==
    LET item == NextRef(s.w.doc, "texts")
        t == PutGroup(Put(s, label, HeadBox(s, n), <<>>, parent), "inline", item)
    IN  LayerSubtree(s, PutRuns(t, BodyNodes(s, n), NextRef(s.w.doc, "groups")), n)

(* captions_of: captions are the body's, whatever they belong to. *)
PutCaption(s, k) ==
    IF SimpleText(s, k) = <<>> THEN InlineHost(s, k, Body, "caption")
    ELSE ApplyLayer(Put(s, "caption", HeadBox(s, k), GetText(s, k), Body), NextRef(s.w.doc, "texts"), k)
CaptionsIn(s, n) ==
    FoldLeft(LAMBDA acc, k : [s |-> PutCaption(acc.s, k),
                              refs |-> Append(acc.refs, NextRef(acc.s.w.doc, "texts"))],
             [s |-> s, refs |-> <<>>],
             SelectSeq(Kids(s.tree, n), LAMBDA k : Tag(s, k) = "caption" /\ GetText(s, k) # <<>>))

AttachTo(s, owner, captions, footnotes) ==
    LET w == FoldLeft(LAMBDA v, ref : LinkCaption(v, owner, ref), s.w, captions)
    IN  [s EXCEPT !.w = FoldLeft(LAMBDA v, ref : LinkFootnote(v, owner, ref), w, footnotes)]

AttachParts(parts, owner) == AttachTo(parts.s, owner, parts.captions, parts.footnotes)
OwnParts(own) == [s |-> own.s, captions |-> own.refs, footnotes |-> <<>>]
PutCode(s, n, parent) ==
    LET item == NextRef(s.w.doc, "texts")
        t == ApplyLayer(Put(s, "code", HeadBox(s, n), GetText(s, n), parent), item, n)
    IN  [AttachParts(OwnParts(CaptionsIn(t, n)), item) EXCEPT !.code = item]

TextLike(s, n, parent) ==
    LET tag == Tag(s, n)
        inner == SelectSeq(Elements(s.tree, n), LAMBDA k : Tag(s, k) \notin HeadTags)
        simple == SimpleText(s, n) # <<>>
        empty == ~simple /\ EmptyBlock(s, n)
        text == FormattedText(s, n)
        group == NextRef(s.w.doc, "groups")
        PutAs(label) ==
            ApplyLayer(Put(s, label, HeadBox(s, n), text, parent), NextRef(s.w.doc, "texts"), n)
    IN  CASE ~empty /\ (Len(inner) > 1 \/ ~simple) ->
               IF tag \in HostTags /\ (tag # "text" \/ HeadBox(s, n) # 0)
               THEN InlineHost(s, n, parent, tag)
               ELSE LayerSubtree(s, PutRuns(PutGroup(s, "inline", parent), Kids(s.tree, n), group), n)
          [] text = <<>> /\ ~empty -> s
          [] tag = "code" -> PutCode(s, n, parent)
          [] tag \in HostTags \cup {"formula"} \cup FormatTags \cup {"content"} ->
               PutAs(IF tag \in HostTags \cup {"formula"} THEN tag ELSE "text")
          [] OTHER -> s

PutHeadingElement(s, n, parent) ==
    LET label == IF Attrs(s, n).cols = 1 THEN "title" ELSE "section_header"
    IN  IF GetText(s, n) = <<>> THEN s
        ELSE ApplyLayer(Put(s, label, HeadBox(s, n), GetText(s, n), parent),
                        NextRef(s.w.doc, "texts"), n)
-----------------------------------------------------------------------------
(* list_item.  Leading text takes nested lists and pictures under it; any  *)
(* other mix becomes an inline group; a lone <text> gives its own text and *)
(* box.                                                                    *)
PutItemOf(s, nodes, group) ==
    LET content == AfterHead(s, nodes)
        box == BoxAmong(s, nodes)
        item == NextRef(s.w.doc, "texts")
        Leads(k) == IsText(s.tree, k) \/ Tag(s, k) = "content"
        lead == SubSeq(content, 1, Min({i \in DOMAIN content : ~Leads(content[i])}
                                         \cup {Len(content) + 1}) - 1)
        rest == SubSeq(content, Len(lead) + 1, Len(content))
        leading == FlattenSeq([i \in DOMAIN lead |-> GetText(s, lead[i])])
        elements == SelectSeq(content, LAMBDA k : ~IsText(s.tree, k))
        WithText(text, b) == Put(s, "list_item", b, text, group)
        Inline(t) == PutRuns(PutGroup(t, "inline", item), content, NextRef(t.w.doc, "groups"))
    IN  CASE content = <<>> -> WithText(<<>>, box)
          [] Tag(s, content[1]) \notin BlockTags ->
               IF leading # <<>> /\ \A i \in DOMAIN rest :
                     BlankNode(s, rest[i]) \/ Tag(s, rest[i]) \in {"list", "picture"}
               THEN DispatchAll(WithText(leading, box),
                                SelectSeq(rest, LAMBDA k : ~IsText(s.tree, k)), item)
               ELSE Inline(WithText(<<>>, box))
          [] /\ Len(elements) = 1 /\ Tag(s, elements[1]) = "text"
             /\ SimpleText(s, elements[1]) # <<>> ->
               WithText(GetText(s, elements[1]), HeadBox(s, elements[1]))
          [] OTHER -> DispatchAll(WithText(<<>>, box), elements, item)

(* list: an item runs from each <ldiv> to the next; what comes before the  *)
(* first is dropped.                                                       *)
PutList(s, n, parent) ==
    LET kids == Kids(s.tree, n)
        group == NextRef(s.w.doc, "groups")
        starts == SelectSeq([i \in DOMAIN kids |-> i], LAMBDA i : Tag(s, kids[i]) = "ldiv")
        items == [i \in DOMAIN starts |->
                    SubSeq(kids, starts[i] + 1,
                           IF i < Len(starts) THEN starts[i + 1] - 1 ELSE Len(kids))]
    IN  FoldLeft(LAMBDA t, item : PutItemOf(t, item, group), PutGroup(s, "list", parent), items)
-----------------------------------------------------------------------------
(* otsl_cells: OTSL as elements.  What follows a cell token is its text; a *)
(* filler that has any is a cell of its own.                               *)
OtslTags == {"fcel", "ecel", "lcel", "ucel", "xcel", "ched", "rhed", "srow", "corn", "nl"}
OtslTokens(s, nodes) ==
    LET at == SelectSeq([i \in DOMAIN nodes |-> i], LAMBDA i : Tag(s, nodes[i]) \in OtslTags)
        Parts(j) ==
            SelectSeq(SubSeq(nodes, at[j] + 1, IF j < Len(at) THEN at[j + 1] - 1 ELSE Len(nodes)),
                      LAMBDA k : Tag(s, k) # "location" /\ ~BlankNode(s, k))
        Token(j) ==
            [tag |-> Tag(s, nodes[at[j]]), parts |-> Parts(j) # <<>>,
             gap |-> j < Len(at) /\ at[j + 1] # at[j] + 1,
             text |-> Len(FlattenSeq([i \in DOMAIN Parts(j) |-> GetText(s, Parts(j)[i])]))]
    IN  [j \in DOMAIN at |-> Token(j)]

ScanElement(scan, token) ==
    IF token.tag = "nl" THEN NextRow(scan)
    ELSE [scan EXCEPT !.at = @ @@ (<<scan.row, scan.col>> :> token), !.col = @ + 1]

OtslCells(s, nodes) ==
    LET Filler(token) == HorizontalFiller(token) \/ VerticalFiller(token)
        (* What follows an empty cell is nobody's, and cuts its span. *)
        Width(at, p) == IF at[p].tag = "ecel" /\ at[p].gap THEN 1 ELSE ColSpan(at, p[1], p[2])
        CellAt(at, p) == Cell(p[1], p[2], p[1] + RowSpan(at, p[1], p[2]), p[2] + Width(at, p),
                              IF at[p].tag = "ecel" THEN Blank ELSE at[p].text)
        Cells(at, origins) == [i \in DOMAIN origins |-> CellAt(at, origins[i])]
        Read(at) == Cells(at, SelectSeq(RowMajor(at), LAMBDA p : ~Filler(at[p]) \/ at[p].parts))
    IN  Read(FoldLeft(ScanElement, [row |-> 0, col |-> 0, at |-> << >>], OtslTokens(s, nodes)).at)

(* The rows of a <tabular>, as wide as their last cell. *)
TabularRows(cells) ==
    LET In(r) == {i \in DOMAIN cells : cells[i].row = r}
        At(r, c) == {i \in In(r) : cells[i].col = c}
    IN  [r \in 1 .. Max({0} \cup {cells[i].row + 1 : i \in DOMAIN cells}) |->
            [c \in 1 .. Max({0} \cup {cells[i].col + 1 : i \in In(r - 1)}) |->
                IF At(r - 1, c - 1) = {} THEN Blank ELSE cells[Max(At(r - 1, c - 1))].text]]
-----------------------------------------------------------------------------
Hosts == {"picture", "table", "index", "code"}

(* float_host: the one host of a group that holds nothing else but text,   *)
(* footnotes and captions.                                                 *)
FloatHost(s, n) ==
    LET elements == ToSet(Elements(s.tree, n))
        hosts == {k \in elements : Tag(s, k) \in Hosts}
    IN  IF /\ Cardinality(hosts) = 1
           /\ \A k \in elements \ hosts : Tag(s, k) \in {"text", "footnote", "caption"}
        THEN Min(hosts) ELSE 0

(* satellites: <text> beside a host is a caption. *)
Satellites(s, n) ==
    LET PutSatellite(acc, k) ==
            LET field == IF Tag(s, k) = "text" THEN "captions" ELSE "footnotes"
                label == IF Tag(s, k) = "text" THEN "caption" ELSE "footnote"
            IN  IF GetText(s, k) = <<>> THEN acc
                ELSE [acc EXCEPT !.s = Put(@, label, HeadBox(s, k), GetText(s, k), Body),
                                 ![field] = Append(@, NextRef(acc.s.w.doc, "texts"))]
    IN  FoldLeft(PutSatellite, [s |-> s, captions |-> <<>>, footnotes |-> <<>>],
                 SelectSeq(Kids(s.tree, n), LAMBDA k : Tag(s, k) \in {"text", "footnote"}))

(* Mutant: the captions of a group hide the text beside its host. *)
AllCaptionsOwn(own, around) == own.refs

AllCaptions(own, around) == own.refs \o around.captions

(* What table and picture start with: a group's own captions come before   *)
(* its satellites, and the host's count only if the group has none.        *)
OwnOrHost(own, n, host) ==
    IF own.refs = <<>> /\ host # n THEN CaptionsIn(own.s, host) ELSE own
PartsOf(own, around) ==
    [s |-> own.s, captions |-> AllCaptions(own, around), footnotes |-> around.footnotes]
FloatParts(s, n, host) ==
    LET around == IF host = n THEN [s |-> s, captions |-> <<>>, footnotes |-> <<>>]
                  ELSE Satellites(s, n)
    IN  PartsOf(OwnOrHost(CaptionsIn(around.s, n), n, host), around)

PutTable(s, n, host, parent) ==
    LET table == NextRef(s.w.doc, "tables")
        Tabled(t) == ApplyLayer([t EXCEPT !.w = AddTable(@, HeadBox(s, host),
                                                         OtslCells(s, BodyNodes(s, host)), parent)],
                                table, host)
    IN  AttachParts([FloatParts(s, n, host) EXCEPT !.s = Tabled(@)], table)

(* A <tabular> that leads the body is the picture's chart; from the first  *)
(* other element on, content is the picture's, captions aside.             *)
PutPicture(s, n, host, parent) ==
    LET picture == NextRef(s.w.doc, "pictures")
        body == SelectSeq(BodyNodes(s, host), LAMBDA k : ~IsText(s.tree, k))
        first == Min({i \in DOMAIN body : Tag(s, body[i]) \notin {"src", "tabular"}}
                       \cup {Len(body) + 1})
        charts == SelectSeq(SubSeq(body, 1, first - 1), LAMBDA k : Tag(s, k) = "tabular")
        Chart(t, k) == [t EXCEPT !.w = SetTabularChart(@, picture,
                                           TabularRows(OtslCells(s, BodyNodes(s, k))))]
        Pictured(t) == [t EXCEPT !.w = AddPicture(@, HeadBox(s, host), parent)]
        parts == [FloatParts(s, n, host) EXCEPT !.s = Pictured(@)]
    IN  DispatchAll(ApplyLayer(FoldLeft(Chart, AttachParts(parts, picture), charts), picture, host),
                    SelectSeq(SubSeq(body, first, Len(body)), LAMBDA k : Tag(s, k) # "caption"),
                    picture)

(* code_group: satellites go to the code item, if there is one. *)
PutCodeGroup(s, n, code, parent) ==
    LET around == Satellites(s, n)
        Attached(t) == IF t.code = NoRef THEN t ELSE AttachParts([around EXCEPT !.s = t], t.code)
    IN  Attached(TextLike([around.s EXCEPT !.code = NoRef], code, parent))

DispatchChildren(s, n, parent) ==
    DispatchAll(s, SelectSeq(Elements(s.tree, n),
                             LAMBDA k : Tag(s, k) \notin HeadTags \cup {"head", "caption", "src"}),
                parent)

PutGroupElement(s, n, parent) ==
    LET host == FloatHost(s, n)
        group == NextRef(s.w.doc, "groups")
    IN  CASE Attrs(s, n).label # "" -> DispatchChildren(PutGroup(s, "group", parent), n, group)
          [] host = 0 -> DispatchChildren(s, n, parent)
          [] Tag(s, host) = "picture" -> PutPicture(s, n, host, parent)
          [] Tag(s, host) = "code" -> PutCodeGroup(s, n, host, parent)
          [] OTHER -> PutTable(s, n, host, parent)

Dispatch(s, n, parent) ==
    LET tag == Tag(s, n)
    IN  CASE tag = "page_break" -> s
          [] tag \in HostTags \cup FormatTags \cup {"code", "formula", "ldiv", "content"} ->
               TextLike(s, n, parent)
          [] tag = "heading" -> PutHeadingElement(s, n, parent)
          [] tag = "list" -> PutList(s, n, parent)
          [] tag = "group" -> PutGroupElement(s, n, parent)
          [] tag \in {"table", "index"} -> PutTable(s, n, n, parent)
          [] tag = "picture" -> PutPicture(s, n, n, parent)
          [] OTHER -> DispatchChildren(s, n, parent)
-----------------------------------------------------------------------------
(* The first <doclang> and what follows up to the first </doclang>. *)
Fragment(tokens) ==
    LET At(kind) == {i \in DOMAIN tokens : tokens[i].kind = kind /\ tokens[i].tag = "doclang"}
        ends == {i \in At("close") : i > Min(At("open"))}
    IN  IF At("open") = {} THEN <<>> ELSE IF ends = {} THEN <<>>
        ELSE SubSeq(tokens, Min(At("open")), Min(ends))

(* map_doclang *)
MapDocLang(tokens, image) ==
    LET tree == ParseMarkup(Fragment(tokens), "xml")
        s == [tree |-> tree, w |-> NewWriter(image), code |-> NoRef]
    IN  IF Fragment(tokens) = <<>> THEN [ok |-> FALSE, w |-> s.w]
        ELSE [ok |-> TRUE, w |-> FinishWriter(DispatchAll(s, Elements(tree, 2), Body).w)]
=============================================================================
