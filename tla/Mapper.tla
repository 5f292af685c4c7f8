------------------------------- MODULE Mapper -------------------------------
(***************************************************************************)
(* Mapping one response (src/mapping/mapper.cpp, map_response).  DocTags,  *)
(* Markdown and HTML are read token by token; the layout formats are read  *)
(* whole and mapped in one step.                                           *)
(***************************************************************************)
EXTENDS DocTags, Blocks, DeepSeek, DocLang

CONSTANTS
    HtmlTables,  \* tables as rows of cells
    Chunks       \* what a layout response is put together from, by alphabet

(* "current" is the block being read: a paragraph, fenced code or the rows *)
(* of a pipe table.  Every other line starts by completing it.             *)
Block(name) == [NoElement EXCEPT !.name = name, !.at = Place(0)]

EmitAs(p, label, text) ==
    [p EXCEPT !.doc = Add(@, "texts", NewItem(label, text, 0, current.at)), !.items = @ + 1]

EmitRows(p, rows) ==
    LET data == FillTableData(rows)
    IN  [p EXCEPT !.doc = Add(@, "tables", [NewItem("table", <<>>, 0, current.at) EXCEPT !.data = data]),
                  !.warnings = @ \o TableWarnings(data, NextRef(p.doc, "tables")),
                  !.items = @ + 1]

(* emit_pipe_table: a separator row counts only right below the header. *)
PipeRows(lines) ==
    SelectSeq([i \in DOMAIN lines |-> IF i = 2 /\ lines[2].separator THEN <<>> ELSE lines[i].cells],
              LAMBDA row : row # <<>>)

(* Mutant: a paragraph that ends at a heading or a fence is forgotten. *)
CompleteTables(p) == IF current.name = "pipe" THEN EmitRows(p, PipeRows(current.otsl)) ELSE p

(* The end of a run of pipe rows, and flush_paragraph. *)
Complete(p) ==
    CASE current.name = "pipe" -> EmitRows(p, PipeRows(current.otsl))
      [] current.name = "paragraph" -> EmitAs(p, "paragraph", current.text)
      [] OTHER -> p

Line ==
    /\ Reading("markdown") /\ read' = read + 1
    /\ UNCHANGED <<outcome, open, inOtsl, inCaption, pending, sawTable>>

BlankLine ==
    /\ Line /\ current.name # "code"
    /\ page' = Complete(page) /\ current' = NoElement /\ UNCHANGED heard

(* A line of text, or any line inside fenced code. *)
TextLine ==
    /\ Line /\ heard' = heard \cup {Place(0)}
    /\ IF current.name \in {"paragraph", "code"}
       THEN current' = [current EXCEPT !.text = Append(@, Place(0))] /\ UNCHANGED page
       ELSE /\ page' = Complete(page)
            /\ current' = [Block("paragraph") EXCEPT !.text = <<Place(0)>>]

(* A heading or a list item is an item of its own. *)
MarkedLine(label) ==
    /\ Line /\ current.name # "code" /\ heard' = heard \cup {Place(0)}
    /\ page' = EmitAs(Complete(page), label, <<Place(0)>>) /\ current' = NoElement

(* ``` opens a block of code, or closes the one that is open. *)
FenceLine ==
    /\ Line /\ UNCHANGED heard
    /\ IF current.name = "code"
       THEN page' = EmitAs(page, "code", current.text) /\ current' = NoElement
       ELSE page' = Complete(page) /\ current' = Block("code")

PipeLine(line) ==
    /\ Line /\ current.name # "code" /\ UNCHANGED heard
    /\ IF current.name = "pipe"
       THEN current' = [current EXCEPT !.otsl = Append(@, line)] /\ UNCHANGED page
       ELSE /\ page' = Complete(page)
            /\ current' = [Block("pipe") EXCEPT !.otsl = <<line>>]

Finish(p) ==
    IF p.items = 0 THEN outcome' = "failed" /\ page' = p
    ELSE outcome' = "mapped" /\ page' = [p EXCEPT !.doc = FinalizeDocument(@, LegacyOrder(@))]

(* The response ends; a fence that is open ends with it. *)
EndLines ==
    /\ outcome = "reading" /\ input.format = "markdown"
    /\ Finish(IF current.name = "code" THEN EmitAs(page, "code", current.text)
              ELSE Complete(page))
    /\ current' = NoElement
    /\ UNCHANGED <<input, open, inOtsl, inCaption, pending, read, heard, sawTable>>

MarkdownNext ==
    \/ BlankLine \/ TextLine \/ FenceLine \/ EndLines
    \/ \E label \in {"section_header", "list_item"} : MarkedLine(label)
    \/ \E line \in [separator : BOOLEAN, cells : {<<1>>, <<1, 2>>}] : PipeLine(line)
-----------------------------------------------------------------------------
(* map_html: one step per block element the scanner finds.  An element     *)
(* with nothing in it is skipped, unless it is a table.                    *)
HtmlLabels == [h1 |-> "section_header", p |-> "paragraph", li |-> "list_item", pre |-> "code"]

HtmlBlock(tag) ==
    /\ Reading("html") /\ read' = read + 1
    /\ \/ page' = page /\ UNCHANGED heard
       \/ page' = EmitAs(page, HtmlLabels[tag], <<Place(0)>>) /\ heard' = heard \cup {Place(0)}
    /\ UNCHANGED <<outcome, current, open, inOtsl, inCaption, pending, sawTable>>

(* parse_table_rows: rows without a cell are skipped, and a table without  *)
(* any cell keeps its text as one.                                         *)
HtmlTable(rows) ==
    /\ Reading("html") /\ read' = read + 1
    /\ LET filled == SelectSeq(rows, LAMBDA row : row # <<>>)
       IN  \E loose \in BOOLEAN :
            page' = EmitRows(page, IF filled = <<>> /\ loose THEN <<<<Place(0)>>>> ELSE filled)
    /\ UNCHANGED <<outcome, current, open, inOtsl, inCaption, pending, heard, sawTable>>

EndHtml ==
    /\ outcome = "reading" /\ input.format = "html" /\ Finish(page)
    /\ UNCHANGED <<input, current, open, inOtsl, inCaption, pending, read, heard, sawTable>>

(* map_otsl: the whole response is one table. *)
MapOtsl(body) ==
    /\ Reading("otsl")
    /\ LET data == ParseOtslGrid(body)
           p == [page EXCEPT !.doc = Add(@, "tables", [NewItem("table", <<>>, 0, 0) EXCEPT !.data = data]),
                             !.items = IF data.rows = 0 THEN 0 ELSE 1,
                             !.warnings = @ \o TableWarnings(data, Ref("tables", 1))]
       IN  Finish(p) /\ sawTable' = (data.rows > 0)
    /\ UNCHANGED <<current, open, inOtsl, inCaption, pending, read, heard>>

(* map_plaintext: exactly one item, unless there is nothing but blanks. *)
MapPlaintext(blank) ==
    /\ Reading("plaintext")
    /\ Finish(IF blank THEN page ELSE EmitAs(page, "text", <<Place(0)>>))
    /\ heard' = IF blank THEN {} ELSE {Place(0)}
    /\ UNCHANGED <<current, open, inOtsl, inCaption, pending, read, sawTable>>

(* MinerU2 and a format nobody resolved fail. *)
MapUnsupported ==
    /\ Reading("mineru2") /\ Finish(page)
    /\ UNCHANGED <<current, open, inOtsl, inCaption, pending, read, heard, sawTable>>

-----------------------------------------------------------------------------
(* The layout formats.  "current" holds the response so far, as chunks:    *)
(* markup tokens, blocks or lines.  A text is named by where it is read.   *)
LayoutFormats ==
    {"chandra", "dots", "deepseek", "unlimited", "nemotron2", "nemotron35", "doclang"}

ReadChunk ==
    /\ outcome = "reading" /\ input.format \in LayoutFormats /\ read < input.tokens
    /\ read' = read + 1
    /\ \E chunk \in Chunks[input.alphabet] : current' = [current EXCEPT !.otsl = Append(@, chunk)]
    /\ UNCHANGED <<input, page, outcome, open, inOtsl, inCaption, pending, heard, sawTable>>

Named(tokens, i) ==
    [j \in DOMAIN tokens |->
        [tokens[j] EXCEPT !.text = [x \in DOMAIN @ |-> IF @[x] = Punctuation THEN Punctuation
                                                       ELSE 100 * i + j]]]
Tokens == FlattenSeq([i \in DOMAIN current.otsl |-> Named(current.otsl[i], i)])
RawTokens == FlattenSeq(current.otsl)
DotsBlocks ==
    [i \in DOMAIN current.otsl |->
        [label |-> current.otsl[i].label, box |-> IF current.otsl[i].located THEN i ELSE 0,
         body |-> Named(current.otsl[i].tokens, i)]]
Lines == [i \in DOMAIN current.otsl |-> [current.otsl[i] EXCEPT !.tokens = Named(@, i)]]

(* Text the format has a place for. *)
HeardIn(blocks, dropped) ==
    UNION {ToSet(BodyText(blocks[i].body)) :
             i \in {k \in DOMAIN blocks : blocks[k].box # 0 /\ blocks[k].label \notin dropped}}

Deliver(format, result, texts) ==
    /\ outcome = "reading" /\ input.format = format
    /\ outcome' = IF result.ok THEN "mapped" ELSE "failed"
    /\ page' = [doc |-> result.w.doc, order |-> BodyOf(result.w), raster |-> result.w.raster,
                skips |-> result.w.skips, warnings |-> result.w.warnings,
                items |-> Len(result.w.entries)]
    /\ heard' = texts
    /\ UNCHANGED <<input, current, open, inOtsl, inCaption, pending, read, sawTable>>

MapChandra == Deliver("chandra", MapChandraHtml(Tokens, input.image), {})
MapDots ==
    Deliver("dots", MapDotsJson(DotsBlocks, input.image), HeardIn(DotsBlocks, {"Table", "Picture"}))
MapDeepSeek == Deliver("deepseek", MapDeepSeekOcr(Lines, input.image), DeepSeekHeard(Lines))
MapUnlimited ==
    LET lines == NormalizeUnlimited(Lines)
    IN  Deliver("unlimited", MapDeepSeekOcr(lines, input.image), DeepSeekHeard(lines))
MapNemotron2 ==
    Deliver("nemotron2", MapNemotronParseV2(Tokens, input.image),
            HeardIn(V2Regions(Tokens, 1), {"Table", "Picture", "Chart"}))
MapNemotron35 == Deliver("nemotron35", MapNemotronParseV35(RawTokens, input.image), {})

(* The <doclang> element may be missing, or cut off with the response. *)
DocLangTokens(opened, closed) ==
    (IF opened THEN <<OpenToken("doclang")>> ELSE <<>>) \o Tokens
      \o (IF closed THEN <<CloseToken("doclang")>> ELSE <<>>)
MapDocLangXml(opened, closed) ==
    Deliver("doclang", MapDocLang(DocLangTokens(opened, closed), input.image), {})

LayoutNext ==
    \/ \E opened, closed \in BOOLEAN : MapDocLangXml(opened, closed)
    \/ ReadChunk \/ MapChandra \/ MapDots \/ MapDeepSeek \/ MapUnlimited
    \/ MapNemotron2 \/ MapNemotron35

(* map_response *)
Next ==
    \/ DocTagsNext \/ MarkdownNext \/ LayoutNext
    \/ \E tag \in DOMAIN HtmlLabels : HtmlBlock(tag)
    \/ \E rows \in HtmlTables : HtmlTable(rows)
    \/ EndHtml
    \/ \E body \in OtslBodies : MapOtsl(body)
    \/ \E blank \in BOOLEAN : MapPlaintext(blank)
    \/ MapUnsupported

Spec == Init /\ [][Next]_vars
-----------------------------------------------------------------------------
(* A mapped page is one tree under the body: every item has exactly one    *)
(* parent, which lists it once, every item is reached from the body, and   *)
(* captions, key-value links and rich cells lead to things that are there  *)
(* (flush, emit_list_group, emit_inline_group, finalize_document; finish   *)
(* of LayoutWriter, attach_rich_refs).                                     *)
TreeIsSound ==
    Mapped =>
        /\ IsTree(Doc) /\ LinksResolve(Doc)
        /\ Reached(Doc) = Refs(Doc) \cup {Body}
        /\ \A i \in DOMAIN Doc.tables : \A at \in Doc.tables[i].data.rich :
            ItemAt(Doc, at[3]).parent = Ref("tables", i) /\ ItemAt(Doc, at[3]).children # <<>>
        /\ \A i \in DOMAIN Doc.key_value_items :
            LET data == Doc.key_value_items[i].data
            IN  \A link \in data.links : {link[1], link[2]} \subseteq ToSet(data.cells)

Occurrences(id) ==
    UNION {{<<ref, k>> : k \in {j \in DOMAIN ItemAt(Doc, ref).text : ItemAt(Doc, ref).text[j] = id}} :
             ref \in Refs(Doc)}

(* Text the model put into an element that has a place for it is in the    *)
(* page exactly once, however badly the elements are nested or closed      *)
(* (flush, emit_element, the fallback for unknown tags; add_inline_text;   *)
(* the visited lines of map_deepseek_ocr), and no text of a Chandra or     *)
(* DocLang page is there twice (walk, emit_runs; captions_of, dispatch).   *)
TextKeptOnce ==
    Mapped =>
        /\ \A id \in heard : Cardinality(Occurrences(id)) = 1
        /\ input.format \in {"chandra", "doclang"} =>
              \A id \in ToSet(TextIn(Tokens)) \ {Punctuation} : Cardinality(Occurrences(id)) <= 1

(* What the model wrote first comes first: DocTags items are in the order  *)
(* of their tokens with each caption right before its owner (order,        *)
(* emit_caption), and the markup tree keeps every text in its place,       *)
(* whatever is closed implicitly, twice or never, with the open elements   *)
(* last at each level and nesting bounded (TreeBuilder).                   *)
OrderKept ==
    /\ Mapped /\ input.format = "doctags" =>
        \A j \in DOMAIN Doc.body :
            LET item == ItemAt(Doc, Doc.body[j])
            IN  /\ \A i \in 1 .. j : ItemAt(Doc, Doc.body[i]).at <= item.at
                /\ \A caption \in ToSet(item.captions) :
                    j > 1 /\ Doc.body[j - 1] = caption /\ ItemAt(Doc, caption).label = "caption"
    /\ outcome = "reading" /\ input.format = "chandra" =>
        LET tree == ParseMarkup(Tokens, "html")
            ends == {i \in DOMAIN Tokens : Tokens[i].kind = "unterminated"}
            parsed == SubSeq(Tokens, 1, Min(ends \cup {Len(Tokens) + 1}) - 1)
        IN  /\ AllText(tree, 1) = TextIn(parsed)
            /\ Len(tree.stack) <= MaxMarkupDepth + 1
            /\ \A i \in 2 .. Len(tree.stack) :
                  Last(Kids(tree, tree.stack[i - 1])) = tree.stack[i]

Grids == {ref \in Refs(Doc) : ref.kind \in {"tables", "pictures"}}
DataAt(ref) == ItemAt(Doc, ref).data

(* A table keeps within all three caps and no span leaves it, also where a *)
(* cap or a short row cuts through; every cell kept shows at its own       *)
(* position of the grid, and in HTML and LaTeX tables no cell is anchored  *)
(* where another one lies, however malformed the spans (kept_table_shape,  *)
(* parse_otsl_grid's stamping order, the free-column search of             *)
(* chandra_table_cells and deepseek_table_cells).                          *)
GridsAreSound ==
    \A ref \in Grids :
        LET data == DataAt(ref)
            cells == data.cells
        IN  /\ data.rows <= MaxTableRows /\ data.cols <= MaxTableCols
            /\ data.rows * data.cols <= MaxTableCells
            /\ \A i \in DOMAIN cells :
                  /\ cells[i].endRow <= data.rows /\ cells[i].endCol <= data.cols
                  /\ ~data.omitted => data.grid[cells[i].row][cells[i].col] = cells[i].text
            /\ input.format \in LayoutFormats \ {"doclang"} =>
                  \A i, j \in DOMAIN cells :
                      i # j => ~Covers(cells[i], cells[j].row, cells[j].col)

(* A cut table never passes for a complete one: a table that lost cells is *)
(* marked, what is marked is reported with the item's ref, and a table in  *)
(* an element that another one closes is not lost (parse_otsl_grid,        *)
(* note_table_cut, map_doctags' auto-closing, map_otsl).                   *)
CutTablesTold ==
    /\ input.format = "doctags" =>
        LET data == ParseOtslGrid(current.otsl)
        IN  Len(data.cells) # Len(SelectSeq(current.otsl, Anchor)) => data.truncated
    /\ TablesTold
    /\ Mapped /\ sawTable => \E ref \in Grids : DataAt(ref).rows > 0

(* A block is one item: a Chandra block's box goes to the one item that    *)
(* represents it, whatever its content turns into (Provenance), and a      *)
(* Nemotron text block the model repeats is in the page once               *)
(* (nemotron_v35_blocks).                                                  *)
BlocksAreUnique ==
    /\ Mapped /\ input.format = "chandra" =>
        \A a, b \in Refs(Doc) :
            a # b /\ ItemAt(Doc, a).box # 0 => ItemAt(Doc, a).box # ItemAt(Doc, b).box
    /\ Mapped /\ input.format = "nemotron35" =>
        \A i, j \in DOMAIN Doc.texts :
            LET Key(item) == <<item.box, item.label, item.text, item.children # <<>>>>
            IN  i # j /\ Doc.texts[i].box # 0 => Key(Doc.texts[i]) # Key(Doc.texts[j])

(* The texts beside the hosts of a DocLang page's float groups. *)
Satellite(hosts, tags) ==
    LET tree == ParseMarkup(Fragment(DocLangTokens(TRUE, TRUE)), "xml")
        s == [tree |-> tree]
        groups == {n \in ToSet(Elements(tree, 2)) :
                     /\ Tag(s, n) = "group" /\ FloatHost(s, n) # 0
                     /\ Tag(s, FloatHost(s, n)) \in hosts}
    IN  UNION {UNION {ToSet(GetText(s, k)) : k \in {m \in ToSet(Elements(tree, n)) :
                                                      Tag(s, m) \in tags}} : n \in groups}
Linked == UNION {ToSet(ItemAt(Doc, ref).captions) \cup ToSet(ItemAt(Doc, ref).footnotes) :
                   ref \in Refs(Doc)}
RECURSIVE UnderLinked(_)
UnderLinked(ref) == ref # Body /\ (ref \in Linked \/ UnderLinked(ItemAt(Doc, ref).parent))

(* Captions belong to what they are written beside: among dots.ocr and     *)
(* Nemotron blocks, an owner takes at most one and only a neighbour        *)
(* (link_adjacent_captions); and all that a DocLang float group holds      *)
(* beside its picture or table is in the page, under a caption or footnote *)
(* that is linked (satellites, captions_of, attach).                       *)
CaptionsBelong ==
    /\ Mapped /\ input.format \in {"dots", "nemotron35"} =>
        \A j \in DOMAIN Doc.body :
            LET linked == {i \in DOMAIN Doc.body :
                             Doc.body[i] \in ToSet(ItemAt(Doc, Doc.body[j]).captions)}
            IN  Cardinality(linked) <= 1 /\ linked \subseteq {j - 1, j + 1}
    /\ Mapped /\ input.format = "doclang" =>
        \A id \in Satellite({"picture", "table", "index"}, {"text", "footnote", "caption"}) :
            \E place \in Occurrences(id) : UnderLinked(place[1])
-----------------------------------------------------------------------------
(* "float groups with caption and footnote satellites" (docs/design.md,    *)
(* the DocLang row).  It does not hold for code: code_group reads only     *)
(* <text> and <footnote>, so the text of a <caption> beside code is lost.  *)
CodeCaptionsKept ==
    Mapped /\ input.format = "doclang" =>
        \A id \in Satellite({"code"}, {"caption"}) : Occurrences(id) # {}

(* "False when the text holds no inline markup (the caller then adds plain *)
(* text)" (layout.h, add_inline_text), so a block is one item of the page. *)
(* It does not hold: with a stray closing tag it fails after adding one.   *)
BlockIsOneItem ==
    Mapped /\ input.format = "dots" =>
        \A i, j \in DOMAIN Doc.body :
            i # j /\ ItemAt(Doc, Doc.body[i]).box # 0
              => ItemAt(Doc, Doc.body[i]).box # ItemAt(Doc, Doc.body[j]).box

(* "Whatever was cut is reported ... so a cut table never passes for a     *)
(* complete one" (docs/design.md).  It does not hold: a cell whose span    *)
(* runs far past the column cap is dropped, with the rest of its row,      *)
(* before the table is measured.                                           *)
DroppedCellsTold ==
    Mapped /\ input.format = "chandra" =>
        LET s == Builder(ParseMarkup(Tokens, "html"), NewWriter("none"))
        IN  \A n \in ToSet(FirstTable(s.tree)) :
              LET written == {k \in DOMAIN s.tree.nodes :
                                Tag(s, k) = "td" /\ \E r \in ToSet(RowsOf(s, n)) :
                                                        k \in ToSet(Kids(s.tree, r))}
                  placed == ChandraTableCells(TableOf(s, n)).nodes
              IN  /\ placed # <<>> /\ written # ToSet(placed)
                  => \E i \in DOMAIN page.warnings : page.warnings[i].code = "TABLE_TRUNCATED"
=============================================================================
