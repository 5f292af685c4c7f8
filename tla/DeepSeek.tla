------------------------------ MODULE DeepSeek ------------------------------
(***************************************************************************)
(* DeepSeek-OCR, and Unlimited-OCR rewritten to it                         *)
(* (src/mapping/deepseek.cpp).  A response is a sequence of lines          *)
(* [label, located, tokens]: an annotation has a label, any other line the *)
(* markup tokens written on it.                                            *)
(***************************************************************************)
EXTENDS Chandra

IsAnnotation(line) == line.label # ""
HasToken(line, kind) ==
    \E i \in DOMAIN line.tokens : line.tokens[i].kind = kind /\ line.tokens[i].tag = "table"

(* normalize_unlimited_ocr: text on the line of an annotation moves to a   *)
(* line of its own.                                                        *)
NormalizeUnlimited(lines) ==
    FlattenSeq([i \in DOMAIN lines |->
        IF IsAnnotation(lines[i]) /\ lines[i].tokens # <<>>
        THEN <<[lines[i] EXCEPT !.tokens = <<>>], [lines[i] EXCEPT !.label = "", !.located = FALSE]>>
        ELSE <<lines[i]>>])

(* The lines of a table annotation: its <table> may come after other       *)
(* annotations, and runs to </table> or to the end.                        *)
TableLines(lines, i) ==
    LET opens == {j \in i + 1 .. Len(lines) : HasToken(lines[j], "open")}
        ends == {j \in Min(opens) .. Len(lines) : HasToken(lines[j], "close")}
    IN  IF opens = {} THEN {} ELSE Min(opens) .. Min(ends \cup {Len(lines)})

(* Those of any other one: what nobody has read, up to the next annotation. *)
OwnLines(lines, i, visited) ==
    {j \in i + 1 .. Len(lines) :
        j \notin visited /\ \A k \in i + 1 .. j : ~IsAnnotation(lines[k])}

ReadBlock(lines, acc, i) ==
    LET own == IF lines[i].label = "table" THEN TableLines(lines, i)
               ELSE OwnLines(lines, i, acc.visited)
    IN  IF i \in acc.visited \/ ~IsAnnotation(lines[i]) \/ ~lines[i].located THEN acc
        ELSE [visited |-> acc.visited \cup own,
              blocks |-> Append(acc.blocks, [label |-> lines[i].label, box |-> i, lines |-> own])]
BlocksIn(lines) ==
    FoldLeft(LAMBDA acc, i : ReadBlock(lines, acc, i), [visited |-> {}, blocks |-> <<>>],
             [i \in DOMAIN lines |-> i]).blocks

ContentOf(lines, block) ==
    FlattenSeq([j \in DOMAIN lines |-> IF j \in block.lines THEN lines[j].tokens ELSE <<>>])
TextIn(tokens) == FlattenSeq([i \in DOMAIN tokens |-> tokens[i].text])
-----------------------------------------------------------------------------
(* deepseek_table_cells: every row below the first table, in a grid as     *)
(* wide as its widest row.  A span that is no number leaves no cell.       *)
TableTokens(tokens) ==
    LET At(kind, from) == {i \in from .. Len(tokens) : tokens[i].kind = kind /\ tokens[i].tag = "table"}
        start == Min(At("open", 1))
    IN  IF At("open", 1) = {} THEN <<>>
        ELSE IF At("close", start) = {} THEN <<>>
        ELSE SubSeq(tokens, start, Min(At("close", start)))

PlaceInGrid(s, r, cell, rows, cols) ==
    LET free == {c \in s.col .. cols - 1 : <<r, c>> \notin s.taken}
        col == Min(free)
        endRow == Smaller(r + ParseSpan(cell.rowspan, MaxTableCells), rows)
        endCol == Smaller(col + ParseSpan(cell.colspan, MaxTableCells), cols)
    IN  IF free = {} THEN [s EXCEPT !.col = cols]
        ELSE [col |-> col + ParseSpan(cell.colspan, MaxTableCells),
              taken |-> s.taken \cup (r .. endRow - 1) \X (col .. endCol - 1),
              cells |-> Append(s.cells, Cell(r, col, endRow, endCol, cell.text))]

PlaceRows(rows) ==
    LET Width(row) == FoldLeft(LAMBDA n, cell : n + ParseSpan(cell.colspan, MaxTableCells), 0, row)
        Widest == Smaller(4 * MaxTableCols, FoldLeft(LAMBDA n, row : Larger(n, Width(row)), 0, rows))
        PlaceRow(acc, r, cols) ==
            FoldLeft(LAMBDA t, cell : PlaceInGrid(t, r - 1, cell, Len(rows), cols),
                     [acc EXCEPT !.col = 0], rows[r])
        Placed(cols) == FoldLeft(LAMBDA acc, r : PlaceRow(acc, r, cols),
                                 [col |-> 0, taken |-> {}, cells |-> <<>>], [r \in DOMAIN rows |-> r])
    IN  IF \E r \in DOMAIN rows : \E i \in DOMAIN rows[r] :
              BadSpan \in {rows[r][i].colspan, rows[r][i].rowspan}
        THEN <<>> ELSE Placed(Widest).cells

DeepSeekTableCells(tokens) ==
    LET RowNodes(s) == SelectSeq(ElementsBelow(s.tree, 1), LAMBDA n : Tag(s, n) = "tr")
        Rows(s, nodes) == [r \in DOMAIN nodes |-> RowCells(s, nodes[r])]
        Read(s) == Rows(s, RowNodes(s))
    IN  PlaceRows(Read(Builder(ParseMarkup(TableTokens(tokens), "html"), NewWriter("none"))))
-----------------------------------------------------------------------------
CaptionLabels == [table |-> "table_caption", figure |-> "figure_caption", image |-> "image_caption"]
CaptionOf(label) == IF label \in DOMAIN CaptionLabels THEN CaptionLabels[label] ELSE ""
IsCaptionLabel(label) == \E owner \in DOMAIN CaptionLabels : CaptionLabels[owner] = label

(* Block i is the caption right behind its owner. *)
FollowsOwner(blocks, i) ==
    /\ i \in 2 .. Len(blocks) /\ IsCaptionLabel(blocks[i].label)
    /\ CaptionOf(blocks[i - 1].label) = blocks[i].label

ItemLabel(label) ==
    CASE label = "title" -> "title"
      [] label = "sub_title" -> "section_header"
      [] label = "header" -> "page_header"
      [] label = "footer" -> "page_footer"
      [] IsCaptionLabel(label) -> "caption"
      [] OTHER -> "text"

AddOwnItem(w, block, content) ==
    CASE block.label \in {"figure", "image"} -> AddPicture(w, block.box, Body)
      [] block.label = "table" -> AddTable(w, block.box, DeepSeekTableCells(content), Body)
      [] OTHER -> AddText(w, ItemLabel(block.label), block.box, TextIn(content), Body)

(* Mutant: a caption that follows its owner keeps its own place as well. *)
PassedOverNever(blocks, i) == FALSE

(* The caption goes ahead of its owner, and is passed over in its place. *)
PassedOver(blocks, i) == FollowsOwner(blocks, i)

PutBlock(w, lines, blocks, i) ==
    LET Content(k) == ContentOf(lines, blocks[k])
        Own(v) == AddOwnItem(v, blocks[i], Content(i))
        Linked(u) == LinkCaption(u, Last(u.entries).ref, NextRef(w.doc, "texts"))
    IN  IF PassedOver(blocks, i) THEN w
        ELSE IF FollowsOwner(blocks, i + 1)
        THEN Linked(Own(AddText(w, "caption", blocks[i + 1].box, TextIn(Content(i + 1)), Body)))
        ELSE Own(w)

MapDeepSeekOcr(lines, image) ==
    LET Built(blocks) == FoldLeft(LAMBDA w, i : PutBlock(w, lines, blocks, i), NewWriter(image),
                                  [i \in DOMAIN blocks |-> i])
        Finished(w) == [ok |-> w.entries # <<>>, w |-> FinishWriter(w)]
    IN  Finished(Built(BlocksIn(lines)))

(* The text that has a place on the page. *)
DeepSeekHeard(lines) ==
    LET blocks == BlocksIn(lines)
    IN  UNION {ToSet(TextIn(ContentOf(lines, blocks[i]))) :
                 i \in {k \in DOMAIN blocks : blocks[k].label \notin {"figure", "image", "table"}}}
=============================================================================
