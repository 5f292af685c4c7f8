------------------------------- MODULE Tables -------------------------------
(***************************************************************************)
(* Tables (src/mapping/builder.h, otsl.cpp, layout.cpp and doclang.cpp):   *)
(* from the cells a model wrote, with their spans, to a rectangular grid   *)
(* within the table caps.  Rows and columns count from 0.                  *)
(***************************************************************************)
EXTENDS Integers, Sequences, SequencesExt, FiniteSets, FiniteSetsExt, TLC

CONSTANTS MaxTableRows, MaxTableCols, MaxTableCells, MaxGridBytes

ASSUME TableCaps ==
    /\ MaxTableRows \in Nat \ {0} /\ MaxTableCols \in Nat \ {0}
    /\ MaxTableCells \in Nat /\ MaxTableCells >= MaxTableCols
    /\ MaxGridBytes \in Nat

Smaller(a, b) == IF a <= b THEN a ELSE b
Larger(a, b) == IF a <= b THEN b ELSE a

(* Mutant: the cap on cells is forgotten. *)
KeptTableShapeUncapped(rows, cols) ==
    [rows |-> Smaller(rows, MaxTableRows), cols |-> Smaller(cols, MaxTableCols)]

(* The leading part of a rows x cols source that fits the caps. *)
KeptTableShape(rows, cols) ==
    LET kept == Smaller(cols, MaxTableCols)
    IN  [rows |-> IF kept > 0
                  THEN Smaller(Smaller(rows, MaxTableRows), MaxTableCells \div kept)
                  ELSE Smaller(rows, MaxTableRows),
         cols |-> kept]

(* A cell: its anchor position, the position past its span, its text. *)
Cell(row, col, endRow, endCol, text) ==
    [row |-> row, col |-> col, endRow |-> endRow, endCol |-> endCol, text |-> text]
Covers(cell, r, c) == r \in cell.row .. cell.endRow - 1 /\ c \in cell.col .. cell.endCol - 1

(* Text is a number that also stands for its length in bytes; a position   *)
(* no cell covers holds an empty 1x1 cell.                                 *)
Blank == 0
CellBytes(cell) == (cell.endRow - cell.row) * (cell.endCol - cell.col) * (1 + cell.text)
GridBytes(cells) == FoldLeft(LAMBDA bytes, cell : bytes + CellBytes(cell), 0, cells)

(* Mutant: cells are stamped in reverse. *)
TopmostFirst(cells, r, c) == Min({i \in DOMAIN cells : Covers(cells[i], r, c)})

(* Anchors are copied onto their spans in order, so the last one stays. *)
Topmost(cells, r, c) == Max({i \in DOMAIN cells : Covers(cells[i], r, c)})

GridOf(cells, rows, cols) ==
    [r \in 0 .. rows - 1 |-> [c \in 0 .. cols - 1 |->
        IF \E i \in DOMAIN cells : Covers(cells[i], r, c)
        THEN cells[Topmost(cells, r, c)].text ELSE Blank]]

NoTable == [rows |-> 0, cols |-> 0, cells |-> <<>>, grid |-> <<>>,
            truncated |-> FALSE, omitted |-> FALSE, rich |-> {}]

(* A grid whose copies would cost too much is left empty; the cells stay. *)
FillGrid(cells, rows, cols, truncated) ==
    LET Filled(omitted) ==
            [rows |-> rows, cols |-> cols, cells |-> cells,
             grid |-> IF omitted THEN <<>> ELSE GridOf(cells, rows, cols),
             truncated |-> truncated, omitted |-> omitted, rich |-> {}]
    IN  Filled(GridBytes(cells) > MaxGridBytes)

(* Mutant: only dropped rows and columns are reported. *)
TableWarningsTruncated(data, ref) ==
    IF data.truncated THEN <<[code |-> "TABLE_TRUNCATED", ref |-> ref]>> ELSE <<>>

(* note_table_cut: what is said of a table that was cut. *)
TableWarnings(data, ref) ==
    (IF data.truncated THEN <<[code |-> "TABLE_TRUNCATED", ref |-> ref]>> ELSE <<>>)
      \o (IF data.omitted THEN <<[code |-> "TABLE_GRID_OMITTED", ref |-> ref]>> ELSE <<>>)
-----------------------------------------------------------------------------
(* Cells with spans (fill_span_table). *)

SourceRows(cells) == FoldLeft(LAMBDA n, cell : Larger(n, cell.endRow), 0, cells)
SourceCols(cells) == FoldLeft(LAMBDA n, cell : Larger(n, cell.endCol), 0, cells)

Clip(cell, kept) ==
    [cell EXCEPT !.endRow = Smaller(@, kept.rows), !.endCol = Smaller(@, kept.cols)]

FillClipped(cells, rows, cols, kept) ==
    LET inside == SelectSeq(cells, LAMBDA cell : cell.row < kept.rows /\ cell.col < kept.cols)
    IN  FillGrid([i \in DOMAIN inside |-> Clip(inside[i], kept)], kept.rows, kept.cols,
                 kept.rows < rows \/ kept.cols < cols)
FillSpanTable(cells) ==
    LET Capped(rows, cols) == FillClipped(cells, rows, cols, KeptTableShape(rows, cols))
    IN  Capped(SourceRows(cells), SourceCols(cells))

(* Rows of plain cells, ragged or not (fill_table_data): the widest kept   *)
(* row sets the width, short rows are padded in the grid only.             *)
FillTableData(rows) ==
    LET Widest(source) == FoldLeft(LAMBDA n, row : Larger(n, Len(row)), 0, source)
        Cells(height, width) ==
            FlattenSeq([r \in 1 .. height |->
                           [c \in 1 .. Smaller(Len(rows[r]), width) |->
                               Cell(r - 1, c - 1, r, c, rows[r][c])]])
        Filled(height, width, cells, truncated) ==
            [rows |-> height, cols |-> width, cells |-> cells, grid |-> GridOf(cells, height, width),
             truncated |-> truncated, omitted |-> FALSE, rich |-> {}]
        Sized(height, width, truncated) == Filled(height, width, Cells(height, width), truncated)
        Capped(widest, kept) ==
            Sized(kept.rows, Smaller(Widest(SubSeq(rows, 1, kept.rows)), kept.cols),
                  kept.rows < Len(rows) \/ kept.cols < widest)
        Sourced(widest) == Capped(widest, KeptTableShape(Len(rows), widest))
    IN  Sourced(Widest(rows))
-----------------------------------------------------------------------------
(* OTSL (otsl.cpp): a table as a stream of cell tokens. *)

Anchor(token) == token.tag \in {"fcel", "ecel", "ched", "rhed", "srow"}
HorizontalFiller(token) == token.tag \in {"lcel", "xcel"}
VerticalFiller(token) == token.tag \in {"ucel", "xcel"}

NextRow(scan) == IF scan.col > 0 THEN [scan EXCEPT !.row = @ + 1, !.col = 0] ELSE scan

(* scan_rows: where each cell token lands; other tags open no row. *)
ScanToken(scan, token) ==
    LET s == IF token.tag = "srow" THEN NextRow(scan) ELSE scan
    IN  CASE token.tag = "nl" -> NextRow(scan)
          [] Anchor(token) \/ HorizontalFiller(token) \/ VerticalFiller(token) ->
               [s EXCEPT !.at = @ @@ (<<s.row, s.col>> :> token), !.col = @ + 1]
          [] OTHER -> scan
ScanRows(tokens) == FoldLeft(ScanToken, [row |-> 0, col |-> 0, at |-> << >>], tokens).at

RowCount(at) == Max({0} \cup {p[1] + 1 : p \in DOMAIN at})
ColCount(at) == Max({0} \cup {p[2] + 1 : p \in DOMAIN at})

(* An anchor's span is the unbroken run of fillers beside or below it. *)
ColSpan(at, r, c) ==
    1 + Cardinality({n \in c + 1 .. c + Cardinality(DOMAIN at) :
            \A k \in c + 1 .. n : <<r, k>> \in DOMAIN at /\ HorizontalFiller(at[<<r, k>>])})
RowSpan(at, r, c) ==
    1 + Cardinality({n \in r + 1 .. r + Cardinality(DOMAIN at) :
            \A k \in r + 1 .. n : <<k, c>> \in DOMAIN at /\ VerticalFiller(at[<<k, c>>])})

(* The positions of a scan, row by row. *)
RowMajor(at) ==
    SelectSeq(FlattenSeq([r \in 1 .. RowCount(at) |->
                             [c \in 1 .. ColCount(at) |-> <<r - 1, c - 1>>]]),
              LAMBDA p : p \in DOMAIN at)

FillAnchors(at, rows, truncated) ==
    LET anchors == SelectSeq(RowMajor(at), LAMBDA p : Anchor(at[p]))
        AnchorCell(p) == Cell(p[1], p[2], p[1] + RowSpan(at, p[1], p[2]), p[2] + ColSpan(at, p[1], p[2]),
                              IF at[p].tag = "ecel" THEN Blank ELSE at[p].text)
    IN  FillGrid([i \in DOMAIN anchors |-> AnchorCell(anchors[i])], rows, ColCount(at), truncated)

(* parse_otsl_grid: only the tokens within the caps are looked at. *)
ParseOtslGrid(tokens) ==
    LET Capped(all, shape) ==
            IF RowCount(all) = 0 THEN NoTable
            ELSE FillAnchors([p \in {q \in DOMAIN all : q[1] < shape.rows /\ q[2] < shape.cols} |-> all[p]],
                             shape.rows, shape.rows < RowCount(all) \/ shape.cols < ColCount(all))
        Scanned(all) == Capped(all, KeptTableShape(RowCount(all), ColCount(all)))
    IN  Scanned(ScanRows(tokens))
=============================================================================
