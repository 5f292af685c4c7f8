----------------------------- MODULE SpanCells -----------------------------
(***************************************************************************)
(* Cells with spans, read from HTML tables (src/mapping/layout.cpp,        *)
(* chandra_table_cells).                                                   *)
(***************************************************************************)
EXTENDS Tables

(* A span attribute that is no number; one that is missing reads "1". *)
BadSpan == -1

(* parse_span: a bad value is 1, a good one is kept within 1 .. maximum. *)
ParseSpan(value, maximum) ==
    IF value = BadSpan THEN 1 ELSE Smaller(maximum, Larger(1, value))

(* A table is a sequence of its children, each a row of its own ("tr") or  *)
(* a row group; a row of a group spans no further than the group's end.    *)
TableRows(table) ==
    FlattenSeq([g \in DOMAIN table |->
        LET before == FoldLeft(LAMBDA n, group : n + Len(group.rows), 0, SubSeq(table, 1, g - 1))
        IN  [r \in DOMAIN table[g].rows |->
                [cells |-> table[g].rows[r],
                 groupEnd |-> IF table[g].tag = "tr" THEN 0
                              ELSE before + Len(table[g].rows)]]])

(* Rows a cell of row r may span. *)
Remaining(rows, r) ==
    (IF rows[r + 1].groupEnd # 0 THEN rows[r + 1].groupEnd ELSE Len(rows)) - r

(* Mutant: a cell lands where the one before it ended. *)
FreeColumnNext(occupied, r, col) == col

(* The first column not taken by a span from a row above. *)
FreeColumn(occupied, r, col) ==
    Min({c \in col .. 4 * MaxTableCols : occupied[c] <= r})

(* One cell of row r.  A cell far past the column cap ends its row: the    *)
(* rest of the row is dropped.                                             *)
PlaceCell(rows, r, s, node) ==
    LET colSpan == ParseSpan(node.colspan, MaxTableCells)
        rowSpan == IF node.rowspan = 0 THEN Remaining(rows, r)
                   ELSE ParseSpan(node.rowspan, Remaining(rows, r))
        col == FreeColumn(s.occupied, r, s.col)
    IN  IF s.full THEN s
        ELSE IF col + colSpan > 4 * MaxTableCols THEN [s EXCEPT !.full = TRUE]
        ELSE [full |-> FALSE, col |-> col + colSpan,
              occupied |-> [c \in DOMAIN s.occupied |->
                  IF c \in col .. col + colSpan - 1
                  THEN Larger(s.occupied[c], r + rowSpan) ELSE s.occupied[c]],
              cells |-> Append(s.cells, Cell(r, col, r + rowSpan, col + colSpan, node.text)),
              nodes |-> Append(s.nodes, node.id)]

(* The cells of a table, and the nodes they were read from. *)
ChandraTableCells(table) ==
    LET rows == TableRows(table)
        PlaceRow(s, r) == FoldLeft(LAMBDA t, node : PlaceCell(rows, r, t, node),
                                   [s EXCEPT !.col = 0, !.full = FALSE], rows[r + 1].cells)
    IN  FoldLeft(PlaceRow,
                 [full |-> FALSE, col |-> 0, cells |-> <<>>, nodes |-> <<>>,
                  occupied |-> [c \in 0 .. 4 * MaxTableCols |-> 0]],
                 [i \in DOMAIN rows |-> i - 1])
=============================================================================
