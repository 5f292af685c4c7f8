------------------------------- MODULE Layout -------------------------------
(***************************************************************************)
(* LayoutWriter (src/mapping/layout.cpp): how the layout formats build one *)
(* page.  A writer holds the Document, an entry [ref, parent] for every    *)
(* item in the order they were added, the raster and the warnings.         *)
(* A box is a name, 0 for none; texts are sequences of names.              *)
(***************************************************************************)
EXTENDS Document, SpanCells, PageRaster

CONSTANT Region  \* pixels of every picture's region and bytes of its data URI

NewWriter(image) ==
    [doc |-> EmptyDocument, entries |-> <<>>, raster |-> NewRaster(image),
     skips |-> {}, warnings |-> <<>>]

(* body_: the entries whose parent is the body. *)
BodyOf(w) ==
    LET top == SelectSeq(w.entries, LAMBDA e : e.parent = Body)
    IN  [i \in DOMAIN top |-> top[i].ref]
BodySize(w) == Len(BodyOf(w))

(* Add an item and its entry; the new item is the last of its kind. *)
AddEntry(w, kind, item, parent) ==
    [w EXCEPT !.doc = Add(@, kind, item),
              !.entries = Append(@, [ref |-> NextRef(w.doc, kind), parent |-> parent])]
ChildCount(w, ref) == Cardinality({i \in DOMAIN w.entries : w.entries[i].parent = ref})

SetField(w, ref, field, value) ==
    [w EXCEPT !.doc = [@ EXCEPT ![ref.kind][ref.index][field] = value]]

(* text, title, heading, formula, code, list_item and styled_text.  Page   *)
(* headers and footers are furniture.                                      *)
AddText(w, label, box, text, parent) ==
    AddEntry(w, "texts",
             [NewItem(label, text, box, 0)
                EXCEPT !.layer = IF label \in {"page_header", "page_footer"}
                                 THEN "furniture" ELSE "body"], parent)
LastText(w) == LastRef(w.doc, "texts")
TextOf(w, ref) == IF ref.kind = "texts" THEN ItemAt(w.doc, ref).text ELSE <<>>
LabelOf(w, ref) == IF ref.kind = "texts" THEN ItemAt(w.doc, ref).label ELSE ref.kind

(* set_text and set_content_layer ask what the ref is first. *)
SetText(w, ref, text) == IF ref.kind = "texts" THEN SetField(w, ref, "text", text) ELSE w
SetContentLayer(w, ref, layer) ==
    IF ref.kind \in {"texts", "groups"} THEN SetField(w, ref, "layer", layer) ELSE w

AddGroup(w, label, parent) == AddEntry(w, "groups", NewItem(label, <<>>, 0, 0), parent)
LastGroup(w) == LastRef(w.doc, "groups")
AddFieldRegion(w, box, parent) ==
    AddEntry(w, "field_regions", NewItem("field_region", <<>>, box, 0), parent)

(* picture: a real box crops the raster, and what a cap refused counts. *)
AddPicture(w, box, parent) ==
    LET Pictured(cut) ==
            AddEntry([w EXCEPT !.raster = cut.raster, !.skips = @ \cup (CropSkips \cap {cut.result})],
                     "pictures",
                     [NewItem("", <<>>, box, 0) EXCEPT !.image = cut.result, !.data = NoTable], parent)
    IN  Pictured(IF box # 0 /\ w.raster.image # "none"
                 THEN Crop(w.raster, Region.area, Region.uri) ELSE Outcome(w.raster, "none"))

SetTableData(w, ref, data) ==
    [SetField(w, ref, "data", data) EXCEPT !.warnings = @ \o TableWarnings(data, ref)]

(* A table the model left unreadable has no cells. *)
AddBareTable(w, box, parent) ==
    AddEntry(w, "tables", [NewItem("table", <<>>, box, 0) EXCEPT !.data = NoTable], parent)
AddTable(w, box, cells, parent) ==
    LET v == AddBareTable(w, box, parent)
    IN  IF cells = <<>> THEN v
        ELSE SetTableData(v, LastRef(v.doc, "tables"), FillSpanTable(cells))

(* set_tabular_chart: the data of a chart goes to its picture. *)
SetTabularChart(w, ref, rows) == IF rows = <<>> THEN w ELSE SetTableData(w, ref, FillTableData(rows))

(* Pictures, tables and code have captions and footnotes. *)
OwnsCaptions(w, owner) ==
    owner.kind \in {"pictures", "tables"} \/ LabelOf(w, owner) = "code"
LinkCaption(w, owner, caption) ==
    IF OwnsCaptions(w, owner)
    THEN SetField(w, owner, "captions", Append(ItemAt(w.doc, owner).captions, caption)) ELSE w
LinkFootnote(w, owner, footnote) ==
    IF OwnsCaptions(w, owner)
    THEN SetField(w, owner, "footnotes", Append(ItemAt(w.doc, owner).footnotes, footnote)) ELSE w
HasCaptions(w, owner) ==
    owner.kind \in {"pictures", "tables"} /\ ItemAt(w.doc, owner).captions # <<>>

-----------------------------------------------------------------------------
(* link_adjacent_captions.  Block i holds the body children from starts[i] *)
(* up to the next block's start.                                           *)
BlockOf(w, starts, i) ==
    SubSeq(BodyOf(w), starts[i] + 1, IF i < Len(starts) THEN starts[i + 1] ELSE BodySize(w))

(* The items beside block i that could own its caption: neighbours that    *)
(* are a single picture, table or, for some formats, code.                 *)
OwnersBeside(w, starts, i, codeOwners) ==
    LET Lone(block) == IF Len(block) = 1 THEN block ELSE <<>>
        Beside(n) == IF n \in DOMAIN starts THEN Lone(BlockOf(w, starts, n)) ELSE <<>>
    IN  SelectSeq(Beside(i - 1) \o Beside(i + 1),
                  LAMBDA ref : \/ ref.kind \in {"pictures", "tables"}
                               \/ codeOwners /\ LabelOf(w, ref) = "code")

LoneCaption(w, block) ==
    /\ Len(block) = 1 /\ LabelOf(w, block[1]) = "caption"
    /\ TextOf(w, block[1]) # <<>> /\ ChildCount(w, block[1]) = 0

(* Mutant: an owner takes every caption beside it. *)
LinkOwnerAgain(w, block, owners) ==
    IF LoneCaption(w, block) /\ Len(owners) = 1 /\ owners[1].kind # "texts"
    THEN LinkCaption(w, owners[1], block[1]) ELSE w

(* Only one owner, that is no code and has no caption yet, gets it. *)
LinkOwner(w, block, owners) ==
    IF /\ LoneCaption(w, block)
       /\ Len(owners) = 1 /\ owners[1].kind # "texts" /\ ~HasCaptions(w, owners[1])
    THEN LinkCaption(w, owners[1], block[1]) ELSE w

LinkAdjacentCaptions(w, starts, captionBlocks, codeOwners) ==
    FoldLeft(LAMBDA v, i : LinkOwner(v, BlockOf(v, starts, i), OwnersBeside(v, starts, i, codeOwners)),
             w, captionBlocks)

(* finish: body children are stamped by finalize_document, nested items    *)
(* become their parents' children in the order they were added.            *)
FinishWriter(w) ==
    LET nested == SelectSeq(w.entries, LAMBDA e : e.parent # Body)
        Nest(doc, e) == Adopt(doc, <<e.ref>>, e.parent)
    IN  [w EXCEPT !.doc = FoldLeft(Nest, FinalizeDocument(@, BodyOf(w)), nested),
                  !.warnings = @ \o SetToSeq({[code |-> s, ref |-> NoRef] : s \in w.skips})]
=============================================================================
