------------------------------- MODULE DocTags -------------------------------
(***************************************************************************)
(* The DocTags mapper (src/mapping/doctags.cpp): one step per token of the *)
(* model's response.  Tokens are tags, runs of text and runs of four <loc> *)
(* tags; a run's name is its place in the response, 0 for none.            *)
(***************************************************************************)
EXTENDS Document, Tables, PageRaster

CONSTANTS
    Pages,       \* what responses are read: their format, the page's raster,
                 \* the tags that open elements, whether there are groups,
                 \* and how many tokens or lines there are at most
    OtslBodies,  \* what may stand between <otsl> and </otsl>
    InlineKids,  \* the items of an <inline> chunk: sequences of [name, text]
    KeyValues,   \* the cells of a <key_value_region>: sequences of [id, links]
    Shots        \* pixels of a picture's region and bytes of its data URI

ASSUME PagesAssumption == \A p \in Pages : p.image \in Images
ASSUME KidsAssumption == InlineKids \subseteq Seq([name : STRING, text : BOOLEAN])
ASSUME ShotsAssumption == \A shot \in Shots : shot.area \in Nat /\ shot.uri \in Nat

VARIABLES
    input,     \* the member of Pages that is read
    page,      \* the Document, its body order, the raster, warnings, items
    current,   \* the Element being read
    open,      \* element_open
    inOtsl, inCaption,
    pending,   \* pending_locs
    read,      \* tokens read
    outcome,   \* "reading", then "mapped" or "failed"
    heard,     \* history: runs of text read into an element that keeps them
    sawTable   \* history: a table or chart with a row in it was read

vars == <<input, page, current, open, inOtsl, inCaption, pending, read, outcome, heard,
          sawTable>>

(* Places in the response: the parts of chunk n lie between n and n + 1. *)
Parts == 4
Place(part) == Parts * (read + 1) + part

NoElement == [name |-> "", at |-> 0, locs |-> 0, text |-> <<>>, otsl |-> <<>>, classes |-> {},
              hasCaption |-> FALSE, captionLocs |-> 0, captionText |-> <<>>]

(* Mutant: a bare <otsl> is no table. *)
IsTableNamed(name) == name = "table"

IsTable(name) == name \in {"table", "otsl"}
IsContainer(name) == name \in {"picture", "chart", "table", "otsl"}

(* Labels a picture may be classified with, in order of precedence; the    *)
(* last is a legacy alias.                                                 *)
ClassificationLabels == <<"logo", "table", "line_chart", "line">>
PickClassification(classes) ==
    LET seen == SelectSeq(ClassificationLabels, LAMBDA label : label \in classes)
    IN  IF seen = <<>> THEN "" ELSE IF seen[1] = "line" THEN "line_chart" ELSE seen[1]

(* The text elements, with the label each gets. *)
TextLabels ==
    [title |-> "title", section_header_level_1 |-> "section_header", list_item |-> "list_item",
     code |-> "code", formula |-> "formula", page_header |-> "page_header",
     page_footer |-> "page_footer", footnote |-> "footnote", caption |-> "caption",
     checkbox_selected |-> "checkbox_selected", checkbox_unselected |-> "checkbox_unselected",
     document_index |-> "document_index", text |-> "text", paragraph |-> "text"]
Furniture == {"page_header", "page_footer"}

(* Mutant: only the tags of the vocabulary count. *)
EmitsKnown(e) == e.name \in DOMAIN TextLabels \/ IsContainer(e.name)

(* A tag outside the vocabulary keeps its text, if it has any. *)
Emits(e) ==
    e.name \in DOMAIN TextLabels \/ IsContainer(e.name) \/ e.text # <<>> \/ e.otsl # <<>>

(* One more item at the end of the page. *)
Emit(p, kind, item) ==
    [p EXCEPT !.doc = Add(@, kind, item), !.order = Append(@, NextRef(p.doc, kind))]

(* Mutant: the caption is no child of the body. *)
EmitCaptionUnlisted(p, e) ==
    IF e.hasCaption
    THEN [p EXCEPT !.doc = Add(@, "texts", NewItem("caption", e.captionText, e.captionLocs, e.at))]
    ELSE p

(* An embedded caption goes before its item. *)
EmitCaption(p, e) ==
    IF e.hasCaption
    THEN Emit(p, "texts", NewItem("caption", e.captionText, e.captionLocs, e.at)) ELSE p
CaptionsOf(p, e) == IF e.hasCaption THEN <<LastRef(EmitCaption(p, e).doc, "texts")>> ELSE <<>>

(* Mutant: a refused crop is not counted. *)
CountSkipNever(skips, result) == skips

CountSkip(skips, result) == skips \cup (CropSkips \cap {result})

(* The region is cropped when the page carries a raster and the element a box. *)
CropRegion(p, e, shot) ==
    IF p.raster.image # "none" /\ e.locs # 0 THEN Crop(p.raster, shot.area, shot.uri)
    ELSE Outcome(p.raster, "none")

NoShot == [area |-> 0, uri |-> 0]

(* <picture> and <chart>; a chart's OTSL is its data. *)
EmitPicture(p, e, shot) ==
    LET cut == CropRegion(p, e, shot)
        data == IF e.name = "chart" THEN ParseOtslGrid(e.otsl) ELSE NoTable
        item == [NewItem(PickClassification(e.classes), e.text, e.locs, e.at)
                   EXCEPT !.captions = CaptionsOf(p, e), !.data = data, !.image = cut.result]
    IN  [Emit(EmitCaption(p, e), "pictures", item)
           EXCEPT !.raster = cut.raster, !.skips = CountSkip(@, cut.result),
                  !.warnings = @ \o TableWarnings(data, NextRef(p.doc, "pictures"))]

EmitTable(p, e) ==
    LET data == ParseOtslGrid(e.otsl)
        item == [NewItem("table", <<>>, e.locs, e.at)
                   EXCEPT !.captions = CaptionsOf(p, e), !.data = data]
    IN  [Emit(EmitCaption(p, e), "tables", item)
           EXCEPT !.warnings = @ \o TableWarnings(data, NextRef(p.doc, "tables"))]

(* emit_element *)
EmitElement(p, e, shot) ==
    CASE ~Emits(e) -> p
      [] e.name \in {"picture", "chart"} -> EmitPicture(p, e, shot)
      [] IsTable(e.name) -> EmitTable(p, e)
      [] OTHER ->
           Emit(p, "texts",
                [NewItem(IF e.name \in DOMAIN TextLabels THEN TextLabels[e.name] ELSE "text",
                         e.text, e.locs, e.at)
                   EXCEPT !.layer = IF e.name \in Furniture THEN "furniture" ELSE "body"])

(* <ordered_list> and <unordered_list>: a group of n list items. *)
EmitListGroup(p, n, at) ==
    LET group == NextRef(p.doc, "groups")
        items == [i \in 1 .. n |-> NewItem("list_item", <<at + i>>, 0, at + i)]
        refs == [i \in 1 .. n |-> Ref("texts", Len(p.doc.texts) + i)]
        q == Emit(p, "groups", NewItem("list", <<>>, 0, at))
    IN  [q EXCEPT !.doc = Adopt([@ EXCEPT !.texts = @ \o items], refs, group)]

(* The items of an <inline> chunk carry no locations of their own. *)
InlineElement(kid, at) ==
    [NoElement EXCEPT !.name = kid.name, !.at = at, !.text = IF kid.text THEN <<at>> ELSE <<>>]
EmitInline(p, e) == EmitElement(p, e, NoShot)
EmitKids(p, kids, at) ==
    FoldLeft(EmitInline, [p EXCEPT !.order = <<>>],
             [i \in DOMAIN kids |-> InlineElement(kids[i], at + i)])

(* Mutant: the items of the group stay children of the body too. *)
EmitInlineGroupTwice(p, kids, at) ==
    LET group == NextRef(p.doc, "groups")
        q == Emit(p, "groups", NewItem("inline", <<>>, 0, at))
        r == EmitKids(q, kids, at)
    IN  [r EXCEPT !.order = q.order \o r.order, !.doc = Adopt(@, r.order, group)]

(* <inline>: a group of whatever items its chunk holds. *)
EmitInlineGroup(p, kids, at) ==
    LET group == NextRef(p.doc, "groups")
        q == Emit(p, "groups", NewItem("inline", <<>>, 0, at))
        r == EmitKids(q, kids, at)
    IN  [r EXCEPT !.order = q.order, !.doc = Adopt(@, r.order, group)]

(* Links to cells that are not there are dropped. *)
CellLinks(cells) ==
    {<<cells[i].id, target>> : i \in DOMAIN cells, target \in {cells[k].id : k \in DOMAIN cells}}
      \cap UNION {{<<cells[i].id, target>> : target \in cells[i].links} : i \in DOMAIN cells}

EmitKeyValueRegion(p, cells, at) ==
    Emit(p, "key_value_items",
         [NewItem("key_value_region", <<>>, 0, at)
            EXCEPT !.data = [cells |-> [i \in DOMAIN cells |-> cells[i].id],
                             links |-> CellLinks(cells)]])
-----------------------------------------------------------------------------
Init ==
    /\ input \in Pages
    /\ page = [doc |-> EmptyDocument, order |-> <<>>, raster |-> NewRaster(input.image),
               skips |-> {}, warnings |-> <<>>, items |-> 0]
    /\ current = NoElement /\ open = FALSE /\ inOtsl = FALSE /\ inCaption = FALSE
    /\ pending = 0 /\ read = 0 /\ outcome = "reading" /\ heard = {} /\ sawTable = FALSE

Reading(format) ==
    /\ input.format = format /\ UNCHANGED input
    /\ outcome = "reading" /\ read < input.tokens
Token == Reading("doctags") /\ ~inOtsl /\ read' = read + 1 /\ UNCHANGED outcome

(* The crops the element being read may turn out to make. *)
ShotsNow ==
    IF current.name \in {"picture", "chart"} /\ current.locs # 0 THEN Shots ELSE {NoShot}

Flushed(shot) ==
    IF open /\ Emits(current)
    THEN [EmitElement(page, current, shot) EXCEPT !.items = @ + 1] ELSE page

(* flush: the element that is being read, if there is one, is complete. *)
Flush(shot) ==
    /\ page' = Flushed(shot)
    /\ current' = NoElement
    /\ open' = FALSE /\ inCaption' = FALSE /\ pending' = 0

(* What is between <otsl> and </otsl>, or the response's end, is raw. *)
ReadOtsl ==
    /\ Reading("doctags") /\ inOtsl /\ read' = read + 1 /\ inOtsl' = FALSE
    /\ \E body \in OtslBodies :
        /\ current' = [current EXCEPT !.otsl = @ \o body]
        /\ LET table == current.name \in {"table", "otsl", "chart"} /\ ScanRows(body) # << >>
           IN  sawTable' = (sawTable \/ table)
    /\ UNCHANGED <<page, open, inCaption, pending, outcome, heard>>

(* Text, literal '<' and <_..._> tokens belong to the open element. *)
ReadText ==
    /\ Token /\ open
    /\ current' = IF inCaption THEN [current EXCEPT !.captionText = Append(@, Place(0))]
                  ELSE [current EXCEPT !.text = Append(@, Place(0))]
    /\ heard' = IF inCaption \/ current.name \notin {"table", "otsl"}
                THEN heard \cup {Place(0)} ELSE heard
    /\ UNCHANGED <<page, open, inOtsl, inCaption, pending, sawTable>>

(* Four <loc> tags; only the first four of an element count. *)
ReadLocs ==
    /\ Token
    /\ IF inCaption
       THEN current' = [current EXCEPT !.captionLocs = IF @ = 0 THEN Place(0) ELSE @]
            /\ UNCHANGED pending
       ELSE IF open
       THEN current' = [current EXCEPT !.locs = IF @ = 0 THEN Place(0) ELSE @] /\ UNCHANGED pending
       ELSE pending' = (IF pending = 0 THEN Place(0) ELSE pending) /\ UNCHANGED current
    /\ UNCHANGED <<page, open, inOtsl, inCaption, heard, sawTable>>

(* Markup inside a caption carries no structure; its close tag ends it. *)
EndCaption ==
    /\ Token /\ inCaption /\ inCaption' = FALSE
    /\ UNCHANGED <<page, current, open, inOtsl, pending, heard, sawTable>>

(* <caption> inside a picture, chart or table. *)
StartCaption ==
    /\ Token /\ ~inCaption /\ open /\ IsContainer(current.name)
    /\ inCaption' = TRUE /\ current' = [current EXCEPT !.hasCaption = TRUE]
    /\ UNCHANGED <<page, open, inOtsl, pending, heard, sawTable>>

(* <otsl> belongs to the open element, and is an element where none is open. *)
StartOtsl ==
    /\ Token /\ ~inCaption /\ inOtsl' = TRUE /\ open' = TRUE
    /\ IF open THEN UNCHANGED <<current, pending>>
       ELSE /\ current' = [current EXCEPT !.name = "otsl", !.at = Place(0), !.locs = pending]
            /\ pending' = 0
    /\ UNCHANGED <<page, inCaption, heard, sawTable>>

(* Lists, inline groups and key-value regions are read whole; one that is  *)
(* never closed takes the rest of the response.                            *)
ReadGroup ==
    /\ Reading("doctags") /\ input.groups /\ ~inOtsl /\ ~inCaption
    /\ UNCHANGED <<outcome, inOtsl, heard, sawTable>>
    /\ read' \in {read + 1, input.tokens}
    /\ current' = NoElement /\ open' = FALSE /\ inCaption' = FALSE /\ pending' = 0
    /\ \E shot \in ShotsNow :
        LET p == Flushed(shot)
            q == [p EXCEPT !.items = @ + 1]
        IN  \/ \E n \in 0 .. Parts - 1 : page' = EmitListGroup(q, n, Place(0))
            \/ \E kids \in InlineKids : page' = EmitInlineGroup(q, kids, Place(0))
            \/ \E cells \in KeyValues : page' = EmitKeyValueRegion(q, cells, Place(0))

(* A classification tag inside a picture or chart. *)
Classify(tag) ==
    /\ Token /\ ~inCaption /\ open /\ current.name \in {"picture", "chart"}
    /\ tag \in ToSet(ClassificationLabels)
    /\ current' = [current EXCEPT !.classes = @ \cup {tag}]
    /\ UNCHANGED <<page, open, inOtsl, inCaption, pending, heard, sawTable>>

(* The open element's close tag; any other one is ignored. *)
CloseElement ==
    /\ Token /\ ~inCaption /\ open
    /\ \E shot \in ShotsNow : Flush(shot)
    /\ UNCHANGED <<inOtsl, heard, sawTable>>

(* A new element closes the one before it; the flush has dropped whatever  *)
(* locations came ahead of the tag.                                        *)
OpenElement(tag) ==
    /\ Token /\ ~inCaption
    /\ ~(open /\ current.name \in {"picture", "chart"} /\ tag \in ToSet(ClassificationLabels))
    /\ ~(tag = "caption" /\ open /\ IsContainer(current.name))
    /\ \E shot \in ShotsNow : page' = Flushed(shot)
    /\ current' = [NoElement EXCEPT !.name = tag, !.at = Place(0)]
    /\ open' = TRUE /\ inCaption' = FALSE /\ pending' = 0
    /\ UNCHANGED <<inOtsl, heard, sawTable>>

SkipWarnings(p) == SetToSeq({[code |-> s, ref |-> NoRef] : s \in p.skips})

(* The response ends, wherever that is. *)
End ==
    /\ outcome = "reading" /\ input.format = "doctags" /\ UNCHANGED input
    /\ \E shot \in ShotsNow :
        LET p == Flushed(shot)
        IN  IF p.items = 0 THEN outcome' = "failed" /\ page' = p
            ELSE /\ outcome' = "mapped"
                 /\ page' = [p EXCEPT !.doc = FinalizeDocument(@, p.order),
                                      !.warnings = @ \o SkipWarnings(p)]
    /\ current' = NoElement /\ open' = FALSE /\ inCaption' = FALSE /\ pending' = 0
    /\ UNCHANGED <<inOtsl, read, heard, sawTable>>

DocTagsNext ==
    \/ ReadOtsl \/ ReadText \/ ReadLocs \/ StartCaption \/ EndCaption \/ StartOtsl
    \/ ReadGroup \/ CloseElement \/ End
    \/ \E tag \in input.tags : Classify(tag) \/ OpenElement(tag)

(* map_doctags, for pages of its format. *)
DocTagsSpec == Init /\ [][DocTagsNext]_vars
-----------------------------------------------------------------------------
Mapped == outcome = "mapped"
Doc == page.doc

(* Every table or picture whose grid was cut short or left out is reported *)
(* with its own ref, from the step that emits it on (note_table_cut, which *)
(* emit_element and emit_picture call for the item they just added).       *)
TablesTold ==
    \A kind \in {"tables", "pictures"} : \A i \in DOMAIN Doc[kind] :
        LET data == Doc[kind][i].data
            Reported(code) == [code |-> code, ref |-> Ref(kind, i)] \in ToSet(page.warnings)
        IN  /\ data.truncated => Reported("TABLE_TRUNCATED")
            /\ data.omitted => Reported("TABLE_GRID_OMITTED")

(* A page never spends more on crops than its budget, whatever the model   *)
(* repeats, and decodes its raster at most once; a picture that a cap left *)
(* without an image is reported, and once the byte cap refused one no      *)
(* later picture gets an image (PageRaster::crop, emit_picture, the        *)
(* warnings of map_doctags and LayoutWriter::finish).                      *)
CropsAccounted ==
    /\ page.raster.crops <= MaxCrops /\ page.raster.pixels <= MaxArea
    /\ page.raster.bytes <= MaxInlineBytes /\ page.raster.decodes <= 1
    /\ Mapped =>
        \A i \in DOMAIN Doc.pictures :
            LET image == Doc.pictures[i].image
            IN  /\ image \in CropSkips =>
                      [code |-> image, ref |-> NoRef] \in ToSet(page.warnings)
                /\ image = "over_byte_cap" =>
                      \A j \in i .. Len(Doc.pictures) : Doc.pictures[j].image # "attached"
=============================================================================
