--------------------------- MODULE DocTagsProofs ----------------------------
(***************************************************************************)
(* The DocTags mapper accounts for its crops and reports the tables that   *)
(* were cut, for any response, any caps and any sizes of the regions and   *)
(* of their data URIs.                                                     *)
(***************************************************************************)
EXTENDS DocTags, FiniteSetTheorems, TLAPS

-----------------------------------------------------------------------------
(* The raster.                                                             *)

(* A raster within its budget; only one that was looked at was decoded.    *)
Rasters ==
    [image : Images, tried : BOOLEAN, decodes : 0..1, crops : 0..MaxCrops, pixels : 0..MaxArea,
     bytes : 0..MaxInlineBytes, spent : BOOLEAN]
RasterInv(r) == r \in Rasters /\ (~r.tried => r.decodes = 0)

LEMMA NewRasterInv == ASSUME NEW image \in Images PROVE RasterInv(NewRaster(image))
BY CropCaps DEF NewRaster, RasterInv, Rasters

LEMMA DecodeInv ==
  ASSUME NEW r, RasterInv(r)
  PROVE  RasterInv(Decode(r)) /\ Decode(r).spent = r.spent
<1>1. CASE r.tried BY Zenon, <1>1 DEF Decode
<1>2. CASE ~r.tried
  <2>1. PICK n \in 0..1 : n = r.decodes + IF r.image \in {"good", "broken"} THEN 1 ELSE 0
    BY <1>2 DEF RasterInv, Rasters
  <2>2. Decode(r) = [r EXCEPT !.tried = TRUE, !.decodes = n] BY Zenon, <1>2, <2>1 DEF Decode
  <2> QED BY <2>2 DEF RasterInv, Rasters
<1> QED BY Zenon, <1>1, <1>2

(* What a crop does to the raster, and what its result says: an image is   *)
(* attached only before the byte cap was met, and the crop that meets it   *)
(* closes it for good.                                                     *)
CutOf(r, cut) ==
    /\ RasterInv(cut.raster)
    /\ r.spent => cut.raster.spent /\ cut.result # "attached"
    /\ cut.result = "over_byte_cap" => cut.raster.spent

LEMMA AttachInv ==
  ASSUME NEW r, RasterInv(r), ~r.spent, NEW uri \in Nat
  PROVE  CutOf(r, Attach(r, uri))
<1>1. CASE uri = 0 BY <1>1 DEF Attach, Outcome, CutOf
<1>2. CASE uri # 0 /\ uri > MaxInlineBytes - r.bytes
  <2>1. PICK s : s = [r EXCEPT !.spent = TRUE] OBVIOUS
  <2>2. Attach(r, uri) = [raster |-> s, result |-> "over_byte_cap"]
    BY Zenon, <1>2, <2>1 DEF Attach, Outcome
  <2>3. RasterInv(s) /\ s.spent BY <2>1 DEF RasterInv, Rasters
  <2> QED BY <2>2, <2>3 DEF CutOf
<1>3. CASE uri # 0 /\ ~(uri > MaxInlineBytes - r.bytes)
  <2>1. PICK s : s = [r EXCEPT !.bytes = @ + uri] OBVIOUS
  <2>2. Attach(r, uri) = [raster |-> s, result |-> "attached"]
    BY Zenon, <1>3, <2>1 DEF Attach, Outcome
  <2>3. r.bytes + uri \in 0..MaxInlineBytes BY CropCaps, <1>3 DEF RasterInv, Rasters
  <2>4. RasterInv(s) BY <2>1, <2>3 DEF RasterInv, Rasters
  <2> QED BY <2>2, <2>4 DEF CutOf
<1> QED BY Zenon, <1>1, <1>2, <1>3

(* PageRaster::crop stays within the budget. *)
LEMMA CropInv ==
  ASSUME NEW r, RasterInv(r), NEW area \in Nat, NEW uri \in Nat
  PROVE  CutOf(r, Crop(r, area, uri))
<1>1. PICK d : d = Decode(r) OBVIOUS
<1>2. RasterInv(d) /\ d.spent = r.spent BY Zenon, <1>1, DecodeInv
<1>3. CASE d.image # "good"
  BY <1>1, <1>2, <1>3 DEF Crop, Outcome, CutOf
<1>4. CASE d.image = "good" /\ area = 0
  BY <1>1, <1>2, <1>4 DEF Crop, Outcome, CutOf
<1>5. CASE d.image = "good" /\ area # 0 /\ d.spent
  BY <1>1, <1>2, <1>5 DEF Crop, Outcome, CutOf
<1>6. CASE d.image = "good" /\ area # 0 /\ ~d.spent /\ (d.crops >= MaxCrops \/ d.pixels + area > MaxArea)
  BY <1>1, <1>2, <1>6 DEF Crop, Outcome, CutOf
<1>7. CASE d.image = "good" /\ area # 0 /\ ~d.spent /\ ~(d.crops >= MaxCrops \/ d.pixels + area > MaxArea)
  <2>1. Crop(r, area, uri) = Attach(Spend(d, area), uri) BY Zenon, <1>1, <1>7 DEF Crop
  <2>2. d.crops + 1 \in 0..MaxCrops /\ d.pixels + area \in 0..MaxArea
    BY CropCaps, <1>2, <1>7 DEF RasterInv, Rasters
  <2>3. RasterInv(Spend(d, area)) /\ Spend(d, area).spent = d.spent
    BY <1>2, <2>2 DEF Spend, RasterInv, Rasters
  <2>4. CutOf(Spend(d, area), Attach(Spend(d, area), uri)) BY Zenon, <1>7, <2>3, AttachInv
  <2> QED BY Zenon, <1>2, <2>1, <2>3, <2>4 DEF CutOf
<1> QED BY Zenon, <1>3, <1>4, <1>5, <1>6, <1>7

-----------------------------------------------------------------------------
(* Sequences of whatever the items hold.                                   *)

IsSequence(s) == \E n \in Nat : DOMAIN s = 1..n /\ s = [i \in 1..n |-> s[i]]

LEMMA SequenceIs ==
  ASSUME NEW s, IsSequence(s)
  PROVE  \E S : s \in Seq(S)
<1>1. PICK n \in Nat : DOMAIN s = 1..n /\ s = [i \in 1..n |-> s[i]] BY Zenon DEF IsSequence
<1> DEFINE S == {s[i] : i \in 1..n}
<1>2. s \in [1..n -> S] BY Zenon, <1>1
<1> HIDE DEF S
<1>3. s \in Seq(S) BY <1>2
<1> QED BY Zenon, <1>3

LEMMA IsSequenceOf ==
  ASSUME NEW S, NEW s \in Seq(S)
  PROVE  IsSequence(s) /\ Len(s) \in Nat /\ DOMAIN s = 1..Len(s)
BY DEF IsSequence

LEMMA ShortSequences == IsSequence(<< >>) /\ \A x : IsSequence(<<x>>)
<1>1. IsSequence(<< >>)
  <2>1. << >> \in Seq({}) OBVIOUS
  <2> QED BY Zenon, <2>1, IsSequenceOf
<1>2. ASSUME NEW x PROVE IsSequence(<<x>>)
  <2>1. <<x>> \in Seq({x}) OBVIOUS
  <2> QED BY Zenon, <2>1, IsSequenceOf
<1> QED BY Zenon, <1>1, <1>2

(* t is s and one thing more. *)
Longer(s, x, t) ==
    /\ IsSequence(t) /\ Len(s) \in Nat /\ DOMAIN s = 1..Len(s) /\ DOMAIN t = 1..(Len(s) + 1)
    /\ t[Len(s) + 1] = x
    /\ \A i \in 1..Len(s) : t[i] = s[i]

LEMMA AppendLonger ==
  ASSUME NEW s, IsSequence(s), NEW x
  PROVE  Longer(s, x, Append(s, x))
<1>1. PICK S : s \in Seq(S) BY Zenon, SequenceIs
<1> DEFINE T == S \cup {x}
<1>2. s \in Seq(T) /\ x \in T BY <1>1
<1> HIDE DEF T
<1>3. Append(s, x) \in Seq(T) BY <1>2
<1>4. IsSequence(Append(s, x)) BY Zenon, <1>3, IsSequenceOf
<1> QED BY <1>2, <1>4 DEF Longer

(* t is s with u behind it. *)
Joined(s, u, t) == IsSequence(t) /\ \A x : x \in ToSet(t) <=> x \in ToSet(s) \/ x \in ToSet(u)

LEMMA ConcatJoined ==
  ASSUME NEW s, IsSequence(s), NEW u, IsSequence(u)
  PROVE  Joined(s, u, s \o u)
<1>1. PICK S : s \in Seq(S) BY Zenon, SequenceIs
<1>2. PICK U : u \in Seq(U) BY Zenon, SequenceIs
<1> DEFINE T == S \cup U
<1>3. s \in Seq(T) /\ u \in Seq(T) BY <1>1, <1>2
<1> HIDE DEF T
<1>4. s \o u \in Seq(T) BY <1>3
<1>5. IsSequence(s \o u) BY Zenon, <1>4, IsSequenceOf
<1>6. /\ DOMAIN s = 1..Len(s) /\ DOMAIN u = 1..Len(u) /\ Len(s) \in Nat /\ Len(u) \in Nat
      /\ DOMAIN (s \o u) = 1..(Len(s) + Len(u))
      /\ \A i \in 1..Len(s) : (s \o u)[i] = s[i]
      /\ \A i \in 1..Len(u) : (s \o u)[Len(s) + i] = u[i]
  BY <1>3
<1>7. ASSUME NEW x PROVE x \in ToSet(s \o u) <=> x \in ToSet(s) \/ x \in ToSet(u)
  <2>1. ASSUME x \in ToSet(s \o u) PROVE x \in ToSet(s) \/ x \in ToSet(u)
    <3>1. PICK i \in 1..(Len(s) + Len(u)) : (s \o u)[i] = x BY <1>6, <2>1 DEF ToSet
    <3>2. CASE i <= Len(s) BY <1>6, <3>1, <3>2 DEF ToSet
    <3>3. CASE i > Len(s)
      <4>1. PICK j \in 1..Len(u) : i = Len(s) + j
        <5>1. i - Len(s) \in 1..Len(u) /\ i = Len(s) + (i - Len(s)) BY <1>6, <3>1, <3>3
        <5> QED BY Zenon, <5>1
      <4> QED BY Zenon, <1>6, <3>1, <4>1 DEF ToSet
    <3> QED BY <1>6, <3>1, <3>2, <3>3
  <2>2. ASSUME x \in ToSet(s) PROVE x \in ToSet(s \o u)
    <3>1. PICK i \in 1..Len(s) : s[i] = x BY Zenon, <1>6, <2>2 DEF ToSet
    <3>2. i \in 1..(Len(s) + Len(u)) BY <1>6, <3>1
    <3> QED BY Zenon, <1>6, <3>1, <3>2 DEF ToSet
  <2>3. ASSUME x \in ToSet(u) PROVE x \in ToSet(s \o u)
    <3>1. PICK i \in 1..Len(u) : u[i] = x BY Zenon, <1>6, <2>3 DEF ToSet
    <3>2. Len(s) + i \in 1..(Len(s) + Len(u)) BY <1>6, <3>1
    <3> QED BY Zenon, <1>6, <3>1, <3>2 DEF ToSet
  <2> QED BY Zenon, <2>1, <2>2, <2>3
<1> QED BY Zenon, <1>5, <1>7 DEF Joined

-----------------------------------------------------------------------------
(* Documents.                                                              *)

(* Pictures or tables: each says what became of its image and holds the    *)
(* data of its table.                                                      *)
ListInv(list) == IsSequence(list) /\ \A i \in DOMAIN list : "image" \in DOMAIN list[i] /\ "data" \in DOMAIN list[i]
SameList(list, new) ==
    /\ ListInv(new) /\ DOMAIN new = DOMAIN list
    /\ \A i \in DOMAIN list : new[i].image = list[i].image /\ new[i].data = list[i].data

DocInv(doc) == DOMAIN doc = Kinds \cup {"body"} /\ ListInv(doc.pictures) /\ ListInv(doc.tables)

(* A document with the same images and tables. *)
SameMarks(doc, new) ==
    DocInv(new) /\ SameList(doc.pictures, new.pictures) /\ SameList(doc.tables, new.tables)

PlainKinds == (Kinds \cup {"body"}) \ {"pictures", "tables"}

LEMMA OtherKindsKeepMarks ==
  ASSUME NEW doc, DocInv(doc), NEW kind \in PlainKinds, NEW items
  PROVE  SameMarks(doc, [doc EXCEPT ![kind] = items])
<1>1. PICK new : new = [doc EXCEPT ![kind] = items] OBVIOUS
<1>2. DOMAIN new = DOMAIN doc /\ new.pictures = doc.pictures /\ new.tables = doc.tables
  BY <1>1 DEF DocInv, Kinds, PlainKinds
<1> QED BY Zenon, <1>1, <1>2 DEF SameMarks, DocInv, SameList

LEMMA SameTwice ==
  ASSUME NEW a, NEW b, NEW c, SameMarks(a, b), SameMarks(b, c)
  PROVE  SameMarks(a, c)
<1>1. SameList(a.pictures, c.pictures) BY Zenon DEF SameMarks, SameList
<1>2. SameList(a.tables, c.tables) BY Zenon DEF SameMarks, SameList
<1> QED BY Zenon, <1>1, <1>2 DEF SameMarks

LEMMA StampedList ==
  ASSUME NEW list, ListInv(list), NEW kind, NEW refs, NEW parent, NEW new,
         new = [i \in DOMAIN list |-> IF Ref(kind, i) \in refs
                                      THEN [list[i] EXCEPT !.self = Ref(kind, i), !.parent = parent]
                                      ELSE list[i]]
  PROVE  SameList(list, new)
<1>1. DOMAIN new = DOMAIN list BY Zenon
<1>2. ASSUME NEW i \in DOMAIN list
      PROVE  /\ "image" \in DOMAIN new[i] /\ new[i].image = list[i].image
             /\ "data" \in DOMAIN new[i] /\ new[i].data = list[i].data
  <2>1. PICK item : item = list[i] OBVIOUS
  <2>2. "image" \in DOMAIN item /\ "data" \in DOMAIN item BY Zenon, <2>1 DEF ListInv
  <2>3. CASE Ref(kind, i) \in refs
    <3>1. PICK self : new[i] = [item EXCEPT !.self = self, !.parent = parent] BY Zenon, <2>1, <2>3
    <3>2. DOMAIN new[i] = DOMAIN item /\ new[i].image = item.image /\ new[i].data = item.data
      BY <2>2, <3>1
    <3> QED BY Zenon, <2>1, <2>2, <3>2
  <2>4. CASE Ref(kind, i) \notin refs
    <3>1. new[i] = item BY Zenon, <2>1, <2>4
    <3> QED BY Zenon, <2>1, <2>2, <3>1
  <2> QED BY Zenon, <2>3, <2>4
<1>3. IsSequence(new)
  <2>1. PICK n \in Nat : DOMAIN list = 1..n BY Zenon DEF ListInv, IsSequence
  <2>2. new = [i \in 1..n |-> new[i]] BY Zenon, <2>1
  <2> QED BY Zenon, <1>1, <2>1, <2>2 DEF IsSequence
<1> QED BY Zenon, <1>1, <1>2, <1>3 DEF SameList, ListInv

LEMMA StampKeepsMarks ==
  ASSUME NEW doc, DocInv(doc), NEW refs, NEW parent
  PROVE  SameMarks(doc, Stamp(doc, refs, parent))
<1> DEFINE pics == [i \in DOMAIN doc["pictures"] |->
                      IF Ref("pictures", i) \in refs
                      THEN [doc["pictures"][i] EXCEPT !.self = Ref("pictures", i), !.parent = parent]
                      ELSE doc["pictures"][i]]
           tables == [i \in DOMAIN doc["tables"] |->
                        IF Ref("tables", i) \in refs
                        THEN [doc["tables"][i] EXCEPT !.self = Ref("tables", i), !.parent = parent]
                        ELSE doc["tables"][i]]
           new == Stamp(doc, refs, parent)
<1>1. DOMAIN new = DOMAIN doc BY DEF Stamp
<1>2. new.pictures = pics BY DEF Stamp, DocInv, Kinds
<1>3. new.tables = tables BY DEF Stamp, DocInv, Kinds
<1>4. SameList(doc.pictures, pics) BY Zenon, StampedList DEF DocInv
<1>5. SameList(doc.tables, tables) BY Zenon, StampedList DEF DocInv
<1> HIDE DEF new, pics, tables
<1>6. SameMarks(doc, new) BY Zenon, <1>1, <1>2, <1>3, <1>4, <1>5 DEF SameMarks, DocInv, SameList
<1> QED BY Zenon, <1>6 DEF new

LEMMA AdoptKeepsMarks ==
  ASSUME NEW doc, DocInv(doc), NEW refs, NEW n
  PROVE  SameMarks(doc, Adopt(doc, refs, Ref("groups", n)))
<1>1. PICK d : d = Stamp(doc, ToSet(refs), Ref("groups", n)) OBVIOUS
<1>2. SameMarks(doc, d) BY Zenon, <1>1, StampKeepsMarks
<1>3. PICK groups : Adopt(doc, refs, Ref("groups", n)) = [d EXCEPT !["groups"] = groups]
  BY <1>1 DEF Adopt, Ref
<1>4. "groups" \in PlainKinds BY DEF PlainKinds, Kinds
<1>5. DocInv(d) BY Zenon, <1>2 DEF SameMarks
<1>6. SameMarks(d, [d EXCEPT !["groups"] = groups]) BY Zenon, <1>4, <1>5, OtherKindsKeepMarks
<1> QED BY Zenon, <1>2, <1>3, <1>6, SameTwice

(* finalize_document keeps the pictures as they are. *)
LEMMA FinalizeKeepsMarks ==
  ASSUME NEW doc, DocInv(doc), NEW order
  PROVE  SameMarks(doc, FinalizeDocument(doc, order))
<1>1. PICK d : d = Stamp(doc, ToSet(order), Body) OBVIOUS
<1>2. SameMarks(doc, d) BY Zenon, <1>1, StampKeepsMarks
<1>3. FinalizeDocument(doc, order) = [d EXCEPT !["body"] = order] BY <1>1 DEF FinalizeDocument
<1>4. "body" \in PlainKinds BY DEF PlainKinds, Kinds
<1>5. DocInv(d) BY Zenon, <1>2 DEF SameMarks
<1>6. SameMarks(d, [d EXCEPT !["body"] = order]) BY Zenon, <1>4, <1>5, OtherKindsKeepMarks
<1> QED BY Zenon, <1>2, <1>3, <1>6, SameTwice

-----------------------------------------------------------------------------
(* Pages.                                                                  *)

(* What a cap refused is counted, and once the byte cap refused a picture  *)
(* the raster is spent and no later one has an image.                      *)
Accounted(pictures, skips, spent) ==
    \A i \in DOMAIN pictures :
        /\ pictures[i].image \in CropSkips => pictures[i].image \in skips
        /\ pictures[i].image = "over_byte_cap" =>
              spent /\ \A j \in DOMAIN pictures : i <= j => pictures[j].image # "attached"

(* A table that was cut is told of with its item's ref. *)
CutTold(data, ref, warnings) ==
    /\ data.truncated => [code |-> "TABLE_TRUNCATED", ref |-> ref] \in ToSet(warnings)
    /\ data.omitted => [code |-> "TABLE_GRID_OMITTED", ref |-> ref] \in ToSet(warnings)
ListTold(list, kind, warnings) == \A i \in DOMAIN list : CutTold(list[i].data, Ref(kind, i), warnings)

(* A page that is being read. *)
PageInv(p) ==
    /\ DOMAIN p = {"doc", "order", "raster", "skips", "warnings", "items"}
    /\ DocInv(p.doc) /\ RasterInv(p.raster) /\ IsSequence(p.warnings)
    /\ p.skips \subseteq CropSkips
    /\ Accounted(p.doc.pictures, p.skips, p.raster.spent)
    /\ ListTold(p.doc.pictures, "pictures", p.warnings) /\ ListTold(p.doc.tables, "tables", p.warnings)

(* Pages that tell the same about crops and about tables. *)
SameReport(p, q) ==
    /\ DOMAIN q = DOMAIN p /\ q.raster = p.raster /\ q.skips = p.skips
    /\ SameMarks(p.doc, q.doc)
    /\ IsSequence(q.warnings) /\ \A x \in ToSet(p.warnings) : x \in ToSet(q.warnings)

LEMMA ListToldStill ==
  ASSUME NEW list, NEW new, SameList(list, new), NEW kind, NEW v, ListTold(list, kind, v),
         NEW w, \A x \in ToSet(v) : x \in ToSet(w)
  PROVE  ListTold(new, kind, w)
BY Zenon DEF SameList, ListTold, CutTold

LEMMA SameReportKeeps ==
  ASSUME NEW p, PageInv(p), NEW q, SameReport(p, q)
  PROVE  PageInv(q)
<1>1. SameList(p.doc.pictures, q.doc.pictures) /\ SameList(p.doc.tables, q.doc.tables)
  BY Zenon DEF SameReport, SameMarks
<1>2. Accounted(q.doc.pictures, q.skips, q.raster.spent)
  BY Zenon, <1>1 DEF SameReport, SameList, PageInv, Accounted
<1>3. \A x \in ToSet(p.warnings) : x \in ToSet(q.warnings) BY Zenon DEF SameReport
<1>4. ListTold(p.doc.pictures, "pictures", p.warnings) /\ ListTold(p.doc.tables, "tables", p.warnings)
  BY Zenon DEF PageInv
<1>5. ListTold(q.doc.pictures, "pictures", q.warnings) BY Zenon, <1>1, <1>3, <1>4, ListToldStill
<1>6. ListTold(q.doc.tables, "tables", q.warnings) BY Zenon, <1>1, <1>3, <1>4, ListToldStill
<1> QED BY Zenon, <1>2, <1>5, <1>6 DEF SameReport, SameMarks, PageInv

LEMMA SameReportTwice ==
  ASSUME NEW a, NEW b, NEW c, SameReport(a, b), SameReport(b, c)
  PROVE  SameReport(a, c)
BY Zenon, SameTwice DEF SameReport

LEMMA SameDoc == ASSUME NEW doc, DocInv(doc) PROVE SameMarks(doc, doc)
BY Zenon DEF SameMarks, SameList, DocInv

(* Emitting anything but a picture or a table. *)
LEMMA EmitSame ==
  ASSUME NEW p, PageInv(p), NEW kind \in PlainKinds, NEW item
  PROVE  SameReport(p, Emit(p, kind, item))
<1>1. PICK q : q = Emit(p, kind, item) OBVIOUS
<1>2. /\ DOMAIN q = DOMAIN p /\ q.raster = p.raster /\ q.skips = p.skips /\ q.warnings = p.warnings
      /\ q.doc = Add(p.doc, kind, item)
  <2>1. PICK d, o : d = Add(p.doc, kind, item) /\ q = [p EXCEPT !.doc = d, !.order = o]
    BY Zenon, <1>1 DEF Emit
  <2>2. DOMAIN p = {"doc", "order", "raster", "skips", "warnings", "items"} BY Zenon DEF PageInv
  <2> QED BY <2>1, <2>2
<1>3. Add(p.doc, kind, item) = [p.doc EXCEPT ![kind] = Append(p.doc[kind], item)] BY DEF Add
<1>4. SameMarks(p.doc, q.doc)
  <2>1. DocInv(p.doc) BY Zenon DEF PageInv
  <2>2. PICK list : q.doc = [p.doc EXCEPT ![kind] = list] BY Zenon, <1>2, <1>3
  <2>3. SameMarks(p.doc, [p.doc EXCEPT ![kind] = list]) BY Zenon, <2>1, OtherKindsKeepMarks
  <2> QED BY Zenon, <2>2, <2>3
<1> QED BY Zenon, <1>1, <1>2, <1>4 DEF SameReport, PageInv

LEMMA EmitCaptionSame ==
  ASSUME NEW p, PageInv(p), NEW e
  PROVE  SameReport(p, EmitCaption(p, e))
<1>1. "texts" \in PlainKinds BY DEF PlainKinds, Kinds
<1>2. CASE e.hasCaption BY Zenon, <1>1, <1>2, EmitSame DEF EmitCaption
<1>3. CASE ~e.hasCaption
  <2>1. SameReport(p, p) BY Zenon, SameDoc DEF SameReport, PageInv
  <2> QED BY Zenon, <1>3, <2>1 DEF EmitCaption
<1> QED BY Zenon, <1>2, <1>3

(* note_table_cut *)
LEMMA TableWarningsTell ==
  ASSUME NEW data, NEW ref
  PROVE  IsSequence(TableWarnings(data, ref)) /\ CutTold(data, ref, TableWarnings(data, ref))
<1> DEFINE x == [code |-> "TABLE_TRUNCATED", ref |-> ref]
           y == [code |-> "TABLE_GRID_OMITTED", ref |-> ref]
           a == IF data.truncated THEN <<x>> ELSE << >>
           b == IF data.omitted THEN <<y>> ELSE << >>
<1>1. IsSequence(a) BY Zenon, ShortSequences
<1>2. IsSequence(b) BY Zenon, ShortSequences
<1>3. TableWarnings(data, ref) = a \o b BY Zenon DEF TableWarnings
<1>4. \A z : z \in ToSet(<<z>>)
  <2>1. \A z : 1 \in DOMAIN <<z>> /\ <<z>>[1] = z OBVIOUS
  <2> QED BY Zenon, <2>1 DEF ToSet
<1>5. (data.truncated => x \in ToSet(a)) /\ (data.omitted => y \in ToSet(b)) BY Zenon, <1>4
<1> HIDE DEF a, b
<1>6. Joined(a, b, a \o b) BY Zenon, <1>1, <1>2, ConcatJoined
<1> QED BY Zenon, <1>3, <1>5, <1>6 DEF Joined, CutTold

LEMMA ToldLonger ==
  ASSUME NEW v, NEW u, NEW w, Joined(v, u, w)
  PROVE  \A x \in ToSet(v) : x \in ToSet(w)
BY Zenon DEF Joined

(* One more picture or table, with what is told of it. *)
LEMMA ListGrown ==
  ASSUME NEW list, ListInv(list), NEW item, "image" \in DOMAIN item, "data" \in DOMAIN item,
         NEW new, new = Append(list, item), NEW kind, NEW v, ListTold(list, kind, v),
         NEW u, NEW w, Joined(v, u, w), CutTold(item.data, Ref(kind, Len(list) + 1), u)
  PROVE  ListInv(new) /\ ListTold(new, kind, w) /\ Longer(list, item, new)
<1>1. Longer(list, item, new) BY Zenon, AppendLonger DEF ListInv
<1>2. PICK n \in Nat : /\ n = Len(list) /\ DOMAIN list = 1..n /\ DOMAIN new = 1..(n + 1)
                       /\ new[n + 1] = item /\ \A i \in 1..n : new[i] = list[i]
  BY Zenon, <1>1 DEF Longer
<1>3. \A i \in 1..(n + 1) : i \in 1..n \/ i = n + 1 BY <1>2
<1>4. \A i \in DOMAIN new : "image" \in DOMAIN new[i] /\ "data" \in DOMAIN new[i]
  BY Zenon, <1>2, <1>3 DEF ListInv
<1>5. ListInv(new) BY Zenon, <1>1, <1>4 DEF ListInv, Longer
<1>6. ASSUME NEW i \in DOMAIN new PROVE CutTold(new[i].data, Ref(kind, i), w)
  <2>1. CASE i \in 1..n
    <3>1. CutTold(list[i].data, Ref(kind, i), v) BY Zenon, <1>2, <2>1 DEF ListTold
    <3>2. CutTold(list[i].data, Ref(kind, i), w) BY Zenon, <3>1, ToldLonger DEF CutTold
    <3> QED BY Zenon, <1>2, <2>1, <3>2
  <2>2. CASE i = n + 1
    <3>1. CutTold(item.data, Ref(kind, n + 1), u) BY Zenon, <1>2
    <3>2. CutTold(item.data, Ref(kind, n + 1), w) BY Zenon, <3>1 DEF CutTold, Joined
    <3> QED BY Zenon, <1>2, <2>2, <3>2
  <2> QED BY Zenon, <1>2, <1>3, <2>1, <2>2
<1> QED BY Zenon, <1>1, <1>5, <1>6 DEF ListTold

(* Lists that are as long have the same next ref. *)
LEMMA SameNextRef ==
  ASSUME NEW a, NEW b, DocInv(a), SameMarks(a, b), NEW kind \in {"pictures", "tables"}
  PROVE  NextRef(a, kind) = NextRef(b, kind)
<1>1. PICK s, t : s = a[kind] /\ t = b[kind] BY Zenon
<1>2. IsSequence(s) /\ IsSequence(t) /\ DOMAIN t = DOMAIN s
  BY Zenon, <1>1 DEF DocInv, SameMarks, SameList, ListInv
<1>3. PICK S : s \in Seq(S) BY Zenon, <1>2, SequenceIs
<1>4. PICK T : t \in Seq(T) BY Zenon, <1>2, SequenceIs
<1>5. PICK m \in Nat : m = Len(s) /\ DOMAIN s = 1..m BY Zenon, <1>3, IsSequenceOf
<1>6. PICK n \in Nat : n = Len(t) /\ DOMAIN t = 1..n BY Zenon, <1>4, IsSequenceOf
<1>7. 1..m = 1..n BY Zenon, <1>2, <1>5, <1>6
<1>8. m = n
  <2>1. (m = 0 \/ m \in 1..m) /\ (n = 0 \/ n \in 1..n) OBVIOUS
  <2>2. (m = 0 \/ m \in 1..n) /\ (n = 0 \/ n \in 1..m) BY Zenon, <1>7, <2>1
  <2> QED BY <2>2
<1> QED BY Zenon, <1>1, <1>5, <1>6, <1>8 DEF NextRef

(* Only the warnings grow, by a sequence. *)
LEMMA WarnSame ==
  ASSUME NEW p, PageInv(p), NEW w, IsSequence(w)
  PROVE  SameReport(p, [p EXCEPT !.warnings = @ \o w])
<1>1. PICK q : q = [p EXCEPT !.warnings = @ \o w] OBVIOUS
<1>2. /\ DOMAIN q = DOMAIN p /\ q.raster = p.raster /\ q.skips = p.skips /\ q.doc = p.doc
      /\ q.warnings = p.warnings \o w
  BY <1>1 DEF PageInv
<1>3. IsSequence(q.warnings) /\ \A x \in ToSet(p.warnings) : x \in ToSet(q.warnings)
  BY Zenon, <1>2, ConcatJoined DEF Joined, PageInv
<1> QED BY Zenon, <1>1, <1>2, <1>3, SameDoc DEF SameReport, PageInv

(* A new picture, with what its crop left of the raster. *)
Pictured(p, item, cut, u, q) ==
    /\ DOMAIN q = DOMAIN p /\ q.doc = Add(p.doc, "pictures", item) /\ q.raster = cut.raster
    /\ q.skips = CountSkip(p.skips, cut.result) /\ Joined(p.warnings, u, q.warnings)
    /\ "image" \in DOMAIN item /\ item.image = cut.result
    /\ "data" \in DOMAIN item /\ CutTold(item.data, NextRef(p.doc, "pictures"), u)

LEMMA PicturedKeeps ==
  ASSUME NEW p, PageInv(p), NEW item, NEW cut, CutOf(p.raster, cut), NEW u, NEW q, Pictured(p, item, cut, u, q)
  PROVE  PageInv(q)
<1>1. PICK s : s = p.doc.pictures OBVIOUS
<1>2. PICK t : t = Append(s, item) OBVIOUS
<1>3. DOMAIN q.doc = DOMAIN p.doc /\ q.doc.pictures = t /\ q.doc.tables = p.doc.tables
  BY <1>1, <1>2 DEF Pictured, Add, PageInv, DocInv, Kinds
<1>4. CutTold(item.data, Ref("pictures", Len(s) + 1), u) BY Zenon, <1>1 DEF Pictured, NextRef
<1>5. ListInv(s) /\ ListTold(s, "pictures", p.warnings) BY Zenon, <1>1 DEF PageInv, DocInv
<1>6. "image" \in DOMAIN item /\ "data" \in DOMAIN item /\ Joined(p.warnings, u, q.warnings) BY Zenon DEF Pictured
<1>7. ListInv(t) /\ ListTold(t, "pictures", q.warnings) /\ Longer(s, item, t)
  BY Zenon, <1>2, <1>4, <1>5, <1>6, ListGrown
<1>8. ListTold(p.doc.tables, "tables", q.warnings)
  <2>1. SameList(p.doc.tables, p.doc.tables) BY Zenon DEF SameList, PageInv, DocInv
  <2>2. \A x \in ToSet(p.warnings) : x \in ToSet(q.warnings) BY Zenon, <1>6, ToldLonger
  <2> QED BY Zenon, <2>1, <2>2, ListToldStill DEF PageInv
<1>9. PICK n \in Nat : /\ n = Len(s) /\ DOMAIN s = 1..n /\ DOMAIN t = 1..(n + 1)
                       /\ t[n + 1] = item /\ \A i \in 1..n : t[i] = s[i]
  BY Zenon, <1>7 DEF Longer
<1>10. \A i \in 1..(n + 1) : i \in 1..n \/ i = n + 1 BY <1>9
<1>11. \A i \in 1..n : i \in 1..(n + 1) /\ ~(n + 1 <= i) BY <1>9
<1>12. DocInv(q.doc) BY Zenon, <1>3, <1>7 DEF DocInv, PageInv
<1>13. /\ \A i \in 1..n : s[i].image \in CropSkips => s[i].image \in p.skips
       /\ \A i \in 1..n : s[i].image = "over_byte_cap" =>
             p.raster.spent /\ \A j \in 1..n : i <= j => s[j].image # "attached"
  <2>1. Accounted(s, p.skips, p.raster.spent) BY Zenon, <1>1 DEF PageInv
  <2> QED BY Zenon, <1>9, <2>1 DEF Accounted
<1>14. /\ item.image \in CropSkips => item.image \in q.skips
       /\ \A x \in p.skips : x \in q.skips
       /\ q.skips \subseteq CropSkips
  BY Zenon DEF Pictured, CountSkip, PageInv
<1>15. /\ p.raster.spent => q.raster.spent /\ item.image # "attached"
       /\ item.image = "over_byte_cap" => q.raster.spent
       /\ RasterInv(q.raster)
  BY Zenon DEF Pictured, CutOf
<1>16. "over_byte_cap" # "attached" OBVIOUS
<1>17. ASSUME NEW i \in 1..(n + 1), t[i].image = "over_byte_cap"
       PROVE  q.raster.spent /\ \A j \in 1..(n + 1) : i <= j => t[j].image # "attached"
  <2>1. CASE i \in 1..n
    <3>1. s[i].image = "over_byte_cap" BY Zenon, <1>9, <1>17, <2>1
    <3>2. p.raster.spent /\ \A j \in 1..n : i <= j => s[j].image # "attached" BY Zenon, <1>13, <2>1, <3>1
    <3> QED BY Zenon, <1>9, <1>10, <1>15, <3>2
  <2>2. CASE i = n + 1 BY Zenon, <1>9, <1>10, <1>11, <1>15, <1>16, <1>17, <2>2
  <2> QED BY Zenon, <1>10, <2>1, <2>2
<1>18. ASSUME NEW i \in 1..(n + 1), t[i].image \in CropSkips PROVE t[i].image \in q.skips
  BY Zenon, <1>9, <1>10, <1>13, <1>14, <1>18
<1>19. Accounted(t, q.skips, q.raster.spent) BY Zenon, <1>9, <1>17, <1>18 DEF Accounted
<1>20. IsSequence(q.warnings) BY Zenon, <1>6 DEF Joined
<1> QED BY Zenon, <1>3, <1>7, <1>8, <1>12, <1>14, <1>15, <1>19, <1>20 DEF PageInv, Pictured

(* emit_picture crops within the budget and counts what a cap refused. *)
LEMMA EmitPictureInv ==
  ASSUME NEW p, PageInv(p), NEW e, NEW shot, shot.area \in Nat, shot.uri \in Nat
  PROVE  PageInv(EmitPicture(p, e, shot))
<1>1. PICK cut : cut = CropRegion(p, e, shot) OBVIOUS
<1>2. CutOf(p.raster, cut)
  <2>1. CASE p.raster.image # "none" /\ e.locs # 0
    <3>1. CutOf(p.raster, Crop(p.raster, shot.area, shot.uri)) BY Zenon, CropInv DEF PageInv
    <3> QED BY Zenon, <1>1, <2>1, <3>1 DEF CropRegion
  <2>2. CASE ~(p.raster.image # "none" /\ e.locs # 0)
    <3>1. cut = [raster |-> p.raster, result |-> "none"] BY Zenon, <1>1, <2>2 DEF CropRegion, Outcome
    <3>2. RasterInv(p.raster) BY Zenon DEF PageInv
    <3>3. cut.raster = p.raster /\ cut.result = "none" BY <3>1
    <3> QED BY <3>2, <3>3 DEF CutOf
  <2> QED BY Zenon, <2>1, <2>2
<1>3. PICK data : data = IF e.name = "chart" THEN ParseOtslGrid(e.otsl) ELSE NoTable OBVIOUS
<1>4. PICK w : w = TableWarnings(data, NextRef(p.doc, "pictures")) OBVIOUS
<1>5. IsSequence(w) /\ CutTold(data, NextRef(p.doc, "pictures"), w) BY Zenon, <1>4, TableWarningsTell
<1>6. PICK item : item = [NewItem(PickClassification(e.classes), e.text, e.locs, e.at)
                            EXCEPT !.captions = CaptionsOf(p, e), !.data = data, !.image = cut.result]
  OBVIOUS
<1>7. "image" \in DOMAIN item /\ item.image = cut.result /\ "data" \in DOMAIN item /\ item.data = data
  <2>1. PICK a, b, c, d, k : item = [NewItem(a, b, c, d) EXCEPT !.captions = k, !.data = data, !.image = cut.result]
    BY Zenon, <1>6
  <2> QED BY <2>1 DEF NewItem
<1>8. PICK r : r = EmitCaption(p, e) OBVIOUS
<1>9. SameReport(p, r) BY Zenon, <1>8, EmitCaptionSame
<1>10. PageInv(r) BY Zenon, <1>9, SameReportKeeps
<1>11. r.raster = p.raster /\ r.skips = p.skips BY Zenon, <1>9 DEF SameReport
<1>12. PICK d, o : Emit(r, "pictures", item) = [r EXCEPT !.doc = d, !.order = o] /\ d = Add(r.doc, "pictures", item)
  BY Zenon DEF Emit
<1>13. PICK q : q = EmitPicture(p, e, shot) OBVIOUS
<1>14. q = [Emit(r, "pictures", item) EXCEPT !.raster = cut.raster, !.skips = CountSkip(@, cut.result), !.warnings = @ \o w]
  BY Zenon, <1>1, <1>3, <1>4, <1>6, <1>8, <1>13 DEF EmitPicture
<1>15. q = [[r EXCEPT !.doc = d, !.order = o] EXCEPT !.raster = cut.raster, !.skips = CountSkip(@, cut.result), !.warnings = @ \o w]
  BY Zenon, <1>12, <1>14
<1>16. DOMAIN r = {"doc", "order", "raster", "skips", "warnings", "items"} BY Zenon, <1>10 DEF PageInv
<1>17. DOMAIN q = DOMAIN r BY <1>15
<1>18. q.doc = d BY <1>15, <1>16
<1>19. q.raster = cut.raster BY <1>15, <1>16
<1>20. q.skips = CountSkip(r.skips, cut.result) BY <1>15, <1>16
<1>21. q.warnings = r.warnings \o w BY <1>15, <1>16
<1>22. Joined(r.warnings, w, q.warnings) BY Zenon, <1>5, <1>10, <1>21, ConcatJoined DEF PageInv
<1>23. NextRef(p.doc, "pictures") = NextRef(r.doc, "pictures")
  BY Zenon, <1>9, SameNextRef DEF SameReport, PageInv
<1>24. CutTold(item.data, NextRef(r.doc, "pictures"), w) BY Zenon, <1>5, <1>7, <1>23
<1>25. Pictured(r, item, cut, w, q)
  BY Zenon, <1>7, <1>12, <1>17, <1>18, <1>19, <1>20, <1>22, <1>24 DEF Pictured
<1>26. CutOf(r.raster, cut) BY Zenon, <1>2, <1>11
<1> QED BY Zenon, <1>10, <1>13, <1>25, <1>26, PicturedKeeps

LEMMA EmitTableInv ==
  ASSUME NEW p, PageInv(p), NEW e
  PROVE  PageInv(EmitTable(p, e))
<1>1. PICK r : r = EmitCaption(p, e) OBVIOUS
<1>2. SameReport(p, r) BY Zenon, <1>1, EmitCaptionSame
<1>3. PageInv(r) BY Zenon, <1>2, SameReportKeeps
<1>4. PICK data : data = ParseOtslGrid(e.otsl) OBVIOUS
<1>5. PICK w : w = TableWarnings(data, NextRef(p.doc, "tables")) OBVIOUS
<1>6. IsSequence(w) /\ CutTold(data, NextRef(p.doc, "tables"), w) BY Zenon, <1>5, TableWarningsTell
<1>7. NextRef(p.doc, "tables") = NextRef(r.doc, "tables")
  BY Zenon, <1>2, SameNextRef DEF SameReport, PageInv
<1>8. PICK item : item = [NewItem("table", << >>, e.locs, e.at)
                            EXCEPT !.captions = CaptionsOf(p, e), !.data = data]
  OBVIOUS
<1>9. "image" \in DOMAIN item /\ "data" \in DOMAIN item /\ item.data = data
  <2>1. PICK a, b, c, d, k : item = [NewItem(a, b, c, d) EXCEPT !.captions = k, !.data = data]
    BY Zenon, <1>8
  <2> QED BY <2>1 DEF NewItem
<1>10. PICK q : q = EmitTable(p, e) OBVIOUS
<1>11. q = [Emit(r, "tables", item) EXCEPT !.warnings = @ \o w]
  BY Zenon, <1>1, <1>4, <1>5, <1>8, <1>10 DEF EmitTable
<1>12. PICK d, o : Emit(r, "tables", item) = [r EXCEPT !.doc = d, !.order = o] /\ d = Add(r.doc, "tables", item)
  BY Zenon DEF Emit
<1>13. q = [[r EXCEPT !.doc = d, !.order = o] EXCEPT !.warnings = @ \o w] BY Zenon, <1>11, <1>12
<1>14. DOMAIN r = {"doc", "order", "raster", "skips", "warnings", "items"} BY Zenon, <1>3 DEF PageInv
<1>15. DOMAIN q = DOMAIN r /\ q.doc = d BY <1>13, <1>14
<1>16. q.raster = r.raster /\ q.skips = r.skips BY <1>13, <1>14
<1>17. q.warnings = r.warnings \o w BY <1>13, <1>14
<1>18. Joined(r.warnings, w, q.warnings) BY Zenon, <1>3, <1>6, <1>17, ConcatJoined DEF PageInv
<1>19. PICK s, t : s = r.doc.tables /\ t = Append(s, item) BY Zenon
<1>20. DOMAIN d = DOMAIN r.doc /\ d.tables = t /\ d.pictures = r.doc.pictures
  <2>1. DOMAIN r.doc = Kinds \cup {"body"} BY Zenon, <1>3 DEF PageInv, DocInv
  <2> QED BY <1>12, <1>19, <2>1 DEF Add, Kinds
<1>21. CutTold(item.data, Ref("tables", Len(s) + 1), w) BY Zenon, <1>6, <1>7, <1>9, <1>19 DEF NextRef
<1>22. ListInv(s) /\ ListTold(s, "tables", r.warnings) BY Zenon, <1>3, <1>19 DEF PageInv, DocInv
<1>23. ListInv(t) /\ ListTold(t, "tables", q.warnings) BY Zenon, <1>9, <1>18, <1>19, <1>21, <1>22, ListGrown
<1>24. ListTold(r.doc.pictures, "pictures", q.warnings)
  <2>1. SameList(r.doc.pictures, r.doc.pictures) BY Zenon, <1>3 DEF SameList, PageInv, DocInv
  <2>2. \A x \in ToSet(r.warnings) : x \in ToSet(q.warnings) BY Zenon, <1>18, ToldLonger
  <2> QED BY Zenon, <1>3, <2>1, <2>2, ListToldStill DEF PageInv
<1>25. DocInv(d) BY Zenon, <1>3, <1>20, <1>23 DEF DocInv, PageInv
<1>26. IsSequence(q.warnings) BY Zenon, <1>18 DEF Joined
<1>27. PageInv(q)
  BY Zenon, <1>3, <1>15, <1>16, <1>20, <1>23, <1>24, <1>25, <1>26 DEF PageInv
<1> QED BY Zenon, <1>10, <1>27

LEMMA EmitElementInv ==
  ASSUME NEW p, PageInv(p), NEW e, NEW shot, shot.area \in Nat, shot.uri \in Nat
  PROVE  PageInv(EmitElement(p, e, shot))
<1>1. CASE ~Emits(e)
  <2>1. e.name \notin {"picture", "chart"} /\ ~IsTable(e.name) BY <1>1 DEF Emits, IsContainer, IsTable
  <2>2. EmitElement(p, e, shot) = p BY Zenon, <1>1, <2>1 DEF EmitElement
  <2> QED BY Zenon, <2>2
<1>2. CASE Emits(e) /\ e.name \in {"picture", "chart"}
  BY Zenon, <1>2, EmitPictureInv DEF EmitElement, IsTable
<1>3. CASE Emits(e) /\ IsTable(e.name)
  BY Zenon, <1>3, EmitTableInv DEF EmitElement, IsTable
<1>4. CASE Emits(e) /\ e.name \notin {"picture", "chart"} /\ ~IsTable(e.name)
  <2>1. "texts" \in PlainKinds BY DEF PlainKinds, Kinds
  <2>2. PICK item : EmitElement(p, e, shot) = Emit(p, "texts", item) BY Zenon, <1>4 DEF EmitElement
  <2> QED BY Zenon, <2>1, <2>2, EmitSame, SameReportKeeps
<1> QED BY Zenon, <1>1, <1>2, <1>3, <1>4

-----------------------------------------------------------------------------
(* Groups.  EmitKids is a fold, so what it keeps is shown by taking a      *)
(* smallest part of its items for which it fails.                          *)

LEMMA LeastSubset ==
  ASSUME NEW S, IsFiniteSet(S), NEW T, T \subseteq SUBSET S, T # {}
  PROVE  \E x \in T : \A y \in T : ~(y \subseteq x /\ y # x)
<1>0. IsWellFoundedOn(StrictSubsetOrdering(S), SUBSET S)
  BY Zenon, FS_StrictSubsetOrderingWellFounded, FS_FiniteSubsetsOfFinite
<1>1. PICK x \in T : \A y \in T : ~(<<y, x>> \in StrictSubsetOrdering(S))
  BY Zenon, <1>0, WFMin
<1>2. \A y \in T : ~(y \subseteq x /\ y # x) BY <1>1 DEF StrictSubsetOrdering
<1> QED BY <1>2

(* f is the function by which EmitKids is defined: f[s] is the page after  *)
(* the elements at the places s.                                           *)
Emitting(f, p, elements, S) ==
    f = [s \in SUBSET S |-> IF s = {} THEN p ELSE EmitInline(f[s \ {Max(s)}], elements[Max(s)])]

KidsAre(p, kids, at, q, elements) ==
    /\ q = [p EXCEPT !.order = << >>]
    /\ elements = [i \in DOMAIN kids |-> InlineElement(kids[i], at + i)]
    /\ EmitKids(p, kids, at) = (CHOOSE f : Emitting(f, q, elements, DOMAIN elements))[DOMAIN elements]

LEMMA EmitKidsDef ==
  ASSUME NEW p, NEW kids, NEW at
  PROVE  \E q, elements : KidsAre(p, kids, at, q, elements)
<1>1. PICK q, elements : /\ q = [p EXCEPT !.order = << >>]
                         /\ elements = [i \in DOMAIN kids |-> InlineElement(kids[i], at + i)]
  BY Zenon
<1>2. EmitKids(p, kids, at) = (CHOOSE f : Emitting(f, q, elements, DOMAIN elements))[DOMAIN elements]
  BY <1>1 DEF EmitKids, FoldLeft, MapThenFoldSet, Emitting
<1>3. KidsAre(p, kids, at, q, elements) BY Zenon, <1>1, <1>2 DEF KidsAre
<1> QED BY Zenon, <1>3

(* Places of which every nonempty set has a last one. *)
Ordered(D) == IsFiniteSet(D) /\ \A s \in SUBSET D : s # {} => Max(s) \in s

LEMMA PlacesAreOrdered ==
  ASSUME NEW n \in Nat
  PROVE  Ordered(1..n)
<1>1. PICK D : D = 1..n OBVIOUS
<1>2. IsFiniteSet(D) BY <1>1, FS_Interval
<1>3. \A x, y \in D : x >= x /\ (x >= y \/ y >= x) BY <1>1
<1>4. \A x, y, z \in D : x >= y /\ y >= z => x >= z BY <1>1
<1> DEFINE Bad == {t \in SUBSET D : t # {} /\ ~ \E x \in t : \A y \in t : x >= y}
<1>5. Bad = {}
  <2> SUFFICES ASSUME Bad # {} PROVE FALSE BY Zenon
  <2>1. Bad \subseteq SUBSET D BY Zenon
  <2>3. PICK t \in Bad : \A u \in Bad : ~(u \subseteq t /\ u # t)
    <3> HIDE DEF Bad
    <3> QED BY <1>2, <2>1, LeastSubset
  <2>4. t \in SUBSET D /\ t # {} /\ ~ \E x \in t : \A y \in t : x >= y BY Zenon, <2>3
  <2>5. PICK z \in t : TRUE BY Zenon, <2>4
  <2>6. t \ {z} \in SUBSET D /\ t \ {z} \subseteq t /\ t \ {z} # t BY Zenon, <2>4, <2>5
  <2>7. t \ {z} \notin Bad BY Zenon, <2>3, <2>6
  <2>8. CASE t \ {z} = {}
    <3>1. \A y \in t : y = z BY Zenon, <2>8
    <3>2. \A y \in t : z >= y BY Zenon, <1>3, <2>4, <3>1
    <3> QED BY Zenon, <2>4, <2>5, <3>2
  <2>9. CASE t \ {z} # {}
    <3>1. PICK x \in t \ {z} : \A y \in t \ {z} : x >= y BY Zenon, <2>6, <2>7, <2>9
    <3>2. x \in D /\ z \in D /\ \A y \in t : y \in D /\ (y = z \/ x >= y) BY Zenon, <2>4, <3>1
    <3>3. CASE x >= z
      <4>1. \A y \in t : x >= y BY Zenon, <3>2, <3>3
      <4> QED BY Zenon, <2>4, <3>1, <4>1
    <3>4. CASE z >= x
      <4>1. \A y \in t : z >= y BY Zenon, <1>3, <1>4, <3>2, <3>4
      <4> QED BY Zenon, <2>4, <2>5, <4>1
    <3> QED BY Zenon, <1>3, <3>2, <3>3, <3>4
  <2> QED BY Zenon, <2>8, <2>9
<1>6. ASSUME NEW s \in SUBSET D, s # {} PROVE Max(s) \in s
  <2>1. \E x \in s : \A y \in s : x >= y BY Zenon, <1>5, <1>6
  <2> QED BY Zenon, <2>1 DEF Max
<1> QED BY Zenon, <1>1, <1>2, <1>6 DEF Ordered

LEMMA EmittingStep ==
  ASSUME NEW D, Ordered(D), NEW f, NEW p, NEW elements, NEW S \in SUBSET D, Emitting(f, p, elements, S),
         NEW s \in SUBSET S
  PROVE  /\ s = {} => f[s] = p
         /\ s # {} => Max(s) \in s /\ f[s] = EmitInline(f[s \ {Max(s)}], elements[Max(s)])
<1>1. f[s] = IF s = {} THEN p ELSE EmitInline(f[s \ {Max(s)}], elements[Max(s)]) BY Zenon DEF Emitting
<1>2. s # {} => Max(s) \in s BY Zenon DEF Ordered
<1> QED BY Zenon, <1>1, <1>2

LEMMA EmittingNothing ==
  ASSUME NEW f, NEW p, NEW elements, NEW S, Emitting(f, p, elements, S)
  PROVE  f[{}] = p
<1>1. {} \in SUBSET S BY Zenon
<1> QED BY Zenon, <1>1 DEF Emitting

LEMMA EmittingAgree ==
  ASSUME NEW D, Ordered(D), NEW p, NEW elements,
         NEW f, NEW S \in SUBSET D, Emitting(f, p, elements, S),
         NEW ff, NEW SS \in SUBSET D, Emitting(ff, p, elements, SS),
         NEW T, T \subseteq S, T \subseteq SS
  PROVE  f[T] = ff[T]
<1> DEFINE Bad == {U \in SUBSET T : f[U] # ff[U]}
<1> SUFFICES ASSUME Bad # {} PROVE FALSE BY Zenon
<1>0. Bad \subseteq SUBSET T BY Zenon
<1>1. IsFiniteSet(T)
  <2>1. T \subseteq D BY Zenon
  <2> QED BY Zenon, <2>1, FS_Subset DEF Ordered
<1>2. PICK U \in Bad : \A V \in Bad : ~(V \subseteq U /\ V # U)
  <2> HIDE DEF Bad
  <2> QED BY <1>0, <1>1, LeastSubset
<1>3. U \in SUBSET T /\ U \in SUBSET S /\ U \in SUBSET SS /\ f[U] # ff[U] BY Zenon, <1>2
<1>4. U # {}
  <2>1. f[{}] = p BY Zenon, EmittingNothing
  <2>2. ff[{}] = p BY Zenon, EmittingNothing
  <2> QED BY Zenon, <1>3, <2>1, <2>2
<1>5. PICK m : m = Max(U) OBVIOUS
<1>6. m \in U /\ f[U] = EmitInline(f[U \ {m}], elements[m]) /\ ff[U] = EmitInline(ff[U \ {m}], elements[m])
  <2>1. Max(U) \in U /\ f[U] = EmitInline(f[U \ {Max(U)}], elements[Max(U)]) BY <1>3, <1>4, EmittingStep
  <2>2. ff[U] = EmitInline(ff[U \ {Max(U)}], elements[Max(U)]) BY <1>3, <1>4, EmittingStep
  <2> QED BY Zenon, <1>5, <2>1, <2>2
<1>7. U \ {m} \in SUBSET T /\ U \ {m} \subseteq U /\ U \ {m} # U BY Zenon, <1>3, <1>6
<1>8. f[U \ {m}] = ff[U \ {m}] BY Zenon, <1>2, <1>7
<1> QED BY Zenon, <1>3, <1>6, <1>8

LEMMA EmittingExists ==
  ASSUME NEW D, Ordered(D), NEW p, NEW elements
  PROVE  \E f : Emitting(f, p, elements, D)
<1> DEFINE Bad == {U \in SUBSET D : ~ \E f : Emitting(f, p, elements, U)}
<1> SUFFICES ASSUME Bad # {} PROVE FALSE BY Zenon
<1>0. Bad \subseteq SUBSET D BY Zenon
<1>1. PICK U \in Bad : \A V \in Bad : ~(V \subseteq U /\ V # U)
  <2>1. IsFiniteSet(D) BY Zenon DEF Ordered
  <2> HIDE DEF Bad
  <2> QED BY <1>0, <2>1, LeastSubset
<1>2. U \in SUBSET D /\ ~ \E f : Emitting(f, p, elements, U) BY Zenon, <1>1
<1> DEFINE on(s) == CHOOSE f : Emitting(f, p, elements, s)
           h == [s \in SUBSET U |-> IF s = {} THEN p
                                    ELSE EmitInline(on(s \ {Max(s)})[s \ {Max(s)}], elements[Max(s)])]
<1>3. ASSUME NEW s \in SUBSET U, s # U PROVE Emitting(on(s), p, elements, s)
  <2>1. s \in SUBSET D /\ s \subseteq U BY Zenon, <1>2
  <2>2. \E f : Emitting(f, p, elements, s) BY Zenon, <1>1, <1>3, <2>1
  <2> QED BY Zenon, <2>2
<1> HIDE DEF on
<1>4. ASSUME NEW t \in SUBSET U, t # U PROVE h[t] = on(t)[t]
  <2>1. Emitting(on(t), p, elements, t) /\ t \in SUBSET D /\ t \in SUBSET t BY Zenon, <1>2, <1>3, <1>4
  <2>2. CASE t = {}
    <3>1. on(t)[t] = p BY Zenon, <2>1, <2>2, EmittingStep
    <3>2. h[t] = p BY Zenon, <2>2
    <3> QED BY Zenon, <3>1, <3>2
  <2>3. CASE t # {}
    <3>1. PICK m : m = Max(t) OBVIOUS
    <3>2. m \in t /\ on(t)[t] = EmitInline(on(t)[t \ {m}], elements[m])
      <4>1. PICK f : f = on(t) OBVIOUS
      <4>2. Emitting(f, p, elements, t) BY Zenon, <2>1, <4>1
      <4>3. Max(t) \in t /\ f[t] = EmitInline(f[t \ {Max(t)}], elements[Max(t)]) BY <2>1, <2>3, <4>2, EmittingStep
      <4> QED BY Zenon, <3>1, <4>1, <4>3
    <3>3. PICK s : s = t \ {m} OBVIOUS
    <3>4. s \in SUBSET U /\ s # U /\ s \in SUBSET D /\ s \subseteq t /\ s \subseteq s
      BY Zenon, <1>2, <3>2, <3>3
    <3>5. Emitting(on(s), p, elements, s) BY Zenon, <3>4, <1>3
    <3>6. on(t)[s] = on(s)[s]
      <4>1. PICK f, ff : f = on(t) /\ ff = on(s) BY Zenon
      <4>2. Emitting(f, p, elements, t) /\ Emitting(ff, p, elements, s) BY Zenon, <2>1, <3>5, <4>1
      <4>3. f[s] = ff[s] BY <2>1, <3>4, <4>2, EmittingAgree
      <4> QED BY Zenon, <4>1, <4>3
    <3>7. h[t] = EmitInline(on(s)[s], elements[m]) BY Zenon, <2>3, <3>1, <3>3
    <3> QED BY Zenon, <3>2, <3>3, <3>6, <3>7
  <2> QED BY Zenon, <2>2, <2>3
<1>5. ASSUME NEW s \in SUBSET U, s # {} PROVE h[s \ {Max(s)}] = on(s \ {Max(s)})[s \ {Max(s)}]
  <2>1. PICK m : m = Max(s) OBVIOUS
  <2>2. m \in s BY Zenon, <1>2, <1>5, <2>1 DEF Ordered
  <2>3. s \ {m} \in SUBSET U /\ s \ {m} # U BY Zenon, <2>2
  <2> HIDE DEF h
  <2>4. h[s \ {m}] = on(s \ {m})[s \ {m}] BY Zenon, <1>4, <2>3
  <2> QED BY Zenon, <2>1, <2>4
<1>6. h = [s \in SUBSET U |-> IF s = {} THEN p ELSE EmitInline(h[s \ {Max(s)}], elements[Max(s)])]
  <2>1. \A s \in SUBSET U : (IF s = {} THEN p ELSE EmitInline(h[s \ {Max(s)}], elements[Max(s)])) = h[s]
    BY Zenon, <1>5
  <2> QED BY Zenon, <2>1
<1>7. Emitting(h, p, elements, U) BY Zenon, <1>6 DEF Emitting
<1> QED BY Zenon, <1>2, <1>7

LEMMA EmittingKeeps ==
  ASSUME NEW D, Ordered(D), NEW p, PageInv(p), NEW elements, NEW f, Emitting(f, p, elements, D)
  PROVE  PageInv(f[D])
<1> DEFINE Bad == {U \in SUBSET D : ~PageInv(f[U])}
<1>0. D \in SUBSET D BY Zenon
<1> SUFFICES ASSUME Bad # {} PROVE FALSE BY Zenon, <1>0
<1>1. Bad \subseteq SUBSET D /\ IsFiniteSet(D) BY Zenon DEF Ordered
<1>2. PICK U \in Bad : \A V \in Bad : ~(V \subseteq U /\ V # U)
  <2> HIDE DEF Bad
  <2> QED BY <1>1, LeastSubset
<1>3. U \in SUBSET D /\ ~PageInv(f[U]) BY Zenon, <1>2
<1>4. U # {} BY Zenon, <1>3, EmittingNothing
<1>5. PICK m : m = Max(U) OBVIOUS
<1>6. m \in U /\ f[U] = EmitInline(f[U \ {m}], elements[m])
  <2>1. Max(U) \in U /\ f[U] = EmitInline(f[U \ {Max(U)}], elements[Max(U)]) BY <1>0, <1>3, <1>4, EmittingStep
  <2> QED BY Zenon, <1>5, <2>1
<1>7. U \ {m} \in SUBSET D /\ U \ {m} \subseteq U /\ U \ {m} # U BY Zenon, <1>3, <1>6
<1>8. PageInv(f[U \ {m}]) BY Zenon, <1>2, <1>7
<1>9. NoShot.area \in Nat /\ NoShot.uri \in Nat BY DEF NoShot
<1>10. PageInv(EmitInline(f[U \ {m}], elements[m])) BY Zenon, <1>8, <1>9, EmitElementInv DEF EmitInline
<1> QED BY Zenon, <1>3, <1>6, <1>10

(* Only the order changes. *)
LEMMA OrderSame ==
  ASSUME NEW p, PageInv(p), NEW order
  PROVE  SameReport(p, [p EXCEPT !.order = order])
<1>1. PICK q : q = [p EXCEPT !.order = order] OBVIOUS
<1>2. /\ DOMAIN q = DOMAIN p /\ q.raster = p.raster /\ q.skips = p.skips /\ q.doc = p.doc
      /\ q.warnings = p.warnings
  BY <1>1 DEF PageInv
<1> QED BY Zenon, <1>1, <1>2, SameDoc DEF SameReport, PageInv

LEMMA ItemsSame ==
  ASSUME NEW p, PageInv(p), NEW items
  PROVE  SameReport(p, [p EXCEPT !.items = items])
<1>1. PICK q : q = [p EXCEPT !.items = items] OBVIOUS
<1>2. /\ DOMAIN q = DOMAIN p /\ q.raster = p.raster /\ q.skips = p.skips /\ q.doc = p.doc
      /\ q.warnings = p.warnings
  BY <1>1 DEF PageInv
<1> QED BY Zenon, <1>1, <1>2, SameDoc DEF SameReport, PageInv

LEMMA DocSame ==
  ASSUME NEW p, PageInv(p), NEW doc, SameMarks(p.doc, doc)
  PROVE  SameReport(p, [p EXCEPT !.doc = doc])
<1>1. PICK q : q = [p EXCEPT !.doc = doc] OBVIOUS
<1>2. /\ DOMAIN q = DOMAIN p /\ q.raster = p.raster /\ q.skips = p.skips /\ q.doc = doc
      /\ q.warnings = p.warnings
  BY <1>1 DEF PageInv
<1> QED BY Zenon, <1>1, <1>2 DEF SameReport, PageInv

(* The items of an inline chunk, however many there are. *)
LEMMA EmitKidsInv ==
  ASSUME NEW p, PageInv(p), NEW kids, NEW n \in Nat, DOMAIN kids = 1..n, NEW at
  PROVE  PageInv(EmitKids(p, kids, at))
<1>1. PICK q, elements : KidsAre(p, kids, at, q, elements) BY Zenon, EmitKidsDef
<1>2. PICK D : D = 1..n OBVIOUS
<1>3. DOMAIN elements = D BY Zenon, <1>1, <1>2 DEF KidsAre
<1>4. PageInv(q) BY Zenon, <1>1, OrderSame, SameReportKeeps DEF KidsAre
<1>5. Ordered(D) BY Zenon, <1>2, PlacesAreOrdered
<1>6. PICK f : f = CHOOSE g : Emitting(g, q, elements, D) OBVIOUS
<1>7. Emitting(f, q, elements, D) BY Zenon, <1>5, <1>6, EmittingExists
<1>8. PageInv(f[D]) BY Zenon, <1>4, <1>5, <1>7, EmittingKeeps
<1>9. EmitKids(p, kids, at) = (CHOOSE g : Emitting(g, q, elements, D))[D] BY Zenon, <1>1, <1>3 DEF KidsAre
<1> QED BY Zenon, <1>6, <1>8, <1>9

LEMMA GroupSame ==
  ASSUME NEW p, PageInv(p), NEW item
  PROVE  PageInv(Emit(p, "groups", item))
<1>1. "groups" \in PlainKinds BY DEF PlainKinds, Kinds
<1> QED BY Zenon, <1>1, EmitSame, SameReportKeeps

LEMMA EmitListGroupInv ==
  ASSUME NEW p, PageInv(p), NEW n, NEW at
  PROVE  PageInv(EmitListGroup(p, n, at))
<1>1. PICK q, item : q = Emit(p, "groups", item) /\ item = NewItem("list", <<>>, 0, at) BY Zenon
<1>2. PageInv(q) BY Zenon, <1>1, GroupSame
<1>3. PICK texts, refs, k :
         EmitListGroup(p, n, at)
           = [q EXCEPT !.doc = Adopt([q.doc EXCEPT !["texts"] = texts], refs, Ref("groups", k))]
  BY Zenon, <1>1 DEF EmitListGroup, NextRef
<1>4. "texts" \in PlainKinds BY DEF PlainKinds, Kinds
<1>5. PICK d : d = [q.doc EXCEPT !["texts"] = texts] OBVIOUS
<1>6. DocInv(q.doc) BY Zenon, <1>2 DEF PageInv
<1>7. SameMarks(q.doc, [q.doc EXCEPT !["texts"] = texts]) BY Zenon, <1>4, <1>6, OtherKindsKeepMarks
<1>8. SameMarks(q.doc, d) /\ DocInv(d) BY Zenon, <1>5, <1>7 DEF SameMarks
<1>9. PICK dd : dd = Adopt(d, refs, Ref("groups", k)) OBVIOUS
<1>10. SameMarks(q.doc, dd) BY Zenon, <1>8, <1>9, AdoptKeepsMarks, SameTwice
<1>11. PageInv([q EXCEPT !.doc = dd]) BY Zenon, <1>2, <1>10, DocSame, SameReportKeeps
<1> QED BY Zenon, <1>3, <1>5, <1>9, <1>11

LEMMA EmitInlineGroupInv ==
  ASSUME NEW p, PageInv(p), NEW kids, NEW n \in Nat, DOMAIN kids = 1..n, NEW at
  PROVE  PageInv(EmitInlineGroup(p, kids, at))
<1>1. PICK q, item : q = Emit(p, "groups", item) /\ item = NewItem("inline", <<>>, 0, at) BY Zenon
<1>2. PageInv(q) BY Zenon, <1>1, GroupSame
<1>3. PICK r : r = EmitKids(q, kids, at) OBVIOUS
<1>4. PageInv(r) BY Zenon, <1>2, <1>3, EmitKidsInv
<1>5. PICK k : EmitInlineGroup(p, kids, at)
                 = [r EXCEPT !.order = q.order, !.doc = Adopt(r.doc, r.order, Ref("groups", k))]
  BY Zenon, <1>1, <1>3 DEF EmitInlineGroup, NextRef
<1>6. PICK d : d = Adopt(r.doc, r.order, Ref("groups", k)) OBVIOUS
<1>7. DocInv(r.doc) BY Zenon, <1>4 DEF PageInv
<1>8. SameMarks(r.doc, d) BY Zenon, <1>6, <1>7, AdoptKeepsMarks
<1>9. PICK o : o = q.order OBVIOUS
<1>10. PICK s : s = [r EXCEPT !.order = o] OBVIOUS
<1>11. PageInv(s) BY Zenon, <1>4, <1>10, OrderSame, SameReportKeeps
<1>12. s.doc = r.doc BY <1>4, <1>10 DEF PageInv
<1>13. PageInv([s EXCEPT !.doc = d]) BY Zenon, <1>8, <1>11, <1>12, DocSame, SameReportKeeps
<1>14. EmitInlineGroup(p, kids, at) = [s EXCEPT !.doc = d] BY Zenon, <1>5, <1>6, <1>9, <1>10
<1> QED BY Zenon, <1>13, <1>14

LEMMA EmitKeyValueRegionInv ==
  ASSUME NEW p, PageInv(p), NEW cells, NEW at
  PROVE  PageInv(EmitKeyValueRegion(p, cells, at))
<1>1. "key_value_items" \in PlainKinds BY DEF PlainKinds, Kinds
<1> QED BY Zenon, <1>1, EmitSame, SameReportKeeps DEF EmitKeyValueRegion

(* flush emits the open element, and nothing where there is none. *)
LEMMA FlushedInv ==
  ASSUME PageInv(page), NEW shot \in ShotsNow
  PROVE  PageInv(Flushed(shot))
<1>1. shot.area \in Nat /\ shot.uri \in Nat
  <2>1. shot \in Shots \/ shot = NoShot BY Zenon DEF ShotsNow
  <2> QED BY <2>1, ShotsAssumption DEF NoShot
<1>2. CASE open /\ Emits(current)
  <2>1. PICK q : q = EmitElement(page, current, shot) OBVIOUS
  <2>2. PageInv(q) BY Zenon, <1>1, <2>1, EmitElementInv
  <2>3. PICK items : Flushed(shot) = [q EXCEPT !.items = items] BY Zenon, <1>2, <2>1 DEF Flushed
  <2> QED BY Zenon, <2>2, <2>3, ItemsSame, SameReportKeeps
<1>3. CASE ~(open /\ Emits(current)) BY Zenon, <1>3 DEF Flushed
<1> QED BY Zenon, <1>2, <1>3

-----------------------------------------------------------------------------
(* The end of the response.                                                *)

(* SetToSeq lists the whole of a finite set. *)
LEMMA Listed ==
  ASSUME NEW S, IsFiniteSet(S)
  PROVE  IsSequence(SetToSeq(S)) /\ \A x \in S : x \in ToSet(SetToSeq(S))
<1>1. PICK n \in Nat : n = Cardinality(S) BY Zenon, FS_CardinalityType
<1>2. PICK D : D = 1..n OBVIOUS
<1>3. IsFiniteSet(D) /\ Cardinality(D) = n BY <1>2, FS_Interval
<1>4. PICK g \in [D -> S] : IsInjective(g)
  <2>1. ExistsBijection(D, S) BY Zenon, <1>1, <1>2, FS_CardinalityType
  <2> QED BY Zenon, <2>1 DEF ExistsBijection, Bijection, Injection
<1>5. PICK f : f = SetToSeq(S) OBVIOUS
<1>6. f \in [D -> S] /\ IsInjective(f) BY Zenon, <1>1, <1>2, <1>4, <1>5 DEF SetToSeq
<1>7. f \in Injection(D, S) BY Zenon, <1>6 DEF Injection
<1>8. f \in Surjection(D, S) BY Zenon, <1>1, <1>3, <1>7, FS_Injection
<1>9. \A x \in S : x \in ToSet(f) BY Zenon, <1>6, <1>8 DEF Surjection, ToSet
<1>10. DOMAIN f = 1..n /\ f = [i \in 1..n |-> f[i]] BY Zenon, <1>2, <1>6
<1> QED BY Zenon, <1>5, <1>9, <1>10 DEF IsSequence

(* The warnings tell of every cap that refused a picture. *)
Told(p) == \A s \in p.skips : [code |-> s, ref |-> NoRef] \in ToSet(p.warnings)

LEMMA SkipWarningsTell ==
  ASSUME NEW p, p.skips \subseteq CropSkips
  PROVE  /\ IsSequence(SkipWarnings(p))
         /\ \A s \in p.skips : [code |-> s, ref |-> NoRef] \in ToSet(SkipWarnings(p))
<1>1. PICK S : S = {[code |-> s, ref |-> NoRef] : s \in p.skips} OBVIOUS
<1>2. PICK a, b, c : /\ a = [code |-> "over_budget", ref |-> NoRef]
                     /\ b = [code |-> "over_byte_cap", ref |-> NoRef]
                     /\ c = [code |-> "too_large", ref |-> NoRef]
  BY Zenon
<1>3. S \in SUBSET {a, b, c} BY Zenon, <1>1, <1>2 DEF CropSkips
<1>4. IsFiniteSet({a, b, c})
  <2>1. IsFiniteSet({a}) BY Zenon, FS_Singleton
  <2>2. IsFiniteSet({a} \cup {b}) BY Zenon, <2>1, FS_AddElement
  <2>3. IsFiniteSet(({a} \cup {b}) \cup {c}) BY Zenon, <2>2, FS_AddElement
  <2>4. ({a} \cup {b}) \cup {c} = {a, b, c} BY Zenon
  <2> QED BY Zenon, <2>3, <2>4
<1>5. IsFiniteSet(S) BY Zenon, <1>3, <1>4, FS_Subset
<1>6. SkipWarnings(p) = SetToSeq(S) BY Zenon, <1>1 DEF SkipWarnings
<1>7. \A s \in p.skips : [code |-> s, ref |-> NoRef] \in S BY Zenon, <1>1
<1> QED BY Zenon, <1>5, <1>6, <1>7, Listed

(* The page that map_doctags returns. *)
LEMMA FinishedInv ==
  ASSUME NEW p, PageInv(p), NEW q,
         q = [p EXCEPT !.doc = FinalizeDocument(@, p.order), !.warnings = @ \o SkipWarnings(p)]
  PROVE  PageInv(q) /\ Told(q)
<1>1. PICK d, w : d = FinalizeDocument(p.doc, p.order) /\ w = SkipWarnings(p) BY Zenon
<1>2. q = [p EXCEPT !.doc = d, !.warnings = p.warnings \o w] BY Zenon, <1>1
<1>3. PICK long : long = p.warnings \o w OBVIOUS
<1>4. IsSequence(p.warnings) /\ p.skips \subseteq CropSkips /\ DocInv(p.doc) BY Zenon DEF PageInv
<1>5. IsSequence(w) /\ \A s \in p.skips : [code |-> s, ref |-> NoRef] \in ToSet(w)
  BY Zenon, <1>1, <1>4, SkipWarningsTell
<1>6. Joined(p.warnings, w, long) BY Zenon, <1>3, <1>4, <1>5, ConcatJoined
<1>7. SameMarks(p.doc, d) BY Zenon, <1>1, <1>4, FinalizeKeepsMarks
<1>8. q = [p EXCEPT !.doc = d, !.warnings = long] BY Zenon, <1>2, <1>3
<1>9. DOMAIN p = {"doc", "order", "raster", "skips", "warnings", "items"} BY Zenon DEF PageInv
<1>10. DOMAIN q = DOMAIN p /\ q.raster = p.raster /\ q.skips = p.skips /\ q.doc = d /\ q.warnings = long
  BY <1>8, <1>9
<1>11. SameReport(p, q) BY Zenon, <1>6, <1>7, <1>10, ToldLonger DEF SameReport, Joined
<1>12. Told(q) BY Zenon, <1>5, <1>6, <1>10 DEF Told, Joined
<1> QED BY Zenon, <1>11, <1>12, SameReportKeeps

-----------------------------------------------------------------------------
(* The mapper.                                                             *)

(* The inductive invariant: the page, with its cut tables told of, and     *)
(* that the caps it met were told of once the response has ended.          *)
MapperInv == PageInv(page) /\ (Mapped => Told(page))

LEMMA InitMapperInv == Init => MapperInv
<1> SUFFICES ASSUME Init PROVE MapperInv OBVIOUS
<1>1. PICK r : r = NewRaster(input.image) OBVIOUS
<1>2. RasterInv(r) BY Zenon, <1>1, NewRasterInv, PagesAssumption DEF Init
<1>3. page = [doc |-> EmptyDocument, order |-> <<>>, raster |-> r, skips |-> {}, warnings |-> <<>>, items |-> 0]
  BY Zenon, <1>1 DEF Init
<1>4. /\ DOMAIN page = {"doc", "order", "raster", "skips", "warnings", "items"}
      /\ page.doc = EmptyDocument /\ page.raster = r /\ page.skips = {} /\ page.warnings = << >>
  BY <1>3
<1>5. /\ DOMAIN EmptyDocument = Kinds \cup {"body"}
      /\ EmptyDocument.pictures = << >>
      /\ EmptyDocument.tables = << >>
  BY DEF EmptyDocument, Kinds
<1>6. DOMAIN << >> = {} OBVIOUS
<1>7. DocInv(page.doc) BY Zenon, <1>4, <1>5, <1>6, ShortSequences DEF DocInv, ListInv
<1>8. Accounted(page.doc.pictures, page.skips, page.raster.spent) BY Zenon, <1>4, <1>5, <1>6 DEF Accounted
<1>9. PageInv(page) BY Zenon, <1>2, <1>4, <1>5, <1>6, <1>7, <1>8, ShortSequences DEF PageInv, ListTold
<1>10. ~Mapped BY DEF Mapped, Init
<1> QED BY Zenon, <1>9, <1>10 DEF MapperInv

(* A step that reads on, with or without a change to the page. *)
LEMMA ReadingOn ==
  ASSUME outcome = "reading", outcome' = outcome, PageInv(page')
  PROVE  MapperInv'
<1>1. ~Mapped' BY DEF Mapped
<1> QED BY Zenon, <1>1 DEF MapperInv

LEMMA ReadGroupInv ==
  ASSUME PageInv(page), ReadGroup
  PROVE  PageInv(page')
<1>1. PICK p, q :
        /\ \E shot \in ShotsNow : p = Flushed(shot)
        /\ q = [p EXCEPT !.items = @ + 1]
        /\ \/ \E n \in 0 .. Parts - 1 : page' = EmitListGroup(q, n, Place(0))
           \/ \E kids \in InlineKids : page' = EmitInlineGroup(q, kids, Place(0))
           \/ \E cells \in KeyValues : page' = EmitKeyValueRegion(q, cells, Place(0))
  BY Zenon DEF ReadGroup
<1>2. PageInv(p) BY Zenon, <1>1, FlushedInv
<1>3. PageInv(q)
  <2>1. PICK items : q = [p EXCEPT !.items = items] BY Zenon, <1>1
  <2> QED BY Zenon, <1>2, <2>1, ItemsSame, SameReportKeeps
<1>4. ASSUME NEW n, page' = EmitListGroup(q, n, Place(0)) PROVE PageInv(page')
  BY Zenon, <1>3, <1>4, EmitListGroupInv
<1>5. ASSUME NEW kids \in InlineKids, page' = EmitInlineGroup(q, kids, Place(0)) PROVE PageInv(page')
  <2>1. kids \in Seq([name : STRING, text : BOOLEAN]) BY Zenon, KidsAssumption
  <2>2. PICK n \in Nat : DOMAIN kids = 1..n BY Zenon, <2>1, IsSequenceOf
  <2> QED BY Zenon, <1>3, <1>5, <2>2, EmitInlineGroupInv
<1>6. ASSUME NEW cells, page' = EmitKeyValueRegion(q, cells, Place(0)) PROVE PageInv(page')
  BY Zenon, <1>3, <1>6, EmitKeyValueRegionInv
<1> QED BY Zenon, <1>1, <1>4, <1>5, <1>6

LEMMA EndInv ==
  ASSUME PageInv(page), End
  PROVE  MapperInv'
<1>1. PICK p :
        /\ \E shot \in ShotsNow : p = Flushed(shot)
        /\ \/ outcome' = "failed" /\ page' = p
           \/ page' = [p EXCEPT !.doc = FinalizeDocument(@, p.order), !.warnings = @ \o SkipWarnings(p)]
  BY Zenon DEF End
<1>2. PageInv(p) BY Zenon, <1>1, FlushedInv
<1>3. CASE outcome' = "failed" /\ page' = p
  <2>1. ~Mapped' BY <1>3 DEF Mapped
  <2> QED BY Zenon, <1>2, <1>3, <2>1 DEF MapperInv
<1>4. CASE page' = [p EXCEPT !.doc = FinalizeDocument(@, p.order), !.warnings = @ \o SkipWarnings(p)]
  BY Zenon, <1>2, <1>4, FinishedInv DEF MapperInv
<1> QED BY Zenon, <1>1, <1>3, <1>4

LEMMA NextMapperInv == MapperInv /\ [DocTagsNext]_vars => MapperInv'
<1> SUFFICES ASSUME MapperInv, [DocTagsNext]_vars PROVE MapperInv' OBVIOUS
<1>0. PageInv(page) BY Zenon DEF MapperInv
<1>1. CASE ReadOtsl BY Zenon, <1>0, <1>1, ReadingOn DEF ReadOtsl, Reading
<1>2. CASE ReadText BY Zenon, <1>0, <1>2, ReadingOn DEF ReadText, Token, Reading
<1>3. CASE ReadLocs BY Zenon, <1>0, <1>3, ReadingOn DEF ReadLocs, Token, Reading
<1>4. CASE StartCaption BY Zenon, <1>0, <1>4, ReadingOn DEF StartCaption, Token, Reading
<1>5. CASE EndCaption BY Zenon, <1>0, <1>5, ReadingOn DEF EndCaption, Token, Reading
<1>6. CASE StartOtsl BY Zenon, <1>0, <1>6, ReadingOn DEF StartOtsl, Token, Reading
<1>7. CASE ReadGroup BY Zenon, <1>0, <1>7, ReadGroupInv, ReadingOn DEF ReadGroup, Reading
<1>8. CASE CloseElement
  BY Zenon, <1>0, <1>8, FlushedInv, ReadingOn DEF CloseElement, Token, Reading, Flush
<1>9. CASE End BY Zenon, <1>0, <1>9, EndInv
<1>10. ASSUME NEW tag, Classify(tag) PROVE MapperInv'
  BY Zenon, <1>0, <1>10, ReadingOn DEF Classify, Token, Reading
<1>11. ASSUME NEW tag, OpenElement(tag) PROVE MapperInv'
  BY Zenon, <1>0, <1>11, FlushedInv, ReadingOn DEF OpenElement, Token, Reading
<1>12. CASE UNCHANGED vars BY Zenon, <1>12 DEF MapperInv, Mapped, vars
<1> QED BY Zenon, <1>1, <1>2, <1>3, <1>4, <1>5, <1>6, <1>7, <1>8, <1>9, <1>10, <1>11, <1>12 DEF DocTagsNext

(* Whatever a response repeats, PageRaster::crop stays within the page's   *)
(* budget and decodes its raster once at most; map_doctags warns of every  *)
(* cap that left a picture without an image, and after the byte cap        *)
(* refused one picture no later picture has an image.                      *)
THEOREM CropsAreAccounted == DocTagsSpec => []CropsAccounted
<1>1. MapperInv => CropsAccounted
  <2> SUFFICES ASSUME MapperInv PROVE CropsAccounted OBVIOUS
  <2>1. PageInv(page) /\ (Mapped => Told(page)) BY Zenon DEF MapperInv
  <2>2. page.raster \in Rasters BY Zenon, <2>1 DEF PageInv, RasterInv
  <2>3. /\ page.raster.crops <= MaxCrops /\ page.raster.pixels <= MaxArea
        /\ page.raster.bytes <= MaxInlineBytes /\ page.raster.decodes <= 1
    BY <2>2, CropCaps DEF Rasters
  <2>4. PICK pics : pics = page.doc.pictures OBVIOUS
  <2>5. Accounted(pics, page.skips, page.raster.spent) /\ IsSequence(pics)
    BY Zenon, <2>1, <2>4 DEF PageInv, DocInv, ListInv
  <2>6. PICK S : pics \in Seq(S) BY Zenon, <2>5, SequenceIs
  <2>7. DOMAIN pics = 1..Len(pics) /\ Len(pics) \in Nat BY Zenon, <2>6, IsSequenceOf
  <2>8. \A i \in DOMAIN pics : \A j \in i..Len(pics) : j \in DOMAIN pics /\ i <= j BY <2>7
  <2>9. ASSUME Mapped, NEW i \in DOMAIN pics
        PROVE  /\ pics[i].image \in CropSkips => [code |-> pics[i].image, ref |-> NoRef] \in ToSet(page.warnings)
               /\ pics[i].image = "over_byte_cap" => \A j \in i..Len(pics) : pics[j].image # "attached"
    BY Zenon, <2>1, <2>5, <2>8, <2>9 DEF Accounted, Told
  <2> QED BY Zenon, <2>3, <2>4, <2>9 DEF CropsAccounted, Doc
<1> QED BY <1>1, InitMapperInv, NextMapperInv, PTL DEF DocTagsSpec

(* A table that parse_otsl_grid cut or left out never passes for a         *)
(* complete one: at every moment of map_doctags, note_table_cut has        *)
(* warned of it with the ref of its own item, and neither what is emitted  *)
(* later nor finalize_document parts the item from its warning.            *)
THEOREM CutTablesAreTold == DocTagsSpec => []TablesTold
<1>1. MapperInv => TablesTold
  <2> SUFFICES ASSUME MapperInv PROVE TablesTold OBVIOUS
  <2>1. /\ ListTold(page.doc["pictures"], "pictures", page.warnings)
        /\ ListTold(page.doc["tables"], "tables", page.warnings)
    BY Zenon DEF MapperInv, PageInv
  <2>2. \A kind \in {"tables", "pictures"} : ListTold(page.doc[kind], kind, page.warnings) BY Zenon, <2>1
  <2> QED BY Zenon, <2>2 DEF ListTold, CutTold, TablesTold, Doc
<1> QED BY <1>1, InitMapperInv, NextMapperInv, PTL DEF DocTagsSpec
-----------------------------------------------------------------------------
(* The caps of a table.                                                   *)

LEMMA Quotient ==
  ASSUME NEW n \in Nat, NEW k \in Nat \ {0}
  PROVE  n \div k \in Nat /\ (n \div k) * k <= n /\ n < (n \div k + 1) * k
OBVIOUS

LEMMA MoreRowsMoreCells == ASSUME NEW a \in Nat, NEW b \in Nat, NEW k \in Nat, a <= b PROVE a * k <= b * k
OBVIOUS

LEMMA RoomForOneRow ==
  ASSUME NEW q \in Nat, NEW n \in Nat, NEW k \in Nat, k <= n, n < (q + 1) * k
  PROVE  q > 0
<1>1. CASE q = 0 BY <1>1
<1> QED BY <1>1

(* kept_table_shape keeps within all three caps, keeps something of every  *)
(* table that has rows and columns, and drops a column or a row only when  *)
(* a cap is met: one row more would be too many rows or too many cells.    *)
THEOREM KeptShapeFits ==
  ASSUME NEW rows \in Nat, NEW cols \in Nat, NEW kept, kept = KeptTableShape(rows, cols)
  PROVE  /\ kept.rows \in 0..rows /\ kept.cols \in 0..cols
         /\ kept.rows <= MaxTableRows /\ kept.cols <= MaxTableCols
         /\ kept.rows * kept.cols <= MaxTableCells
         /\ (rows > 0 => kept.rows > 0) /\ (cols > 0 => kept.cols > 0)
         /\ kept.cols < cols => kept.cols = MaxTableCols
         /\ kept.rows < rows => kept.rows = MaxTableRows \/ (kept.rows + 1) * kept.cols > MaxTableCells
<1>1. PICK c \in 0..cols : c = Smaller(cols, MaxTableCols) BY TableCaps DEF Smaller
<1>2. PICK r \in 0..rows : r = Smaller(rows, MaxTableRows) BY TableCaps DEF Smaller
<1>3. /\ c <= MaxTableCols /\ (cols > 0 => c > 0) /\ (c < cols => c = MaxTableCols)
  BY <1>1, TableCaps DEF Smaller
<1>4. /\ r <= MaxTableRows /\ (rows > 0 => r > 0) /\ (r < rows => r = MaxTableRows)
  BY <1>2, TableCaps DEF Smaller
<1>5. CASE c = 0
  <2>1. KeptTableShape(rows, cols) = [rows |-> r, cols |-> c] BY <1>1, <1>2, <1>5 DEF KeptTableShape
  <2>2. kept.rows = r /\ kept.cols = c BY <2>1
  <2>3. r * c = 0 BY <1>5
  <2>4. r * c <= MaxTableCells BY <2>3, TableCaps
  <2> QED BY Zenon, <1>3, <1>4, <2>2, <2>4
<1>6. CASE c > 0
  <2>1. PICK q : q = MaxTableCells \div c BY Zenon
  <2>2. q \in Nat /\ q * c <= MaxTableCells /\ MaxTableCells < (q + 1) * c
    BY <1>6, <2>1, Quotient, TableCaps
  <2>3. q > 0 BY <1>3, <2>2, RoomForOneRow, TableCaps
  <2>4. PICK k \in 0..r : k = Smaller(r, q) BY <2>2 DEF Smaller
  <2>5. k <= q /\ (k < r => k = q) /\ (r > 0 => k > 0) BY <2>2, <2>3, <2>4 DEF Smaller
  <2>6. KeptTableShape(rows, cols) = [rows |-> k, cols |-> c]
    BY Zenon, <1>1, <1>2, <1>6, <2>1, <2>4 DEF KeptTableShape
  <2>7. kept.rows = k /\ kept.cols = c BY <2>6
  <2>8. k * c <= q * c BY <2>2, <2>5, MoreRowsMoreCells
  <2>9. k * c <= MaxTableCells
    <3>1. k * c \in Nat /\ q * c \in Nat BY <2>2
    <3> QED BY <2>2, <2>8, <3>1, TableCaps
  <2>10. k < rows => k = MaxTableRows \/ (k + 1) * c > MaxTableCells
    <3>1. CASE k < r
      <4>1. (k + 1) * c = (q + 1) * c BY Zenon, <2>5, <3>1
      <4>2. (q + 1) * c \in Nat BY <2>2
      <4> QED BY <2>2, <4>1, <4>2, TableCaps
    <3>2. CASE k = r BY <1>4, <3>2
    <3> QED BY <3>1, <3>2
  <2>11. /\ k \in 0..rows /\ k <= MaxTableRows /\ (rows > 0 => k > 0)
    BY <1>4, <2>5, TableCaps
  <2> QED BY Zenon, <1>3, <2>7, <2>9, <2>10, <2>11
<1> QED BY <1>5, <1>6
=============================================================================
