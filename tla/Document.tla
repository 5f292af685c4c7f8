------------------------------ MODULE Document ------------------------------
(***************************************************************************)
(* The Document fragment a mapper builds (src/mapping/builder.h): one list *)
(* per kind of item, refs into those lists, and the body group whose       *)
(* children are the page's top-level items in order.                       *)
(***************************************************************************)
EXTENDS Naturals, Sequences, SequencesExt, FiniteSets

Kinds == {"texts", "pictures", "tables", "key_value_items", "groups", "field_regions"}

(* body_child_ref; list positions count from 1 here. *)
Ref(kind, index) == [kind |-> kind, index |-> index]
Body == Ref("body", 0)
NoRef == Ref("none", 0)

(* fill_text_base and its siblings: an item with its label, text and box,  *)
(* not yet anybody's child.  "at" is where in the response it comes from.  *)
NewItem(label, text, box, at) ==
    [label |-> label, text |-> text, box |-> box, at |-> at, layer |-> "body",
     self |-> NoRef, parent |-> NoRef, children |-> <<>>, captions |-> <<>>,
     footnotes |-> <<>>, data |-> <<>>, image |-> "none"]

EmptyDocument == [texts |-> <<>>, pictures |-> <<>>, tables |-> <<>>,
                  key_value_items |-> <<>>, groups |-> <<>>, field_regions |-> <<>>,
                  body |-> <<>>]

Add(doc, kind, item) == [doc EXCEPT ![kind] = Append(@, item)]
NextRef(doc, kind) == Ref(kind, Len(doc[kind]) + 1)
LastRef(doc, kind) == Ref(kind, Len(doc[kind]))

(* stamp_text_item and its siblings: a finished item knows its own ref and *)
(* its parent's.                                                           *)
Stamp(doc, refs, parent) ==
    LET Stamped(kind) ==
            [i \in DOMAIN doc[kind] |->
                IF Ref(kind, i) \in refs
                THEN [doc[kind][i] EXCEPT !.self = Ref(kind, i), !.parent = parent]
                ELSE doc[kind][i]]
    IN  [doc EXCEPT !.texts = Stamped("texts"), !.pictures = Stamped("pictures"),
                    !.tables = Stamped("tables"), !.groups = Stamped("groups"),
                    !.key_value_items = Stamped("key_value_items"),
                    !.field_regions = Stamped("field_regions")]

(* The items become the parent's last children. *)
Adopt(doc, refs, parent) ==
    [Stamp(doc, ToSet(refs), parent) EXCEPT ![parent.kind][parent.index].children = @ \o refs]

(* finalize_document: the body's children, in the order given. *)
FinalizeDocument(doc, order) ==
    [Stamp(doc, ToSet(order), Body) EXCEPT !.body = order]

(* The order of mappers with no reading order of their own. *)
LegacyOrder(doc) ==
    [i \in 1 .. Len(doc.texts) |-> Ref("texts", i)]
      \o [i \in 1 .. Len(doc.pictures) |-> Ref("pictures", i)]
      \o [i \in 1 .. Len(doc.tables) |-> Ref("tables", i)]

-----------------------------------------------------------------------------
(* What a fragment must be, whichever mapper built it. *)

Refs(doc) == UNION {{Ref(kind, i) : i \in 1 .. Len(doc[kind])} : kind \in Kinds}
ItemAt(doc, ref) == doc[ref.kind][ref.index]
ChildrenOf(doc, ref) == IF ref = Body THEN doc.body ELSE ItemAt(doc, ref).children

(* The places where some container lists the item as its child. *)
Listings(doc, ref) ==
    UNION {{<<owner, i>> : i \in {j \in 1 .. Len(ChildrenOf(doc, owner)) :
                                    ChildrenOf(doc, owner)[j] = ref}} :
             owner \in Refs(doc) \cup {Body}}

(* Every item is the child of exactly one container, listed there once,    *)
(* and names both itself and that container correctly.                     *)
IsTree(doc) ==
    \A ref \in Refs(doc) :
        /\ ItemAt(doc, ref).self = ref
        /\ \E place \in Listings(doc, ref) :
            Listings(doc, ref) = {place} /\ place[1] = ItemAt(doc, ref).parent

(* Items reached from the body by following children. *)
Reached(doc) ==
    LET Step(refs) == refs \cup UNION {ToSet(ChildrenOf(doc, ref)) : ref \in refs}
    IN  FoldLeft(LAMBDA refs, i : Step(refs), {Body}, [i \in 1 .. Cardinality(Refs(doc)) |-> i])

(* Captions and footnotes are texts of the same fragment. *)
LinksResolve(doc) ==
    \A ref \in Refs(doc) :
        ToSet(ItemAt(doc, ref).captions) \cup ToSet(ItemAt(doc, ref).footnotes)
            \subseteq {Ref("texts", i) : i \in 1 .. Len(doc.texts)}
=============================================================================
