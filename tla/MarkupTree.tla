----------------------------- MODULE MarkupTree -----------------------------
(***************************************************************************)
(* The tolerant markup tree (src/mapping/markup_tree.cpp).  A tree is the  *)
(* sequence of its nodes, the root first, with the stack of the elements   *)
(* that are open.  Tokens are [kind, tag, attrs, text, empty]; text is a   *)
(* sequence of names, an empty one standing for blanks.                    *)
(***************************************************************************)
EXTENDS Naturals, Sequences, SequencesExt, FiniteSets, FiniteSetsExt

CONSTANT MaxMarkupDepth

ASSUME DepthCap == MaxMarkupDepth \in Nat \ {0}

VoidTags == {"br", "hr", "img", "input"}
HtmlBlockTags == {"div", "p", "h1", "h2", "table", "ul", "ol", "li", "pre", "figure", "form",
                  "caption", "figcaption", "hr"}

Node(tag, attrs, text) == [tag |-> tag, attrs |-> attrs, text |-> text, kids |-> <<>>]
(* data-label, data-bbox ("none", "bad" or "good"), the spans and the type *)
(* of an input.                                                            *)
NoAttrs == [label |-> "", box |-> "none", cols |-> 1, rows |-> 1, type |-> ""]

(* "done": an unterminated comment or script takes the rest of the input. *)
NewTree(mode) ==
    [mode |-> mode, nodes |-> <<Node("root", NoAttrs, <<>>)>>, stack |-> <<1>>, done |-> FALSE]
Top(tree) == Last(tree.stack)
IsText(tree, n) == tree.nodes[n].tag = ""

AddNode(tree, node) ==
    [tree EXCEPT !.nodes = Append([@ EXCEPT ![Top(tree)].kids = Append(@, Len(tree.nodes) + 1)],
                                  node)]

(* Mutant: text goes on in the element's last text, whatever came between. *)
PutTextAnywhere(tree, text) ==
    LET texts == SelectSeq(tree.nodes[Top(tree)].kids, LAMBDA k : IsText(tree, k))
    IN  IF texts # <<>> THEN [tree EXCEPT !.nodes[Last(texts)].text = @ \o text]
        ELSE AddNode(tree, Node("", NoAttrs, text))

(* Text goes on where the last text under the open element stopped. *)
PutText(tree, text) ==
    LET kids == tree.nodes[Top(tree)].kids
    IN  IF kids # <<>> /\ IsText(tree, Last(kids))
        THEN [tree EXCEPT !.nodes[Last(kids)].text = @ \o text]
        ELSE AddNode(tree, Node("", NoAttrs, text))

(* Leave the innermost open element among the targets, unless one of the   *)
(* boundaries is open inside it.  The root is never left.                  *)
LeaveUpTo(tree, targets, boundaries) ==
    LET open == {i \in 2 .. Len(tree.stack) :
                   tree.nodes[tree.stack[i]].tag \in targets \cup boundaries}
    IN  IF open # {} /\ tree.nodes[tree.stack[Max(open)]].tag \in targets
        THEN [tree EXCEPT !.stack = SubSeq(@, 1, Max(open) - 1)] ELSE tree

(* close: a stray closing tag is dropped. *)
CloseTag(tree, tag) == LeaveUpTo(tree, {tag}, {})

(* A new cell, row, item or paragraph ends its open sibling. *)
ImplicitClose(tree, tag) ==
    LET Boundaries ==
            [td |-> {"tr", "table"}, th |-> {"tr", "table"}, tr |-> {"table"},
             li |-> {"ul", "ol"}, p |-> HtmlBlockTags \ {"p"}]
        Siblings == IF tag \in {"td", "th"} THEN {"td", "th"} ELSE {tag}
    IN  IF tag \in DOMAIN Boundaries THEN LeaveUpTo(tree, Siblings, Boundaries[tag]) ELSE tree

(* open: past the depth cap an element is added, but not entered. *)
OpenTag(tree, token) ==
    LET void == tree.mode = "html" /\ token.tag \in VoidTags
        Entered(t) == IF token.empty \/ void \/ Len(t.stack) > MaxMarkupDepth THEN t
                      ELSE [t EXCEPT !.stack = Append(@, Len(t.nodes))]
        left == IF tree.mode = "html" THEN ImplicitClose(tree, token.tag) ELSE tree
    IN  Entered(AddNode(left, Node(token.tag, token.attrs, <<>>)))

(* One token of parse_markup.  A script's or style's body is not markup. *)
ReadToken(tree, token) ==
    LET opened == IF token.kind \in {"open", "script"} THEN OpenTag(tree, token) ELSE tree
        filled == IF token.kind \in {"text", "script"} THEN PutText(opened, token.text) ELSE opened
        closed == IF token.kind \in {"close", "script"} THEN CloseTag(filled, token.tag) ELSE filled
    IN  IF tree.done THEN tree ELSE [closed EXCEPT !.done = token.kind = "unterminated"]

ParseMarkup(tokens, mode) == FoldLeft(ReadToken, NewTree(mode), tokens)
-----------------------------------------------------------------------------
(* What the walkers ask of a tree. *)
Kids(tree, n) == tree.nodes[n].kids
TagOf(tree, n) == tree.nodes[n].tag
Elements(tree, n) == SelectSeq(Kids(tree, n), LAMBDA k : ~IsText(tree, k))

(* The elements below a node, in document order. *)
RECURSIVE ElementsBelow(_, _)
ElementsBelow(tree, n) ==
    LET kids == Elements(tree, n)
    IN  FlattenSeq([i \in DOMAIN kids |-> <<kids[i]>> \o ElementsBelow(tree, kids[i])])
HasBelow(tree, n, tags) == \E k \in ToSet(ElementsBelow(tree, n)) : TagOf(tree, k) \in tags

(* html_text and its siblings: all text of a node, in order. *)
RECURSIVE AllText(_, _)
AllText(tree, n) ==
    tree.nodes[n].text
      \o FlattenSeq([i \in DOMAIN Kids(tree, n) |-> AllText(tree, Kids(tree, n)[i])])
=============================================================================
