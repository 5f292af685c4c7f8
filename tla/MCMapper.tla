------------------------------- MODULE MCMapper ------------------------------
(* Small instances of the mappers for TLC. *)
EXTENDS Mapper

Page(image, tags, groups, tokens) ==
    [format |-> "doctags", image |-> image, tags |-> tags, groups |-> groups, tokens |-> tokens,
     alphabet |-> ""]
LayoutPage(format, alphabet, tokens) ==
    [Page("good", {}, FALSE, tokens) EXCEPT !.format = format, !.alphabet = alphabet]

(* DocTags pages of all sorts of elements, of tables, and of pictures      *)
(* only; then one page of each other format, and layouts of all sorts.     *)
MCPages ==
    {Page("none", {"text", "page_header", "picture", "table", "newer_tag"}, TRUE, 4),
     Page("none", {"chart", "table", "text"}, FALSE, 5),
     Page("good", {"picture"}, FALSE, 6)}
      \cup {Page(image, {"picture", "chart"}, FALSE, 4) :
              image \in {"headless", "too_large", "broken"}}
      \cup {[Page("none", {}, FALSE, n) EXCEPT !.format = f] :
              f \in {"markdown", "html", "otsl", "plaintext", "mineru2"}, n \in {4}}
      \cup {LayoutPage("chandra", "blocks", 4), LayoutPage("chandra", "lists", 4),
            LayoutPage("chandra", "tables", 5), LayoutPage("chandra", "inline", 4),
            LayoutPage("chandra", "pictures", 4), LayoutPage("chandra", "wide", 3),
            LayoutPage("chandra", "nesting", 6), LayoutPage("dots", "dots", 3),
            LayoutPage("deepseek", "lines", 5), LayoutPage("deepseek", "captions", 4),
            LayoutPage("unlimited", "inlined", 4), LayoutPage("nemotron2", "regions", 4),
            LayoutPage("nemotron35", "segments", 3), LayoutPage("doclang", "floats", 4),
            LayoutPage("doclang", "texts", 4), LayoutPage("doclang", "xmlLists", 4),
            LayoutPage("doclang", "charts", 4)}

(* dots.ocr blocks only, and Chandra tables with a span far past the cap. *)
MCDotsPages == {LayoutPage("dots", "dots", 2)}
MCFloatPages == {LayoutPage("doclang", "floats", 3)}
MCWidePages == {LayoutPage("chandra", "wide", 3)}

(* Ragged rows, a table past the caps, and one without any cell. *)
MCHtmlTables == {<<<<1>>, <<1, 2>>>>, <<<<1>>, <<1, 2, 3, 1>>, <<>>, <<1>>, <<2>>, <<3>>>>, <<<<>>>>}

Tok(tag, text) == [tag |-> tag, text |-> text]
fcel(n) == Tok("fcel", n)
lcel == Tok("lcel", 0)
ucel == Tok("ucel", 0)
xcel == Tok("xcel", 0)
nl == Tok("nl", 0)

(* Empty; ragged with spans that overlap; a section row in mid-row; a      *)
(* table past the column and row caps; one whose grid costs too much.      *)
MCOtslBodies ==
    {<<>>,
     <<fcel(1), lcel, nl, ucel, fcel(2), nl>>,
     <<fcel(1), Tok("ecel", 0), Tok("srow", 2), nl, nl, fcel(3), xcel>>,
     <<fcel(1), fcel(2), fcel(3), fcel(1), nl, fcel(1), nl, fcel(2), nl, fcel(3), nl, fcel(1), nl>>,
     <<fcel(9), lcel, lcel, nl, ucel, xcel, xcel, nl>>}

MCInlineKids ==
    {<<[name |-> "text", text |-> TRUE], [name |-> "newer_tag", text |-> FALSE]>>,
     <<[name |-> "picture", text |-> FALSE], [name |-> "table", text |-> FALSE]>>}

MCKeyValues == {<<[id |-> 1, links |-> {2, 7}], [id |-> 2, links |-> {}]>>}

MCShots == {[area |-> 0, uri |-> 0], [area |-> 1, uri |-> 1], [area |-> 2, uri |-> 3],
            [area |-> 1, uri |-> 0]}
MCRegion == [area |-> 1, uri |-> 2]
-----------------------------------------------------------------------------
Open(tag) == OpenToken(tag)
Close(tag) == CloseToken(tag)
Div(label, box) ==
    MarkupToken("open", "div", [NoAttrs EXCEPT !.label = label, !.box = box], <<>>)
Td(cols, rows) == MarkupToken("open", "td", [NoAttrs EXCEPT !.cols = cols, !.rows = rows], <<>>)
Input(type) == MarkupToken("open", "input", [NoAttrs EXCEPT !.type = type], <<>>)
T == MarkupToken("text", "", NoAttrs, <<1>>)
Space == MarkupToken("text", "", NoAttrs, <<>>)
Comma == MarkupToken("text", "", NoAttrs, <<Punctuation>>)
Bold == <<Open("b"), T, Close("b")>>

Chandra ==
    [blocks |-> {<<Div("Text", "good")>>, <<Div("Figure", "good")>>, <<Div("Caption", "bad")>>,
                 <<Open("p")>>, <<Close("div")>>, <<T>>, Bold},
     lists |-> {<<Div("List-Group", "good")>>, <<Open("ul")>>, <<Open("li")>>, <<Open("br")>>,
                <<T>>, <<Space>>, Bold},
     tables |-> {<<Div("Table", "good"), Open("table")>>, <<Open("tbody")>>, <<Open("tr")>>,
                 <<Td(2, 1), T>>, <<Td(1, 0)>> \o Bold, <<Open("tr"), Td(1, 2), T>>,
                 <<Open("caption"), T, Close("caption")>>},
     wide |-> {<<Open("table"), Open("tr"), Td(1, 1), T>>, <<Td(20, 1), T>>, <<Open("tr"), Td(1, 1)>>},
     inline |-> {<<Div("Equation-Block", "good")>>, <<Div("Page-Header", "good")>>,
                 <<Open("math"), T, Close("math")>>, <<Comma>>, <<T>>,
                 <<Open("pre"), T, Close("pre")>>, <<Input("checkbox")>>, <<Input("hidden")>>},
     pictures |-> {<<Open("figure")>>, <<Open("chem"), T, Close("chem")>>, <<Open("img"), T>>,
                   <<Open("form")>>, <<MarkupToken("script", "script", NoAttrs, <<1>>)>>,
                   <<MarkupToken("unterminated", "", NoAttrs, <<>>)>>, <<Open("h1")>>, <<T>>,
                   <<Div("Blank-Page", "none")>>, <<Div("Footnote", "good")>>},
     nesting |-> {<<Open("div")>>, <<Open("b")>>, <<Close("div")>>, <<T>>}]

DotsChunk(label, located, tokens) == [label |-> label, located |-> located, tokens |-> tokens]
TableBody == <<Open("table"), Open("tr"), Td(1, 1), T, Td(1, 1)>> \o Bold
Dots ==
    {DotsChunk("Text", TRUE, <<T>>), DotsChunk("Text", TRUE, <<Close("b"), T>>),
     DotsChunk("Text", TRUE, <<MarkupToken("fence", "", NoAttrs, <<1>>)>>),
     DotsChunk("Caption", TRUE, <<T>>), DotsChunk("Caption", FALSE, <<T>>),
     DotsChunk("Picture", TRUE, <<T>>), DotsChunk("List-item", TRUE, Bold \o <<T>>),
     DotsChunk("Title", TRUE, Bold), DotsChunk("Formula", TRUE, <<T>>),
     DotsChunk("Table", TRUE, <<T>>),
     DotsChunk("Table", TRUE, TableBody \o <<Close("tr"), Open("caption"), T>>)}

Annotation(label) == DotsChunk(label, TRUE, <<>>)
Words(tokens) == DotsChunk("", FALSE, tokens)
DeepSeekLines ==
    [lines |-> {Annotation("table"), Annotation("table_caption"), Annotation("text"),
                Words(<<T>>), Words(<<Open("table"), Open("tr"), Td(2, 1), T, Td(1, 2), T>>),
                Words(<<Open("tr"), Td(1, 1), T, Td(2, 1), Close("table")>>),
                Words(<<Open("tr"), Td(BadSpan, 1), Close("table")>>)},
     captions |-> {Annotation("figure"), Annotation("figure_caption"), Annotation("image"),
                   Annotation("header"), DotsChunk("sub_title", FALSE, <<>>), Words(<<T>>)},
     inlined |-> {DotsChunk("title", TRUE, <<T>>), DotsChunk("image", TRUE, <<>>),
                  DotsChunk("image_caption", TRUE, <<T>>), Words(<<T>>)}]

Extra(kind, fields) == fields @@ MarkupToken(kind, "", NoAttrs, <<>>)
Coord(at) == Extra("coord", [at |-> at])
Class(label) == Extra("class", [label |-> label])
LatexTd(cols, rows, text) == [cols |-> cols, rows |-> rows, text |-> text]
Latex ==
    Extra("latex", [rows |-> <<<<LatexTd(1, 2, <<1>>), LatexTd(2, 1, <<1>>)>>,
                               <<LatexTd(1, 1, <<>>), LatexTd(1, 1, <<1>>)>>,
                               <<LatexTd(1, 1, <<>>), LatexTd(1, 1, <<>>)>>>>])
WideLatex == Extra("latex", [rows |-> <<<<LatexTd(5, 1, <<1>>), LatexTd(5, 1, <<1>>)>>>>])
ChartRows(kind) == Extra(kind, [rows |-> <<<<1, 1>>, <<1>>>>])
Located(tokens, label) == <<Coord(1)>> \o tokens \o <<Coord(2), Class(label)>>

Nemotron ==
    [regions |-> {<<Coord(1)>>, <<T>>, <<Coord(2), Class("Text")>>, <<Class("Title")>>,
                  Located(<<Latex>>, "Table"), Located(<<ChartRows("chart")>>, "Chart"),
                  Located(<<T>>, "List-item"), Located(<<>>, "Picture")},
     segments |-> {<<Coord(1)>>, <<T>>, <<Class("Text")>>, Located(<<T>>, "Caption"),
                   Located(<<>>, "Picture"), Located(<<T>>, "Picture"), Located(<<Latex>>, "Table"),
                   Located(<<WideLatex>>, "Table"), Located(<<ChartRows("chart")>>, "Chart"),
                   Located(<<ChartRows("panel"), ChartRows("panel")>>, "Chart"),
                   Located(<<T>>, "TOC"), Located(<<Latex>>, "TOC"), Located(Bold, "List-item"),
                   Located(<<T>>, "Section-header"), Located(Bold \o <<T>>, "Page-header"),
                   Located(<<T>>, "Code"), <<Coord(3), Coord(2), Class("Caption")>>}]

Empty(tag) == [Open(tag) EXCEPT !.empty = TRUE]
In(tag, tokens) == <<Open(tag)>> \o tokens \o <<Close(tag)>>
Location == [Empty("location") EXCEPT !.attrs.box = "good"]
Layer == [Empty("layer") EXCEPT !.attrs.label = "furniture"]
BoldXml == In("bold", <<T>>)
OtslXml == <<Location, Empty("fcel"), T, Empty("lcel"), Empty("nl"), Empty("ucel"), T, Empty("ecel"),
             Space, Empty("lcel")>>
DocLangXml ==
    [floats |-> {<<Open("group")>>, <<Close("group")>>, In("picture", <<Location>>),
                 In("table", OtslXml), In("code", <<T>>), In("text", <<T>>),
                 In("caption", <<Layer, T>> \o BoldXml), In("footnote", <<Location, T>>)},
     texts |-> {<<Open("text")>>, <<Open("page_header")>>, <<Open("code")>>, <<Location, Layer>>,
                <<T>>, BoldXml, In("caption", <<T>>), <<Close("text")>>,
                <<[Open("group") EXCEPT !.attrs.label = "section"]>>},
     xmlLists |-> {<<Open("list")>>, <<Empty("ldiv")>>, <<Location>>, <<T>>, BoldXml,
                   In("text", <<Location, T>>), In("heading", <<T>>), In("picture", <<>>),
                   <<Close("list")>>},
     charts |-> {<<Open("picture")>>, In("tabular", OtslXml), <<Empty("src")>>, <<Close("picture")>>,
                 In("formula", <<T>>), In("caption", <<T>>), In("index", OtslXml),
                 <<Empty("page_break")>>, In("section", In("bold", <<Space>>))}]

MCChunks == Chandra @@ [dots |-> Dots] @@ DeepSeekLines @@ Nemotron @@ DocLangXml
=============================================================================
