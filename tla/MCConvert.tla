----------------------------- MODULE MCConvert -----------------------------
(* Instances of ConvertPages: the messages and options clients send. *)
EXTENDS ConvertRefinement

PageOf(bytes) == [kind |-> "page_image", page_no |-> 1, bytes |-> bytes, png |-> TRUE]

(* A good page, one message for each way the read loop refuses one, and    *)
(* the message without a payload.                                          *)
AllMessages ==
    {PageOf(2), [kind |-> "options"], [kind |-> "pdf_chunk"], [kind |-> "none"],
     [PageOf(1) EXCEPT !.page_no = 0], [PageOf(1) EXCEPT !.page_no = MaxPageNo + 1],
     [PageOf(1) EXCEPT !.png = FALSE], PageOf(MaxPageBytes + 1)}

TwoSizes == {PageOf(1), PageOf(2)}

OnePage == {PageOf(2)}

PageOrRefused == {PageOf(2), [kind |-> "pdf_chunk"]}

PlainRequest == {[concurrency |-> 0, abort_on_error |-> FALSE]}
AbortRequest == {[concurrency |-> 0, abort_on_error |-> TRUE]}
BothRequests == PlainRequest \cup AbortRequest
=============================================================================
