------------------------------- MODULE Channel -------------------------------
(***************************************************************************)
(* Channel<T> of src/service/vlm_convert_service.cpp: a closable FIFO.     *)
(* The deque is kept as the log of everything ever pushed and the number   *)
(* of values taken from it; what lies between is the queue.  Every         *)
(* operator is one critical section of mutex_ or a test made inside it.    *)
(***************************************************************************)
EXTENDS Integers, Sequences

NewChannel == [log |-> <<>>, taken |-> 0, closed |-> FALSE]

Push(ch, value) == [ch EXCEPT !.log = Append(@, value)]

Close(ch) == [ch EXCEPT !.closed = TRUE]

(* queue_.empty() *)
Empty(ch) == ch.taken = Len(ch.log)

(* queue_.front() *)
NextValue(ch) == ch.log[ch.taken + 1]

(* queue_.pop_front() *)
Pop(ch) == [ch EXCEPT !.taken = @ + 1]
=============================================================================
