------------------------------- MODULE Budget -------------------------------
(***************************************************************************)
(* class Budget and class Lease of src/service/budget.h as operators on a  *)
(* budget value: the capacity, what is taken of it, and the line of        *)
(* waiters.  std::list nodes are named by the caller that inserted them;   *)
(* a caller stands in a line at most once.  Every operator is one critical *)
(* section of mutex_, or one test made inside it.  The condition variable  *)
(* is not modelled: a waiter also wakes every kPollInterval, so it may     *)
(* look again at any time.                                                 *)
(*                                                                         *)
(* Here and in the other modules, a definition directly above another and  *)
(* named after it (ClampNoFloor above Clamp) is a wrong version of it, as  *)
(* a slip in the code would give; PROJECT.json says which property notices. *)
(***************************************************************************)
EXTENDS Integers, Sequences

(* Budget(capacity): at least one unit. *)
NewBudget(capacity) ==
    [capacity |-> IF capacity < 1 THEN 1 ELSE capacity, used |-> 0, line |-> <<>>]

(* A budget larger than 0 lets everything through: no request is refused   *)
(* for its size, and none is free.                                         *)
ClampNoFloor(b, amount) == IF amount > b.capacity THEN b.capacity ELSE amount
ClampNoCeiling(b, amount) == IF amount < 1 THEN 1 ELSE amount
Clamp(b, amount) ==
    IF amount < 1 THEN 1 ELSE IF amount > b.capacity THEN b.capacity ELSE amount

(* line_.insert(line_.end(), amount) *)
Enter(b, me) == [b EXCEPT !.line = Append(@, me)]

(* line_.erase(me): the node of this caller, wherever it stands. *)
Erase(line, me) ==
    LET k == CHOOSE i \in DOMAIN line : line[i] = me
    IN  SubSeq(line, 1, k - 1) \o SubSeq(line, k + 1, Len(line))

(* The test at the head of the loop in acquire(). *)
MayTakeAnywhere(b, me, n) == b.used + n <= b.capacity
MayTakeLast(b, me, n) == Head(b.line) = me /\ b.used <= b.capacity
MayTake(b, me, n) ==
    /\ b.line # <<>>
    /\ Head(b.line) = me
    /\ b.used + n <= b.capacity

(* The taking branch: the amount is taken and the caller leaves the line. *)
Take(b, me, n) == [b EXCEPT !.used = @ + n, !.line = Erase(@, me)]

(* The halted branch: the caller leaves the line with an empty lease. *)
LeaveStays(b, me) == b
Leave(b, me) == [b EXCEPT !.line = Erase(@, me)]

(* One turn of the loop: what becomes of the caller, whose halted() probe  *)
(* reads `stop`, and of the budget.  The fit is tested before the probe.   *)
TurnOf(b, me, n, stop) ==
    IF MayTake(b, me, n) THEN "holding" ELSE IF stop THEN "idle" ELSE "waiting"

AfterTurn(b, me, n, stop) ==
    IF MayTake(b, me, n) THEN Take(b, me, n) ELSE IF stop THEN Leave(b, me) ELSE b

(* Budget::release, called once per lease by Lease::reset. *)
Release(b, n) == [b EXCEPT !.used = @ - n]

(* The budgets with these callers. *)
Budgets(callers) == [capacity : Nat \ {0}, used : Nat, line : Seq(callers)]

(* Who stands in a line, and that nobody stands in it twice. *)
In(line, c) == \E i \in DOMAIN line : line[i] = c
Injective(line) == \A i, j \in DOMAIN line : line[i] = line[j] => i = j
=============================================================================
