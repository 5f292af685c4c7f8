---------------------------- MODULE BudgetClients ----------------------------
(***************************************************************************)
(* Threads sharing one Budget (src/service/budget.h): calls of acquire(),  *)
(* the leases they return, and the `halted` probe each caller passes in.   *)
(* A caller is one acquire() call and the Lease it returns; an identity is *)
(* used again once its lease is gone.                                      *)
(***************************************************************************)
EXTENDS Budget, Functions

CONSTANTS
    N,                   \* callers are 1..N
    ConfiguredCapacity,  \* what the constructor is given
    Amounts              \* the amounts callers ask for

ASSUME NAssumption == N \in Nat \ {0}
ASSUME CapacityAssumption == ConfiguredCapacity \in Nat
ASSUME AmountsAssumption == Amounts \subseteq Nat

Callers == 1..N

VARIABLES
    budget,   \* the shared Budget
    state,    \* per caller: no lease, inside acquire(), or owning a lease
    amount,   \* per caller: the clamped amount waited for or leased
    halted    \* per caller: the value of its halted() probe, set by others

vars == <<budget, state, amount, halted>>

Init ==
    /\ budget = NewBudget(ConfiguredCapacity)
    /\ state = [c \in Callers |-> "idle"]
    /\ amount = [c \in Callers |-> 0]
    /\ halted = [c \in Callers |-> FALSE]

(* One turn of acquire()'s loop for caller c, with mutex_ held and b the   *)
(* budget as c finds it: take, give up with an empty lease, or wait.       *)
TurnDeaf(c, b, n) ==
    /\ budget' = AfterTurn(b, c, n, FALSE)
    /\ state' = [state EXCEPT ![c] = TurnOf(b, c, n, FALSE)]
    /\ amount' = [amount EXCEPT ![c] = n]
Turn(c, b, n) ==
    LET next == TurnOf(b, c, n, halted[c]) IN
    /\ budget' = AfterTurn(b, c, n, halted[c])
    /\ state' = [state EXCEPT ![c] = next]
    /\ amount' = [amount EXCEPT ![c] = IF next = "idle" THEN 0 ELSE n]

(* acquire(n, halted): joins the line and takes its first turn, all under  *)
(* one lock.                                                               *)
Acquire(c, n) ==
    /\ state[c] = "idle"
    /\ Turn(c, Enter(budget, c), Clamp(budget, n))
    /\ UNCHANGED halted

(* wait_for returned, by notify_all or after kPollInterval. *)
Wake(c) ==
    /\ state[c] = "waiting"
    /\ Turn(c, budget, amount[c])
    /\ UNCHANGED halted

(* ~Lease or Lease::reset: gives the amount back and forgets the budget. *)
ResetTwice(c) ==
    /\ state[c] = "holding"
    /\ budget' = Release(budget, amount[c])
    /\ UNCHANGED <<state, amount, halted>>
Reset(c) ==
    /\ state[c] = "holding"
    /\ budget' = Release(budget, amount[c])
    /\ state' = [state EXCEPT ![c] = "idle"]
    /\ amount' = [amount EXCEPT ![c] = 0]
    /\ UNCHANGED halted

(* A stream stops: the probe of each of its callers turns true for good. *)
Halt(stopped) ==
    /\ \E c \in stopped : ~halted[c]
    /\ halted' = [c \in Callers |-> halted[c] \/ c \in stopped]
    /\ UNCHANGED <<budget, state, amount>>

(* The identity now stands for a caller of another, running stream. *)
Reuse(c) ==
    /\ state[c] = "idle"
    /\ halted[c]
    /\ halted' = [halted EXCEPT ![c] = FALSE]
    /\ UNCHANGED <<budget, state, amount>>

Next ==
    \/ \E c \in Callers :
          \/ \E n \in Amounts : Acquire(c, n)
          \/ Wake(c)
          \/ Reset(c)
          \/ Reuse(c)
    \/ \E stopped \in SUBSET Callers : Halt(stopped)

Spec == Init /\ [][Next]_vars

(* A waiter polls, so it keeps taking turns. *)
Polling == \A c \in Callers : WF_vars(Wake(c))

(* Every lease is given back some day: the holders are pages, whose calls  *)
(* are bounded by a timeout.                                               *)
LeasesReturn == \A c \in Callers : WF_vars(Reset(c))

PollingSpec == Spec /\ Polling

-----------------------------------------------------------------------------
Held(c) == IF state[c] = "holding" THEN amount[c] ELSE 0

(* Every variable stays in its range; a waiter or holder asked for at      *)
(* least one unit and at most the whole budget (the clamp in acquire()).   *)
TypeOK ==
    /\ budget.capacity \in Nat \ {0}
    /\ budget.used \in Int
    /\ budget.line \in Seq(Callers)
    /\ budget = [capacity |-> budget.capacity, used |-> budget.used, line |-> budget.line]
    /\ state \in [Callers -> {"idle", "waiting", "holding"}]
    /\ amount \in [Callers -> 0..budget.capacity]
    /\ \A c \in Callers : state[c] # "idle" => amount[c] >= 1
    /\ halted \in [Callers -> BOOLEAN]

(* used_ is exactly the total of the leases now held and never exceeds     *)
(* capacity_: nothing is lost when a waiter gives up, nothing is given     *)
(* back twice, and release() never takes used_ below zero.                 *)
Balanced ==
    /\ budget.used = SumFunction([c \in Callers |-> Held(c)])
    /\ budget.used <= budget.capacity

(* The line holds each caller inside acquire() exactly once and nobody     *)
(* else: a caller that took or gave up left no node behind, at the front   *)
(* or in the middle, to block those after it.                              *)
LineIsTheWaiters ==
    /\ Injective(budget.line)
    /\ \A c \in Callers : state[c] = "waiting" <=> In(budget.line, c)

(* First come, first served: no caller is granted its amount while one     *)
(* that joined the line before it is still waiting (a large page is not    *)
(* passed by small ones).                                                  *)
NoOvertaking ==
    [][\A c, d \in Callers :
          (/\ state[d] = "waiting" /\ state'[d] = "waiting"
           /\ c # d /\ state[c] # "holding" /\ state'[c] = "holding")
          => \E i, j \in DOMAIN budget.line :
                i < j /\ budget.line[i] = c /\ budget.line[j] = d]_vars

(* No starvation: every call of acquire() returns, whatever its size, once *)
(* leases are given back.                                                  *)
EveryWaiterServed ==
    LeasesReturn => \A c \in Callers : (state[c] = "waiting") ~> (state[c] # "waiting")

(* A waiter whose stream stopped leaves acquire() even if no lease is ever *)
(* given back: it does not park an RPC thread nobody is waiting on.        *)
HaltedWaiterLeaves ==
    \A c \in Callers : (state[c] = "waiting" /\ halted[c]) ~> (state[c] # "waiting")
=============================================================================
