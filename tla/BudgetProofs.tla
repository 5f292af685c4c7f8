---------------------------- MODULE BudgetProofs ----------------------------
(***************************************************************************)
(* What a Budget promises its callers, for every capacity, any number of   *)
(* callers and any amounts.                                                *)
(***************************************************************************)
EXTENDS BudgetClients, BudgetLemmas

-----------------------------------------------------------------------------
(* The invariant of a Budget; it is inductive as it stands.  Balanced      *)
(* needs the line: a caller that joins it must not be in it already, and   *)
(* the line needs the types.                                               *)
IInv == TypeOK /\ Balanced /\ LineIsTheWaiters

LEMMA CallersFinite == IsFiniteSet(Callers)
BY NAssumption, FS_Interval DEF Callers

LEMMA InitIInv == Init => IInv
<1> SUFFICES ASSUME Init PROVE IInv
  OBVIOUS
<1> USE NAssumption, CapacityAssumption DEF Init, NewBudget
<1>1. /\ budget.capacity \in Nat \ {0} /\ budget.used = 0 /\ budget.line = << >>
      /\ budget = [capacity |-> budget.capacity, used |-> budget.used, line |-> budget.line]
  OBVIOUS
<1>2. TypeOK
  BY <1>1 DEF TypeOK, Callers
<1>3. Balanced
  <2>1. \A c \in Callers : Held(c) = 0 BY DEF Held
  <2> QED BY <1>1, <2>1, CallersFinite, Totals DEF Balanced
<1>4. LineIsTheWaiters
  BY <1>1 DEF LineIsTheWaiters, Callers, In, Injective
<1> QED BY <1>2, <1>3, <1>4 DEF IInv

(* What one turn of acquire()'s loop may assume of the line it sees: the   *)
(* caller stands in it once, together with the other waiters.              *)
TurnReady(c, b, n) ==
    /\ b = [capacity |-> budget.capacity, used |-> budget.used, line |-> b.line]
    /\ b.line \in Seq(Callers)
    /\ Injective(b.line)
    /\ \A d \in Callers : In(b.line, d) <=> d = c \/ state[d] = "waiting"
    /\ state[c] # "holding"
    /\ n \in 1..budget.capacity

(* A step that changes what c holds by d changes used_ by d. *)
LEMMA TotalShift ==
    ASSUME TypeOK, Balanced, NEW c \in Callers, NEW d \in Int,
           \A e \in Callers \ {c} : Held(e)' = Held(e),
           Held(c)' = Held(c) + d, Held(c)' >= 0,
           budget'.capacity = budget.capacity,
           budget'.used = budget.used + d,
           budget.used + d <= budget.capacity
    PROVE  Balanced'
<1> DEFINE f == [e \in Callers |-> Held(e)]
           g == [e \in Callers |-> Held(e)']
<1>1. \A e \in Callers : Held(e) \in Int
  BY DEF TypeOK, Held
<1>2. \A e \in Callers : Held(e)' \in Int
  BY <1>1
<1>3. f \in [Callers -> Int] /\ g \in [Callers -> Int] BY <1>1, <1>2
<1>4. SumFunction(g) = SumFunction(f) + (g[c] - f[c])
  <2>1. \A e \in Callers \ {c} : g[e] = f[e] OBVIOUS
  <2> HIDE DEF f, g
  <2> QED BY <2>1, <1>3, CallersFinite, Totals
<1>5. g[c] - f[c] = d BY <1>1
<1> QED BY <1>4, <1>5 DEF Balanced

LEMMA UsedLemma == ASSUME TypeOK, Balanced PROVE budget.used \in 0..budget.capacity
<1>1. [c \in Callers |-> Held(c)] \in [Callers -> Nat]
  BY DEF TypeOK, Held
<1>2. SumFunction([c \in Callers |-> Held(c)]) \in Nat
  BY <1>1, CallersFinite, Totals
<1> QED BY <1>2 DEF TypeOK, Balanced

(* One turn of the loop keeps the invariant, whichever branch it takes. *)
LEMMA TurnIInv ==
    ASSUME IInv, NEW c \in Callers, NEW b, NEW n, TurnReady(c, b, n),
           Turn(c, b, n), UNCHANGED halted
    PROVE  IInv'
<1> USE DEF IInv
<1>t. /\ budget.capacity \in Nat \ {0} /\ budget.used \in Int
      /\ b.capacity = budget.capacity /\ b.used = budget.used
      /\ n \in 1..budget.capacity
  BY DEF TypeOK, TurnReady
<1>1. CASE /\ MayTake(b, c, n)
           /\ budget' = Take(b, c, n)
           /\ state' = [state EXCEPT ![c] = "holding"]
           /\ amount' = [amount EXCEPT ![c] = n]
  <2>1. /\ budget' = [capacity |-> budget.capacity, used |-> budget.used + n,
                      line |-> Erase(b.line, c)]
        /\ budget.used + n <= budget.capacity
    BY <1>1, <1>t DEF MayTake, Take, TurnReady
  <2>2. /\ Erase(b.line, c) \in Seq(Callers)
        /\ Injective(Erase(b.line, c))
        /\ \A d : In(Erase(b.line, c), d) <=> In(b.line, d) /\ d # c
    BY EraseLemma DEF TurnReady
  <2>3. TypeOK'
    BY <1>1, <1>t, <2>1, <2>2 DEF TypeOK
  <2>4. Balanced'
    <3>1. \A e \in Callers \ {c} : Held(e)' = Held(e)
      BY <1>1 DEF Held, TypeOK
    <3>2. Held(c)' = n /\ Held(c) = 0
      BY <1>1 DEF Held, TypeOK, TurnReady
    <3> QED BY <3>1, <3>2, <2>1, <1>t, TotalShift
  <2>5. LineIsTheWaiters'
    <3>1. \A d \in Callers : state'[d] = "waiting" <=> d # c /\ state[d] = "waiting"
      BY <1>1 DEF TypeOK
    <3> QED BY <3>1, <2>1, <2>2 DEF LineIsTheWaiters, TurnReady
  <2> QED BY <2>3, <2>4, <2>5
<1>2. CASE /\ budget' = Leave(b, c)
           /\ state' = [state EXCEPT ![c] = "idle"]
           /\ amount' = [amount EXCEPT ![c] = 0]
  <2>1. budget' = [capacity |-> budget.capacity, used |-> budget.used, line |-> Erase(b.line, c)]
    BY <1>2, <1>t DEF Leave, TurnReady
  <2>2. In(b.line, c)
    BY DEF TurnReady
  <2>3. /\ Erase(b.line, c) \in Seq(Callers)
        /\ Injective(Erase(b.line, c))
        /\ \A d : In(Erase(b.line, c), d) <=> In(b.line, d) /\ d # c
    BY <2>2, EraseLemma DEF TurnReady
  <2>4. TypeOK'
    BY <1>2, <1>t, <2>1, <2>3 DEF TypeOK
  <2>5. Balanced'
    <3>1. \A e \in Callers : Held(e)' = Held(e)
      BY <1>2 DEF Held, TypeOK, TurnReady
    <3>2. Held(c) = 0
      BY DEF Held, TurnReady
    <3>3. Balanced
      OBVIOUS
    <3> QED BY <3>1, <3>2, <3>3, <2>1, <1>t, UsedLemma, TotalShift
  <2>6. LineIsTheWaiters'
    <3>1. \A d \in Callers : state'[d] = "waiting" <=> d # c /\ state[d] = "waiting"
      BY <1>2 DEF TypeOK
    <3> QED BY <3>1, <2>1, <2>3 DEF LineIsTheWaiters, TurnReady
  <2> QED BY <2>4, <2>5, <2>6
<1>3. CASE /\ budget' = b
           /\ state' = [state EXCEPT ![c] = "waiting"]
           /\ amount' = [amount EXCEPT ![c] = n]
  <2>1. TypeOK'
    BY <1>3, <1>t DEF TypeOK, TurnReady
  <2>2. Balanced'
    <3>1. \A e \in Callers : Held(e)' = Held(e)
      BY <1>3 DEF Held, TypeOK, TurnReady
    <3>2. Held(c) = 0
      BY DEF Held, TurnReady
    <3> QED BY <3>1, <3>2, <1>3, <1>t, UsedLemma, TotalShift
  <2>3. LineIsTheWaiters'
    <3>1. \A d \in Callers : state'[d] = "waiting" <=> d = c \/ state[d] = "waiting"
      BY <1>3 DEF TypeOK
    <3> QED BY <3>1, <1>3 DEF LineIsTheWaiters, TurnReady
  <2> QED BY <2>1, <2>2, <2>3
<1> QED BY <1>1, <1>2, <1>3 DEF Turn, TurnOf, AfterTurn

(* acquire() gives its first turn what a turn needs: a caller that was     *)
(* idle is not in the line, so it stands there once after joining.         *)
LEMMA AcquireReady ==
    ASSUME IInv, NEW c \in Callers, state[c] = "idle", NEW n \in Amounts,
           NEW b, b = Enter(budget, c), NEW k, k = Clamp(budget, n)
    PROVE  TurnReady(c, b, k)
<1> USE DEF IInv
<1>1. b = [capacity |-> budget.capacity, used |-> budget.used, line |-> Append(budget.line, c)]
  BY DEF Enter, TypeOK
<1>2. /\ budget.line \in Seq(Callers) /\ Injective(budget.line) /\ ~In(budget.line, c)
      /\ \A d \in Callers : In(budget.line, d) <=> state[d] = "waiting"
  BY DEF LineIsTheWaiters, TypeOK
<1>3. /\ b.line = Append(budget.line, c)
      /\ b.line \in Seq(Callers) /\ Injective(b.line)
      /\ \A d : In(b.line, d) <=> In(budget.line, d) \/ d = c
  BY <1>1, <1>2, AppendLemma
<1>4. k \in 1..budget.capacity
  BY AmountsAssumption DEF Clamp, TypeOK
<1> QED BY <1>1, <1>2, <1>3, <1>4 DEF TurnReady

LEMMA WakeReady ==
    ASSUME IInv, NEW c \in Callers, state[c] = "waiting",
           NEW b, b = budget, NEW k, k = amount[c]
    PROVE  TurnReady(c, b, k)
<1> USE DEF IInv
<1>1. /\ Injective(budget.line)
      /\ \A d \in Callers : In(budget.line, d) <=> state[d] = "waiting"
  BY DEF LineIsTheWaiters
<1>2. k \in 1..budget.capacity
  BY DEF TypeOK
<1> QED BY <1>1, <1>2 DEF TurnReady, TypeOK

LEMMA NextIInv == ASSUME IInv, [Next]_vars PROVE IInv'
<1>1. ASSUME NEW c \in Callers, NEW n \in Amounts, Acquire(c, n) PROVE IInv'
  <2>1. PICK b : b = Enter(budget, c)
    OBVIOUS
  <2>2. PICK k : k = Clamp(budget, n)
    OBVIOUS
  <2>3. state[c] = "idle" /\ Turn(c, b, k) /\ UNCHANGED halted
    BY <1>1, <2>1, <2>2 DEF Acquire
  <2>4. TurnReady(c, b, k)
    BY <2>1, <2>2, <2>3, AcquireReady
  <2> QED BY <2>3, <2>4, TurnIInv
<1>2. ASSUME NEW c \in Callers, Wake(c) PROVE IInv'
  <2>1. PICK b : b = budget
    OBVIOUS
  <2>2. PICK k : k = amount[c]
    OBVIOUS
  <2>3. state[c] = "waiting" /\ Turn(c, b, k) /\ UNCHANGED halted
    BY <1>2, <2>1, <2>2 DEF Wake
  <2>4. TurnReady(c, b, k)
    BY <2>1, <2>2, <2>3, WakeReady
  <2> QED BY <2>3, <2>4, TurnIInv
<1>3. ASSUME NEW c \in Callers, Reset(c) PROVE IInv'
  <2> USE <1>3 DEF Reset, IInv
  <2>1. budget' = [capacity |-> budget.capacity, used |-> budget.used - amount[c],
                   line |-> budget.line]
    BY DEF Release, TypeOK
  <2>2. TypeOK'
    BY <2>1 DEF TypeOK
  <2>3. Balanced'
    <3>1. \A e \in Callers \ {c} : Held(e)' = Held(e)
      BY DEF Held, TypeOK
    <3>2. Held(c)' = 0 /\ Held(c) = amount[c] /\ amount[c] \in Nat /\ -amount[c] \in Int
      BY DEF Held, TypeOK
    <3>3. /\ budget'.used = budget.used + (-amount[c])
          /\ budget.used + (-amount[c]) <= budget.capacity
          /\ Held(c)' = Held(c) + (-amount[c])
      BY <2>1, <3>2, UsedLemma DEF TypeOK
    <3> QED BY <2>1, <3>1, <3>2, <3>3, TotalShift
  <2>4. LineIsTheWaiters'
    <3>1. \A d \in Callers : state'[d] = "waiting" <=> state[d] = "waiting"
      BY DEF TypeOK
    <3> QED BY <3>1, <2>1 DEF LineIsTheWaiters
  <2> QED BY <2>2, <2>3, <2>4
<1>4. ASSUME UNCHANGED <<budget, state, amount>>, halted' \in [Callers -> BOOLEAN] PROVE IInv'
  BY <1>4 DEF IInv, TypeOK, Balanced, Held, LineIsTheWaiters
<1>5. ASSUME NEW c \in Callers, Reuse(c) PROVE IInv'
  BY <1>4, <1>5 DEF Reuse, IInv, TypeOK
<1>6. ASSUME NEW stopped \in SUBSET Callers, Halt(stopped) PROVE IInv'
  <2>1. \A c \in Callers : (halted[c] \/ c \in stopped) \in BOOLEAN
    OBVIOUS
  <2>2. halted' \in [Callers -> BOOLEAN]
    BY <1>6, <2>1 DEF Halt
  <2> QED BY <1>4, <1>6, <2>2 DEF Halt
<1>7. CASE UNCHANGED vars
  BY <1>4, <1>7 DEF vars, IInv, TypeOK
<1> QED BY <1>1, <1>2, <1>3, <1>5, <1>6, <1>7 DEF Next

(* The invariant of class Budget, for every capacity and number of         *)
(* callers.                                                                *)
THEOREM BudgetInvariant == Spec => []IInv
<1>1. Init => IInv
  BY InitIInv
<1>2. IInv /\ [Next]_vars => IInv'
  BY NextIInv
<1> QED BY <1>1, <1>2, PTL DEF Spec

(* Every variable of the budget and its callers keeps its range. *)
THEOREM TypeCorrect == Spec => []TypeOK
<1>1. IInv => TypeOK
  BY DEF IInv
<1> QED BY <1>1, BudgetInvariant, PTL

(* Conservation: used_ is the total of the leases held, between zero and   *)
(* capacity_.                                                              *)
THEOREM Conservation == Spec => []Balanced
<1>1. IInv => Balanced
  BY DEF IInv
<1> QED BY <1>1, BudgetInvariant, PTL

(* No node stays behind in line_, and no waiter is missing from it. *)
THEOREM LineExact == Spec => []LineIsTheWaiters
<1>1. IInv => LineIsTheWaiters
  BY DEF IInv
<1> QED BY <1>1, BudgetInvariant, PTL

(* FIFO service: an amount is granted only to the front of line_, so never *)
(* past a caller that joined it earlier and still waits.                   *)
THEOREM FirstComeFirstServed == Spec => NoOvertaking
<1> DEFINE Passes(c, d) ==
             /\ state[d] = "waiting" /\ state'[d] = "waiting"
             /\ c # d /\ state[c] # "holding" /\ state'[c] = "holding"
           Before(c, d) == \E i, j \in DOMAIN budget.line :
                             i < j /\ budget.line[i] = c /\ budget.line[j] = d
<1>1. ASSUME IInv, [Next]_vars, NEW c \in Callers, NEW d \in Callers, Passes(c, d)
      PROVE  Before(c, d)
  <2> USE DEF IInv
  <2> DEFINE Granted(b, k) == /\ MayTake(b, c, k)
                              /\ b = budget \/ (b = Enter(budget, c) /\ state[c] = "idle")
  <2>1. PICK b, k : Granted(b, k)
    <3>1. ASSUME NEW n \in Amounts, Acquire(c, n)
          PROVE  \E b, k : Granted(b, k)
      <4>1. MayTake(Enter(budget, c), c, Clamp(budget, n)) /\ state[c] = "idle"
        BY <3>1, <1>1 DEF Acquire, Turn, TurnOf, TypeOK
      <4> QED BY <4>1
    <3>2. ASSUME Wake(c)
          PROVE  \E b, k : Granted(b, k)
      <4>1. MayTake(budget, c, amount[c]) /\ state[c] = "waiting"
        BY <3>2, <1>1 DEF Wake, Turn, TurnOf, TypeOK
      <4> QED BY <4>1
    <3>3. (\E n \in Amounts : Acquire(c, n)) \/ Wake(c)
      <4>1. ASSUME NEW e \in Callers, e # c, (\E n \in Amounts : Acquire(e, n)) \/ Wake(e)
            PROVE  FALSE
        BY <4>1, <1>1 DEF Acquire, Wake, Turn, TypeOK
      <4>2. ASSUME NEW e \in Callers, Reset(e) \/ Reuse(e) PROVE FALSE
        BY <4>2, <1>1 DEF Reset, Reuse, TypeOK
      <4>3. ASSUME NEW stopped \in SUBSET Callers, Halt(stopped) PROVE FALSE
        BY <4>3, <1>1 DEF Halt
      <4>4. CASE UNCHANGED vars
        BY <4>4, <1>1 DEF vars
      <4> QED BY <4>1, <4>2, <4>3, <4>4, <1>1 DEF Next
    <3> QED BY <3>1, <3>2, <3>3
  <2>2. In(budget.line, d) /\ budget.line \in Seq(Callers)
    BY <1>1 DEF LineIsTheWaiters, TypeOK
  <2>3. PICK j \in 1..Len(budget.line) : budget.line[j] = d
    BY <2>2 DEF In
  <2>4. CASE b = budget
    <3>1. budget.line[1] = c /\ 1 \in DOMAIN budget.line /\ j \in DOMAIN budget.line
      BY <2>1, <2>2, <2>3, <2>4 DEF MayTake
    <3>2. 1 < j
      BY <3>1, <2>3, <1>1
    <3> QED BY <3>1, <3>2, <2>3
  <2>5. CASE b = Enter(budget, c) /\ state[c] = "idle"
    <3>1. b.line = Append(budget.line, c) /\ Head(b.line) = c
      BY <2>1, <2>5, <1>1 DEF MayTake, Enter, TypeOK
    <3>2. Head(b.line) = budget.line[1] /\ 1 \in DOMAIN budget.line
      BY <3>1, <2>2, <2>3
    <3>3. In(budget.line, c)
      BY <3>1, <3>2 DEF In
    <3> QED BY <3>3, <2>5, <1>1 DEF LineIsTheWaiters
  <2> QED BY <2>1, <2>4, <2>5
<1>2. IInv /\ [Next]_vars =>
        [\A c, d \in Callers : Passes(c, d) => Before(c, d)]_vars
  BY <1>1
<1> QED BY <1>2, BudgetInvariant, PTL DEF Spec, NoOvertaking
=============================================================================
