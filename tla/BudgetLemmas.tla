---------------------------- MODULE BudgetLemmas ----------------------------
(***************************************************************************)
(* Facts that the proofs about budgets need: what joining and leaving do   *)
(* to a line, and how totals change.                                       *)
(***************************************************************************)
EXTENDS Budget, FiniteSetTheorems, TLAPS

-----------------------------------------------------------------------------
(* Lines.                                                                  *)

(* line_.erase(me) takes out the node of this caller and no other. *)
LEMMA EraseLemma ==
    ASSUME NEW S, NEW line \in Seq(S), Injective(line), NEW me, In(line, me)
    PROVE  /\ Erase(line, me) \in Seq(S)
           /\ Injective(Erase(line, me))
           /\ \A c : In(Erase(line, me), c) <=> In(line, c) /\ c # me
(* A line put together from two. *)
<1>joined. ASSUME NEW l \in Seq(S), NEW m \in Seq(S)
           PROVE  /\ l \o m \in Seq(S) /\ Len(l \o m) = Len(l) + Len(m)
                  /\ \A j \in 1..Len(l) : (l \o m)[j] = l[j]
                  /\ \A j \in (Len(l) + 1)..(Len(l) + Len(m)) : (l \o m)[j] = m[j - Len(l)]
  OBVIOUS
<1> DEFINE k == CHOOSE i \in DOMAIN line : line[i] = me
           n == Len(line)
           short == Erase(line, me)
<1>1. k \in 1..n /\ line[k] = me /\ n \in Nat
  BY DEF In
<1>2. short = SubSeq(line, 1, k - 1) \o SubSeq(line, k + 1, n)
  BY DEF Erase
<1> HIDE DEF k
<1> DEFINE front == SubSeq(line, 1, k - 1)
           back == SubSeq(line, k + 1, n)
<1>3. /\ front \in Seq(S)
      /\ Len(front) = k - 1
      /\ \A i \in 1..(k - 1) : front[i] = line[i]
  BY <1>1
<1>4. /\ back \in Seq(S)
      /\ Len(back) = n - k
      /\ \A i \in 1..(n - k) : back[i] = line[k + i]
  BY <1>1
<1> HIDE DEF front, back
<1>5. /\ short \in Seq(S)
      /\ Len(short) = n - 1
      /\ \A i \in 1..(n - 1) : short[i] = IF i < k THEN line[i] ELSE line[i + 1]
  <2>1. short = front \o back
    BY <1>2 DEF front, back
  <2> HIDE DEF short
  <2>2. short \in Seq(S) /\ Len(short) = n - 1
    <3>1. short \in Seq(S) /\ Len(short) = Len(front) + Len(back)
      BY Zenon, <2>1, <1>3, <1>4, <1>joined
    <3> QED BY <3>1, <1>1, <1>3, <1>4
  <2>3. ASSUME NEW i \in 1..(n - 1) PROVE short[i] = IF i < k THEN line[i] ELSE line[i + 1]
    <3>1. CASE i < k
      <4>1. i \in 1..(k - 1)
        BY <3>1, <1>1
      <4>2. short[i] = front[i]
        BY <4>1, <2>1, <1>1, <1>3, <1>4, <1>joined
      <4> QED BY <4>1, <4>2, <3>1, <1>3
    <3>2. CASE ~(i < k)
      <4>1. i - (k - 1) \in 1..(n - k) /\ i \in (Len(front) + 1)..(Len(front) + Len(back))
        BY <3>2, <1>1, <1>3, <1>4
      <4>2. short[i] = back[i - Len(front)]
        BY <4>1, <2>1, <1>1, <1>3, <1>4, <1>joined
      <4>3. back[i - (k - 1)] = line[k + (i - (k - 1))] /\ k + (i - (k - 1)) = i + 1
        BY <4>1, <1>1, <1>4
      <4> QED BY <4>2, <4>3, <3>2, <1>3
    <3> QED BY <3>1, <3>2
  <2> QED BY <2>2, <2>3
<1>6. DOMAIN short = 1..(n - 1) /\ DOMAIN line = 1..n
  BY <1>5
<1> HIDE DEF short
<1>7. Injective(short)
  <2> SUFFICES ASSUME NEW i \in 1..(n - 1), NEW j \in 1..(n - 1), short[i] = short[j]
               PROVE  i = j
    BY <1>6 DEF Injective
  <2> DEFINE at(x) == IF x < k THEN x ELSE x + 1
  <2>1. at(i) \in 1..n /\ at(j) \in 1..n /\ line[at(i)] = line[at(j)]
    BY <1>1, <1>5
  <2>2. at(i) = at(j)
    BY <2>1, <1>6 DEF Injective
  <2> QED BY <2>2, <1>1
<1>8. ASSUME NEW c PROVE In(short, c) <=> In(line, c) /\ c # me
  <2>1. ASSUME In(short, c) PROVE In(line, c) /\ c # me
    BY <2>1, <1>1, <1>5, <1>6 DEF In, Injective
  <2>2. ASSUME In(line, c), c # me PROVE In(short, c)
    <3>1. PICK i \in 1..n : line[i] = c
      BY <2>2, <1>6 DEF In
    <3>2. CASE i < k
      BY <3>1, <3>2, <1>1, <1>5, <1>6 DEF In
    <3>3. CASE i > k
      <4>1. i - 1 \in 1..(n - 1) /\ short[i - 1] = line[i]
        BY <3>1, <3>3, <1>1, <1>5
      <4> QED BY <4>1, <3>1, <1>6 DEF In
    <3> QED BY <3>1, <3>2, <3>3, <2>2, <1>1
  <2> QED BY <2>1, <2>2
<1> QED BY <1>5, <1>7, <1>8 DEF short

(* Joining at the end adds the newcomer and no other. *)
LEMMA AppendLemma ==
    ASSUME NEW S, NEW line \in Seq(S), Injective(line), NEW me \in S, ~In(line, me)
    PROVE  /\ Append(line, me) \in Seq(S)
           /\ Injective(Append(line, me))
           /\ \A c : In(Append(line, me), c) <=> In(line, c) \/ c = me
<1> DEFINE n == Len(line)
           long == Append(line, me)
<1>1. /\ long \in Seq(S)
      /\ n \in Nat /\ DOMAIN line = 1..n /\ DOMAIN long = 1..(n + 1)
      /\ \A i \in 1..n : long[i] = line[i]
      /\ long[n + 1] = me
  OBVIOUS
<1> HIDE DEF long, n
<1>2. \A i \in 1..(n + 1) : i \in 1..n \/ i = n + 1
  BY <1>1
<1>3. \A i \in 1..n : i \in 1..(n + 1) /\ i # n + 1
  BY <1>1
<1>4. Injective(long)
  BY <1>1, <1>2, <1>3 DEF Injective, In
<1>5. ASSUME NEW c PROVE In(long, c) <=> In(line, c) \/ c = me
  <2>1. n + 1 \in 1..(n + 1)
    BY <1>1
  <2> QED BY <2>1, <1>1, <1>2, <1>3 DEF In
<1> QED BY <1>1, <1>4, <1>5 DEF long

(* Turn `turn` of caller `me` makes budget a of budget b: the caller       *)
(* leaves the line unless it goes on waiting, and nobody else moves.       *)
TurnEffect(S, b, me, n, a, turn) ==
    /\ a = [capacity |-> b.capacity, line |-> a.line,
            used |-> IF turn = "holding" THEN b.used + n ELSE b.used]
    /\ turn \in {"holding", "idle", "waiting"}
    /\ turn = "holding" => b.used + n <= b.capacity
    /\ a.line \in Seq(S) /\ Injective(a.line)
    /\ \A c : In(a.line, c) <=> In(b.line, c) /\ (c # me \/ turn = "waiting")

LEMMA TurnLemma ==
    ASSUME NEW S, NEW b, NEW me, NEW n \in Int, NEW stop \in BOOLEAN,
           b = [capacity |-> b.capacity, used |-> b.used, line |-> b.line],
           b.used \in Int, b.capacity \in Int,
           b.line \in Seq(S), Injective(b.line), In(b.line, me)
    PROVE  TurnEffect(S, b, me, n, AfterTurn(b, me, n, stop), TurnOf(b, me, n, stop))
<1> USE DEF TurnEffect
<1>1. /\ Erase(b.line, me) \in Seq(S) /\ Injective(Erase(b.line, me))
      /\ \A c : In(Erase(b.line, me), c) <=> In(b.line, c) /\ c # me
  BY EraseLemma
<1>2. CASE MayTake(b, me, n)
  <2>1. Take(b, me, n) = [capacity |-> b.capacity, used |-> b.used + n, line |-> Erase(b.line, me)]
    <3> DEFINE u == b.used + n
               l == Erase(b.line, me)
    <3>1. Take(b, me, n) = [[b EXCEPT !.used = u] EXCEPT !.line = l] BY Zenon DEF Take
    <3> HIDE DEF u, l
    <3> QED BY <3>1 DEF u, l
  <2> QED BY <1>1, <1>2, <2>1 DEF AfterTurn, TurnOf, MayTake
<1>3. CASE ~MayTake(b, me, n) /\ stop
  <2>1. Leave(b, me) = [capacity |-> b.capacity, used |-> b.used, line |-> Erase(b.line, me)]
    BY DEF Leave
  <2> QED BY <1>1, <1>3, <2>1 DEF AfterTurn, TurnOf
<1>4. CASE ~MayTake(b, me, n) /\ ~stop
  BY <1>4 DEF AfterTurn, TurnOf
<1> QED BY <1>2, <1>3, <1>4

-----------------------------------------------------------------------------
(* What the operations do to a budget.                                     *)

LEMMA ClampFacts ==
  ASSUME NEW S, NEW b \in Budgets(S), NEW n \in Nat
  PROVE  Clamp(b, n) \in 1..b.capacity
  BY DEF Clamp, Budgets

LEMMA ReleaseFacts ==
  ASSUME NEW S, NEW b \in Budgets(S), NEW n \in Nat
  PROVE  /\ Release(b, n).capacity = b.capacity /\ Release(b, n).line = b.line
         /\ Release(b, n).used = b.used - n
         /\ n <= b.used => Release(b, n) \in Budgets(S)
<1> DEFINE u == b.used - n
<1>1. b = [capacity |-> b.capacity, used |-> b.used, line |-> b.line]
  BY DEF Budgets
<1>2. Release(b, n) = [b EXCEPT !.used = u] BY Zenon DEF Release
<1>3. n <= b.used => u \in Nat BY DEF Budgets
<1> HIDE DEF u
<1>4. Release(b, n) = [capacity |-> b.capacity, used |-> u, line |-> b.line]
  BY <1>1, <1>2
<1> QED BY <1>3, <1>4 DEF Budgets, u

(* What a first or a later turn of acquire(n, halted) by `me` does. *)
AcquireEffect(S, b, me, n, a, turn) ==
    /\ a \in Budgets(S) /\ a.capacity = b.capacity /\ a.used <= a.capacity
    /\ a.used = IF turn = "holding" THEN b.used + n ELSE b.used
    /\ turn \in {"holding", "idle", "waiting"}
    /\ Injective(a.line)
    /\ \A c : In(a.line, c) <=> IF c = me THEN turn = "waiting" ELSE In(b.line, c)

LEMMA AcquireFacts ==
  ASSUME NEW S, NEW b \in Budgets(S), b.used <= b.capacity, Injective(b.line),
         NEW me \in S, NEW x \in Nat, NEW stop \in BOOLEAN, NEW e,
         \/ e = Enter(b, me) /\ ~In(b.line, me)
         \/ e = b /\ In(b.line, me)
  PROVE  AcquireEffect(S, b, me, Clamp(b, x), AfterTurn(e, me, Clamp(e, x), stop),
                       TurnOf(e, me, Clamp(e, x), stop))
<1>1. /\ e \in Budgets(S) /\ e.capacity = b.capacity /\ e.used = b.used
      /\ Injective(e.line) /\ In(e.line, me)
      /\ \A c : c # me => (In(e.line, c) <=> In(b.line, c))
  <2>1. CASE e = b /\ In(b.line, me) BY Zenon, <2>1
  <2>2. CASE e = Enter(b, me) /\ ~In(b.line, me)
    <3> DEFINE l == Append(b.line, me)
    <3>1. l \in Seq(S) /\ Injective(l) /\ \A c : In(l, c) <=> In(b.line, c) \/ c = me
      <4>1. b.line \in Seq(S) BY DEF Budgets
      <4> QED BY <4>1, <2>2, AppendLemma
    <3>2. e = [b EXCEPT !.line = l] BY Zenon, <2>2 DEF Enter
    <3> HIDE DEF l
    <3>3. /\ e.line = l /\ e.capacity = b.capacity /\ e.used = b.used /\ e \in Budgets(S)
      BY <3>1, <3>2 DEF Budgets
    <3> QED BY Zenon, <3>1, <3>3
  <2> QED BY Zenon, <2>1, <2>2
<1> DEFINE n == Clamp(b, x)
<1>n. n \in 1..b.capacity /\ n = Clamp(e, x)
  BY <1>1, ClampFacts DEF Clamp
<1> HIDE DEF n
<1>2. /\ e = [capacity |-> e.capacity, used |-> e.used, line |-> e.line]
      /\ e.used \in Int /\ e.capacity \in Int /\ e.line \in Seq(S) /\ n \in Int
  BY <1>1, <1>n DEF Budgets
<1> DEFINE a == AfterTurn(e, me, n, stop)
           turn == TurnOf(e, me, n, stop)
<1>3. TurnEffect(S, e, me, n, a, turn)
  BY Zenon, <1>1, <1>2, TurnLemma
<1> HIDE DEF a, turn
<1> USE DEF TurnEffect
<1>4. /\ b.capacity \in Nat \ {0} /\ b.used \in Nat BY DEF Budgets
<1>5. /\ a.capacity = b.capacity /\ a.used = IF turn = "holding" THEN b.used + n ELSE b.used
  BY <1>1, <1>3
<1>6. a \in Budgets(S) /\ a.used <= a.capacity
  BY <1>1, <1>n, <1>3, <1>4, <1>5 DEF Budgets
<1>7. \A c : In(a.line, c) <=> IF c = me THEN turn = "waiting" ELSE In(b.line, c)
  BY Zenon, <1>1, <1>3
<1> QED BY Zenon, <1>n, <1>3, <1>5, <1>6, <1>7 DEF a, turn, n, AcquireEffect

LEMMA ShortLines ==
  ASSUME NEW S, NEW line \in Seq(S), Injective(line), NEW p
  PROVE  /\ (\A c : ~In(line, c)) => line = <<>>
         /\ (\A c : In(line, c) <=> c = p) => line = <<p>>
<1>1. ASSUME \A c : ~In(line, c) PROVE line = <<>>
  <2>1. Len(line) = 0
    <3>1. Len(line) \in Nat OBVIOUS
    <3>2. SUFFICES ASSUME Len(line) # 0 PROVE FALSE OBVIOUS
    <3>3. 1 \in DOMAIN line BY <3>1, <3>2
    <3> QED BY Zenon, <3>3, <1>1 DEF In
  <2> QED BY <2>1
<1>2. ASSUME \A c : In(line, c) <=> c = p PROVE line = <<p>>
  <2>1. PICK i \in DOMAIN line : line[i] = p BY Zenon, <1>2 DEF In
  <2>2. \A j \in DOMAIN line : line[j] = p BY Zenon, <1>2 DEF In
  <2>3. \A j \in DOMAIN line : j = i BY Zenon, <2>1, <2>2 DEF Injective
  <2>4. Len(line) = 1 /\ line[1] = p
    <3>1. Len(line) \in Nat /\ DOMAIN line = 1..Len(line) OBVIOUS
    <3>2. 1 \in DOMAIN line /\ Len(line) \in DOMAIN line BY <3>1, <2>1
    <3> QED BY <3>2, <2>2, <2>3
  <2> QED BY <2>4
<1> QED BY Zenon, <1>1, <1>2

LEMMA NewBudgetFacts ==
  ASSUME NEW S, NEW n \in Nat
  PROVE  /\ NewBudget(n) \in Budgets(S) /\ NewBudget(n).used = 0 /\ NewBudget(n).line = <<>>
         /\ NewBudget(n).used <= NewBudget(n).capacity
         /\ Injective(NewBudget(n).line) /\ \A c : ~In(NewBudget(n).line, c)
  BY DEF NewBudget, Budgets, Injective, In

-----------------------------------------------------------------------------
(* Totals.  SumFunctionOnSet is a fold, so its properties are shown by     *)
(* taking a smallest set for which they fail.                              *)

First(s) == CHOOSE x \in s : TRUE

(* f is the function by which SumFunctionOnSet is defined. *)
Adds(f, g, S) ==
    f = [s \in SUBSET S |-> IF s = {} THEN 0 ELSE g[First(s)] + f[s \ {First(s)}]]

(* Totals of functions on a finite set: one value changed, their type, and *)
(* a total of zeros.                                                       *)
LEMMA Totals ==
  \A S : IsFiniteSet(S) =>
    /\ \A f \in [S -> Int], h \in [S -> Int], x \in S :
          (\A y \in S \ {x} : h[y] = f[y]) => SumFunction(h) = SumFunction(f) + (h[x] - f[x])
    /\ \A f \in [S -> Nat] : SumFunction(f) \in Nat
    /\ \A f : DOMAIN f = S /\ (\A x \in S : f[x] = 0) => SumFunction(f) = 0
<1>least. ASSUME NEW S, IsFiniteSet(S), NEW T, T \subseteq SUBSET S, T # {}
          PROVE  \E x \in T : \A y \in T : ~(y \subseteq x /\ y # x)
  <2> USE <1>least
  <2>0. IsWellFoundedOn(StrictSubsetOrdering(S), SUBSET S)
    BY Zenon, FS_StrictSubsetOrderingWellFounded, FS_FiniteSubsetsOfFinite
  <2>1. PICK x \in T : \A y \in T : ~(<<y, x>> \in StrictSubsetOrdering(S))
    BY Zenon, <2>0, WFMin
  <2>2. \A y \in T : ~(y \subseteq x /\ y # x) BY <2>1 DEF StrictSubsetOrdering
  <2> QED BY <2>2
<1>def. ASSUME NEW g, NEW S
        PROVE  SumFunctionOnSet(g, S) = (CHOOSE f : Adds(f, g, S))[S]
  BY <1>def DEF SumFunctionOnSet, FoldFunctionOnSet, MapThenFoldSet, Adds, First
<1>adds. ASSUME NEW f, NEW g, NEW S, Adds(f, g, S), NEW s \in SUBSET S
         PROVE  /\ s = {} => f[s] = 0
                /\ s # {} => First(s) \in s /\ f[s] = g[First(s)] + f[s \ {First(s)}]
  <2> USE <1>adds
  <2>1. DOMAIN f = SUBSET S /\ f[s] = IF s = {} THEN 0 ELSE g[First(s)] + f[s \ {First(s)}]
    BY DEF Adds
  <2>2. s # {} => First(s) \in s BY DEF First
  <2> QED BY <2>1, <2>2
<1>agree. ASSUME NEW f, NEW g, NEW S, Adds(f, g, S), NEW ff, NEW gg, NEW SS, Adds(ff, gg, SS),
                 NEW T, IsFiniteSet(T), T \subseteq S, T \subseteq SS, \A x \in T : g[x] = gg[x]
          PROVE  f[T] = ff[T]
  <2> USE <1>agree
  <2> DEFINE Bad == {U \in SUBSET T : f[U] # ff[U]}
  <2> SUFFICES ASSUME Bad # {} PROVE FALSE BY Zenon
  <2>0. Bad \subseteq SUBSET T BY Zenon
  <2>1. PICK U \in Bad : \A V \in Bad : ~(V \subseteq U /\ V # U)
    <3> HIDE DEF Bad
    <3> QED BY <2>0, <1>least
  <2>2. U \in SUBSET T /\ U \in SUBSET S /\ U \in SUBSET SS BY <2>1
  <2>3. U # {} BY Zenon, <2>1, <2>2, <1>adds
  <2>4. First(U) \in U /\ f[U] = g[First(U)] + f[U \ {First(U)}] /\ ff[U] = gg[First(U)] + ff[U \ {First(U)}]
    BY <2>2, <2>3, <1>adds
  <2>5. f[U \ {First(U)}] = ff[U \ {First(U)}] BY <2>1, <2>2, <2>4
  <2>6. g[First(U)] = gg[First(U)] BY <2>2, <2>4
  <2> QED BY Zenon, <2>1, <2>4, <2>5, <2>6
<1>exists. ASSUME NEW g, NEW S, IsFiniteSet(S)
           PROVE  \E f : Adds(f, g, S)
  <2> USE <1>exists
  <2> DEFINE Bad == {U \in SUBSET S : ~ \E f : Adds(f, g, U)}
  <2> SUFFICES ASSUME Bad # {} PROVE FALSE BY Zenon
  <2>0. Bad \subseteq SUBSET S BY Zenon
  <2>1. PICK U \in Bad : \A V \in Bad : ~(V \subseteq U /\ V # U)
    <3> HIDE DEF Bad
    <3> QED BY <2>0, <1>least
  <2>2. U \in SUBSET S /\ IsFiniteSet(U) BY Zenon, <2>1, FS_Subset
  <2> DEFINE at(s) == CHOOSE f : Adds(f, g, s)
             h == [s \in SUBSET U |-> IF s = {} THEN 0
                                      ELSE g[First(s)] + at(s \ {First(s)})[s \ {First(s)}]]
  <2>3. ASSUME NEW s \in SUBSET U, s # U PROVE Adds(at(s), g, s)
    <3>1. \E f : Adds(f, g, s) BY <2>1, <2>2, <2>3
    <3> QED BY Zenon, <3>1
  <2> HIDE DEF at
  <2>4. ASSUME NEW s \in SUBSET U, s # {} PROVE h[s \ {First(s)}] = at(s \ {First(s)})[s \ {First(s)}]
    <3> DEFINE t == s \ {First(s)}
    <3>1. First(s) \in s BY <2>4 DEF First
    <3>2. t \in SUBSET U /\ t # U BY <3>1
    <3>3. Adds(at(t), g, t) BY <3>2, <2>3
    <3> HIDE DEF t
    <3>4. CASE t = {}
      <4>1. at(t)[t] = 0 BY Zenon, <3>3, <3>4, <1>adds
      <4> QED BY Zenon, <4>1, <3>2, <3>4 DEF t
    <3>5. CASE t # {}
      <4>1. t \in SUBSET t BY Zenon
      <4>2. at(t)[t] = g[First(t)] + at(t)[t \ {First(t)}] /\ First(t) \in t BY <3>3, <3>5, <4>1, <1>adds
      <4>3. t \ {First(t)} \in SUBSET U /\ t \ {First(t)} # U BY <3>2, <4>2
      <4>4. Adds(at(t \ {First(t)}), g, t \ {First(t)}) BY Zenon, <4>3, <2>3
      <4>5. IsFiniteSet(t \ {First(t)}) BY Zenon, <4>3, <2>2, FS_Subset
      <4>6. at(t)[t \ {First(t)}] = at(t \ {First(t)})[t \ {First(t)}]
        BY <3>3, <4>4, <4>5, <1>agree
      <4>7. h[t] = g[First(t)] + at(t \ {First(t)})[t \ {First(t)}] BY Zenon, <3>2, <3>5
      <4> QED BY Zenon, <4>2, <4>6, <4>7 DEF t
    <3> QED BY Zenon, <3>4, <3>5
  <2>5. h = [s \in SUBSET U |-> IF s = {} THEN 0 ELSE g[First(s)] + h[s \ {First(s)}]]
    <3>1. \A s \in SUBSET U : (IF s = {} THEN 0 ELSE g[First(s)] + h[s \ {First(s)}]) = h[s]
      BY Zenon, <2>4
    <3> QED BY Zenon, <3>1
  <2>6. Adds(h, g, U) BY Zenon, <2>5 DEF Adds
  <2> QED BY Zenon, <2>1, <2>6
(* SumFunctionOnSet(g, S), one element at a time. *)
<1>step. ASSUME NEW g, NEW S, IsFiniteSet(S)
         PROVE  /\ S = {} => SumFunctionOnSet(g, S) = 0
                /\ S # {} => /\ First(S) \in S
                             /\ SumFunctionOnSet(g, S)
                                  = g[First(S)] + SumFunctionOnSet(g, S \ {First(S)})
  <2> USE <1>step
  <2> DEFINE R == S \ {First(S)}
             f == CHOOSE x : Adds(x, g, S)
             r == CHOOSE x : Adds(x, g, R)
  <2>1. IsFiniteSet(R) /\ R \subseteq S BY Zenon, FS_RemoveElement
  <2>2. Adds(f, g, S) /\ Adds(r, g, R) BY Zenon, <2>1, <1>exists
  <2>3. SumFunctionOnSet(g, S) = f[S] /\ SumFunctionOnSet(g, R) = r[R] BY Zenon, <1>def
  <2> HIDE DEF f, r
  <2>4. f[R] = r[R] BY <2>1, <2>2, <1>agree
  <2>5. S \in SUBSET S BY Zenon
  <2> QED BY <2>2, <2>3, <2>4, <2>5, <1>adds
(* Any element may be taken out first. *)
<1>remove. ASSUME NEW g, NEW S, IsFiniteSet(S), \A x \in S : g[x] \in Int
           PROVE  /\ SumFunctionOnSet(g, S) \in Int
                  /\ \A x \in S : SumFunctionOnSet(g, S) = g[x] + SumFunctionOnSet(g, S \ {x})
  <2> USE <1>remove
  <2> DEFINE F(U) == SumFunctionOnSet(g, U)
             Good(U) == F(U) \in Int /\ \A x \in U : F(U) = g[x] + F(U \ {x})
             Bad == {U \in SUBSET S : ~Good(U)}
  <2> SUFFICES ASSUME Bad # {} PROVE FALSE BY Zenon
  <2>0. Bad \subseteq SUBSET S BY Zenon
  <2>1. PICK U \in Bad : \A V \in Bad : ~(V \subseteq U /\ V # U)
    <3> HIDE DEF Bad
    <3> QED BY <2>0, <1>least
  <2>2. U \in SUBSET S /\ ~Good(U) BY Zenon, <2>1
  <2>3. ASSUME NEW x \in U PROVE Good(U \ {x})
    <3> HIDE DEF Good
    <3>1. U \ {x} \in SUBSET S /\ U \ {x} \subseteq U /\ U \ {x} # U BY <2>2
    <3> QED BY Zenon, <3>1, <2>1
  <2>4. IsFiniteSet(U) BY Zenon, <2>2, FS_Subset
  <2> DEFINE y == First(U)
  <2>5. U # {}
    <3> SUFFICES ASSUME U = {} PROVE FALSE OBVIOUS
    <3>1. F(U) = 0 BY Zenon, <2>4, <1>step
    <3> QED BY <3>1, <2>2
  <2>6. y \in U /\ F(U) = g[y] + F(U \ {y}) BY Zenon, <2>4, <2>5, <1>step
  <2>7. F(U \ {y}) \in Int /\ g[y] \in Int BY <2>2, <2>3, <2>6
  <2>8. F(U) \in Int BY <2>6, <2>7
  <2>9. ASSUME NEW x \in U PROVE F(U) = g[x] + F(U \ {x})
    <3>1. CASE x = y BY Zenon, <3>1, <2>6
    <3>2. CASE x # y
      <4>1. x \in U \ {y} /\ y \in U \ {x} BY <3>2, <2>6
      <4>2. F(U \ {y}) = g[x] + F((U \ {y}) \ {x}) BY Zenon, <4>1, <2>3, <2>6
      <4>3. F(U \ {x}) = g[y] + F((U \ {x}) \ {y}) BY Zenon, <4>1, <2>3
      <4>4. (U \ {x}) \ {y} = (U \ {y}) \ {x} BY Zenon
      <4>5. g[x] \in Int /\ F(U \ {x}) \in Int BY Zenon, <2>2, <2>3
      <4>6. F((U \ {x}) \ {y}) \in Int
        <5>1. (U \ {x}) \ {y} \in SUBSET S /\ (U \ {x}) \ {y} \subseteq U /\ (U \ {x}) \ {y} # U BY <2>2
        <5>2. (U \ {x}) \ {y} \notin Bad BY Zenon, <5>1, <2>1
        <5> QED BY Zenon, <5>1, <5>2
      <4>7. g[y] \in Int BY Zenon, <2>7
      <4>8. F(U \ {y}) = g[x] + F((U \ {x}) \ {y}) BY Zenon, <4>2, <4>4
      <4> HIDE DEF F, y
      <4> QED BY <4>3, <4>5, <4>6, <4>7, <4>8, <2>6
    <3> QED BY Zenon, <3>1, <3>2
  <2> QED BY Zenon, <2>2, <2>8, <2>9
<1>same. ASSUME NEW g, NEW h, NEW S, IsFiniteSet(S), \A x \in S : g[x] = h[x]
         PROVE  SumFunctionOnSet(g, S) = SumFunctionOnSet(h, S)
  <2> USE <1>same
  <2>1. PICK f : Adds(f, g, S) /\ f = CHOOSE x : Adds(x, g, S) BY Zenon, <1>exists
  <2>2. PICK e : Adds(e, h, S) /\ e = CHOOSE x : Adds(x, h, S) BY Zenon, <1>exists
  <2>3. f[S] = e[S] BY <2>1, <2>2, <1>agree
  <2> QED BY Zenon, <2>1, <2>2, <2>3, <1>def
(* A part of the whole, where nothing is negative. *)
<1>part. ASSUME NEW g, NEW S, IsFiniteSet(S), \A x \in S : g[x] \in Nat, NEW T \in SUBSET S
         PROVE  /\ SumFunctionOnSet(g, S) \in Nat /\ SumFunctionOnSet(g, T) \in Nat
                /\ SumFunctionOnSet(g, T) <= SumFunctionOnSet(g, S)
  <2> USE <1>part
  <2> DEFINE F(U) == SumFunctionOnSet(g, U)
             Good(U) == F(U) \in Nat /\ \A V \in SUBSET U : F(V) \in Nat /\ F(V) <= F(U)
             Bad == {U \in SUBSET S : ~Good(U)}
  <2> SUFFICES ASSUME Bad # {} PROVE FALSE BY Zenon
  <2>0. Bad \subseteq SUBSET S BY Zenon
  <2>1. PICK U \in Bad : \A V \in Bad : ~(V \subseteq U /\ V # U)
    <3> HIDE DEF Bad
    <3> QED BY <2>0, <1>least
  <2>2. U \in SUBSET S /\ ~Good(U) BY Zenon, <2>1
  <2>3. ASSUME NEW x \in U PROVE Good(U \ {x})
    <3> HIDE DEF Good
    <3>1. U \ {x} \in SUBSET S /\ U \ {x} \subseteq U /\ U \ {x} # U BY <2>2
    <3> QED BY Zenon, <3>1, <2>1
  <2>4. IsFiniteSet(U) /\ \A x \in U : g[x] \in Int BY <2>2, FS_Subset
  <2>5. U # {}
    <3> SUFFICES ASSUME U = {} PROVE FALSE OBVIOUS
    <3>1. F(U) = 0 BY Zenon, <2>4, <1>step
    <3> QED BY <3>1, <2>2
  <2>6. ASSUME NEW x \in U PROVE F(U) = g[x] + F(U \ {x}) /\ g[x] \in Nat /\ F(U \ {x}) \in Nat
    <3>1. F(U) = g[x] + F(U \ {x}) BY <2>4, <1>remove
    <3> QED BY Zenon, <3>1, <2>2, <2>3
  <2> HIDE DEF F
  <2>7. F(U) \in Nat
    <3>1. PICK x \in U : TRUE BY <2>5
    <3>2. F(U) = g[x] + F(U \ {x}) /\ g[x] \in Nat /\ F(U \ {x}) \in Nat BY Zenon, <2>6
    <3> QED BY <3>2
  <2>8. ASSUME NEW V \in SUBSET U, V # U PROVE F(V) \in Nat /\ F(V) <= F(U)
    <3>1. PICK x \in U : x \notin V BY <2>8
    <3>2. V \in SUBSET (U \ {x}) BY <3>1
    <3>3. F(V) \in Nat /\ F(V) <= F(U \ {x}) BY Zenon, <3>2, <2>3
    <3> QED BY <3>3, <2>6
  <2>9. F(U) <= F(U) BY <2>7
  <2> QED BY Zenon, <2>2, <2>7, <2>8, <2>9
(* Totals of functions: one value changed, and their type. *)
<1>change. ASSUME NEW S, IsFiniteSet(S), NEW f \in [S -> Int], NEW h \in [S -> Int], NEW x \in S,
                  \A y \in S \ {x} : h[y] = f[y]
           PROVE  SumFunction(h) = SumFunction(f) + (h[x] - f[x])
  <2> USE <1>change
  <2>1. SumFunction(f) = SumFunctionOnSet(f, S) /\ SumFunction(h) = SumFunctionOnSet(h, S)
    BY Zenon DEF SumFunction
  <2>2. /\ SumFunctionOnSet(f, S) = f[x] + SumFunctionOnSet(f, S \ {x})
        /\ SumFunctionOnSet(h, S) = h[x] + SumFunctionOnSet(h, S \ {x})
    BY <1>remove
  <2>3. IsFiniteSet(S \ {x}) BY Zenon, FS_RemoveElement
  <2>4. SumFunctionOnSet(f, S \ {x}) = SumFunctionOnSet(h, S \ {x}) BY Zenon, <2>3, <1>same
  <2>5. SumFunctionOnSet(f, S \ {x}) \in Int BY <2>3, <1>remove
  <2>6. f[x] \in Int /\ h[x] \in Int OBVIOUS
  <2> QED BY <2>1, <2>2, <2>4, <2>5, <2>6
<1>type. ASSUME NEW S, IsFiniteSet(S), NEW f \in [S -> Nat]
         PROVE  SumFunction(f) \in Nat
  BY <1>type, <1>part DEF SumFunction
<1>zeros. ASSUME NEW S, IsFiniteSet(S), NEW f, DOMAIN f = S, \A x \in S : f[x] = 0
          PROVE  SumFunction(f) = 0
  <2> USE <1>zeros
  <2> DEFINE Bad == {U \in SUBSET S : SumFunctionOnSet(f, U) # 0}
  <2> SUFFICES ASSUME Bad # {} PROVE FALSE BY Zenon DEF SumFunction
  <2>0. Bad \subseteq SUBSET S BY Zenon
  <2>1. PICK U \in Bad : \A V \in Bad : ~(V \subseteq U /\ V # U)
    <3> HIDE DEF Bad
    <3> QED BY <2>0, <1>least
  <2>2. U \in SUBSET S /\ IsFiniteSet(U) BY Zenon, <2>1, FS_Subset
  <2>3. U # {} BY Zenon, <2>1, <2>2, <1>step
  <2>4. First(U) \in U /\ SumFunctionOnSet(f, U) = f[First(U)] + SumFunctionOnSet(f, U \ {First(U)})
    BY Zenon, <2>2, <2>3, <1>step
  <2>5. SumFunctionOnSet(f, U \ {First(U)}) = 0 BY <2>1, <2>2, <2>4
  <2>6. SumFunctionOnSet(f, U) = 0 BY <2>2, <2>4, <2>5
  <2> QED BY Zenon, <2>1, <2>6
<1> QED BY Zenon, <1>change, <1>type, <1>zeros
=============================================================================
