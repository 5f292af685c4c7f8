--------------------------- MODULE VlmCallProofs ---------------------------
(***************************************************************************)
(* Proofs about VlmCall for every timeout, retry count and interval: the   *)
(* watchdog stops live clients only, no attempt starts once the call       *)
(* tripped, no wait outlasts its limit, and every step of the call is one  *)
(* its promise allows.                                                     *)
(***************************************************************************)
EXTENDS VlmCall, TLAPS

(* The guard's, the caller's and the watchdog's state. *)
TypeOK ==
    /\ now \in Nat /\ deadline \in Nat /\ left_at \in Int /\ left_at <= now
    /\ connectEnd \in Int /\ wakeAt \in Int
    /\ has_probe \in BOOLEAN /\ tripped \in BOOLEAN /\ by_caller \in BOOLEAN
    /\ done \in BOOLEAN /\ client \in BOOLEAN /\ alive \in BOOLEAN
    /\ look \in [Threads -> {"none", "no", "tripped", "caller", "budget"}]
    /\ wd \in {"none", "asleep", "check", "seen", "stop", "exited"}

(* Who may hold mutex_, and who is inside tripped(). *)
Locking ==
    /\ wd \in {"check", "seen", "stop"} => mutex = "watchdog"
    /\ at \in LockedLooks /\ look["caller"] # "none" => mutex = "caller"
    /\ look["caller"] # "none" => at \in {"test", "send", "after", "final"} \cup LockedLooks
    /\ at \in {"after", "final"} /\ response = "200" => look["caller"] = "none"
    /\ look["watchdog"] # "none" <=> wd = "seen"

(* The client is registered exactly while its attempt runs. *)
Attempting == {"connect", "send", "await", "unregister"}
Registered ==
    /\ client => alive
    /\ client <=> at \in Attempting
    /\ wd = "stop" => client /\ tripped
    /\ sock = "connecting" => at = "connect"
    /\ at = "register" => sock = "closed" /\ alive
    /\ at = "connect" => sock \in {"closed", "connecting"}
    /\ at \in {"send", "await"} => sock \in {"open", "shut"}

(* What was seen is true, and what a "no" ruled out has not happened at an *)
(* earlier instant.                                                        *)
Honest ==
    /\ probe => has_probe
    /\ \A t \in Threads :
          /\ look[t] = "no" => now < deadline /\ (probe => left_at = now)
          /\ look[t] = "caller" => probe
          /\ look[t] = "budget" => now >= deadline
          /\ look[t] = "tripped" => tripped
    /\ by_caller => probe
    /\ tripped => by_caller \/ now >= deadline

(* The watchdog looks again in time, and ends when it is told to. *)
Timed ==
    /\ at = "start" => now = 0
    /\ at \in {"register", "connect"} => connectEnd <= deadline + TimeoutSlack
    /\ wd = "asleep" /\ ~tripped =>
          /\ wakeAt <= deadline
          /\ has_probe => wakeAt <= now + WatchInterval
          /\ probe => wakeAt <= left_at + WatchInterval

(* A wait of a call that tripped is already being cut. *)
Cut ==
    /\ at = "await" /\ tripped => wd = "stop" \/ sock = "shut"
    /\ at = "doze" /\ tripped => "caller" \in woken
    /\ at = "joining" /\ wd = "asleep" => "watchdog" \in woken
    /\ done <=> at = "joining" \/ (at = "done" /\ wd # "none")
    /\ wd \in {"seen", "stop"} => ~done
    /\ wd = "exited" => done
    /\ wd = "none" => at \in {"start", "done"}
    /\ at = "start" => wd = "none"
    /\ done /\ at = "done" => wd = "exited"

(* The result is set after the loop, and its reason is true. *)
Reasoned ==
    /\ at \in {"join", "joining", "done"} => result \in Results
    /\ result = "cancelled" => probe
    /\ result = "budget" => now >= deadline

IInv == TypeOK /\ Locking /\ Registered /\ Honest /\ Timed /\ Cut /\ Reasoned
-----------------------------------------------------------------------------
(* One lemma for each action, with one step for each part of IInv.         *)
USE TimesAssumption DEF fixed, guardFlags, httpVars, callVars, watchVars, probe, Threads,
    LockedLooks, Attempting, Results

LEMMA CallerLooksKeeps == ASSUME IInv, CallerLooks PROVE IInv'
<1> USE DEF IInv, CallerLooks, Verdict
<1>1. TypeOK' BY DEF TypeOK
<1>2. Locking' BY DEF Locking
<1>3. Registered' BY DEF Registered
<1>4. Honest' BY DEF TypeOK, Honest
<1>5. Timed' BY DEF Timed
<1>6. Cut' BY DEF Cut
<1>7. Reasoned' BY DEF Reasoned
<1> QED BY <1>1, <1>2, <1>3, <1>4, <1>5, <1>6, <1>7

LEMMA RefuseKeeps == ASSUME IInv, Refuse PROVE IInv'
<1> USE DEF IInv, Refuse
<1>1. TypeOK' BY DEF TypeOK
<1>2. Locking' BY DEF Locking
<1>3. Registered' BY DEF Registered
<1>4. Honest' BY DEF Honest
<1>5. Timed' BY DEF Timed
<1>6. Cut' BY DEF Cut
<1>7. Reasoned' BY DEF Reasoned
<1> QED BY <1>1, <1>2, <1>3, <1>4, <1>5, <1>6, <1>7

LEMMA BeginKeeps == ASSUME IInv, Begin PROVE IInv'
<1> USE DEF IInv, Begin
<1>1. TypeOK' BY DEF TypeOK
<1>2. Locking' BY DEF Cut, Locking
<1>3. Registered' BY DEF Registered
<1>4. Honest' BY DEF Honest
<1>5. Timed' BY DEF TypeOK, Timed
<1>6. Cut' BY DEF Cut
<1>7. Reasoned' BY DEF Reasoned
<1> QED BY <1>1, <1>2, <1>3, <1>4, <1>5, <1>6, <1>7

LEMMA TestKeeps == ASSUME IInv, Test PROVE IInv'
<1> USE DEF IInv, Test, Store, Seen, Least, Most
<1>1. TypeOK'
  <2>1. CASE Seen("caller")
    BY <2>1 DEF TypeOK
  <2>2. CASE ~Seen("caller")
    <3>1. now \in Int /\ deadline \in Int /\ ConnectTimeout \in Int /\ TimeoutSlack \in Int
      BY DEF TypeOK
    <3>2. connectEnd' \in Int
      BY ONLY <3>1, <2>2, Test DEF Test, Least, Most
    <3> QED BY <2>2, <3>2 DEF TypeOK
  <2> QED BY <2>1, <2>2
<1>2. Locking' BY DEF TypeOK, Locking
<1>3. Registered' BY DEF Registered
<1>4. Honest' BY DEF TypeOK, Honest
<1>5. Timed' BY DEF TypeOK, Honest, Timed
<1>6. Cut' BY DEF Cut
<1>7. Reasoned' BY DEF Reasoned
<1> QED BY <1>1, <1>2, <1>3, <1>4, <1>5, <1>6, <1>7

LEMMA RegisterKeeps == ASSUME IInv, Register PROVE IInv'
<1> USE DEF IInv, Register, Store, Seen
<1>1. TypeOK' BY Zenon DEF TypeOK
<1>2. Locking' BY DEF TypeOK, Locking
<1>3. Registered' BY Zenon DEF TypeOK, Locking, Registered
<1>4. Honest' BY DEF TypeOK, Honest
<1>5. Timed' BY DEF TypeOK, Timed
<1>6. Cut' BY DEF Cut
<1>7. Reasoned' BY DEF Reasoned
<1> QED BY <1>1, <1>2, <1>3, <1>4, <1>5, <1>6, <1>7

LEMMA BeginConnectKeeps == ASSUME IInv, BeginConnect PROVE IInv'
<1> USE DEF IInv, BeginConnect
<1>1. TypeOK' BY DEF TypeOK
<1>2. Locking' BY DEF Locking
<1>3. Registered' BY DEF Registered
<1>4. Honest' BY DEF Honest
<1>5. Timed' BY DEF Timed
<1>6. Cut' BY DEF Cut
<1>7. Reasoned' BY DEF Reasoned
<1> QED BY <1>1, <1>2, <1>3, <1>4, <1>5, <1>6, <1>7

LEMMA ConnectedKeeps == ASSUME IInv, Connected PROVE IInv'
<1> USE DEF IInv, Connected
<1>1. TypeOK' BY DEF TypeOK
<1>2. Locking' BY DEF Locking
<1>3. Registered' BY DEF Registered
<1>4. Honest' BY DEF Honest
<1>5. Timed' BY DEF Timed
<1>6. Cut' BY DEF Cut
<1>7. Reasoned' BY DEF Reasoned
<1> QED BY <1>1, <1>2, <1>3, <1>4, <1>5, <1>6, <1>7

LEMMA ConnectFailsKeeps == ASSUME IInv, ConnectFails PROVE IInv'
<1> USE DEF IInv, ConnectFails
<1>1. TypeOK' BY DEF TypeOK
<1>2. Locking' BY DEF Locking
<1>3. Registered' BY DEF Registered
<1>4. Honest' BY DEF Honest
<1>5. Timed' BY DEF Timed
<1>6. Cut' BY DEF Cut
<1>7. Reasoned' BY DEF Reasoned
<1> QED BY <1>1, <1>2, <1>3, <1>4, <1>5, <1>6, <1>7

LEMMA SendKeeps == ASSUME IInv, Send PROVE IInv'
<1> USE DEF IInv, Send, Store, Seen
<1>1. TypeOK' BY DEF TypeOK
<1>2. Locking' BY DEF TypeOK, Locking
<1>3. Registered' BY DEF TypeOK, Registered
<1>4. Honest' BY DEF TypeOK, Honest
<1>5. Timed' BY DEF TypeOK, Timed
<1>6. Cut' BY DEF TypeOK, Cut
<1>7. Reasoned' BY DEF Reasoned
<1> QED BY <1>1, <1>2, <1>3, <1>4, <1>5, <1>6, <1>7

LEMMA AnsweredKeeps == ASSUME IInv, Answered PROVE IInv'
<1> USE DEF IInv, Answered, AttemptReturns, Statuses, RetryableStatus
<1>1. TypeOK' BY DEF TypeOK
<1>2. Locking' BY DEF Locking
<1>3. Registered' BY DEF Registered
<1>4. Honest' BY DEF Honest
<1>5. Timed' BY DEF Timed
<1>6. Cut' BY DEF Cut
<1>7. Reasoned' BY DEF Reasoned
<1> QED BY <1>1, <1>2, <1>3, <1>4, <1>5, <1>6, <1>7

LEMMA ReadFailsKeeps == ASSUME IInv, ReadFails PROVE IInv'
<1> USE DEF IInv, ReadFails, AttemptReturns
<1>1. TypeOK' BY DEF TypeOK
<1>2. Locking' BY DEF Locking
<1>3. Registered' BY DEF Registered
<1>4. Honest' BY DEF Honest
<1>5. Timed' BY DEF Timed
<1>6. Cut' BY DEF Cut
<1>7. Reasoned' BY DEF Reasoned
<1> QED BY <1>1, <1>2, <1>3, <1>4, <1>5, <1>6, <1>7

LEMMA UnregisterKeeps == ASSUME IInv, Unregister PROVE IInv'
<1> USE DEF IInv, Unregister
<1>1. TypeOK' BY Zenon DEF TypeOK
<1>2. Locking' BY DEF Locking
<1>3. Registered' BY DEF Locking, Registered
<1>4. Honest' BY DEF Honest
<1>5. Timed' BY DEF Timed
<1>6. Cut' BY DEF Cut
<1>7. Reasoned' BY DEF Reasoned
<1> QED BY <1>1, <1>2, <1>3, <1>4, <1>5, <1>6, <1>7

LEMMA AfterKeeps == ASSUME IInv, After PROVE IInv'
<1> USE DEF IInv, After, Store, Seen
<1>1. TypeOK' BY Zenon DEF TypeOK
<1>2. Locking' BY DEF TypeOK, Locking
<1>3. Registered' BY DEF Registered
<1>4. Honest' BY DEF TypeOK, Honest
<1>5. Timed' BY DEF TypeOK, Timed
<1>6. Cut' BY DEF Cut
<1>7. Reasoned' BY DEF Reasoned
<1> QED BY <1>1, <1>2, <1>3, <1>4, <1>5, <1>6, <1>7

LEMMA SleepKeeps == ASSUME IInv, Sleep PROVE IInv'
<1> USE DEF IInv, Sleep, Store, Seen
<1>1. TypeOK' BY DEF TypeOK
<1>2. Locking' BY DEF TypeOK, Locking
<1>3. Registered' BY DEF Registered
<1>4. Honest' BY DEF TypeOK, Honest
<1>5. Timed' BY DEF TypeOK, Timed
<1>6. Cut' BY DEF TypeOK, Cut
<1>7. Reasoned' BY DEF Reasoned
<1> QED BY <1>1, <1>2, <1>3, <1>4, <1>5, <1>6, <1>7

LEMMA RouseKeeps == ASSUME IInv, Rouse PROVE IInv'
<1> USE DEF IInv, Rouse
<1>1. TypeOK' BY DEF TypeOK
<1>2. Locking' BY DEF Locking
<1>3. Registered' BY DEF Registered
<1>4. Honest' BY DEF Honest
<1>5. Timed' BY DEF Timed
<1>6. Cut' BY DEF Cut
<1>7. Reasoned' BY DEF Reasoned
<1> QED BY <1>1, <1>2, <1>3, <1>4, <1>5, <1>6, <1>7

LEMMA ClassifyKeeps == ASSUME IInv, Classify PROVE IInv'
<1> USE DEF IInv, Classify, Store, Seen
<1>1. TypeOK' BY Zenon DEF TypeOK
<1>2. Locking' BY DEF TypeOK, Locking
<1>3. Registered' BY DEF Registered
<1>4. Honest' BY DEF TypeOK, Honest
<1>5. Timed' BY DEF TypeOK, Timed
<1>6. Cut' BY DEF Cut
<1>7. Reasoned' BY DEF Honest, Reasoned
<1> QED BY <1>1, <1>2, <1>3, <1>4, <1>5, <1>6, <1>7

LEMMA JoinKeeps == ASSUME IInv, Join PROVE IInv'
<1> USE DEF IInv, Join
<1>1. TypeOK' BY DEF TypeOK
<1>2. Locking' BY DEF Locking
<1>3. Registered' BY DEF Registered
<1>4. Honest' BY DEF Honest
<1>5. Timed' BY DEF Timed
<1>6. Cut' BY DEF Locking, Cut
<1>7. Reasoned' BY DEF Reasoned
<1> QED BY <1>1, <1>2, <1>3, <1>4, <1>5, <1>6, <1>7

LEMMA ReturnKeeps == ASSUME IInv, Return PROVE IInv'
<1> USE DEF IInv, Return
<1>1. TypeOK' BY DEF TypeOK
<1>2. Locking' BY DEF Locking
<1>3. Registered' BY DEF Registered
<1>4. Honest' BY DEF Honest
<1>5. Timed' BY DEF Timed
<1>6. Cut' BY DEF Cut
<1>7. Reasoned' BY DEF Reasoned
<1> QED BY <1>1, <1>2, <1>3, <1>4, <1>5, <1>6, <1>7

LEMMA WatchdogWakesKeeps == ASSUME IInv, WatchdogWakes PROVE IInv'
<1> USE DEF IInv, WatchdogWakes
<1>1. TypeOK' BY DEF TypeOK
<1>2. Locking' BY DEF Locking
<1>3. Registered' BY DEF Registered
<1>4. Honest' BY DEF Honest
<1>5. Timed' BY DEF Timed
<1>6. Cut' BY DEF Cut
<1>7. Reasoned' BY DEF Reasoned
<1> QED BY <1>1, <1>2, <1>3, <1>4, <1>5, <1>6, <1>7

LEMMA WatchdogLooksKeeps == ASSUME IInv, WatchdogLooks PROVE IInv'
<1> USE DEF IInv, WatchdogLooks, Verdict
<1>1. TypeOK' BY DEF TypeOK
<1>2. Locking' BY DEF TypeOK, Locking
<1>3. Registered' BY DEF Registered
<1>4. Honest' BY DEF TypeOK, Honest
<1>5. Timed' BY DEF Timed
<1>6. Cut' BY DEF Cut
<1>7. Reasoned' BY DEF Reasoned
<1> QED BY <1>1, <1>2, <1>3, <1>4, <1>5, <1>6, <1>7

LEMMA WatchdogActsKeeps == ASSUME IInv, WatchdogActs PROVE IInv'
<1> USE DEF IInv, WatchdogActs, Store, Seen, NextWake, Least
<1>1. TypeOK' BY DEF TypeOK
<1>2. Locking' BY DEF TypeOK, Locking
<1>3. Registered' BY DEF TypeOK, Honest, Registered
<1>4. Honest' BY DEF TypeOK, Honest
<1>5. Timed'
  <2>1. CASE Seen("watchdog")
    <3>1. tripped'
      BY <2>1, Zenon DEF TypeOK, Honest
    <3> QED BY <3>1 DEF TypeOK, Timed
  <2>2. CASE ~Seen("watchdog")
    <3>1. look["watchdog"] = "no" /\ ~tripped
      BY <2>2 DEF TypeOK, Timed, Cut, Locking
    <3>2. /\ wakeAt' <= deadline
          /\ has_probe => wakeAt' <= now + WatchInterval
      BY <2>2 DEF TypeOK
    <3> QED BY <2>2, <3>1, <3>2 DEF TypeOK, Timed, Honest
  <2> QED BY <2>1, <2>2
<1>6. Cut' BY DEF TypeOK, Registered, Cut
<1>7. Reasoned' BY DEF Reasoned
<1> QED BY <1>1, <1>2, <1>3, <1>4, <1>5, <1>6, <1>7

LEMMA StopKeeps == ASSUME IInv, Stop PROVE IInv'
<1> USE DEF IInv, Stop, NextWake, Least
<1>1. TypeOK' BY DEF TypeOK
<1>2. Locking' BY DEF Locking
<1>3. Registered' BY DEF Registered
<1>4. Honest' BY DEF Honest
<1>5. Timed' BY DEF Registered, Timed
<1>6. Cut' BY DEF Registered, Cut
<1>7. Reasoned' BY DEF Reasoned
<1> QED BY <1>1, <1>2, <1>3, <1>4, <1>5, <1>6, <1>7

LEMMA LeaveKeeps == ASSUME IInv, Leave PROVE IInv'
<1> USE DEF IInv, Leave
<1>1. TypeOK' BY DEF TypeOK
<1>2. Locking' BY DEF Locking
<1>3. Registered' BY DEF Registered
<1>4. Honest' BY DEF Honest
<1>5. Timed' BY DEF Timed
<1>6. Cut' BY DEF Cut
<1>7. Reasoned' BY DEF Reasoned
<1> QED BY <1>1, <1>2, <1>3, <1>4, <1>5, <1>6, <1>7

LEMMA TickKeeps == ASSUME IInv, Tick PROVE IInv'
<1> USE DEF IInv, Tick, Busy, WaitOver
<1>1. TypeOK' BY DEF TypeOK
<1>2. Locking' BY DEF Locking
<1>3. Registered' BY DEF Registered
<1>4. Honest' BY DEF TypeOK, Locking, Honest
<1>5. Timed' BY DEF TypeOK, Timed
<1>6. Cut' BY DEF Cut
<1>7. Reasoned' BY DEF TypeOK, Reasoned
<1> QED BY <1>1, <1>2, <1>3, <1>4, <1>5, <1>6, <1>7 DEF IInv

HIDE TimesAssumption DEF fixed, guardFlags, httpVars, callVars, watchVars, probe, Threads,
     LockedLooks, Attempting, Results
-----------------------------------------------------------------------------
LEMMA InitLemma == Init => IInv
<1> SUFFICES ASSUME Init PROVE IInv
  OBVIOUS
<1> USE TimesAssumption DEF Init, Threads, probe
<1>1. Locking
  BY DEF Locking, LockedLooks
<1>2. left_at \in {-1, 0} /\ deadline \in Nat
  OBVIOUS
<1>3. TypeOK
  <2>1. left_at \in Int /\ left_at <= now /\ now \in Nat /\ wakeAt \in Int /\ connectEnd \in Int
    BY <1>2
  <2>2. look \in [Threads -> {"none", "no", "tripped", "caller", "budget"}]
    OBVIOUS
  <2>3. /\ has_probe \in BOOLEAN /\ tripped \in BOOLEAN /\ by_caller \in BOOLEAN
        /\ done \in BOOLEAN /\ client \in BOOLEAN /\ alive \in BOOLEAN
    BY Zenon
  <2> QED BY <1>2, <2>1, <2>2, <2>3 DEF TypeOK
<1>4. Registered /\ Honest
  BY DEF Registered, Attempting, Honest
<1>5. Timed /\ Cut /\ Reasoned
  BY <1>2 DEF Timed, Cut, Reasoned
<1> QED BY <1>1, <1>3, <1>4, <1>5 DEF IInv

LEMMA StutterLemma == ASSUME IInv, UNCHANGED vars PROVE IInv'
BY DEF IInv, vars, fixed, guardFlags, httpVars, callVars, watchVars, TypeOK, Locking, Registered,
       Honest, Timed, Cut, Reasoned, probe

LEMMA NextLemma == IInv /\ [Next]_vars => IInv'
<1> SUFFICES ASSUME IInv, [Next]_vars PROVE IInv'
  OBVIOUS
<1>1. CASE CallerStep
  BY <1>1, CallerLooksKeeps, RefuseKeeps, BeginKeeps, TestKeeps, RegisterKeeps, BeginConnectKeeps,
     ConnectedKeeps, ConnectFailsKeeps, SendKeeps, AnsweredKeeps, ReadFailsKeeps, UnregisterKeeps,
     AfterKeeps, SleepKeeps, RouseKeeps, ClassifyKeeps, JoinKeeps, ReturnKeeps DEF CallerStep
<1>2. CASE WatchdogStep
  BY <1>2, WatchdogWakesKeeps, WatchdogLooksKeeps, WatchdogActsKeeps, StopKeeps DEF WatchdogStep
<1>3. CASE Leave
  BY <1>3, LeaveKeeps
<1>4. CASE Tick
  BY <1>4, TickKeeps
<1>5. CASE UNCHANGED vars
  BY <1>5, StutterLemma
<1> QED BY <1>1, <1>2, <1>3, <1>4, <1>5 DEF Next

LEMMA Inductive == Spec => []IInv
BY InitLemma, NextLemma, PTL DEF Spec

(* The watchdog calls stop() on live, registered clients only, whatever    *)
(* the timeouts and retries (vlm_client.cpp:101-111, 130-132).             *)
THEOREM StopsLiveClientAlways == Spec => []StopsLiveClient
<1>1. IInv => StopsLiveClient
  BY DEF IInv, Registered, StopsLiveClient
<1> QED BY <1>1, Inductive, PTL

(* A call that tripped registers no further attempt: guard.watch looks     *)
(* under the mutex that the watchdog trips the call under                  *)
(* (vlm_client.cpp:103-111).                                               *)
THEOREM NoAttemptAlways == Spec => NoAttemptOnceTripped
<1>1. IInv /\ [Next]_vars => [tripped /\ ~client => ~client']_vars
  <2> SUFFICES ASSUME IInv, Next, tripped, ~client PROVE ~client'
    BY DEF vars
  <2>1. CASE Register
    BY <2>1 DEF Register, Seen
  <2>2. CASE Unregister
    BY <2>2 DEF Unregister
  <2>3. CASE ~Register /\ ~Unregister
    <3>1. UNCHANGED client
      BY <2>3, Zenon DEF Next, CallerStep, WatchdogStep, CallerLooks, Refuse, Begin, Test, BeginConnect,
                  Connected, ConnectFails, Send, Answered, ReadFails, AttemptReturns, After, Sleep,
                  Rouse, Classify, Join, Return, WatchdogWakes, WatchdogLooks, WatchdogActs, Stop,
                  Leave, Tick
    <3> QED BY <3>1
  <2> QED BY <2>1, <2>2, <2>3
<1> QED BY <1>1, Inductive, PTL DEF Spec, NoAttemptOnceTripped

(* No wait outlasts the budget by more than the slack of a connect in      *)
(* flight, nor the caller's departure by more than one watch interval, for *)
(* every timeout, interval and slack (vlm_client.cpp:40-56, 121-144, 376). *)
THEOREM EndsPromptlyAlways == Spec => EndsPromptly
<1> DEFINE Prompt == \/ sock = "connecting" /\ now < deadline + TimeoutSlack
                     \/ now < deadline /\ (probe => now < left_at + WatchInterval)
<1>1. ASSUME IInv, Tick PROVE Prompt
  <2> USE TimesAssumption DEF IInv, Tick
  <2>1. at \in {"connect", "await", "doze", "joining"}
    BY <1>1 DEF Busy
  <2>2. CASE at = "connect"
    <3>1. sock = "connecting" /\ now < connectEnd
      BY <1>1, <2>2 DEF WaitOver, Registered, TypeOK
    <3> QED BY <1>1, <2>2, <3>1 DEF Timed, TypeOK
  <2>3. CASE at \in {"await", "doze"}
    <3>1. ~tripped
      BY <1>1, <2>3 DEF WaitOver, Registered, Cut
    <3>2. wd = "asleep"
      BY <1>1, <2>3, <3>1 DEF WaitOver, Registered, Cut, TypeOK
    <3>3. now < wakeAt
      BY <1>1, <3>2 DEF WaitOver, TypeOK
    <3> QED BY <1>1, <3>1, <3>2, <3>3 DEF Timed, TypeOK, probe
  <2>4. CASE at = "joining"
    BY <1>1, <2>4 DEF WaitOver, Cut, TypeOK
  <2> QED BY <2>1, <2>2, <2>3, <2>4
<1>2. IInv /\ [Next]_vars => [now' > now => Prompt]_vars
  <2> SUFFICES ASSUME IInv, Next, ~Tick PROVE ~(now' > now)
    BY <1>1
  <2>1. UNCHANGED now
    BY Zenon DEF Next, CallerStep, WatchdogStep, CallerLooks, Refuse, Begin, Test, Register, BeginConnect,
           Connected, ConnectFails, Send, Answered, ReadFails, AttemptReturns, Unregister, After,
           Sleep, Rouse, Classify, Join, Return, WatchdogWakes, WatchdogLooks, WatchdogActs, Stop,
           Leave
  <2> QED BY <2>1 DEF IInv, TypeOK
<1> QED BY <1>2, Inductive, PTL DEF Spec, EndsPromptly

(* Every step of the call is one that VlmPromise allows or none it sees:   *)
(* one outcome, and "cancelled" or "budget" only when that is the reason   *)
(* (vlm_client.cpp:322-572).  That an outcome comes is left to TLC.        *)
THEOREM KeepsPromiseSafely == Spec => Promise!Init /\ [][Promise!Next]_(Promise!vars)
<1>1. Init => Promise!Init
  BY DEF Init, Promise!Init, probe
<1>2. IInv /\ [Next]_vars => [Promise!Next]_(Promise!vars)
  <2> SUFFICES ASSUME IInv, [Next]_vars PROVE [Promise!Next]_(Promise!vars)
    OBVIOUS
  <2> USE TimesAssumption DEF Promise!vars, probe
  <2>1. CASE Refuse
    BY <2>1 DEF Refuse, Promise!Next, Promise!Return,
                Promise!Outcomes, fixed
  <2>2. CASE Return
    BY <2>2 DEF Return, IInv, Reasoned, Results, Promise!Next, Promise!Return,
                Promise!Outcomes, fixed
  <2>3. CASE Leave
    BY <2>3 DEF Leave, IInv, TypeOK, Promise!Next, Promise!Leave, fixed, callVars
  <2>4. CASE Tick
    BY <2>4 DEF Tick, IInv, TypeOK, Promise!Next, Promise!Spend, fixed, callVars
  <2>5. CASE CallerStep /\ ~Refuse /\ ~Return
    <3>1. UNCHANGED <<left_at, now, deadline>> /\ at # "done" /\ at' # "done"
      BY <2>5, Zenon DEF CallerStep, CallerLooks, Begin, Test, Register, BeginConnect, Connected,
                  ConnectFails, Send, Answered, ReadFails, AttemptReturns, Unregister, After, Sleep,
                  Rouse, Classify, Join, fixed, callVars, LockedLooks
    <3> QED BY <3>1
  <2>6. CASE WatchdogStep
    BY <2>6 DEF WatchdogStep, WatchdogWakes, WatchdogLooks, WatchdogActs, Stop, fixed, callVars
  <2>7. CASE UNCHANGED vars
    BY <2>7 DEF vars, fixed, callVars
  <2> QED BY <2>1, <2>2, <2>3, <2>4, <2>5, <2>6, <2>7 DEF Next
<1> QED BY <1>1, <1>2, Inductive, PTL DEF Spec
=============================================================================
