------------------------------ MODULE VlmCall ------------------------------
(***************************************************************************)
(* generate() and its CallGuard (src/vlm_client.cpp): one VLM call made by *)
(* a worker ("caller"), with the guard's watchdog thread beside it.  The   *)
(* watchdog shuts the socket of the attempt in flight down once the call's *)
(* budget is spent or the caller's cancel probe turns true.                *)
(*                                                                         *)
(* tripped() is two steps, for the caller's calls of it hold no lock: a    *)
(* look at the flag, the probe and the clock, and the store of what was    *)
(* seen.  Time is counted in ticks and passes only when no thread has a    *)
(* step to take at the present instant, so that bounds on it can be        *)
(* stated.  httplib is external: connecting holds the lock that stop()     *)
(* needs, and stop() shuts down a socket that is open and does nothing     *)
(* otherwise.                                                              *)
(***************************************************************************)
EXTENDS Integers

CONSTANTS
    Timeouts,        \* values of call.timeout_seconds, in ticks
    MaxRetries,      \* kMaxRetries
    BackoffBase,     \* g_backoff_base_ms
    WatchInterval,   \* kWatchInterval
    ConnectTimeout,  \* kConnectTimeout
    TimeoutSlack,    \* kTimeoutSlack
    Horizon          \* where the model's clock ends, past every timeout

ASSUME TimesAssumption ==
    /\ Timeouts \subseteq Nat
    /\ MaxRetries \in Nat /\ BackoffBase \in Nat
    /\ WatchInterval \in Nat \ {0} /\ ConnectTimeout \in Nat \ {0} /\ TimeoutSlack \in Nat
    /\ Horizon \in Nat /\ \A t \in Timeouts : t + TimeoutSlack + WatchInterval < Horizon

Threads == {"caller", "watchdog"}
RetryableStatus == {"503"}
Statuses == {"200", "404"} \cup RetryableStatus
RetryableTransport == {"Connection", "ConnectionTimeout"}
Transport == {"Read", "Write", "Canceled"} \cup RetryableTransport
Results == {"ok", "malformed", "cancelled", "budget", "http", "unreachable", "bad_endpoint"}

VARIABLES
    now,         \* the steady clock
    deadline,    \* deadline_: spans every attempt and backoff
    has_probe,   \* call.cancelled is set
    left_at,     \* when the probe turned true, -1 before
    tripped, by_caller, done,   \* flags of the guard
    mutex,       \* who holds mutex_
    woken,       \* threads notified on wake_ and not yet running
    look,        \* what a thread inside tripped() saw
    client,      \* client_: an attempt is registered
    alive,       \* the attempt's httplib::Client exists
    sock,        \* its socket
    connectEnd, attemptEnd,     \* httplib's own timeouts
    at,          \* where the caller is
    retries, response, sleepUntil,   \* its locals
    result,      \* what generate returns
    wd, wakeAt   \* where the watchdog is, and when its wait ends

guardFlags == <<tripped, by_caller, look>>
httpVars == <<alive, sock, connectEnd, attemptEnd>>
callVars == <<at, retries, response, sleepUntil, result>>
watchVars == <<wd, wakeAt>>
fixed == <<deadline, has_probe>>
vars == <<now, fixed, left_at, guardFlags, done, mutex, woken, client, httpVars,
          callVars, watchVars>>

probe == left_at >= 0
Least(a, b) == IF a < b THEN a ELSE b
Most(a, b) == IF a > b THEN a ELSE b

Init ==
    /\ now = 0 /\ deadline \in Timeouts /\ has_probe \in BOOLEAN
    /\ left_at \in {-1} \cup (IF has_probe THEN {0} ELSE {})
    /\ tripped = FALSE /\ by_caller = FALSE /\ done = FALSE
    /\ mutex = "free" /\ woken = {} /\ look = [t \in Threads |-> "none"]
    /\ client = FALSE /\ alive = FALSE /\ sock = "closed"
    /\ connectEnd = 0 /\ attemptEnd = 0
    /\ at = "start" /\ retries = 0 /\ response = "none" /\ sleepUntil = 0
    /\ result = "none"
    /\ wd = "none" /\ wakeAt = 0

-----------------------------------------------------------------------------
(* tripped(): the look at the flag, the probe and the clock, then the      *)
(* store.  Seen is what tripped() returns.                                 *)
Verdict ==
    IF tripped THEN "tripped"
    ELSE IF has_probe /\ probe THEN "caller"
    ELSE IF now >= deadline THEN "budget"
    ELSE "no"

Seen(t) == tripped \/ look[t] \in {"tripped", "caller", "budget"}

Store(t) ==
    /\ tripped' = (tripped \/ look[t] \in {"caller", "budget"})
    /\ by_caller' = (by_caller \/ look[t] = "caller")
    /\ look' = [look EXCEPT ![t] = "none"]

(* The caller's calls of tripped(): the loop's test, the upload hook, the  *)
(* tests after an attempt and after the loop; those in guard.watch and     *)
(* guard.sleep_for take mutex_ first.                                      *)
LockedLooks == {"register", "sleep"}

CallerLooks ==
    /\ at \in {"test", "send", "after", "final"} \cup LockedLooks
    /\ at \in {"after", "final"} => response # "200"
    /\ look["caller"] = "none"
    /\ at \in LockedLooks => mutex = "free"
    /\ mutex' = IF at \in LockedLooks THEN "caller" ELSE mutex
    /\ look' = [look EXCEPT !["caller"] = Verdict]
    /\ UNCHANGED <<now, fixed, left_at, tripped, by_caller, done, woken, client, httpVars,
                   callVars, watchVars>>

-----------------------------------------------------------------------------
(* The caller.                                                             *)

(* A malformed endpoint, or a caller that already left: nothing is sent.   *)
Refuse ==
    /\ at = "start"
    /\ \/ result' = "bad_endpoint"
       \/ has_probe /\ probe /\ result' = "cancelled"
    /\ at' = "done"
    /\ UNCHANGED <<now, fixed, left_at, guardFlags, done, mutex, woken, client, httpVars,
                   retries, response, sleepUntil, watchVars>>

(* The guard is built and its watchdog started. *)
Begin ==
    /\ at = "start"
    /\ ~(has_probe /\ probe)
    /\ at' = "test"
    /\ wd' = "asleep" /\ wakeAt' = now
    /\ UNCHANGED <<now, fixed, left_at, guardFlags, done, mutex, woken, client, httpVars,
                   retries, response, sleepUntil, result>>

(* while (!guard.tripped()): a fresh client, with httplib's own timeouts   *)
(* just past what is left of the budget.                                   *)
Test ==
    LET limit == Most(deadline - now, 0) + TimeoutSlack
    IN  /\ at = "test" /\ look["caller"] # "none"
        /\ Store("caller")
        /\ IF Seen("caller")
           THEN at' = "final" /\ UNCHANGED httpVars
           ELSE /\ at' = "register"
                /\ alive' = TRUE /\ sock' = "closed"
                /\ connectEnd' = now + Least(limit, ConnectTimeout)
                /\ attemptEnd' = now + limit
        /\ UNCHANGED <<now, fixed, left_at, done, mutex, woken, client, retries, response,
                       sleepUntil, result, watchVars>>

(* Mutant: the attempt is registered without a look at tripped(). *)
RegisterUnchecked ==
    /\ at = "register" /\ look["caller"] # "none"
    /\ Store("caller")
    /\ mutex' = "free"
    /\ client' = TRUE /\ at' = "connect"
    /\ UNCHANGED <<now, fixed, left_at, done, woken, alive, sock, connectEnd, attemptEnd, retries,
                   response, sleepUntil, result, watchVars>>

(* guard.watch(&client): an attempt of a call that tripped must not start, *)
(* and its client, about to be destroyed, is not registered.               *)
Register ==
    /\ at = "register" /\ look["caller"] # "none"
    /\ Store("caller")
    /\ mutex' = "free"
    /\ IF Seen("caller")
       THEN client' = FALSE /\ alive' = FALSE /\ at' = "final"
       ELSE client' = TRUE /\ at' = "connect" /\ UNCHANGED alive
    /\ UNCHANGED <<now, fixed, left_at, done, woken, sock, connectEnd, attemptEnd, retries,
                   response, sleepUntil, result, watchVars>>

(* client.Post: the connect, under httplib's socket lock. *)
BeginConnect ==
    /\ at = "connect" /\ sock = "closed"
    /\ sock' = "connecting"
    /\ UNCHANGED <<now, fixed, left_at, guardFlags, done, mutex, woken, client, alive,
                   connectEnd, attemptEnd, callVars, watchVars>>

Connected ==
    /\ at = "connect" /\ sock = "connecting"
    /\ sock' = "open" /\ at' = "send"
    /\ UNCHANGED <<now, fixed, left_at, guardFlags, done, mutex, woken, client, alive,
                   connectEnd, attemptEnd, retries, response, sleepUntil, result, watchVars>>

ConnectFails ==
    /\ at = "connect" /\ sock = "connecting"
    /\ response' = IF now >= connectEnd THEN "ConnectionTimeout" ELSE "Connection"
    /\ sock' = "closed" /\ at' = "unregister"
    /\ UNCHANGED <<now, fixed, left_at, guardFlags, done, mutex, woken, client, alive,
                   connectEnd, attemptEnd, retries, sleepUntil, result, watchVars>>

(* The request goes out; the upload hook stops it mid-send. *)
Send ==
    /\ at = "send" /\ look["caller"] # "none"
    /\ Store("caller")
    /\ IF Seen("caller") \/ sock = "shut"
       THEN /\ response' = IF Seen("caller") THEN "Canceled" ELSE "Write"
            /\ sock' = "closed" /\ at' = "unregister"
       ELSE at' = "await" /\ UNCHANGED <<response, sock>>
    /\ UNCHANGED <<now, fixed, left_at, done, mutex, woken, client, alive, connectEnd,
                   attemptEnd, retries, sleepUntil, result, watchVars>>

(* The attempt returns: a status (one already received is read even from a *)
(* socket that was shut down), or an error.                                *)
AttemptReturns(outcome) ==
    /\ at = "await"
    /\ response' = outcome
    /\ sock' = "closed" /\ at' = "unregister"
    /\ UNCHANGED <<now, fixed, left_at, guardFlags, done, mutex, woken, client, alive,
                   connectEnd, attemptEnd, retries, sleepUntil, result, watchVars>>

Answered == \E status \in Statuses : AttemptReturns(status)

ReadFails == (sock = "shut" \/ now >= attemptEnd) /\ AttemptReturns("Read")

(* Mutant: the client is destroyed while it is still registered. *)
UnregisterLate ==
    /\ at = "unregister" /\ mutex \in {"free", "watchdog"}
    /\ client' = FALSE /\ alive' = FALSE
    /\ at' = "after"
    /\ UNCHANGED <<now, fixed, left_at, guardFlags, done, mutex, woken, sock, connectEnd,
                   attemptEnd, retries, response, sleepUntil, result, watchVars>>

(* guard.watch(nullptr), then the client goes out of scope. *)
Unregister ==
    /\ at = "unregister" /\ mutex = "free"
    /\ client' = FALSE /\ alive' = FALSE
    /\ at' = "after"
    /\ UNCHANGED <<now, fixed, left_at, guardFlags, done, mutex, woken, sock, connectEnd,
                   attemptEnd, retries, response, sleepUntil, result, watchVars>>

Backoff(n) == BackoffBase * 2 ^ (n - 1)

(* An answer that made it in is used even if the budget ran out while it   *)
(* arrived; otherwise the attempt is retried, unless the call tripped, the *)
(* failure is final or the retries are spent.                              *)
After ==
    /\ at = "after"
    /\ IF response = "200"
       THEN at' = "final" /\ UNCHANGED <<guardFlags, retries, sleepUntil>>
       ELSE /\ look["caller"] # "none"
            /\ Store("caller")
            /\ IF \/ Seen("caller")
                  \/ response \notin RetryableStatus \cup RetryableTransport
                  \/ retries = MaxRetries
               THEN at' = "final" /\ UNCHANGED <<retries, sleepUntil>>
               ELSE /\ retries' = retries + 1
                    /\ sleepUntil' = now + Backoff(retries + 1)
                    /\ at' = IF Backoff(retries + 1) > 0 THEN "sleep" ELSE "test"
    /\ UNCHANGED <<now, fixed, left_at, done, mutex, woken, client, httpVars, response, result,
                   watchVars>>

(* guard.sleep_for: the predicate of wait_for, with mutex_ held. *)
Sleep ==
    /\ at = "sleep" /\ look["caller"] # "none"
    /\ Store("caller")
    /\ mutex' = "free"
    /\ at' = IF Seen("caller") THEN "final" ELSE IF now >= sleepUntil THEN "test" ELSE "doze"
    /\ UNCHANGED <<now, fixed, left_at, done, woken, client, httpVars, retries, response,
                   sleepUntil, result, watchVars>>

(* The wait ends by its time, by a notification, or spuriously. *)
Rouse ==
    /\ at = "doze"
    /\ at' = "sleep" /\ woken' = woken \ {"caller"}
    /\ UNCHANGED <<now, fixed, left_at, guardFlags, done, mutex, client, httpVars, retries,
                   response, sleepUntil, result, watchVars>>

(* Mutant: whatever tripped the guard is reported as the caller's doing. *)
ClassifyCancelled ==
    /\ at = "final"
    /\ IF response = "200"
       THEN result' \in {"ok", "malformed"} /\ UNCHANGED guardFlags
       ELSE /\ look["caller"] # "none"
            /\ Store("caller")
            /\ result' = IF Seen("caller") THEN "cancelled"
                         ELSE IF response \in Statuses THEN "http" ELSE "unreachable"
    /\ at' = "join"
    /\ UNCHANGED <<now, fixed, left_at, done, mutex, woken, client, httpVars, retries, response,
                   sleepUntil, watchVars>>

(* After the loop: the answer is parsed, or the failure named. *)
Classify ==
    /\ at = "final"
    /\ IF response = "200"
       THEN result' \in {"ok", "malformed"} /\ UNCHANGED guardFlags
       ELSE /\ look["caller"] # "none"
            /\ Store("caller")
            /\ result' = IF Seen("caller")
                         THEN IF by_caller \/ look["caller"] = "caller" THEN "cancelled" ELSE "budget"
                         ELSE IF response \in Statuses THEN "http" ELSE "unreachable"
    /\ at' = "join"
    /\ UNCHANGED <<now, fixed, left_at, done, mutex, woken, client, httpVars, retries, response,
                   sleepUntil, watchVars>>

(* Mutant: the watchdog is woken but not told to end. *)
JoinUnmarked ==
    /\ at = "join" /\ mutex = "free"
    /\ at' = "joining"
    /\ woken' = IF wd = "asleep" THEN woken \cup {"watchdog"} ELSE woken
    /\ UNCHANGED <<now, fixed, left_at, guardFlags, done, mutex, client, httpVars, retries,
                   response, sleepUntil, result, watchVars>>

(* ~CallGuard: done_ under mutex_, notify_all, join. *)
Join ==
    /\ at = "join" /\ mutex = "free"
    /\ done' = TRUE /\ at' = "joining"
    /\ woken' = IF wd = "asleep" THEN woken \cup {"watchdog"} ELSE woken
    /\ UNCHANGED <<now, fixed, left_at, guardFlags, mutex, client, httpVars, retries, response,
                   sleepUntil, result, watchVars>>

Return ==
    /\ at = "joining" /\ wd = "exited"
    /\ at' = "done"
    /\ UNCHANGED <<now, fixed, left_at, guardFlags, done, mutex, woken, client, httpVars,
                   retries, response, sleepUntil, result, watchVars>>

-----------------------------------------------------------------------------
(* The watchdog: CallGuard::watch().                                       *)

(* The wait ends: by its time, by a notification, or spuriously. *)
WatchdogWakes ==
    /\ wd = "asleep" /\ mutex = "free"
    /\ wd' = "check" /\ mutex' = "watchdog" /\ woken' = woken \ {"watchdog"}
    /\ UNCHANGED <<now, fixed, left_at, guardFlags, done, client, httpVars, callVars, wakeAt>>

WatchdogLooks ==
    /\ wd = "check"
    /\ IF done
       THEN wd' = "exited" /\ mutex' = "free" /\ UNCHANGED look
       ELSE wd' = "seen" /\ look' = [look EXCEPT !["watchdog"] = Verdict] /\ UNCHANGED mutex
    /\ UNCHANGED <<now, fixed, left_at, tripped, by_caller, done, woken, client, httpVars,
                   callVars, wakeAt>>

(* Mutant: the probe is not polled between the deadline and a trip. *)
NextWakeUnpolled(isTripped) == IF isTripped THEN now + WatchInterval ELSE deadline

(* When the watchdog looks again: it keeps stopping a call that tripped.   *)
NextWake(isTripped) ==
    IF isTripped THEN now + WatchInterval
    ELSE IF has_probe THEN Least(deadline, now + WatchInterval)
    ELSE deadline

WatchdogActs ==
    /\ wd = "seen"
    /\ Store("watchdog")
    /\ woken' = IF Seen("watchdog") /\ look["watchdog"] # "tripped" /\ at = "doze"
                THEN woken \cup {"caller"} ELSE woken
    /\ IF Seen("watchdog") /\ client
       THEN wd' = "stop" /\ UNCHANGED <<wakeAt, mutex>>
       ELSE wd' = "asleep" /\ wakeAt' = NextWake(Seen("watchdog")) /\ mutex' = "free"
    /\ UNCHANGED <<now, fixed, left_at, done, client, httpVars, callVars>>

(* client_->stop(), which waits while the attempt connects. *)
Stop ==
    /\ wd = "stop" /\ sock # "connecting"
    /\ sock' = IF sock = "open" THEN "shut" ELSE sock
    /\ wd' = "asleep" /\ wakeAt' = NextWake(tripped) /\ mutex' = "free"
    /\ UNCHANGED <<now, fixed, left_at, guardFlags, done, woken, client, alive, connectEnd,
                   attemptEnd, callVars>>

-----------------------------------------------------------------------------
(* The environment.                                                        *)

(* The caller stops wanting the answer: its probe turns true. *)
Leave ==
    /\ has_probe /\ ~probe /\ at # "done"
    /\ left_at' = now
    /\ UNCHANGED <<now, fixed, guardFlags, done, mutex, woken, client, httpVars, callVars,
                   watchVars>>

(* A wait whose end has come. *)
WaitOver ==
    \/ at = "connect" /\ (sock = "closed" \/ now >= connectEnd)
    \/ at = "await" /\ (sock = "shut" \/ now >= attemptEnd)
    \/ at = "doze" /\ (now >= sleepUntil \/ "caller" \in woken)
    \/ wd = "asleep" /\ (now >= wakeAt \/ "watchdog" \in woken)
    \/ wd \in {"check", "seen"} \/ (at = "joining" /\ wd = "exited")
    \/ wd = "stop" /\ sock # "connecting"

Busy == at \notin {"connect", "await", "doze", "joining", "done"}

Tick ==
    /\ ~Busy /\ ~WaitOver /\ at # "done" /\ now < Horizon
    /\ now' = now + 1
    /\ UNCHANGED <<fixed, left_at, guardFlags, done, mutex, woken, client, httpVars, callVars,
                   watchVars>>

CallerStep ==
    \/ CallerLooks \/ Refuse \/ Begin \/ Test \/ Register \/ BeginConnect \/ Connected
    \/ ConnectFails \/ Send \/ Answered \/ ReadFails \/ Unregister \/ After \/ Sleep \/ Rouse
    \/ Classify \/ Join \/ Return

WatchdogStep == WatchdogWakes \/ WatchdogLooks \/ WatchdogActs \/ Stop

Next == CallerStep \/ WatchdogStep \/ Leave \/ Tick

(* The threads are scheduled and the clock runs, but nothing obliges the   *)
(* endpoint to accept or to answer: a wait is only sure to end once its    *)
(* time is over or it is cut.  A thread that keeps asking for mutex_ gets  *)
(* it, and spurious wakeups do not keep the clock from running: hence the  *)
(* strong fairness of the caller and of the clock.                         *)
Fairness ==
    /\ SF_vars(/\ at \notin {"await", "doze"}
               /\ at = "connect" => sock = "closed" \/ now >= connectEnd
               /\ CallerStep)
    /\ WF_vars(ReadFails)
    /\ WF_vars((now >= sleepUntil \/ "caller" \in woken) /\ Rouse)
    /\ SF_vars((now >= wakeAt \/ "watchdog" \in woken) /\ WatchdogWakes)
    /\ WF_vars(WatchdogLooks) /\ WF_vars(WatchdogActs) /\ WF_vars(Stop)
    /\ SF_vars(Tick)

Spec == Init /\ [][Next]_vars /\ Fairness

-----------------------------------------------------------------------------
(* The watchdog only ever calls stop() on the client of the attempt that   *)
(* is still registered and still exists: never on one the retry loop has   *)
(* replaced or destroyed (vlm_client.cpp:100-111, 129-131).                *)
StopsLiveClient == wd = "stop" => client /\ alive

(* Once the call tripped no further attempt is registered, so none starts  *)
(* that nobody would stop (vlm_client.cpp:103-111, 403-405).               *)
NoAttemptOnceTripped == [][tripped /\ ~client => ~client']_vars

(* The call waits no longer than it may, whatever the endpoint does: not   *)
(* past the deadline that spans every attempt and every backoff, and not   *)
(* past one watch interval once the caller left.  Only a connect that has  *)
(* begun runs on, and that no longer than the slack                        *)
(* (vlm_client.cpp:40-56, 121-144, 376, 397-402).                          *)
EndsPromptly ==
    [][now' > now =>
          \/ sock = "connecting" /\ now < deadline + TimeoutSlack
          \/ now < deadline /\ (probe => now < left_at + WatchInterval)]_vars

(* The call keeps the promise the conversion relies on: it returns, once,  *)
(* whatever the endpoint does, and blames the caller or the budget only    *)
(* when that is so (vlm_client.cpp:322-572).                               *)
Promise == INSTANCE VlmPromise WITH
    left <- probe, spent <- now >= deadline,
    outcome <- IF at = "done" THEN result ELSE "none"
KeepsPromise == Promise!Spec
=============================================================================
