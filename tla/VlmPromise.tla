---------------------------- MODULE VlmPromise ----------------------------
(***************************************************************************)
(* What generate() promises a worker: one outcome, and a reason that is    *)
(* true.  The caller may leave and the budget may run out at any time.     *)
(***************************************************************************)
VARIABLES left, spent, outcome

vars == <<left, spent, outcome>>

Outcomes == {"ok", "malformed", "http", "unreachable", "bad_endpoint", "cancelled", "budget"}

Init == left \in BOOLEAN /\ spent \in BOOLEAN /\ outcome = "none"

Leave == ~left /\ left' = TRUE /\ UNCHANGED <<spent, outcome>>

Spend == ~spent /\ spent' = TRUE /\ UNCHANGED <<left, outcome>>

Return(r) ==
    /\ outcome = "none"
    /\ r = "cancelled" => left
    /\ r = "budget" => spent
    /\ outcome' = r
    /\ UNCHANGED <<left, spent>>

Next == Leave \/ Spend \/ \E r \in Outcomes : Return(r)

Spec == Init /\ [][Next]_vars /\ <>(outcome # "none")
=============================================================================
