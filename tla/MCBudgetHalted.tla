--------------------------- MODULE MCBudgetHalted ---------------------------
(* The callers of a budget, with a history of whose probe turned true      *)
(* before their amount fitted.                                             *)
EXTENDS BudgetClients

VARIABLE halted_first  \* history: the waiters whose probe was true while their
                       \* amount did not fit

varsWithHistory == <<vars, halted_first>>

InitWithHistory == Init /\ halted_first = {}

NextWithHistory ==
    /\ Next
    /\ halted_first' = {c \in Callers :
          /\ state'[c] = "waiting"
          /\ c \in halted_first
             \/ (halted'[c] /\ budget'.used + amount'[c] > budget'.capacity)}

SpecWithHistory == InitWithHistory /\ [][NextWithHistory]_varsWithHistory

(* What budget.h:27-31 says of acquire() and its probe: it "Blocks until   *)
(* `amount` fits", and "when it turns true first, the returned lease is    *)
(* empty".  A waiter whose probe was true while its amount did not fit is  *)
(* never granted it.                                                       *)
HaltedFirstGetsEmptyLease ==
    [][\A c \in halted_first : state'[c] # "holding"]_varsWithHistory
=============================================================================
