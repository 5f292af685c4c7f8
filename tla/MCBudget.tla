------------------------------ MODULE MCBudget ------------------------------
(* A budget of three units shared by three callers, one of which may ask   *)
(* for nothing and one for more than the whole budget.                     *)
EXTENDS BudgetClients
=============================================================================
