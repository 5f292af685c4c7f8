----------------------------- MODULE MCVlmCall -----------------------------
(***************************************************************************)
(* An instance of VlmCall for TLC: a call with no time at all and one with *)
(* room for retries, a connect shorter than the budget, and a slack longer *)
(* than the watchdog's interval is needed for.                             *)
(***************************************************************************)
EXTENDS VlmCall

MCTimeouts == {0, 5}
=============================================================================
