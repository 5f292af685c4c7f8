------------------------- MODULE ConvertRefinement --------------------------
(***************************************************************************)
(* The pipelines of ConvertPages as callers of the budgets they share:     *)
(* seen from a budget, each is exactly a set of callers of BudgetClients,  *)
(* so what is proved there of every Budget holds of vlm_slots and          *)
(* buffered_bytes.                                                         *)
(***************************************************************************)
EXTENDS ConvertBudgets

(* vlm_slots: a caller is a worker. *)
Slots == INSTANCE BudgetClients WITH
    N <- NStreams * Concurrency,
    ConfiguredCapacity <- MaxInflight,
    Amounts <- {1},
    budget <- vlm_slots,
    state <- SlotStates,
    amount <- SlotAmounts,
    halted <- SlotHalts

(* buffered_bytes: a caller is a page. *)
Buffered == INSTANCE BudgetClients WITH
    N <- NStreams * MaxPages,
    ConfiguredCapacity <- BufferBytes,
    Amounts <- 0..MaxPageBytes,
    budget <- buffered_bytes,
    state <- PageStates,
    amount <- PageAmounts,
    halted <- PageHalts

(* Every step of every stream is, to vlm_slots_, a step of one caller that *)
(* joins the line, looks again, or gives its slot back exactly once, or    *)
(* the halting of a stream's workers.                                      *)
SlotsAreABudget == Slots!Spec

(* The same of buffered_bytes_ and the pages: a page's lease is given back *)
(* once, on whichever thread and path its job ends.                        *)
BufferIsABudget == Buffered!Spec
=============================================================================
