---------------------------- MODULE MC_Executors ----------------------------
(* Instances of Executors for TLC.                                         *)
EXTENDS Executors

CONSTANTS n1, n2, c1, none, noprofile, e1, t1

(* A custom node whose block limit is below what the executors simulate    *)
(* with, and a return to the default.                                      *)
CustomConfig ==
  {[selected |-> "custom", origin |-> c1, limit |-> 1600000],
   [selected |-> "node2", origin |-> none, limit |-> 2000000]}

(* Needs on both sides of every default limit and of both block limits.    *)
Needs == {800, 90000, 1590000, 2100000}

(* One executor of each combination of decisions.                          *)
EveryDecision ==
  {executeSingleSwapWithSlippage, executeSmartSwapNoSlippage, executeAddLiquiditySingle(3),
   transferToken, movieBoosterBuy, compressIgnisToOuro, sublimateOuroToIgnis,
   coilTokensGeneric}
=============================================================================
