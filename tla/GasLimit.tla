------------------------------ MODULE GasLimit ------------------------------
(* src/gas/gasUtils.ts: the gas limit of a transaction, calibrated from    *)
(* the gas its simulation used.                                            *)
EXTENDS Naturals

CeilDiv(a, b) == (a + b - 1) \div b
AtMost(limit, cap) == IF limit < cap THEN limit ELSE cap

(* The proportional buffer, in percent of the simulated gas.               *)
BufferPercent(gas) ==
  CASE gas < 1000   -> 200
    [] gas < 20000  -> 115
    [] gas < 500000 -> 110
    [] OTHER        -> 105

(* The flat buffer.                                                        *)
FlatBuffer(gas) ==
  CASE gas < 20000  -> 0
    [] gas < 100000 -> 5000
    [] gas < 500000 -> 10000
    [] OTHER        -> 20000

(* Math.ceil of a floating-point product: 1.10 and 1.05 are rounded up to  *)
(* a double, so a product that ought to be whole may come out one higher.  *)
Drift(gas) ==
  IF gas > 0 /\ BufferPercent(gas) \in {110, 105} /\ (gas * BufferPercent(gas)) % 100 = 0
    THEN {0, 1} ELSE {0}

\* Mutant: the cap of the node is forgotten.
AutoGasLimitsUncapped(gas, nodeLimit) ==
  {CeilDiv(gas * BufferPercent(gas), 100) + d + FlatBuffer(gas) : d \in Drift(gas)}

(* calculateAutoGasLimit: the limits it may return.                        *)
AutoGasLimits(gas, nodeLimit) ==
  {AtMost(CeilDiv(gas * BufferPercent(gas), 100) + d + FlatBuffer(gas), nodeLimit) : d \in Drift(gas)}
=============================================================================
