----------------------------- MODULE MC_Reads -----------------------------
(* Instances of Reads for TLC.                                             *)
EXTENDS Reads

CONSTANTS n1, n2, none, noread, c1, c2

(* Every row of the table that is unlike the others.                       *)
EveryRead ==
  NullOnFailure \cup NullOnReject \cup getLPEntries \cup getOuronetKdaDetails \cup
  {getCullInfo, getPoolIds, getSWPairGeneralInfo, getAllPoolTokens, getSWPPrincipals,
   primordialPrices, getAccountSelectorData, getAccountOverview, getPrimordials,
   getUnwrapStoaTarget, checkCoinAccountExists_ouro, describeKeyset_urStoa, describeKeyset, kadenaLedger,
   validateLiquidityDeviation, calculateBalancedLiquidity, getHibernateFee,
   getPaymentKeyBalance, accountDescription, getBalanceOnChain, simulateTransaction}

(* Each of them alone, and two slots for the pairs that can touch: two     *)
(* readings of the wallet, a pinned read beside one that fails over.       *)
Pair(p, q) == [c \in Calls |-> IF c = c1 THEN {p} ELSE {q}]
EachAndPairs ==
  {[c \in Calls |-> IF c = c1 THEN {p} ELSE {}] : p \in EveryRead} \cup
  {Pair(KadenaWalletGetBalance, KadenaWalletGetBalance),
   Pair(simulateTransaction, getIgnisBalance)}

DefaultConfig == {[selected |-> "node2", origin |-> none, limit |-> 2000000]}
=============================================================================
