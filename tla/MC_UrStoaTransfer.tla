-------------------------- MODULE MC_UrStoaTransfer --------------------------
(* Small instances of UrStoaTransfer: every choice of a guard over three   *)
(* keys, and of keypairs the caller holds for it.                          *)
EXTENDS UrStoaTransfer

CONSTANTS p, a, b

MCGuards == [keys : {{a}, {a, b}, {p, a}, {p, a, b}}, pred : {"keys-any", "keys-2", "keys-all"}]

MCRequests ==
  {r \in [guard : MCGuards, paymentKey : {p}, senderGuardKeys : SUBSET {p, a, b}] :
     r.senderGuardKeys \subseteq r.guard.keys}
=============================================================================
