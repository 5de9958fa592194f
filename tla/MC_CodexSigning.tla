--------------------------- MODULE MC_CodexSigning ---------------------------
(* Small instances of CodexSigning and SmartAccount: three keys, of which  *)
(* the codex may hold any.                                                 *)
EXTENDS SmartAccount

CONSTANTS k1, k2, k3, none, o1, standard

Either == [keys |-> {k1, k2}, pred |-> "keys-any"]
Both == [keys |-> {k2, k3}, pred |-> "keys-all"]
TwoOfThree == [keys |-> {k1, k2, k3}, pred |-> "keys-2"]
MostOf == [keys |-> {k1, k2, k3}, pred |-> "at-least-66pct"]
Strange == [keys |-> {k1, k3}, pred |-> "another"]
Short == [keys |-> {k1}, pred |-> "keys-2"]   \* met by nobody

Plain(guards, payment) == [NoRequest EXCEPT !.guards = guards, !.paymentKey = payment]

(* One guard, two that share keys, a key that is pasted, one that is asked *)
(* for, keypairs handed over, a signer nobody provides, a guard short of   *)
(* keys and a key of which only an empty entry was pasted.                 *)
MCRequests ==
  {Plain({Either, Both}, k2),
   Plain({MostOf}, k1),
   [Plain({TwoOfThree, Strange}, none) EXCEPT !.pasted = {k3}, !.canAsk = TRUE],
   [Plain({Either}, k2) EXCEPT !.pasted = {k2}, !.extra = {k3}],
   [Plain({Either}, k1) EXCEPT !.others = {k3}, !.canAsk = TRUE],
   [Plain({Either}, k1) EXCEPT !.others = {k3}],
   [Plain({Short, Either}, k3) EXCEPT !.blank = {k2}]}

Guard(fields, keys, pred) == [fields |-> fields, keys |-> keys, pred |-> pred]

(* A keyset, a reference to one and a capability, of which the sovereign   *)
(* and the governor may be rotated; and shapes that are short of a field.  *)
Founded ==
  <<Guard({"pred", "keys"}, {k1, k2}, "keys-all"), Guard({"keysetref"}, {k2, k3}, "keys-any"),
    Guard({"cgName", "cgArgs", "cgPactId"}, {}, "another")>>
HandedOver ==
  <<Guard({"pred", "keys"}, {k1, k2}, "keys-all"), Guard({"pred", "keys"}, {k1, k2, k3}, "at-least-66pct"),
    Guard({"pred", "keys"}, {k3}, "keys-any")>>
Odd ==
  <<Guard({"fun", "args"}, {}, "another"), Guard({"pred"}, {k1}, "keys-any"),
    Guard({"keysetRef"}, {k2}, "keys-any")>>
TooFew ==
  <<Guard({"pred", "keys"}, {k1}, "keys-2"), Guard({"pred", "keys"}, {k1, k3}, "keys-any"),
    Guard({"fun", "args"}, {}, "another")>>
MCAccounts == {Founded, HandedOver, Odd, TooFew}
MCRotations == [a \in MCAccounts |-> IF a = Founded THEN {HandedOver} ELSE {}]
==============================================================================
