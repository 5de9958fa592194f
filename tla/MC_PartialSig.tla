---------------------------- MODULE MC_PartialSig ----------------------------
(* Small instances of PartialSig: three keys, one for each party. t1 asks  *)
(* for all of them and t2 for two; m1 and m2 have a signer without a       *)
(* pubKey, before or behind the other; u1 cannot be parsed.                *)
EXTENDS PartialSig, TLC

CONSTANTS a, b, c, A, B, C, t1, t2, m1, m2, u1

MCKeysOf == (A :> {a}) @@ (B :> {b}) @@ (C :> {c})
MCSigners == (t1 :> <<a, b, c>>) @@ (t2 :> <<a, b>>) @@ (m1 :> <<NoKey, a>>) @@
             (m2 :> <<b, NoKey>>) @@ (u1 :> <<>>)
=============================================================================
