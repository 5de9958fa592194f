------------------------------- MODULE Guards -------------------------------
(* src/guard/guardUtils.ts: how many signatures a keyset guard asks for,   *)
(* and which keys of a wallet are to give them.                            *)
EXTENDS Naturals, FiniteSets

StandardPredicates == {"keys-any", "keys-all", "keys-2"}
StoicPredicates ==
  {"keys-1", "keys-3", "keys-4", "keys-2-of-3", "keys-3-of-5", "keys-4-of-7", "keys-5-of-9",
   "at-least-51pct", "at-least-60pct", "at-least-66pct", "at-least-75pct", "at-least-90pct",
   "all-but-one", "all-but-two"}

(* Any other string makes computeThreshold throw.                          *)
Recognized(pred) == pred \in StandardPredicates \cup StoicPredicates

(* STOIC_FIXED and STOIC_M_OF_N, with the standard predicates of that kind *)
Fixed(pred) ==
  CASE pred \in {"keys-any", "keys-1"} -> 1
    [] pred \in {"keys-2", "keys-2-of-3"} -> 2
    [] pred \in {"keys-3", "keys-3-of-5"} -> 3
    [] pred \in {"keys-4", "keys-4-of-7"} -> 4
    [] pred = "keys-5-of-9" -> 5
    [] OTHER -> 0

(* STOIC_PCT                                                               *)
Percent(pred) ==
  CASE pred = "at-least-51pct" -> 51
    [] pred = "at-least-60pct" -> 60
    [] pred = "at-least-66pct" -> 66
    [] pred = "at-least-75pct" -> 75
    [] pred = "at-least-90pct" -> 90
    [] OTHER -> 0

(* How many of the keys may stay away.                                     *)
Tolerance(pred) ==
  CASE pred = "all-but-one" -> 1
    [] pred = "all-but-two" -> 2
    [] OTHER -> 0

AtMost(a, b) == IF a < b THEN a ELSE b

\* Mutant: a share of the keys is rounded down.
ThresholdFloored(pred, n) ==
  CASE n = 0 -> 0
    [] n > 0 /\ Fixed(pred) > 0 -> AtMost(Fixed(pred), n)
    [] n > 0 /\ Percent(pred) > 0 -> (n * Percent(pred)) \div 100
    [] OTHER -> IF n > Tolerance(pred) THEN n - Tolerance(pred) ELSE 1

(* computeThreshold for a keyset of n keys; a predicate it does not know   *)
(* counts as keys-all in analyzeGuard, as does an empty Tolerance here.    *)
Threshold(pred, n) ==
  CASE n = 0 -> 0
    [] n > 0 /\ Fixed(pred) > 0 -> AtMost(Fixed(pred), n)
    [] n > 0 /\ Percent(pred) > 0 -> (n * Percent(pred) + 99) \div 100
    [] OTHER -> IF n > Tolerance(pred) THEN n - Tolerance(pred) ELSE 1

(* analyzeGuard, for the keys of the codex and those the user has pasted.  *)
CodexKeys(g, codex) == g.keys \cap codex
ResolvedForeignKeys(g, codex, pasted) == (g.keys \ codex) \cap pasted
Available(g, codex, pasted) == CodexKeys(g, codex) \cup ResolvedForeignKeys(g, codex, pasted)

GuardThreshold(g) == Threshold(g.pred, Cardinality(g.keys))
Satisfied(g, codex, pasted) == Cardinality(Available(g, codex, pasted)) >= GuardThreshold(g)

-----------------------------------------------------------------------------
(* The chain's side. A predicate asks for its own count there: it is not   *)
(* lowered to the keys there are, as computeThreshold does, so that keys-2 *)
(* of one key and keys-any of none are never met.                          *)
Required(g) ==
  LET n == Cardinality(g.keys)
  IN CASE Fixed(g.pred) > 0 -> Fixed(g.pred)
       [] Percent(g.pred) > 0 -> (n * Percent(g.pred) + 99) \div 100
       [] Fixed(g.pred) = 0 /\ Percent(g.pred) = 0 ->
            IF n > Tolerance(g.pred) THEN n - Tolerance(g.pred) ELSE 0

MetBy(g, signers) == Cardinality(g.keys \cap signers) >= Required(g)

(* Fewer keys than the predicate counts: nobody can meet such a guard.     *)
Undersized(g) == Cardinality(g.keys) < Fixed(g.pred)
=============================================================================
