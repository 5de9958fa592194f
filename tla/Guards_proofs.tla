---------------------------- MODULE Guards_proofs ----------------------------
(* Proofs about Guards, for every predicate and any finite keyset.         *)
EXTENDS Guards, FiniteSetTheorems, TLAPS

LEMMA PercentBounded ==
  ASSUME NEW n \in Nat \ {0}, NEW p \in {51, 60, 66, 75, 90}
  PROVE  (n * p + 99) \div 100 \in 1..n
<1>1. CASE p = 51
  BY <1>1
<1>2. CASE p = 60
  BY <1>2
<1>3. CASE p = 66
  BY <1>3
<1>4. CASE p = 75
  BY <1>4
<1>5. CASE p = 90
  BY <1>5
<1> QED BY <1>1, <1>2, <1>3, <1>4, <1>5

(* computeThreshold asks for at least one signature and for no more than   *)
(* there are keys, whatever the predicate and however many the keys; an    *)
(* empty keyset asks for none.                                             *)
THEOREM ThresholdBounded ==
  ASSUME NEW n \in Nat, NEW pred
  PROVE  IF n = 0 THEN Threshold(pred, n) = 0 ELSE Threshold(pred, n) \in 1..n
<1>1. CASE n = 0
  BY <1>1 DEF Threshold
<1>2. CASE n > 0 /\ Fixed(pred) > 0
  <2> ~(Percent(pred) > 0)
    BY <1>2 DEF Fixed, Percent
  <2>1. Threshold(pred, n) = AtMost(Fixed(pred), n)
    BY <1>2 DEF Threshold
  <2>2. Fixed(pred) \in 0..5
    BY DEF Fixed
  <2> QED BY <1>2, <2>1, <2>2 DEF AtMost
<1>3. CASE n > 0 /\ ~(Fixed(pred) > 0) /\ Percent(pred) > 0
  <2>1. Threshold(pred, n) = (n * Percent(pred) + 99) \div 100
    BY <1>3 DEF Threshold
  <2>2. Percent(pred) \in {0, 51, 60, 66, 75, 90}
    BY DEF Percent
  <2>3. Percent(pred) \in {51, 60, 66, 75, 90}
    BY <1>3, <2>2
  <2> QED BY <1>3, <2>1, <2>3, PercentBounded
<1>4. CASE n > 0 /\ ~(Fixed(pred) > 0) /\ ~(Percent(pred) > 0)
  <2>1. Threshold(pred, n) = IF n > Tolerance(pred) THEN n - Tolerance(pred) ELSE 1
    BY <1>4 DEF Threshold
  <2>2. Tolerance(pred) \in 0..2
    BY DEF Tolerance
  <2> QED BY <1>4, <2>1, <2>2
<1> QED BY <1>1, <1>2, <1>3, <1>4

LEMMA CeilingOfPercent ==
  ASSUME NEW n \in Nat \ {0}, NEW p \in {51, 60, 66, 75, 90}, NEW t \in Nat,
         t = (n * p + 99) \div 100
  PROVE  100 * t >= n * p /\ 100 * (t - 1) < n * p
<1>1. CASE p = 51
  BY <1>1
<1>2. CASE p = 60
  BY <1>2
<1>3. CASE p = 66
  BY <1>3
<1>4. CASE p = 75
  BY <1>4
<1>5. CASE p = 90
  BY <1>5
<1> QED BY <1>1, <1>2, <1>3, <1>4, <1>5

(* For a percentage predicate computeThreshold returns the least number of *)
(* signatures that is at least that share of the keys: Math.ceil neither   *)
(* lets a guard pass below its percentage nor asks for one key too many.   *)
THEOREM PercentageIsReached ==
  ASSUME NEW n \in Nat \ {0}, NEW pred, Percent(pred) > 0
  PROVE  /\ 100 * Threshold(pred, n) >= n * Percent(pred)
         /\ 100 * (Threshold(pred, n) - 1) < n * Percent(pred)
<1>1. Percent(pred) \in {51, 60, 66, 75, 90} /\ ~(Fixed(pred) > 0)
  BY DEF Percent, Fixed
<1>2. Threshold(pred, n) = (n * Percent(pred) + 99) \div 100
  BY <1>1 DEF Threshold
<1>3. Threshold(pred, n) \in Nat
  BY <1>1, <1>2, PercentBounded
<1> QED BY <1>1, <1>2, <1>3, CeilingOfPercent

LEMMA GuardThresholdBounded ==
  ASSUME NEW g, IsFiniteSet(g.keys)
  PROVE  /\ GuardThreshold(g) \in 0..Cardinality(g.keys)
         /\ g.keys # {} => GuardThreshold(g) >= 1
<1>1. Cardinality(g.keys) \in Nat /\ (Cardinality(g.keys) = 0 <=> g.keys = {})
  BY FS_CardinalityType, FS_EmptySet
<1> QED BY <1>1, ThresholdBounded DEF GuardThreshold

-----------------------------------------------------------------------------
(* The code's count and the chain's.                                       *)

(* As many signers of the guard as computeThreshold asks for.              *)
Enough(g, signers) == Cardinality(g.keys \cap signers) >= GuardThreshold(g)

LEMMA RequiredBounded ==
  ASSUME NEW g, IsFiniteSet(g.keys)
  PROVE  /\ Required(g) \in Nat
         /\ ~Undersized(g) => Required(g) <= GuardThreshold(g)
<1> DEFINE n == Cardinality(g.keys)
<1>1. n \in Nat /\ GuardThreshold(g) = Threshold(g.pred, n)
  BY FS_CardinalityType DEF GuardThreshold
<1>2. /\ Fixed(g.pred) \in 0..5 /\ Percent(g.pred) \in {0, 51, 60, 66, 75, 90}
      /\ Tolerance(g.pred) \in 0..2
      /\ ~(Fixed(g.pred) > 0 /\ Percent(g.pred) > 0)
  BY DEF Fixed, Percent, Tolerance
<1> HIDE DEF n
<1>3. CASE Fixed(g.pred) > 0
  <2>1. Required(g) = Fixed(g.pred)
    BY <1>2, <1>3 DEF Required
  <2>2. ~Undersized(g) => n > 0 /\ Threshold(g.pred, n) = AtMost(Fixed(g.pred), n) /\ n >= Fixed(g.pred)
    BY <1>1, <1>2, <1>3 DEF Undersized, Threshold, n
  <2> QED BY <1>1, <1>2, <2>1, <2>2 DEF AtMost
<1>4. CASE Percent(g.pred) > 0
  <2>1. Required(g) = (n * Percent(g.pred) + 99) \div 100 /\ Fixed(g.pred) = 0
    BY <1>2, <1>4 DEF Required, n
  <2>2. CASE n = 0
    BY <1>1, <1>2, <2>1, <2>2 DEF Threshold
  <2>3. CASE n > 0
    <3>1. Threshold(g.pred, n) = (n * Percent(g.pred) + 99) \div 100
      BY <1>4, <2>1, <2>3 DEF Threshold
    <3>2. (n * Percent(g.pred) + 99) \div 100 \in 1..n
      BY <1>1, <1>2, <1>4, <2>3, PercentBounded
    <3> QED BY <1>1, <2>1, <3>1, <3>2
  <2> QED BY <1>1, <2>2, <2>3
<1>5. CASE Fixed(g.pred) = 0 /\ Percent(g.pred) = 0
  <2>1. Required(g) = IF n > Tolerance(g.pred) THEN n - Tolerance(g.pred) ELSE 0
    BY <1>2, <1>5 DEF Required, n
  <2>2. n > 0 => Threshold(g.pred, n) = IF n > Tolerance(g.pred) THEN n - Tolerance(g.pred) ELSE 1
    BY <1>1, <1>5 DEF Threshold
  <2>3. n = 0 => Threshold(g.pred, n) = 0
    BY DEF Threshold
  <2> QED BY <1>1, <1>2, <2>1, <2>2, <2>3
<1> QED BY <1>2, <1>3, <1>4, <1>5

(* Where computeThreshold and the chain agree: signers it counts as enough *)
(* meet a guard that does not have fewer keys than its predicate counts,   *)
(* whatever the predicate and however many the keys.                       *)
THEOREM ThresholdMeetsChain ==
  ASSUME NEW g, IsFiniteSet(g.keys), ~Undersized(g), NEW signers, Enough(g, signers)
  PROVE  MetBy(g, signers)
<1>1. Required(g) \in Nat /\ Required(g) <= GuardThreshold(g) /\ GuardThreshold(g) \in Int
  BY RequiredBounded, GuardThresholdBounded
<1>2. Cardinality(g.keys \cap signers) \in Nat
  BY FS_Subset, FS_CardinalityType
<1> QED BY <1>1, <1>2 DEF Enough, MetBy

(* Where they do not: a guard with fewer keys is met by nobody.            *)
THEOREM UndersizedIsNeverMet ==
  ASSUME NEW g, IsFiniteSet(g.keys), Undersized(g), NEW signers
  PROVE  ~MetBy(g, signers)
<1>1. /\ Cardinality(g.keys \cap signers) \in Nat /\ Cardinality(g.keys) \in Nat
      /\ Cardinality(g.keys \cap signers) <= Cardinality(g.keys)
  BY FS_Subset, FS_CardinalityType
<1>2. Fixed(g.pred) \in 0..5 /\ (Fixed(g.pred) > 0 => ~(Percent(g.pred) > 0))
  BY DEF Fixed, Percent
<1>3. Required(g) = Fixed(g.pred) /\ Fixed(g.pred) > Cardinality(g.keys)
  BY <1>1, <1>2 DEF Required, Undersized
<1> QED BY <1>1, <1>2, <1>3 DEF MetBy

(* More signers never unsatisfy a guard, for the code or for the chain.    *)
LEMMA MoreSigners ==
  ASSUME NEW g, IsFiniteSet(g.keys), NEW S, NEW T, g.keys \cap S \subseteq g.keys \cap T
  PROVE  /\ MetBy(g, S) => MetBy(g, T)
         /\ Enough(g, S) => Enough(g, T)
<1>1. GuardThreshold(g) \in Int /\ Required(g) \in Int
  BY GuardThresholdBounded, RequiredBounded
<1>2. IsFiniteSet(g.keys \cap T)
  BY FS_Subset
<1>3. Cardinality(g.keys \cap S) <= Cardinality(g.keys \cap T) /\ IsFiniteSet(g.keys \cap S)
  BY <1>2, FS_Subset
<1>4. Cardinality(g.keys \cap S) \in Nat /\ Cardinality(g.keys \cap T) \in Nat
  BY <1>2, <1>3, FS_CardinalityType
<1> QED BY <1>1, <1>3, <1>4 DEF MetBy, Enough

(* One signer satisfies a guard that asks for at most one.                 *)
LEMMA OneSigner ==
  ASSUME NEW g, IsFiniteSet(g.keys), Required(g) <= 1, NEW S, g.keys \cap S # {}
  PROVE  MetBy(g, S)
<1>1. Required(g) \in Int
  BY RequiredBounded
<1>2. IsFiniteSet(g.keys \cap S)
  BY FS_Subset
<1>3. Cardinality(g.keys \cap S) \in Nat /\ Cardinality(g.keys \cap S) # 0
  BY <1>2, FS_CardinalityType, FS_EmptySet
<1> QED BY <1>1, <1>3 DEF MetBy
=============================================================================
