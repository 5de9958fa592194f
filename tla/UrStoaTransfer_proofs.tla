------------------------ MODULE UrStoaTransfer_proofs ------------------------
(* Proofs about UrStoaTransfer, for any keys, guards and keypairs.         *)
EXTENDS UrStoaTransfer, Guards_proofs

(* What a guard key has to do with its guard, once keys may be dropped: a  *)
(* first transaction meets the guard; a second one is signed by all the    *)
(* keypairs whose signatures did verify, and there is one.                 *)
Rebuilt ==
  \E dropped \in SUBSET bad :
    /\ signers = {request.paymentKey} \cup (request.senderGuardKeys \ dropped)
    /\ request.senderGuardKeys \ dropped # {}

UInv ==
  /\ UTypeOK
  /\ phase = "signing" => MetBy(request.guard, signers)
  /\ phase = "resigning" => Rebuilt
  /\ phase = "submitting" => Invalid = {} /\ (MetBy(request.guard, signers) \/ Rebuilt)

LEMMA UInitEstablishes == UInit => UInv
BY DEF UInit, UInv, UTypeOK, Failures

LEMMA BeginKeeps ==
  ASSUME UInv, NEW r \in Requests, Begin(r)
  PROVE  UInv'
<1>1. r.paymentKey \in Keys /\ r.senderGuardKeys \subseteq Keys
  BY RequestsAssumption
<1>2. signers' \subseteq Keys /\ r.paymentKey \in signers'
  BY <1>1 DEF Begin, FirstSigners
<1> QED BY <1>2 DEF Begin, UInv, UTypeOK

LEMMA SignedKeeps ==
  ASSUME UInv, Signed
  PROVE  UInv'
<1>1. request.paymentKey \in Keys /\ request.senderGuardKeys \subseteq Keys
  BY RequestsAssumption DEF UInv, UTypeOK
<1>2. CASE Invalid = {} /\ phase' = "submitting" /\ UNCHANGED <<signers, outcome>>
  BY <1>2 DEF Signed, UInv, UTypeOK, Invalid, Rebuilt
<1>3. CASE UNCHANGED signers /\ \E why \in {"payment key", "guard keys"} : Throws(why)
  BY <1>3 DEF Signed, UInv, UTypeOK, Throws, Failures
<1>4. CASE /\ signers' = RebuiltSigners /\ ValidGuardKeys # {}
           /\ phase' = "resigning" /\ UNCHANGED outcome
  <2>1. Invalid \in SUBSET bad
    BY DEF Invalid
  <2>2. Rebuilt'
    BY <1>4, <2>1 DEF Signed, Rebuilt, RebuiltSigners, ValidGuardKeys
  <2>3. signers' \subseteq Keys /\ request.paymentKey \in signers'
    BY <1>1, <1>4 DEF RebuiltSigners, ValidGuardKeys
  <2> QED BY <1>4, <2>2, <2>3 DEF Signed, UInv, UTypeOK
<1> QED BY <1>2, <1>3, <1>4 DEF Signed

LEMMA StepKeeps ==
  ASSUME UInv, Step
  PROVE  UInv'
<1>1. CASE SimulationPasses
  BY <1>1 DEF SimulationPasses, UInv, UTypeOK
<1>2. CASE SimulationFails
  BY <1>2 DEF SimulationFails, Throws, UInv, UTypeOK, Failures
<1>3. CASE SigningThrows
  BY <1>3 DEF SigningThrows, Throws, UInv, UTypeOK, Failures
<1>4. CASE SignedAgain
  BY <1>4 DEF SignedAgain, Throws, UInv, UTypeOK, Failures, Invalid, Rebuilt
<1>5. CASE SubmitSettles
  BY <1>5 DEF SubmitSettles, Throws, UInv, UTypeOK, Failures
<1> QED BY <1>1, <1>2, <1>3, <1>4, <1>5, SignedKeeps DEF Step

LEMMA USafety == USpec => []UInv
<1>1. UInv /\ [UNext]_urStoaVars => UInv'
  <2> SUFFICES ASSUME UInv, [UNext]_urStoaVars PROVE UInv'
    OBVIOUS
  <2>1. CASE UNCHANGED urStoaVars
    BY <2>1 DEF urStoaVars, UInv, UTypeOK, Invalid, Rebuilt
  <2> QED BY <2>1, BeginKeeps, StepKeeps DEF UNext
<1> QED BY <1>1, UInitEstablishes, PTL DEF USpec

-----------------------------------------------------------------------------
(* The executor's locals have their types, and the payment key signs.      *)
THEOREM UrStoaTypes == USpec => []UTypeOK
BY USafety, PTL DEF UInv

(* Dropping keys never unsatisfies a guard that one key satisfies, whoever *)
(* holds which of its keys.                                                *)
THEOREM UrStoaMeetsAnyKey == USpec => []AnyKeyGuardsMet
<1>1. UInv => AnyKeyGuardsMet
  <2> SUFFICES ASSUME UInv, phase = "submitting", Required(request.guard) <= 1
               PROVE  MetBy(request.guard, signers)
    BY DEF AnyKeyGuardsMet
  <2>1. IsFiniteSet(request.guard.keys) /\ request.senderGuardKeys \subseteq request.guard.keys
    BY KeysAssumption, RequestsAssumption, FS_Subset DEF UInv, UTypeOK
  <2>2. CASE Rebuilt
    <3>1. request.guard.keys \cap signers # {}
      BY <2>1, <2>2 DEF Rebuilt
    <3> QED BY <2>1, <3>1, OneSigner
  <2> QED BY <2>2 DEF UInv
<1> QED BY <1>1, USafety, PTL

(* Every signature submitted verifies, and what is submitted misses the    *)
(* sender's guard only if all the keypairs with valid signatures together  *)
(* would.                                                                  *)
THEOREM UrStoaMeetsWhatItCan == USpec => []RebuildMeetsWhatItCan
<1>1. UInv => RebuildMeetsWhatItCan
  <2> DEFINE best == ({request.paymentKey} \cup request.senderGuardKeys) \ bad
  <2> SUFFICES ASSUME UInv, phase = "submitting", ~MetBy(request.guard, signers)
               PROVE  ~MetBy(request.guard, best)
    BY DEF RebuildMeetsWhatItCan, UInv
  <2>1. IsFiniteSet(request.guard.keys)
    BY KeysAssumption, RequestsAssumption, FS_Subset DEF UInv, UTypeOK
  <2>2. best \subseteq signers
    BY DEF UInv, Rebuilt
  <2> HIDE DEF best
  <2>3. request.guard.keys \cap best \subseteq request.guard.keys \cap signers
    BY <2>2
  <2> QED BY <2>1, <2>3, MoreSigners
<1> QED BY <1>1, USafety, PTL
=============================================================================
