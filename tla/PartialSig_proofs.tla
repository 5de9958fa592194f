--------------------------- MODULE PartialSig_proofs ---------------------------
(* Theorems about PartialSig, for any contents, signers that cannot be     *)
(* named included, any number of parties, envelopes under way and          *)
(* alterations.                                                            *)
EXTENDS PartialSig, FiniteSetTheorems, SequenceTheorems, TLAPS

(* A signature sits where the contents it is for have its signer, and that *)
(* key has been used to sign them.                                         *)
SlotsSound(t, used) ==
  \A i \in DOMAIN t.sigs :
    t.sigs[i] \in Sig =>
      /\ i \in DOMAIN Signers[t.sigs[i].of]
      /\ Signers[t.sigs[i].of][i] = t.sigs[i].key
      /\ <<t.sigs[i].key, t.sigs[i].of>> \in used

(* A copy that was not altered has the signatures of the parties it has    *)
(* passed through, and no others.                                          *)
KeysUsed(t) == UNION {KeysOf[q] : q \in t.signedBy}

Intact(t) ==
  /\ t.cmd = t.hash
  /\ DOMAIN t.sigs = DOMAIN Signers[t.cmd]
  /\ \A i \in DOMAIN t.sigs :
       t.sigs[i] = IF Signers[t.cmd][i] \in KeysUsed(t)
                     THEN [key |-> Signers[t.cmd][i], of |-> t.cmd] ELSE NoSig

Sound(t, used) == SlotsSound(t, used) /\ (~t.altered => Intact(t))

PInv ==
  /\ PTypeOK
  /\ \A p \in Parties : holds[p] # NoTx => Sound(holds[p], agreed)
  /\ \A t \in envelopes : Sound(t, agreed)

-----------------------------------------------------------------------------
(* Signers and slots.                                                      *)

LEMMA SignersFacts ==
  ASSUME NEW c \in Cmds
  PROVE  /\ Len(Signers[c]) \in Nat /\ DOMAIN Signers[c] = 1..Len(Signers[c])
         /\ \A i \in DOMAIN Signers[c] : Signers[c][i] \in Keys \cup {NoKey}
         /\ IsFiniteSet(Named(c)) /\ Cardinality(Named(c)) \in Nat
<1>1. Signers[c] \in Seq(Keys \cup {NoKey})
  BY CmdsAssumption
<1>2. Len(Signers[c]) \in Nat /\ DOMAIN Signers[c] = 1..Len(Signers[c])
  BY <1>1
<1>3. \A i \in DOMAIN Signers[c] : Signers[c][i] \in Keys \cup {NoKey}
  BY <1>1, <1>2
<1>4. IsFiniteSet(1..Len(Signers[c]))
  BY <1>2, FS_Interval
<1>5. Named(c) \in SUBSET (1..Len(Signers[c]))
  BY <1>2 DEF Named
<1>6. IsFiniteSet(Named(c))
  BY <1>4, <1>5, FS_Subset
<1> QED BY <1>2, <1>3, <1>6, FS_CardinalityType

LEMMA DistinctSlots ==
  ASSUME NEW s \in Slots, s # NoSig, s # Junk
  PROVE  s \in Sig
BY DEF Slots

LEMMA SeqOfSlots ==
  ASSUME NEW n \in Nat, NEW f \in [1..n -> Slots]
  PROVE  f \in Seq(Slots)
BY SeqDef

LEMMA SlotsOfCopy ==
  ASSUME NEW t \in Copy
  PROVE  /\ t.sigs \in Seq(Slots) /\ Len(t.sigs) \in Nat /\ DOMAIN t.sigs = 1..Len(t.sigs)
         /\ \A i \in DOMAIN t.sigs : t.sigs[i] \in Slots
<1>1. t.sigs \in Seq(Slots)
  BY DEF Copy
<1>2. Len(t.sigs) \in Nat /\ DOMAIN t.sigs = 1..Len(t.sigs)
  BY <1>1
<1> QED BY <1>1, <1>2

(* When every signer has a pubKey, filtering moves nobody.                 *)
LEMMA NobodyMoves ==
  ASSUME NEW c \in Cmds, WellFormed(c)
  PROVE  /\ DOMAIN PubKeys[c] = DOMAIN Signers[c]
         /\ \A n \in DOMAIN Signers[c] : PubKeys[c][n] = Signers[c][n]
<1> DEFINE L == Len(Signers[c])
<1>1. L \in Nat /\ DOMAIN Signers[c] = 1..L
  BY SignersFacts
<1>2. Named(c) = 1..L
  BY <1>1 DEF Named, WellFormed
<1> HIDE DEF L
<1>3. Cardinality(1..L) = L
  BY <1>1, FS_Interval
<1>4. ASSUME NEW i \in 1..L PROVE Rank(c, i) = i
  <2>1. {j \in Named(c) : j <= i} = 1..i
    BY <1>1, <1>2, <1>4
  <2>2. Cardinality(1..i) = i
    BY <1>1, <1>4, FS_Interval
  <2> QED BY <2>1, <2>2 DEF Rank
<1>5. ASSUME NEW n \in 1..L PROVE (CHOOSE i \in Named(c) : Rank(c, i) = n) = n
  BY <1>2, <1>4, <1>5
<1>6. PubKeys[c] = [n \in 1..Cardinality(Named(c)) |->
                     Signers[c][CHOOSE i \in Named(c) : Rank(c, i) = n]]
  BY DEF PubKeys
<1> QED BY <1>1, <1>2, <1>3, <1>5, <1>6

(* What the two checks of a consumer amount to: the signers that have a    *)
(* pubKey come first, each has signed, and no other slot is filled.        *)
LEMMA ReadyMeans ==
  ASSUME NEW t \in Copy, NEW used, t.cmd = t.hash, SlotsSound(t, used), Ready(t)
  PROVE  /\ RightSignatures(t)
         /\ WellFormed(t.cmd) /\ DOMAIN t.sigs = DOMAIN Signers[t.cmd] => Accepts(t)
         /\ \A i \in Named(t.cmd) : <<Signers[t.cmd][i], t.cmd>> \in used
<1> DEFINE c == t.cmd
           N == Cardinality(Named(c))
<1>1. c \in Cmds
  BY DEF Copy
<1>2. N \in Nat /\ IsFiniteSet(Named(c))
  BY <1>1, SignersFacts
<1>3. DOMAIN PubKeys[c] = 1..N
  BY <1>1 DEF PubKeys
<1>4. \A n \in 1..N : n \in DOMAIN t.sigs /\ t.sigs[n] # NoSig
  BY <1>3 DEF Ready, IsFullySigned, GetMissingSigners, ReadSignerPubKeys, IsSlotFilled
<1>5. \A i \in DOMAIN t.sigs :
        t.sigs[i] # NoSig => i \in 1..N /\ t.sigs[i] \in Sig /\ t.sigs[i].of = c
  BY <1>3 DEF Ready, AllValid, InvalidSlots, ReadSignerPubKeys, IsSlotFilled
<1>6. \A n \in 1..N : /\ n \in DOMAIN Signers[c] /\ Signers[c][n] = t.sigs[n].key
                      /\ Signers[c][n] \in Keys
                      /\ <<Signers[c][n], c>> \in used
                      /\ t.sigs[n] = [key |-> Signers[c][n], of |-> c]
  <2> SUFFICES ASSUME NEW n \in 1..N
               PROVE  /\ n \in DOMAIN Signers[c] /\ Signers[c][n] = t.sigs[n].key
                      /\ Signers[c][n] \in Keys
                      /\ <<Signers[c][n], c>> \in used
                      /\ t.sigs[n] = [key |-> Signers[c][n], of |-> c]
    OBVIOUS
  <2>1. n \in DOMAIN t.sigs /\ t.sigs[n] \in Sig /\ t.sigs[n].of = c
    BY <1>4, <1>5
  <2>2. /\ n \in DOMAIN Signers[c] /\ Signers[c][n] = t.sigs[n].key
        /\ <<Signers[c][n], c>> \in used
    BY <2>1 DEF SlotsSound
  <2> QED BY <2>1, <2>2 DEF Sig
<1>7. 1..N \in SUBSET Named(c)
  BY <1>6, PartiesAssumption DEF Named
<1> HIDE DEF N
<1>8. Cardinality(1..N) = N
  BY <1>2, FS_Interval
<1>9. Cardinality(Named(c)) = Cardinality(1..N)
  BY <1>8 DEF N
<1>10. Named(c) = 1..N
  BY <1>2, <1>7, <1>9, FS_Subset
<1>11. \A i \in Named(c) : i \in DOMAIN t.sigs /\ t.sigs[i] = [key |-> Signers[c][i], of |-> c]
  BY <1>4, <1>6, <1>10
<1>12. \A i \in DOMAIN t.sigs : i \notin Named(c) => t.sigs[i] = NoSig
  BY <1>5, <1>10
<1>13. RightSignatures(t)
  BY <1>11, <1>12 DEF RightSignatures, SlotOf
<1>14. ASSUME WellFormed(c), DOMAIN t.sigs = DOMAIN Signers[c] PROVE Accepts(t)
  <2>1. Named(c) = DOMAIN Signers[c]
    BY <1>14 DEF Named, WellFormed
  <2>2. t.sigs = [i \in DOMAIN Signers[c] |-> t.sigs[i]]
    BY <1>14, SlotsOfCopy
  <2> QED BY <1>11, <1>14, <2>1, <2>2 DEF Accepts
<1> QED BY <1>6, <1>10, <1>13, <1>14

(* A copy that nobody altered shows just the signatures it should.         *)
LEMMA IntactMeans ==
  ASSUME NEW t \in Copy, WellFormed(t.cmd), Intact(t)
  PROVE  /\ AllValid(t)
         /\ GetMissingSigners(t) = {Signers[t.cmd][i] : i \in DOMAIN t.sigs} \ KeysUsed(t)
<1> DEFINE c == t.cmd
           pubKeys == PubKeys[c]
<1>1. c \in Cmds
  BY DEF Copy
<1>2. /\ DOMAIN pubKeys = DOMAIN t.sigs /\ DOMAIN t.sigs = DOMAIN Signers[c]
      /\ \A n \in DOMAIN t.sigs : pubKeys[n] = Signers[c][n] /\ Signers[c][n] \in Keys
  BY <1>1, NobodyMoves, SignersFacts DEF Intact, WellFormed
<1>3. \A i \in DOMAIN t.sigs : [key |-> Signers[c][i], of |-> c] \in Sig
  BY <1>1, <1>2 DEF Sig
<1>4. \A i \in DOMAIN t.sigs :
        /\ t.sigs[i] # NoSig <=> Signers[c][i] \in KeysUsed(t)
        /\ t.sigs[i] # NoSig => t.sigs[i] = [key |-> Signers[c][i], of |-> c]
  BY <1>3, AbsentAssumption DEF Intact
<1>5. AllValid(t)
  <2>1. ASSUME NEW i \in DOMAIN t.sigs, t.sigs[i] # NoSig
        PROVE  /\ i \in DOMAIN pubKeys /\ t.sigs[i] \in Sig
               /\ t.sigs[i].key = pubKeys[i] /\ t.sigs[i].of = t.hash
    <3>1. t.sigs[i] = [key |-> Signers[c][i], of |-> c] /\ t.sigs[i] \in Sig
      BY <1>3, <1>4, <2>1
    <3>2. i \in DOMAIN pubKeys /\ pubKeys[i] = Signers[c][i]
      BY <1>2, <2>1
    <3>3. c = t.hash
      BY DEF Intact
    <3> HIDE DEF pubKeys, c
    <3> QED BY <3>1, <3>2, <3>3
  <2> QED BY <2>1 DEF AllValid, InvalidSlots, ReadSignerPubKeys, IsSlotFilled
<1>6. GetMissingSigners(t) =
        {pubKeys[i] : i \in {j \in DOMAIN pubKeys : ~(j \in DOMAIN t.sigs /\ t.sigs[j] # NoSig)}}
  BY DEF GetMissingSigners, ReadSignerPubKeys, IsSlotFilled
<1> HIDE DEF pubKeys, c
<1>7. {pubKeys[i] : i \in {j \in DOMAIN pubKeys : ~(j \in DOMAIN t.sigs /\ t.sigs[j] # NoSig)}}
        = {Signers[c][i] : i \in DOMAIN t.sigs} \ KeysUsed(t)
  BY <1>2, <1>4
<1> QED BY <1>5, <1>6, <1>7 DEF c

-----------------------------------------------------------------------------
(* The steps.                                                              *)

(* What has been signed stays signed.                                      *)
LEMMA SoundStays ==
  ASSUME NEW t, NEW used, NEW more, used \subseteq more, Sound(t, used)
  PROVE  Sound(t, more)
BY DEF Sound, SlotsSound

LEMMA PInitEstablishes == PInit => PInv
<1> SUFFICES ASSUME PInit PROVE PInv
  OBVIOUS
<1>1. PICK p \in Parties, c \in Cmds :
        /\ Signers[c] # <<>>
        /\ holds = [q \in Parties |-> IF q = p THEN Unsigned(c) ELSE NoTx]
  BY DEF PInit
<1> DEFINE t == Unsigned(c)
<1>2. /\ t.cmd = c /\ t.hash = c /\ t.signedBy = {} /\ t.altered = FALSE
      /\ DOMAIN t.sigs = DOMAIN Signers[c] /\ \A i \in DOMAIN t.sigs : t.sigs[i] = NoSig
  BY DEF Unsigned
<1>3. t \in Copy
  <2>1. [i \in DOMAIN Signers[c] |-> NoSig] \in [1..Len(Signers[c]) -> Slots]
    BY SignersFacts DEF Slots
  <2>2. [i \in DOMAIN Signers[c] |-> NoSig] \in Seq(Slots)
    BY <2>1, SignersFacts, SeqOfSlots
  <2> QED BY <2>2 DEF Unsigned, Copy
<1>4. Sound(t, {})
  <2>1. SlotsSound(t, {})
    BY <1>2, AbsentAssumption DEF SlotsSound
  <2>2. KeysUsed(t) = {}
    BY <1>2 DEF KeysUsed
  <2> QED BY <1>2, <2>1, <2>2 DEF Sound, Intact
<1> HIDE DEF t
<1>5. \A q \in Parties : holds[q] = t \/ holds[q] = NoTx
  BY <1>1 DEF t
<1>6. PTypeOK
  BY <1>1, <1>2, <1>3, <1>5, BoundsAssumption DEF PTypeOK, PInit, Deserializes, t
<1> QED BY <1>4, <1>5, <1>6 DEF PInv, PInit

(* signPartial: the slots of the party's signers, and these only, change.  *)
LEMMA SignKeeps ==
  ASSUME PInv, NEW p \in Parties, SignPartial(p)
  PROVE  PInv'
<1> DEFINE t == holds[p]
           u == holds'[p]
           c == t.cmd
<1>1. t \in Copy /\ t.cmd = t.hash /\ Sound(t, agreed) /\ c \in Cmds
  BY DEF SignPartial, PInv, PTypeOK, Deserializes, Copy
<1>2. PICK D \in SlotsAfter(t) :
        holds' = [holds EXCEPT
          ![p].sigs = [i \in D |-> IF SignedBy(t, i, KeysOf[p]) THEN SignatureAt(t, i)
                                                               ELSE SlotOf(t, i)],
          ![p].signedBy = IF t.altered THEN {} ELSE @ \cup {p}]
  BY DEF SignPartial, SigsAfter
<1>3. /\ \A q \in Parties \ {p} : holds'[q] = holds[q]
      /\ u = [t EXCEPT
          !.sigs = [i \in D |-> IF SignedBy(t, i, KeysOf[p]) THEN SignatureAt(t, i)
                                                            ELSE SlotOf(t, i)],
          !.signedBy = IF t.altered THEN {} ELSE @ \cup {p}]
      /\ holds' = [holds EXCEPT ![p] = u]
  BY <1>2 DEF PInv, PTypeOK
<1>4. /\ u.cmd = c /\ u.hash = c /\ u.altered = t.altered
      /\ u.signedBy = (IF t.altered THEN {} ELSE t.signedBy \cup {p})
      /\ DOMAIN u.sigs = D
      /\ \A i \in D : u.sigs[i] = IF SignedBy(t, i, KeysOf[p]) THEN SignatureAt(t, i)
                                                             ELSE SlotOf(t, i)
  BY <1>1, <1>3 DEF Copy
<1>5. KeysOf[p] \subseteq Keys /\ NoKey \notin KeysOf[p]
  BY PartiesAssumption
<1>6. \A i \in D : SignedBy(t, i, KeysOf[p]) =>
        SignatureAt(t, i) = [key |-> Signers[c][i], of |-> c] /\ SignatureAt(t, i) \in Sig
  BY <1>1, <1>5 DEF SignedBy, SignatureAt, Sig
<1>7. u \in Copy
  <2>1. \E n \in Nat : D = 1..n
    BY <1>1, SlotsOfCopy, SignersFacts DEF SlotsAfter
  <2>2. \A i \in D : u.sigs[i] \in Slots
    BY <1>1, <1>4, <1>6, SlotsOfCopy DEF Slots, SlotOf
  <2>3. u.sigs = [i \in D |-> u.sigs[i]]
    BY <1>1, <1>3 DEF Copy
  <2>4. u.sigs \in [D -> Slots]
    BY <2>2, <2>3
  <2>5. u.sigs \in Seq(Slots)
    BY <2>1, <2>4, SeqOfSlots
  <2> HIDE DEF u
  <2>6. u.signedBy \in SUBSET Parties /\ u.altered \in BOOLEAN
    BY <1>1, <1>4 DEF Copy
  <2>7. u = [t EXCEPT !.sigs = u.sigs, !.signedBy = u.signedBy]
    BY <1>1, <1>3, <1>4 DEF Copy, u
  <2> QED BY <1>1, <2>5, <2>6, <2>7 DEF Copy
<1>8. SlotsSound(u, agreed')
  <2> SUFFICES ASSUME NEW i \in D, u.sigs[i] \in Sig
               PROVE  /\ i \in DOMAIN Signers[u.sigs[i].of]
                      /\ Signers[u.sigs[i].of][i] = u.sigs[i].key
                      /\ <<u.sigs[i].key, u.sigs[i].of>> \in agreed'
    BY <1>4 DEF SlotsSound
  <2>1. CASE SignedBy(t, i, KeysOf[p])
    <3>1. u.sigs[i] = [key |-> Signers[c][i], of |-> c]
      BY <1>4, <1>6, <2>1
    <3>2. i \in DOMAIN Signers[c] /\ Signers[c][i] \in KeysOf[p]
      BY <2>1 DEF SignedBy
    <3>3. <<Signers[c][i], c>> \in agreed'
      BY <3>2 DEF SignPartial
    <3> HIDE DEF u, c
    <3> QED BY <3>1, <3>2, <3>3
  <2>2. CASE ~SignedBy(t, i, KeysOf[p])
    <3>1. i \in DOMAIN t.sigs /\ u.sigs[i] = t.sigs[i]
      BY <1>4, <2>2, AbsentAssumption DEF SlotOf
    <3>2. agreed \subseteq agreed'
      BY DEF SignPartial
    <3> QED BY <1>1, <3>1, <3>2 DEF Sound, SlotsSound
  <2> QED BY <2>1, <2>2
<1>9. ASSUME ~u.altered PROVE Intact(u)
  <2>1. Intact(t) /\ D = DOMAIN t.sigs /\ u.signedBy = t.signedBy \cup {p}
    BY <1>1, <1>4, <1>9 DEF Sound, Intact, SlotsAfter
  <2>2. KeysUsed(u) = KeysUsed(t) \cup KeysOf[p]
    BY <2>1 DEF KeysUsed
  <2>3. ASSUME NEW i \in D
        PROVE  u.sigs[i] = IF Signers[c][i] \in KeysUsed(u)
                             THEN [key |-> Signers[c][i], of |-> c] ELSE NoSig
    <3>1. SignedBy(t, i, KeysOf[p]) <=> Signers[c][i] \in KeysOf[p]
      BY <2>1, <2>3 DEF SignedBy, Intact
    <3>2. SlotOf(t, i) = IF Signers[c][i] \in KeysUsed(t)
                           THEN [key |-> Signers[c][i], of |-> c] ELSE NoSig
      BY <2>1, <2>3 DEF SlotOf, Intact
    <3> QED BY <1>4, <1>6, <2>2, <2>3, <3>1, <3>2
  <2> QED BY <1>4, <2>1, <2>3 DEF Intact
<1>10. agreed \subseteq agreed' /\ agreed' \subseteq Keys \X Cmds
  BY <1>1, <1>5 DEF SignPartial, PInv, PTypeOK
<1> HIDE DEF u
<1>11. PTypeOK'
  <2>1. holds' \in [Parties -> Copy \cup {NoTx}]
    BY <1>3, <1>7 DEF PInv, PTypeOK
  <2>2. \A q \in Parties : holds'[q] # NoTx => holds'[q].cmd = holds'[q].hash
    <3>1. \A q \in Parties \ {p} : holds'[q] # NoTx => holds'[q].cmd = holds'[q].hash
      BY <1>3 DEF PInv, PTypeOK, Deserializes
    <3> QED BY <1>4, <3>1 DEF u
  <2> QED BY <1>10, <2>1, <2>2 DEF PTypeOK, Deserializes, SignPartial, PInv
<1>12. \A q \in Parties : holds'[q] # NoTx => Sound(holds'[q], agreed')
  <2>1. Sound(u, agreed')
    BY <1>8, <1>9 DEF Sound
  <2>2. \A q \in Parties \ {p} : holds'[q] # NoTx => Sound(holds'[q], agreed')
    BY <1>3, <1>10, SoundStays DEF PInv
  <2> QED BY <2>1, <2>2 DEF u
<1>13. \A e \in envelopes' : Sound(e, agreed')
  BY <1>10, SoundStays DEF SignPartial, PInv
<1> QED BY <1>11, <1>12, <1>13 DEF PInv

(* Envelopes are copies; an import replaces one copy by another.           *)
LEMMA ExchangeKeeps ==
  ASSUME PInv, NEW p \in Parties, SerializePartial(p) \/ DeserializePartial(p) \/ Lost
  PROVE  PInv'
<1>1. CASE SerializePartial(p)
  <2>1. holds[p] \in Copy /\ Sound(holds[p], agreed)
    BY <1>1 DEF SerializePartial, PInv, PTypeOK
  <2> QED BY <1>1, <2>1 DEF SerializePartial, PInv, PTypeOK
<1>2. CASE DeserializePartial(p)
  <2>1. PICK t \in envelopes : Deserializes(t) /\ holds' = [holds EXCEPT ![p] = t]
    BY <1>2 DEF DeserializePartial
  <2>2. t \in Copy /\ Sound(t, agreed)
    BY DEF PInv, PTypeOK
  <2>3. \A q \in Parties : holds'[q] = t \/ holds'[q] = holds[q]
    BY <2>1 DEF PInv, PTypeOK
  <2>4. PTypeOK'
    BY <1>2, <2>1, <2>2, <2>3 DEF DeserializePartial, PInv, PTypeOK
  <2> QED BY <1>2, <2>2, <2>3, <2>4 DEF DeserializePartial, PInv
<1>3. CASE Lost
  BY <1>3 DEF Lost, PInv, PTypeOK
<1> QED BY <1>1, <1>2, <1>3

(* An alteration brings no signature to a slot.                            *)
LEMMA ReplacedKeeps ==
  ASSUME PInv, Altered, NEW t \in envelopes, NEW v \in Copy, Replaced(t, v),
         \A i \in DOMAIN v.sigs : /\ i \in DOMAIN t.sigs
                                  /\ v.sigs[i] = t.sigs[i] \/ v.sigs[i] \in {NoSig, Junk}
  PROVE  PInv'
<1> DEFINE u == [v EXCEPT !.altered = TRUE, !.signedBy = {}]
<1>1. u \in Copy /\ u.altered /\ u.sigs = v.sigs
  BY DEF Copy
<1>2. envelopes' = (envelopes \ {t}) \cup {u}
  BY DEF Replaced
<1> HIDE DEF u
<1>3. t \in Copy /\ Sound(t, agreed)
  BY DEF PInv, PTypeOK
<1>4. Sound(u, agreed)
  BY <1>1, <1>3, AbsentAssumption DEF Sound, SlotsSound
<1>5. alterations' \in 0..MaxAlterations
  <2>1. alterations < MaxAlterations /\ alterations' = alterations + 1
    BY ZenonT(30) DEF Altered
  <2>2. alterations \in 0..MaxAlterations
    BY DEF PInv, PTypeOK
  <2> QED BY <2>1, <2>2, BoundsAssumption
<1> QED BY <1>1, <1>2, <1>4, <1>5 DEF Altered, PInv, PTypeOK

LEMMA AlteredKeeps ==
  ASSUME PInv, Altered
  PROVE  PInv'
<1>1. ASSUME NEW t \in envelopes, NEW c \in Cmds, NEW h \in {t.hash, c},
             Replaced(t, [t EXCEPT !.cmd = c, !.hash = h])
      PROVE  PInv'
  <2> DEFINE v == [t EXCEPT !.cmd = c, !.hash = h]
  <2>1. t \in Copy
    BY DEF PInv, PTypeOK
  <2>2. v \in Copy /\ v.sigs = t.sigs
    BY <2>1 DEF Copy
  <2>3. Replaced(t, v)
    BY <1>1
  <2> HIDE DEF v
  <2> QED BY <2>2, <2>3, ReplacedKeeps
<1>2. ASSUME NEW t \in envelopes, NEW i \in DOMAIN t.sigs, NEW s \in {NoSig, Junk},
             Replaced(t, [t EXCEPT !.sigs[i] = s])
      PROVE  PInv'
  <2> DEFINE slots == [t.sigs EXCEPT ![i] = s]
             v == [t EXCEPT !.sigs = slots]
  <2>1. t \in Copy
    BY DEF PInv, PTypeOK
  <2>2. slots \in [1..Len(t.sigs) -> Slots]
    BY <2>1, SlotsOfCopy DEF Slots
  <2>3. /\ slots \in Seq(Slots)
        /\ \A j \in DOMAIN slots : j \in DOMAIN t.sigs /\ (slots[j] = t.sigs[j] \/ slots[j] = s)
    BY <2>1, <2>2, SlotsOfCopy, SeqOfSlots
  <2>4. Replaced(t, v)
    BY <1>2
  <2> HIDE DEF slots
  <2>5. v \in Copy /\ v.sigs = slots
    BY <2>1, <2>3 DEF Copy
  <2> HIDE DEF v
  <2> QED BY <2>3, <2>4, <2>5, ReplacedKeeps
<1> QED BY <1>1, <1>2 DEF Altered

LEMMA PStepKeeps == PInv /\ [PNext]_partialVars => PInv'
<1> SUFFICES ASSUME PInv, [PNext]_partialVars PROVE PInv'
  OBVIOUS
<1>1. ASSUME NEW p \in Parties, SignPartial(p) \/ SerializePartial(p) \/ DeserializePartial(p)
      PROVE  PInv'
  BY <1>1, SignKeeps, ExchangeKeeps
<1>2. CASE Lost
  BY <1>2 DEF Lost, PInv, PTypeOK
<1>3. CASE Altered
  BY <1>3, AlteredKeeps
<1>4. CASE UNCHANGED partialVars
  BY <1>4 DEF partialVars, PInv, PTypeOK
<1> QED BY <1>1, <1>2, <1>3, <1>4 DEF PNext

LEMMA PSafety == PSpec => []PInv
BY PInitEstablishes, PStepKeeps, PTL DEF PSpec

(* A copy that both checks pass carries the signature of each signer that  *)
(* has a pubKey, in that signer's slot, and no other; the chain accepts it *)
(* unless the contents lack a pubKey or the copy has a slot too many.      *)
THEOREM ReadyCopiesComplete == PSpec => []ReadyIsComplete
<1>1. PInv => ReadyIsComplete
  BY ReadyMeans DEF PInv, PTypeOK, ReadyIsComplete, Sound, Deserializes
<1> QED BY <1>1, PSafety, PTL

(* ... and each of these signers has signed these very contents.           *)
THEOREM ReadyCopiesAgreed == PSpec => []ReadyIsAgreed
<1>1. PInv => ReadyIsAgreed
  BY ReadyMeans DEF PInv, PTypeOK, ReadyIsAgreed, Sound, Deserializes
<1> QED BY <1>1, PSafety, PTL

(* A copy that was not altered on its way is not accused of it, and misses *)
(* just those who have signed none of the copies it comes from.            *)
THEOREM HandoffsFaithful == PSpec => []HandoffIsFaithful
<1>1. PInv => HandoffIsFaithful
  BY IntactMeans DEF PInv, PTypeOK, HandoffIsFaithful, Undisturbed, Sound, KeysUsed
<1> QED BY <1>1, PSafety, PTL
=============================================================================
