------------------------------ MODULE PartialSig ------------------------------
(***************************************************************************)
(* src/signing/partialSig.ts: parties that hold some of the keys a         *)
(* transaction asks for pass it round in envelopes, each adding its own    *)
(* signatures. Copies fork, and envelopes are kept, lost, delivered twice, *)
(* or altered on their way.                                                *)
(***************************************************************************)
EXTENDS Naturals, Sequences, FiniteSets

CONSTANTS
  Keys, Parties,
  KeysOf,            \* the keys of each party
  Cmds,              \* contents of transactions
  Signers,           \* their `signers`, NoKey for one without a pubKey;
                     \* empty if the cmd cannot be parsed
  NoKey, NoTx,
  NoSig,             \* an empty slot
  Junk,              \* in a slot, but nobody's signature
  MaxEnvelopes,      \* bound: envelopes under way at a time
  MaxAlterations     \* bound: alterations on the way

ASSUME PartiesAssumption == KeysOf \in [Parties -> SUBSET Keys] /\ NoKey \notin Keys
ASSUME CmdsAssumption == Signers \in [Cmds -> Seq(Keys \cup {NoKey})]
ASSUME BoundsAssumption == MaxEnvelopes \in Nat /\ MaxAlterations \in Nat

VARIABLES
  holds,        \* the copy each party works on
  envelopes,    \* exported, and not lost yet
  alterations,  \* how many there have been
  agreed        \* history: keys and the contents they were used to sign for

partialVars == <<holds, envelopes, alterations, agreed>>

(* A hash is told by the contents it is the hash of, a signature by its    *)
(* key and the hash signed. History: one of the copies this one comes from *)
(* was `altered`; else they were `signedBy` these parties.                 *)
Sig == [key : Keys, of : Cmds]
Slots == Sig \cup {NoSig, Junk}
Copy == [cmd : Cmds, hash : Cmds, sigs : Seq(Slots), signedBy : SUBSET Parties, altered : BOOLEAN]

ASSUME AbsentAssumption ==
  /\ NoTx \notin Copy
  /\ NoSig \notin Sig /\ Junk \notin Sig /\ NoSig # Junk

Unsigned(c) ==
  [cmd |-> c, hash |-> c, sigs |-> [i \in DOMAIN Signers[c] |-> NoSig],
   signedBy |-> {}, altered |-> FALSE]

WellFormed(c) == Signers[c] # <<>> /\ \A i \in DOMAIN Signers[c] : Signers[c][i] # NoKey

(* One party has built a transaction.                                      *)
PInit ==
  /\ \E p \in Parties, c \in Cmds :
       /\ Signers[c] # <<>>
       /\ holds = [q \in Parties |-> IF q = p THEN Unsigned(c) ELSE NoTx]
  /\ envelopes = {}
  /\ alterations = 0
  /\ agreed = {}

-----------------------------------------------------------------------------
(* The functions of the module, of a copy t.                               *)

(* Signers without a pubKey are filtered out, which moves those behind     *)
(* them: their positions are no longer those of `sigs`. The signer with a  *)
(* pubKey that has n - 1 such signers before it becomes the n-th.          *)
Named(c) == {i \in DOMAIN Signers[c] : Signers[c][i] # NoKey}
Rank(c, i) == Cardinality({j \in Named(c) : j <= i})
PubKeys ==
  [c \in Cmds |-> [n \in 1..Cardinality(Named(c)) |->
                     Signers[c][CHOOSE i \in Named(c) : Rank(c, i) = n]]]

ReadSignerPubKeys(t) == PubKeys[t.cmd]

IsSlotFilled(t, i) == i \in DOMAIN t.sigs /\ t.sigs[i] # NoSig

GetMissingSigners(t) ==
  LET pubKeys == ReadSignerPubKeys(t)
  IN {pubKeys[i] : i \in {j \in DOMAIN pubKeys : ~IsSlotFilled(t, j)}}

IsFullySigned(t) == GetMissingSigners(t) = {}

(* verifyExistingSignatures: the slots it finds fault with.                *)
\* Mutant: what was signed is not looked at.
InvalidSlotsByKey(t) ==
  LET pubKeys == ReadSignerPubKeys(t)
  IN {i \in DOMAIN t.sigs :
        /\ IsSlotFilled(t, i)
        /\ \/ i \notin DOMAIN pubKeys \/ t.sigs[i] \notin Sig
           \/ t.sigs[i].key # pubKeys[i]}

InvalidSlots(t) ==
  LET pubKeys == ReadSignerPubKeys(t)
  IN {i \in DOMAIN t.sigs :
        /\ IsSlotFilled(t, i)
        /\ \/ i \notin DOMAIN pubKeys \/ t.sigs[i] \notin Sig
           \/ t.sigs[i].key # pubKeys[i] \/ t.sigs[i].of # t.hash}

AllValid(t) == InvalidSlots(t) = {}

(* What a consumer asks before it submits.                                 *)
Ready(t) == IsFullySigned(t) /\ AllValid(t)

(* universalSignTransaction without onMissingKey: the hash is signed with  *)
(* each key that is among the signers, and put where that signer is. The   *)
(* client library may keep the slots there are, or make them as many as    *)
(* there are signers.                                                      *)
SlotsAfter(t) == {DOMAIN t.sigs, DOMAIN Signers[t.cmd]}
SlotOf(t, i) == IF i \in DOMAIN t.sigs THEN t.sigs[i] ELSE NoSig
SignedBy(t, i, keys) == i \in DOMAIN Signers[t.cmd] /\ Signers[t.cmd][i] \in keys
SignatureAt(t, i) == [key |-> Signers[t.cmd][i], of |-> t.hash]

\* Mutant: the other slots are empty afterwards.
SigsAfterFresh(t, keys) ==
  {[i \in D |-> IF SignedBy(t, i, keys) THEN SignatureAt(t, i) ELSE NoSig] : D \in SlotsAfter(t)}

SigsAfter(t, keys) ==
  {[i \in D |-> IF SignedBy(t, i, keys) THEN SignatureAt(t, i) ELSE SlotOf(t, i)] :
     D \in SlotsAfter(t)}

(* deserializePartialTransaction throws unless the hash is that of the cmd.*)
\* Mutant: any envelope of the right shape is taken.
DeserializesAnything(t) == TRUE

Deserializes(t) == t.cmd = t.hash

-----------------------------------------------------------------------------
(* The parties.                                                            *)

(* Signing throws if the cmd cannot be parsed.                             *)
SignPartial(p) ==
  /\ holds[p] # NoTx
  /\ Signers[holds[p].cmd] # <<>>
  /\ \E sigs \in SigsAfter(holds[p], KeysOf[p]) :
       holds' = [holds EXCEPT ![p].sigs = sigs,
                              ![p].signedBy = IF holds[p].altered THEN {} ELSE @ \cup {p}]
  /\ agreed' = agreed \cup (KeysOf[p] \X {holds[p].cmd})
  /\ UNCHANGED <<envelopes, alterations>>

SerializePartial(p) ==
  /\ holds[p] # NoTx
  /\ Cardinality(envelopes) < MaxEnvelopes
  /\ envelopes' = envelopes \cup {holds[p]}
  /\ UNCHANGED <<holds, alterations, agreed>>

(* An import that throws changes nothing; one that does not replaces the   *)
(* copy the party has, signatures included.                                *)
DeserializePartial(p) ==
  /\ \E t \in envelopes : Deserializes(t) /\ holds' = [holds EXCEPT ![p] = t]
  /\ UNCHANGED <<envelopes, alterations, agreed>>

(* Transport loses an envelope, or alters it: the cmd, with or without the *)
(* hash that goes with it, or one slot.                                    *)
Lost ==
  /\ \E t \in envelopes : envelopes' = envelopes \ {t}
  /\ UNCHANGED <<holds, alterations, agreed>>

Replaced(t, u) ==
  envelopes' = (envelopes \ {t}) \cup {[u EXCEPT !.altered = TRUE, !.signedBy = {}]}

Altered ==
  /\ alterations < MaxAlterations
  /\ \E t \in envelopes :
       \/ \E c \in Cmds : \E h \in {t.hash, c} : Replaced(t, [t EXCEPT !.cmd = c, !.hash = h])
       \/ \E i \in DOMAIN t.sigs, s \in {NoSig, Junk} : Replaced(t, [t EXCEPT !.sigs[i] = s])
  /\ alterations' = alterations + 1
  /\ UNCHANGED <<holds, agreed>>

PNext ==
  \/ \E p \in Parties : SignPartial(p) \/ SerializePartial(p) \/ DeserializePartial(p)
  \/ Lost \/ Altered

PSpec == PInit /\ [][PNext]_partialVars

-----------------------------------------------------------------------------
(* Properties.                                                             *)

(* Copies have their types. One that can be worked on carries the hash of  *)
(* its own contents.                                                       *)
PTypeOK ==
  /\ holds \in [Parties -> Copy \cup {NoTx}]
  /\ envelopes \subseteq Copy
  /\ alterations \in 0..MaxAlterations
  /\ agreed \subseteq Keys \X Cmds
  /\ \A p \in Parties : holds[p] # NoTx => Deserializes(holds[p])

(* Each signer that can be named has signed the hash of the contents, in   *)
(* its own slot, and no other slot is filled.                              *)
RightSignatures(t) ==
  /\ t.hash = t.cmd
  /\ \A i \in DOMAIN t.sigs \cup Named(t.cmd) :
       SlotOf(t, i) = IF i \in Named(t.cmd) THEN [key |-> Signers[t.cmd][i], of |-> t.cmd]
                                            ELSE NoSig

(* What the chain asks: contents it can parse, whose signers have a pubKey *)
(* each, and as many slots, in each the signature of its signer.           *)
Accepts(t) ==
  /\ t.hash = t.cmd /\ WellFormed(t.cmd)
  /\ t.sigs = [i \in DOMAIN Signers[t.cmd] |-> [key |-> Signers[t.cmd][i], of |-> t.cmd]]

(* The chain accepts a copy that both checks pass, by whatever ways it came*)
(* and whatever happened to it, if the contents are well formed and no slot*)
(* is superfluous: neither check looks at that. Even when it is refused    *)
(* for it, positions that signers without a pubKey shift never make one    *)
(* signature pass for that of another.                                     *)
ReadyIsComplete ==
  \A p \in Parties :
    LET t == holds[p]
    IN t # NoTx /\ Ready(t) =>
         /\ RightSignatures(t)
         /\ WellFormed(t.cmd) /\ DOMAIN t.sigs = DOMAIN Signers[t.cmd] => Accepts(t)

(* ... and every signer has signed these very contents, having seen them:  *)
(* an alteration never turns a signature into one for something else.      *)
ReadyIsAgreed ==
  \A p \in Parties :
    holds[p] # NoTx /\ Ready(holds[p]) =>
      \A i \in Named(holds[p].cmd) : <<Signers[holds[p].cmd][i], holds[p].cmd>> \in agreed

Undisturbed(t) == t # NoTx /\ WellFormed(t.cmd) /\ ~t.altered

(* A copy that was not altered is not accused of it, and the signatures    *)
(* have survived being passed on: who is missing from it is who has not    *)
(* signed one of the copies it comes from, however these forked.           *)
HandoffIsFaithful ==
  \A p \in Parties :
    Undisturbed(holds[p]) =>
      /\ AllValid(holds[p])
      /\ GetMissingSigners(holds[p]) =
           {Signers[holds[p].cmd][i] : i \in DOMAIN holds[p].sigs}
             \ UNION {KeysOf[q] : q \in holds[p].signedBy}
=============================================================================
