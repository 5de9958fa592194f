------------------------- MODULE CodexSigning_proofs -------------------------
(* Proofs about CodexSigning, for any keys, requests and operations, and   *)
(* about SmartAccount, for any accounts and rotations.                     *)
EXTENDS SmartAccount, Guards_proofs

-----------------------------------------------------------------------------
(* Guards and keys.                                                        *)

LEMMA MoreCodexSigners ==
  ASSUME NEW g, g.keys \in SUBSET Keys, NEW S, NEW T, S \subseteq T
  PROVE  Enough(g, S) => Enough(g, T)
<1>1. IsFiniteSet(g.keys) /\ g.keys \cap S \subseteq g.keys \cap T
  BY KeysAssumption, FS_Subset
<1> QED BY <1>1, MoreSigners

(* What the code counts as enough is enough for the chain.                 *)
LEMMA EnoughIsMet ==
  ASSUME NEW g, g.keys \in SUBSET Keys, ~Undersized(g), NEW S, Enough(g, S)
  PROVE  MetBy(g, S)
BY KeysAssumption, FS_Subset, ThresholdMeetsChain

(* The keys taken for a guard that can be satisfied satisfy it.            *)
LEMMA NeededSuffice ==
  ASSUME NEW o \in Operations, NEW g, g.keys \in SUBSET Keys, NEW needed \in Needed(o, g),
         Satisfied(g, run[o].codexPubs, Request(o).pasted)
  PROVE  Enough(g, needed)
<1> DEFINE available == AvailableOf(o, g)
<1>1. IsFiniteSet(g.keys) /\ Cardinality(g.keys) \in Nat
  BY KeysAssumption, FS_Subset, FS_CardinalityType
<1>2. GuardThreshold(g) \in Nat
  BY <1>1, ThresholdBounded DEF GuardThreshold
<1>3. available \subseteq g.keys
  BY DEF AvailableOf, Available, CodexKeys, ResolvedForeignKeys
<1>4. Cardinality(available) \in Nat /\ Cardinality(available) >= GuardThreshold(g)
  BY <1>1, <1>3, FS_Subset, FS_CardinalityType DEF Satisfied, AvailableOf
<1>5. needed \subseteq g.keys /\ Cardinality(needed) = AtMost(GuardThreshold(g), Cardinality(available))
  BY <1>3 DEF Needed, FirstKeys
<1>6. g.keys \cap needed = needed
  BY <1>5
<1> HIDE DEF available
<1> QED BY <1>2, <1>4, <1>5, <1>6 DEF Enough, AtMost

-----------------------------------------------------------------------------
(* The inductive invariant, as a predicate on the record of a run and on   *)
(* what became of the transactions of its operation.                       *)
(* What execute is called with: for a Smart account, the keyset of a path. *)
Keysets == [keys : SUBSET Keys, pred : StandardPredicates \cup StoicPredicates \cup {"another"}]
PathRequests == [guards : SUBSET Keysets, paymentKey : Keys \cup {NoKey}, pasted : SUBSET Keys,
                 blank : SUBSET Keys, extra : SUBSET Keys, others : SUBSET Keys, canAsk : BOOLEAN]
AnyRequest == Requests \cup {NoRequest} \cup PathRequests

Phases == {"idle", "listing", "collecting", "payer", "simulating", "signing", "submitting", "settled"}
TxStates == {"none", "sent", "incomplete", "mempool", "mined", "lost"}
HasPayer == {"payer", "simulating", "signing", "submitting"}

Run == [phase : Phases, n : 0..MaxRuns, request : AnyRequest,
        codexPubs : SUBSET Keys, left : SUBSET UNION {q.guards : q \in AnyRequest},
        wanted : SUBSET Keys, pureSigningPubs : SUBSET Keys, payer : Keys \cup {NoKey},
        missing : SUBSET Keys, asked : [Keys -> Nat], outcome : Outcomes]

ProvidedIn(r) == {r.payer} \cup r.pureSigningPubs \cup r.request.extra
SignersIn(r) == ProvidedIn(r) \cup r.request.others

(* The payer is chosen last, and apart from the guards' signers.           *)
PayerSound(r) ==
  /\ r.phase \in {"idle", "listing", "collecting"} => r.payer = NoKey
  /\ r.phase \in HasPayer => r.payer \in Keys
  /\ r.payer # NoKey => r.payer \notin r.pureSigningPubs

(* Where a key that was asked for is, in each phase.                       *)
AskedSound(r) ==
  /\ \A k \in Keys : r.asked[k] <= 1
  /\ r.phase \in {"idle", "listing"} => r.pureSigningPubs = {} /\ \A k \in Keys : r.asked[k] = 0
  /\ r.phase = "collecting" => r.wanted \cap r.pureSigningPubs = {}
  /\ r.phase \in {"collecting", "payer"} => \A k \in Keys \ r.pureSigningPubs : r.asked[k] = 0
  /\ r.phase = "simulating" => \A k \in Keys \ ProvidedIn(r) : r.asked[k] = 0
  /\ r.phase = "signing" => \A k \in r.missing : r.asked[k] = 0

(* The guards that have been handled and could be satisfied are, by the    *)
(* keys collected and those that are wanted.                               *)
GuardsSound(r) ==
  /\ r.phase = "collecting" =>
       \A g \in r.request.guards \ r.left :
         Satisfied(g, r.codexPubs, r.request.pasted) => Enough(g, r.pureSigningPubs \cup r.wanted)
  /\ r.phase \in HasPayer =>
       \A g \in r.request.guards :
         Satisfied(g, r.codexPubs, r.request.pasted) => Enough(g, r.pureSigningPubs)

(* A call that has not submitted has no transaction, nor has one to come;  *)
(* those of earlier calls are lost, if they were ever sent.                *)
TriesSound(r, t) ==
  /\ r.phase = "idle" => r.n = 0
  /\ r.phase # "idle" => r.n \in 1..MaxRuns
  /\ \A m \in 1..MaxRuns : /\ m > r.n => t[m] = "none"
                           /\ m < r.n => t[m] \in {"none", "lost"}
  /\ r.phase \in Phases \ {"idle", "submitting", "settled"} => t[r.n] = "none"
  /\ r.phase = "settled" /\ r.outcome \in BeforeSubmit => t[r.n] = "none"
  /\ r.phase = "submitting" /\ t[r.n] = "incomplete" =>
       ~r.request.canAsk /\ ~(r.request.others \subseteq ProvidedIn(r))

Sound(r, t) == PayerSound(r) /\ AskedSound(r) /\ GuardsSound(r) /\ TriesSound(r, t)

XsInv ==
  /\ codex \subseteq Keys
  /\ run \in [Operations -> Run]
  /\ tx \in [Operations -> [1..MaxRuns -> TxStates]]
  /\ \A o \in Operations : Sound(run[o], tx[o])

LEMMA RequestTypes ==
  ASSUME NEW q \in AnyRequest
  PROVE  /\ \A g \in q.guards : g.keys \in SUBSET Keys
         /\ q.pasted \in SUBSET Keys /\ q.extra \in SUBSET Keys /\ q.others \in SUBSET Keys
<1>1. CASE q \in Requests
  BY <1>1, RequestsAssumption
<1>2. CASE q = NoRequest
  BY <1>2 DEF NoRequest
<1>3. CASE q \in PathRequests
  BY <1>3 DEF PathRequests, Keysets
<1> QED BY <1>1, <1>2, <1>3 DEF AnyRequest

LEMMA IdleTypes == Idle \in Run
<1>1. NoRequest \in AnyRequest /\ "idle" \in Phases /\ "none" \in Outcomes /\ 0 \in 0..MaxRuns
  BY RunsAssumption DEF AnyRequest, Phases, Outcomes
<1> QED BY <1>1 DEF Idle, Run

LEMMA XsInitEstablishes == XsInit => XsInv
<1> SUFFICES ASSUME XsInit PROVE XsInv
  OBVIOUS
<1>1. Idle \in Run
  BY IdleTypes
<1>2. run \in [Operations -> Run] /\ tx \in [Operations -> [1..MaxRuns -> TxStates]] /\ codex \subseteq Keys
  BY <1>1 DEF XsInit, TxStates
<1>3. ASSUME NEW o \in Operations PROVE Sound(run[o], tx[o])
  <2>1. run[o] = Idle /\ \A m \in 1..MaxRuns : tx[o][m] = "none"
    BY DEF XsInit
  <2> QED BY <2>1, RunsAssumption DEF Idle, Sound, PayerSound, AskedSound, GuardsSound, TriesSound, HasPayer, Phases, BeforeSubmit
<1> QED BY <1>2, <1>3 DEF XsInv

(* A step that gives one run a new, sound record keeps the invariant.      *)
LEMMA RecordUpdate ==
  ASSUME XsInv, NEW o \in Operations, NEW r \in Run, run' = [run EXCEPT ![o] = r],
         UNCHANGED <<codex, tx>>, Sound(r, tx[o])
  PROVE  XsInv'
<1>1. run' \in [Operations -> Run] /\ run'[o] = r /\ \A d \in Operations \ {o} : run'[d] = run[d]
  BY DEF XsInv
<1>2. ASSUME NEW d \in Operations PROVE Sound(run'[d], tx'[d])
  <2>1. CASE d = o
    BY <1>1, <2>1
  <2>2. CASE d # o
    BY <1>1, <2>2 DEF XsInv
  <2> QED BY <2>1, <2>2
<1> QED BY <1>1, <1>2 DEF XsInv

LEMMA ThrowsKeeps ==
  ASSUME XsInv, NEW o \in Operations, NEW why \in Outcomes \ {"none"}, Throws(o, why),
         UNCHANGED <<codex, tx>>, run[o].phase \notin {"idle", "settled"},
         why \in BeforeSubmit => run[o].phase # "submitting"
  PROVE  XsInv'
<1> DEFINE r == [run[o] EXCEPT !.phase = "settled", !.outcome = why]
<1>1. run[o] \in Run /\ Sound(run[o], tx[o])
  BY DEF XsInv
<1>2. r \in Run /\ run' = [run EXCEPT ![o] = r]
  BY <1>1 DEF Run, Phases, Throws
<1>3. /\ r.phase = "settled" /\ r.outcome = why /\ r.payer = run[o].payer /\ r.n = run[o].n
      /\ r.asked = run[o].asked /\ r.pureSigningPubs = run[o].pureSigningPubs
  BY <1>1 DEF Run
<1>4. run[o].phase \in Phases
  BY <1>1 DEF Run
<1> HIDE DEF r
<1>5. PayerSound(r) /\ AskedSound(r) /\ GuardsSound(r)
  BY <1>1, <1>3 DEF Sound, PayerSound, AskedSound, GuardsSound, HasPayer
<1>6. TriesSound(r, tx[o])
  BY <1>1, <1>3, <1>4 DEF Sound, TriesSound, Phases
<1> QED BY <1>2, <1>5, <1>6, RecordUpdate DEF Sound

-----------------------------------------------------------------------------
(* The steps of execute, one by one.                                       *)

LEMMA ExecuteKeeps ==
  ASSUME XsInv, NEW o \in Operations, NEW q \in AnyRequest, Execute(o, q)
  PROVE  XsInv'
<1> DEFINE r == [Idle EXCEPT !.phase = "listing", !.n = run[o].n + 1, !.request = q]
<1>1. run[o] \in Run /\ Sound(run[o], tx[o])
  BY DEF XsInv
<1>2. run[o].n \in 0..MaxRuns /\ run[o].n + 1 \in 1..MaxRuns
  BY <1>1, RunsAssumption DEF Run, Execute
<1>3. r \in Run
  <2>1. "listing" \in Phases /\ run[o].n + 1 \in 0..MaxRuns
    BY <1>2, RunsAssumption DEF Phases
  <2> QED BY <2>1, IdleTypes DEF Run
<1>4. /\ r.phase = "listing" /\ r.payer = NoKey /\ r.n = run[o].n + 1 /\ r.outcome = "none"
      /\ r.pureSigningPubs = {} /\ \A k \in Keys : r.asked[k] = 0
  BY DEF Idle
<1>5. run' = [run EXCEPT ![o] = r] /\ UNCHANGED <<codex, tx>> /\ MayExecute(o)
  BY DEF Execute
<1> HIDE DEF r
<1>6. PayerSound(r) /\ AskedSound(r) /\ GuardsSound(r)
  BY <1>4 DEF PayerSound, AskedSound, GuardsSound, HasPayer
<1>7. run[o].n > 0 => tx[o][run[o].n] \in {"none", "lost"}
  BY <1>1, <1>5 DEF MayExecute, At, Tx, Sound, TriesSound
<1>8. ASSUME NEW m \in 1..MaxRuns
      PROVE  (m > r.n => tx[o][m] = "none") /\ (m < r.n => tx[o][m] \in {"none", "lost"})
  <2>1. CASE m = run[o].n
    BY <1>2, <1>4, <1>7, <2>1
  <2>2. CASE m # run[o].n
    <3>1. (m > run[o].n => tx[o][m] = "none") /\ (m < run[o].n => tx[o][m] \in {"none", "lost"})
      BY <1>1 DEF Sound, TriesSound
    <3> QED BY <1>2, <1>4, <2>2, <3>1, RunsAssumption
  <2> QED BY <2>1, <2>2
<1>9. tx[o][r.n] = "none"
  BY <1>1, <1>2, <1>4 DEF Sound, TriesSound
<1>10. TriesSound(r, tx[o])
  BY <1>2, <1>4, <1>8, <1>9 DEF TriesSound
<1> QED BY <1>3, <1>5, <1>6, <1>10, RecordUpdate DEF Sound

(* Between two phases that have submitted nothing, TriesSound is kept.     *)
LEMMA TriesStay ==
  ASSUME NEW r \in Run, NEW s \in Run, NEW t, TriesSound(r, t), s.n = r.n,
         {r.phase, s.phase} \subseteq Phases \ {"idle", "submitting", "settled"}
  PROVE  TriesSound(s, t)
BY DEF TriesSound, Run

LEMMA ListedKeeps ==
  ASSUME XsInv, NEW o \in Operations, Listed(o)
  PROVE  XsInv'
<1>1. CASE Throws(o, "foreign key")
  BY <1>1, ThrowsKeeps DEF Listed, At, Outcomes
<1>2. CASE run' = [run EXCEPT ![o].phase = "collecting", ![o].codexPubs = codex,
                              ![o].left = Request(o).guards]
  <2> DEFINE r == [run[o] EXCEPT !.phase = "collecting", !.codexPubs = codex, !.left = Request(o).guards]
  <2>1. run[o] \in Run /\ Sound(run[o], tx[o]) /\ run[o].phase = "listing"
    BY DEF XsInv, Listed, At
  <2>2. run[o].request.guards \subseteq UNION {q.guards : q \in AnyRequest}
    <3>1. run[o].request \in AnyRequest
      BY <2>1 DEF Run
    <3> QED BY <3>1
  <2>3. r \in Run
    BY <2>1, <2>2 DEF Run, Phases, XsInv, Request
  <2>4. run' = [run EXCEPT ![o] = r]
    BY <1>2
  <2>5. /\ r.phase = "collecting" /\ r.left = r.request.guards /\ r.payer = run[o].payer /\ r.n = run[o].n
        /\ r.asked = run[o].asked /\ r.pureSigningPubs = run[o].pureSigningPubs
    BY <2>1 DEF Run, Request
  <2> HIDE DEF r
  <2>6. PayerSound(r) /\ AskedSound(r) /\ GuardsSound(r)
    BY <2>1, <2>5 DEF Sound, PayerSound, AskedSound, GuardsSound, HasPayer
  <2>7. TriesSound(r, tx[o])
    BY <2>1, <2>3, <2>5, TriesStay DEF Sound, Phases
  <2> QED BY <2>3, <2>4, <2>6, <2>7, RecordUpdate DEF Sound, Listed
<1> QED BY <1>1, <1>2 DEF Listed

LEMMA AnalyzeGuardKeeps ==
  ASSUME XsInv, NEW o \in Operations, AnalyzeGuard(o)
  PROVE  XsInv'
<1>g. PICK g \in run[o].left : \E needed \in Needed(o, g) :
        run' = [run EXCEPT ![o].left = @ \ {g},
                           ![o].wanted = (needed \cap CodexKeysOf(o, g)) \ run[o].pureSigningPubs,
                           ![o].pureSigningPubs = @ \cup (needed \ CodexKeysOf(o, g))]
  BY DEF AnalyzeGuard
<1>1. PICK needed \in Needed(o, g) :
        run' = [run EXCEPT ![o].left = @ \ {g},
                           ![o].wanted = (needed \cap CodexKeysOf(o, g)) \ run[o].pureSigningPubs,
                           ![o].pureSigningPubs = @ \cup (needed \ CodexKeysOf(o, g))]
  BY <1>g
<1> DEFINE mine == CodexKeysOf(o, g)
           r == [run[o] EXCEPT !.left = @ \ {g}, !.wanted = (needed \cap mine) \ run[o].pureSigningPubs,
                               !.pureSigningPubs = @ \cup (needed \ mine)]
<1>2. run[o] \in Run /\ Sound(run[o], tx[o]) /\ run[o].phase = "collecting" /\ run[o].wanted = {}
  BY DEF XsInv, AnalyzeGuard, At
<1>3. g.keys \in SUBSET Keys
  <2>1. PICK q \in AnyRequest : g \in q.guards
    BY <1>2 DEF Run
  <2> QED BY <2>1, RequestTypes
<1>4. needed \subseteq Keys
  BY <1>3 DEF Needed, FirstKeys, AvailableOf, Available, CodexKeys, ResolvedForeignKeys
<1>5. r \in Run
  BY <1>2, <1>4 DEF Run
<1>6. run' = [run EXCEPT ![o] = r]
  BY <1>1
<1>7. /\ r.phase = "collecting" /\ r.left = run[o].left \ {g} /\ r.payer = run[o].payer /\ r.n = run[o].n
      /\ r.asked = run[o].asked /\ r.codexPubs = run[o].codexPubs /\ r.request = run[o].request
      /\ r.wanted = (needed \cap mine) \ run[o].pureSigningPubs
      /\ r.pureSigningPubs = run[o].pureSigningPubs \cup (needed \ mine)
  BY <1>2 DEF Run
<1> HIDE DEF r
<1>8. /\ needed \subseteq r.pureSigningPubs \cup r.wanted /\ run[o].pureSigningPubs \subseteq r.pureSigningPubs
      /\ r.wanted \cap r.pureSigningPubs = {} /\ r.pureSigningPubs \cup r.wanted \subseteq Keys
      /\ run[o].pureSigningPubs \cup run[o].wanted \subseteq r.pureSigningPubs \cup r.wanted
  BY <1>2, <1>4, <1>7 DEF Run
<1>9. PayerSound(r) /\ AskedSound(r)
  BY <1>2, <1>7, <1>8 DEF Sound, PayerSound, AskedSound, HasPayer
<1>10. ASSUME NEW h \in r.request.guards \ r.left, Satisfied(h, r.codexPubs, r.request.pasted)
       PROVE  Enough(h, r.pureSigningPubs \cup r.wanted)
  <2>1. CASE h = g
    BY <1>3, <1>4, <1>7, <1>8, <1>10, <2>1, NeededSuffice, MoreCodexSigners DEF Request
  <2>2. CASE h # g
    <3>1. h \in run[o].request.guards \ run[o].left
      BY <1>7, <2>2
    <3>2. Enough(h, run[o].pureSigningPubs \cup run[o].wanted)
      BY <1>2, <1>7, <1>10, <3>1 DEF Sound, GuardsSound
    <3>3. h.keys \in SUBSET Keys
      BY <1>2, <3>1, RequestTypes DEF Run
    <3>4. run[o].pureSigningPubs \cup run[o].wanted \subseteq Keys
      BY <1>2 DEF Run
    <3> QED BY <1>8, <3>2, <3>3, <3>4, MoreCodexSigners
  <2> QED BY <2>1, <2>2
<1>11. GuardsSound(r)
  BY <1>7, <1>10 DEF GuardsSound, HasPayer
<1>12. TriesSound(r, tx[o])
  BY <1>2, <1>5, <1>7, TriesStay DEF Sound, Phases
<1> QED BY <1>5, <1>6, <1>9, <1>11, <1>12, RecordUpdate DEF Sound, AnalyzeGuard

LEMMA KeyResolvedKeeps ==
  ASSUME XsInv, NEW o \in Operations, NEW k \in Keys, KeyResolved(o, k)
  PROVE  XsInv'
<1> DEFINE r == [run[o] EXCEPT !.wanted = @ \ {k}, !.pureSigningPubs = @ \cup {k}, !.asked = Prompt(o, k)]
<1>1. run[o] \in Run /\ Sound(run[o], tx[o]) /\ run[o].phase = "collecting" /\ k \in run[o].wanted
  BY DEF XsInv, KeyResolved, At
<1>2. Prompt(o, k) \in [Keys -> Nat] /\ \A j \in Keys : Prompt(o, k)[j] = IF j = k THEN run[o].asked[k] + 1 ELSE run[o].asked[j]
  BY <1>1 DEF Run, Prompt
<1>3. r \in Run
  BY <1>1, <1>2 DEF Run
<1>4. run' = [run EXCEPT ![o] = r]
  BY DEF KeyResolved
<1>5. /\ r.phase = "collecting" /\ r.left = run[o].left /\ r.payer = run[o].payer /\ r.n = run[o].n
      /\ r.asked = Prompt(o, k) /\ r.codexPubs = run[o].codexPubs /\ r.request = run[o].request
      /\ r.wanted = run[o].wanted \ {k} /\ r.pureSigningPubs = run[o].pureSigningPubs \cup {k}
  BY <1>1 DEF Run
<1> HIDE DEF r
<1>6. run[o].asked[k] = 0
  BY <1>1 DEF Sound, AskedSound
<1>7. AskedSound(r)
  BY <1>1, <1>2, <1>5, <1>6 DEF Sound, AskedSound
<1>8. PayerSound(r)
  BY <1>1, <1>5 DEF Sound, PayerSound, HasPayer
<1>9. r.pureSigningPubs \cup r.wanted = run[o].pureSigningPubs \cup run[o].wanted
  BY <1>1, <1>5
<1>10. GuardsSound(r)
  BY <1>1, <1>5, <1>9 DEF Sound, GuardsSound, HasPayer
<1>11. TriesSound(r, tx[o])
  BY <1>1, <1>3, <1>5, TriesStay DEF Sound, Phases
<1> QED BY <1>3, <1>4, <1>7, <1>8, <1>10, <1>11, RecordUpdate DEF Sound, KeyResolved

LEMMA SelectCapsKeeps ==
  ASSUME XsInv, NEW o \in Operations, SelectCaps(o)
  PROVE  XsInv'
<1>1. run[o] \in Run /\ Sound(run[o], tx[o]) /\ run[o].phase = "collecting"
  BY DEF XsInv, SelectCaps, At
<1>2. CASE Throws(o, "payer")
  BY <1>1, <1>2, ThrowsKeeps DEF SelectCaps, Outcomes
<1>3. CASE \E k \in CapsKeys(o) : run' = [run EXCEPT ![o].phase = "payer", ![o].payer = k]
  <2>1. PICK k \in CapsKeys(o) : run' = [run EXCEPT ![o].phase = "payer", ![o].payer = k]
    BY <1>3
  <2> DEFINE r == [run[o] EXCEPT !.phase = "payer", !.payer = k]
  <2>2. k \in Keys /\ k \notin run[o].pureSigningPubs
    BY <1>1 DEF CapsKeys, FreeKeys, Run
  <2>3. r \in Run
    BY <1>1, <2>2 DEF Run, Phases
  <2>4. run' = [run EXCEPT ![o] = r]
    BY <2>1
  <2>5. /\ r.phase = "payer" /\ r.payer = k /\ r.n = run[o].n /\ r.asked = run[o].asked
        /\ r.codexPubs = run[o].codexPubs /\ r.request = run[o].request
        /\ r.pureSigningPubs = run[o].pureSigningPubs
    BY <1>1 DEF Run
  <2> HIDE DEF r
  <2>6. PayerSound(r) /\ AskedSound(r)
    BY <1>1, <2>2, <2>5 DEF Sound, PayerSound, AskedSound, HasPayer
  <2>7. run[o].pureSigningPubs \cup run[o].wanted = r.pureSigningPubs /\ run[o].left = {}
    BY <2>5 DEF SelectCaps
  <2>8. GuardsSound(r)
    BY <1>1, <2>5, <2>7 DEF Sound, GuardsSound, HasPayer
  <2>9. TriesSound(r, tx[o])
    BY <1>1, <2>3, <2>5, TriesStay DEF Sound, Phases
  <2> QED BY <2>3, <2>4, <2>6, <2>8, <2>9, RecordUpdate DEF Sound, SelectCaps
<1> QED BY <1>2, <1>3 DEF SelectCaps

LEMMA PayerResolvedKeeps ==
  ASSUME XsInv, NEW o \in Operations, PayerResolved(o)
  PROVE  XsInv'
<1> DEFINE k == run[o].payer
           r == [run[o] EXCEPT !.phase = "simulating", !.asked = Prompt(o, k)]
<1>1. run[o] \in Run /\ Sound(run[o], tx[o]) /\ run[o].phase = "payer" /\ k \in Keys
  BY DEF XsInv, PayerResolved, At
<1>2. Prompt(o, k) \in [Keys -> Nat] /\ \A j \in Keys : Prompt(o, k)[j] = IF j = k THEN run[o].asked[k] + 1 ELSE run[o].asked[j]
  BY <1>1 DEF Run, Prompt
<1>3. r \in Run
  BY <1>1, <1>2 DEF Run, Phases
<1>4. run' = [run EXCEPT ![o] = r]
  BY DEF PayerResolved
<1>5. /\ r.phase = "simulating" /\ r.payer = k /\ r.n = run[o].n /\ r.asked = Prompt(o, k)
      /\ r.codexPubs = run[o].codexPubs /\ r.request = run[o].request
      /\ r.pureSigningPubs = run[o].pureSigningPubs
  BY <1>1 DEF Run
<1> HIDE DEF r
<1>6. run[o].asked[k] = 0
  BY <1>1, KeysAssumption DEF Sound, AskedSound, PayerSound
<1>7. AskedSound(r)
  BY <1>1, <1>2, <1>5, <1>6 DEF Sound, AskedSound, ProvidedIn
<1>8. PayerSound(r) /\ GuardsSound(r)
  BY <1>1, <1>5 DEF Sound, PayerSound, GuardsSound, HasPayer
<1>9. TriesSound(r, tx[o])
  BY <1>1, <1>3, <1>5, TriesStay DEF Sound, Phases
<1> QED BY <1>3, <1>4, <1>7, <1>8, <1>9, RecordUpdate DEF Sound, PayerResolved

LEMMA SimulationAnsweredKeeps ==
  ASSUME XsInv, NEW o \in Operations, NEW met, SimulationAnsweredIf(o, met)
  PROVE  XsInv'
<1>1. run[o] \in Run /\ Sound(run[o], tx[o]) /\ run[o].phase = "simulating"
  BY DEF XsInv, SimulationAnsweredIf, At
<1>2. CASE Throws(o, "simulation")
  BY <1>1, <1>2, ThrowsKeeps DEF SimulationAnsweredIf, Outcomes
<1>3. CASE ~Throws(o, "simulation")
  <2> DEFINE unresolved == IF Request(o).canAsk THEN Signers(o) \ Provided(o) ELSE {}
             r == [run[o] EXCEPT !.phase = "signing", !.missing = unresolved]
  <2>1. run' = [run EXCEPT ![o] = r]
    BY <1>3 DEF SimulationAnsweredIf
  <2>2. Provided(o) = ProvidedIn(run[o]) /\ Signers(o) = SignersIn(run[o])
    BY DEF Provided, Signers, ProvidedIn, SignersIn, Request
  <2>3. unresolved \subseteq Keys \ ProvidedIn(run[o])
    <3>1. run[o].request.others \subseteq Keys
      BY <1>1, RequestTypes DEF Run
    <3> QED BY <2>2, <3>1 DEF SignersIn
  <2> HIDE DEF unresolved
  <2>4. r \in Run
    BY <1>1, <2>3 DEF Run, Phases
  <2>5. /\ r.phase = "signing" /\ r.payer = run[o].payer /\ r.n = run[o].n /\ r.asked = run[o].asked
        /\ r.codexPubs = run[o].codexPubs /\ r.request = run[o].request
        /\ r.pureSigningPubs = run[o].pureSigningPubs /\ r.missing = unresolved
    BY <1>1 DEF Run
  <2> HIDE DEF r
  <2>6. PayerSound(r)
    BY <1>1, <2>5 DEF Sound, PayerSound, HasPayer
  <2>7. AskedSound(r)
    BY <1>1, <2>3, <2>5 DEF Sound, AskedSound
  <2>8. GuardsSound(r)
    BY <1>1, <2>5 DEF Sound, GuardsSound, HasPayer
  <2>9. TriesSound(r, tx[o])
    BY <1>1, <2>4, <2>5, TriesStay DEF Sound, Phases
  <2> QED BY <2>1, <2>4, <2>6, <2>7, <2>8, <2>9, RecordUpdate DEF Sound, SimulationAnsweredIf
<1> QED BY <1>2, <1>3

LEMMA ForeignKeyGivenKeeps ==
  ASSUME XsInv, NEW o \in Operations, NEW k \in Keys, ForeignKeyGiven(o, k)
  PROVE  XsInv'
<1> DEFINE r == [run[o] EXCEPT !.missing = @ \ {k}, !.asked = Prompt(o, k)]
<1>1. run[o] \in Run /\ Sound(run[o], tx[o]) /\ run[o].phase = "signing" /\ k \in run[o].missing
  BY DEF XsInv, ForeignKeyGiven, At
<1>2. Prompt(o, k) \in [Keys -> Nat] /\ \A j \in Keys : Prompt(o, k)[j] = IF j = k THEN run[o].asked[k] + 1 ELSE run[o].asked[j]
  BY <1>1 DEF Run, Prompt
<1>3. r \in Run
  BY <1>1, <1>2 DEF Run
<1>4. run' = [run EXCEPT ![o] = r]
  BY DEF ForeignKeyGiven
<1>5. /\ r.phase = "signing" /\ r.payer = run[o].payer /\ r.n = run[o].n /\ r.asked = Prompt(o, k)
      /\ r.codexPubs = run[o].codexPubs /\ r.request = run[o].request
      /\ r.pureSigningPubs = run[o].pureSigningPubs /\ r.missing = run[o].missing \ {k}
  BY <1>1 DEF Run
<1> HIDE DEF r
<1>6. run[o].missing \subseteq Keys
  BY <1>1 DEF Run
<1>7. AskedSound(r)
  BY <1>1, <1>2, <1>5, <1>6 DEF Sound, AskedSound
<1>8. PayerSound(r) /\ GuardsSound(r)
  BY <1>1, <1>5 DEF Sound, PayerSound, GuardsSound, HasPayer
<1>9. TriesSound(r, tx[o])
  BY <1>1, <1>3, <1>5, TriesStay DEF Sound, Phases
<1> QED BY <1>3, <1>4, <1>7, <1>8, <1>9, RecordUpdate DEF Sound, ForeignKeyGiven

(* The submit is the one step of execute that changes a transaction.       *)
LEMMA SubmitKeeps ==
  ASSUME XsInv, NEW o \in Operations, Submit(o)
  PROVE  XsInv'
<1> DEFINE r == [run[o] EXCEPT !.phase = "submitting"]
           complete == Signatures(o) = Signers(o)
           t == [tx[o] EXCEPT ![run[o].n] = IF complete THEN "sent" ELSE "incomplete"]
<1>1. run[o] \in Run /\ Sound(run[o], tx[o]) /\ run[o].phase = "signing"
  BY DEF XsInv, Submit, At
<1>2. r \in Run
  BY <1>1 DEF Run, Phases
<1>3. run' = [run EXCEPT ![o] = r] /\ tx' = [tx EXCEPT ![o] = t] /\ UNCHANGED codex
  BY DEF Submit
<1>4. tx[o] \in [1..MaxRuns -> TxStates] /\ run[o].n \in 1..MaxRuns
  BY <1>1 DEF XsInv, Sound, TriesSound
<1>5. t \in [1..MaxRuns -> TxStates]
  BY <1>4 DEF TxStates
<1>6. \A m \in 1..MaxRuns \ {run[o].n} : t[m] = tx[o][m]
  BY <1>4
<1>7. /\ r.phase = "submitting" /\ r.payer = run[o].payer /\ r.n = run[o].n /\ r.asked = run[o].asked
      /\ r.codexPubs = run[o].codexPubs /\ r.request = run[o].request
      /\ r.pureSigningPubs = run[o].pureSigningPubs
  BY <1>1 DEF Run
<1>8. PayerSound(r) /\ AskedSound(r) /\ GuardsSound(r)
  BY <1>1, <1>7 DEF Sound, PayerSound, AskedSound, GuardsSound, HasPayer
<1>9. ~complete => ~r.request.canAsk /\ ~(r.request.others \subseteq ProvidedIn(r))
  BY <1>7 DEF Signatures, Signers, Provided, Request, ProvidedIn
<1>10. t[r.n] = "incomplete" => ~complete
  BY <1>4, <1>7
<1> HIDE DEF r, t, complete
<1>11. ASSUME NEW m \in 1..MaxRuns
       PROVE  (m > r.n => t[m] = "none") /\ (m < r.n => t[m] \in {"none", "lost"})
  <2>1. (m > r.n => tx[o][m] = "none") /\ (m < r.n => tx[o][m] \in {"none", "lost"})
    BY <1>1, <1>7 DEF Sound, TriesSound
  <2>2. CASE m = r.n
    BY <1>4, <1>7, <2>2
  <2>3. CASE m # r.n
    BY <1>6, <1>7, <2>1, <2>3
  <2> QED BY <2>2, <2>3
<1>12. TriesSound(r, t)
  BY <1>4, <1>7, <1>9, <1>10, <1>11 DEF TriesSound
<1>13. ASSUME NEW d \in Operations PROVE Sound(run'[d], tx'[d])
  <2>1. CASE d = o
    <3>1. run'[d] = r /\ tx'[d] = t
      BY <1>3, <2>1 DEF XsInv
    <3> QED BY <1>8, <1>12, <3>1 DEF Sound
  <2>2. CASE d # o
    <3>1. run'[d] = run[d] /\ tx'[d] = tx[d]
      BY <1>3, <2>2 DEF XsInv
    <3> QED BY <3>1 DEF XsInv
  <2> QED BY <2>1, <2>2
<1>14. run' \in [Operations -> Run] /\ tx' \in [Operations -> [1..MaxRuns -> TxStates]]
  BY <1>2, <1>3, <1>5 DEF XsInv
<1> QED BY <1>3, <1>13, <1>14 DEF XsInv

LEMMA SubmitAnsweredKeeps ==
  ASSUME XsInv, NEW o \in Operations, SubmitAnswered(o)
  PROVE  XsInv'
<1>1. run[o].phase = "submitting" /\ Throws(o, "ok") /\ UNCHANGED <<codex, tx>>
  BY DEF SubmitAnswered, At, Throws
<1> QED BY <1>1, ThrowsKeeps DEF Outcomes, BeforeSubmit

(* Steps that end the call, for one reason or another.                     *)
LEMMA FailureKeeps ==
  ASSUME XsInv, NEW o \in Operations,
         \/ KeyThrows(o) \/ SigningThrows(o) \/ SimulationTimesOut(o)
         \/ SubmitThrows(o) \/ SubmitTimesOut(o)
  PROVE  XsInv'
<1>1. CASE KeyThrows(o)
  BY <1>1, ThrowsKeeps DEF KeyThrows, At, Outcomes
<1>2. CASE SigningThrows(o)
  BY <1>2, ThrowsKeeps DEF SigningThrows, At, Outcomes
<1>3. CASE SimulationTimesOut(o)
  BY <1>3, ThrowsKeeps DEF SimulationTimesOut, At, Outcomes
<1>4. CASE SubmitThrows(o)
  BY <1>4, ThrowsKeeps DEF SubmitThrows, At, Outcomes, BeforeSubmit
<1>5. CASE SubmitTimesOut(o)
  BY <1>5, ThrowsKeeps DEF SubmitTimesOut, At, Outcomes, BeforeSubmit
<1> QED BY <1>1, <1>2, <1>3, <1>4, <1>5

(* The fate of a transaction: one that was not sent, or is lost, stays so, *)
(* and none turns out to lack signatures later.                            *)
LEMMA TxMovesKeeps ==
  ASSUME XsInv, NEW o \in Operations, NEW n \in 1..MaxRuns, TxMoves(o, n)
  PROVE  XsInv'
<1>1. PICK fate \in {"mempool", "lost", "mined"} :
        tx' = [tx EXCEPT ![o][n] = fate] /\ tx[o][n] \notin {"none", "lost"}
  BY DEF TxMoves
<1>2. run[o] \in Run /\ Sound(run[o], tx[o]) /\ tx[o] \in [1..MaxRuns -> TxStates] /\ UNCHANGED <<codex, run>>
  BY DEF XsInv, TxMoves
<1> DEFINE t == [tx[o] EXCEPT ![n] = fate]
<1>3. t \in [1..MaxRuns -> TxStates] /\ t[n] = fate /\ \A m \in 1..MaxRuns \ {n} : t[m] = tx[o][m]
  BY <1>2 DEF TxStates
<1>4. tx' = [tx EXCEPT ![o] = t]
  BY <1>1
<1> HIDE DEF t
<1>5. \A m \in 1..MaxRuns : tx[o][m] \in {"none", "lost"} => t[m] = tx[o][m]
  BY <1>1, <1>3
<1>6. \A m \in 1..MaxRuns : t[m] = "incomplete" => tx[o][m] = "incomplete"
  BY <1>3
<1>7. TriesSound(run[o], t)
  <2>1. TriesSound(run[o], tx[o]) /\ run[o].n \in 0..MaxRuns
    BY <1>2 DEF Sound, Run
  <2>2. CASE run[o].phase = "idle"
    BY <1>5, <2>1, <2>2 DEF TriesSound, Phases
  <2>3. CASE run[o].phase # "idle"
    <3>1. run[o].n \in 1..MaxRuns
      BY <2>1, <2>3 DEF TriesSound
    <3> QED BY <1>5, <1>6, <2>1, <2>3, <3>1 DEF TriesSound
  <2> QED BY <2>2, <2>3
<1>8. ASSUME NEW d \in Operations PROVE Sound(run'[d], tx'[d])
  <2>1. CASE d = o
    <3>1. run'[d] = run[o] /\ tx'[d] = t
      BY <1>2, <1>4, <2>1 DEF XsInv
    <3> QED BY <1>2, <1>7, <3>1 DEF Sound
  <2>2. CASE d # o
    <3>1. run'[d] = run[d] /\ tx'[d] = tx[d]
      BY <1>2, <1>4, <2>2 DEF XsInv
    <3> QED BY <3>1 DEF XsInv
  <2> QED BY <2>1, <2>2
<1>9. tx' \in [Operations -> [1..MaxRuns -> TxStates]]
  BY <1>3, <1>4 DEF XsInv
<1> QED BY <1>2, <1>8, <1>9 DEF XsInv

LEMMA CodexChangesKeeps ==
  ASSUME XsInv, NEW k \in Keys, CodexChanges(k)
  PROVE  XsInv'
BY DEF XsInv, CodexChanges

LEMMA XsStepKeeps == XsInv /\ [XsNext]_signingVars => XsInv'
<1> SUFFICES ASSUME XsInv, [XsNext]_signingVars PROVE XsInv'
  OBVIOUS
<1>1. CASE UNCHANGED signingVars
  BY <1>1 DEF XsInv, signingVars
<1>2. ASSUME NEW k \in Keys, CodexChanges(k) PROVE XsInv'
  BY <1>2, CodexChangesKeeps
<1>3. ASSUME NEW o \in Operations, NEW n \in 1..MaxRuns, TxMoves(o, n) PROVE XsInv'
  BY <1>3, TxMovesKeeps
<1>4. ASSUME NEW o \in Operations, NEW q \in Requests, Execute(o, q) PROVE XsInv'
  BY <1>4, ExecuteKeeps DEF AnyRequest
<1>5. ASSUME NEW o \in Operations, Resolver(o) PROVE XsInv'
  BY <1>5, ListedKeeps, FailureKeeps, PayerResolvedKeeps, KeyResolvedKeeps, ForeignKeyGivenKeeps DEF Resolver
<1>6. ASSUME NEW o \in Operations, Local(o) PROVE XsInv'
  BY <1>6, AnalyzeGuardKeeps, SelectCapsKeeps, SubmitKeeps DEF Local
<1>7. ASSUME NEW o \in Operations, SimulationAnswered(o) \/ SubmitAnswered(o) PROVE XsInv'
  BY <1>7, SimulationAnsweredKeeps, SubmitAnsweredKeeps DEF SimulationAnswered
<1>8. ASSUME NEW o \in Operations, SimulationTimesOut(o) \/ SubmitThrows(o) \/ SubmitTimesOut(o) PROVE XsInv'
  BY <1>8, FailureKeeps
<1> QED BY <1>1, <1>2, <1>3, <1>4, <1>5, <1>6, <1>7, <1>8 DEF XsNext

LEMMA XsSafety == XsSpec => []XsInv
<1> QED BY XsInitEstablishes, XsStepKeeps, PTL DEF XsSpec

-----------------------------------------------------------------------------
(* The properties.                                                         *)

LEMMA OnlyTheLastIsMined ==
  ASSUME XsInv, NEW o \in Operations, NEW m \in 1..MaxRuns, tx[o][m] = "mined"
  PROVE  m = run[o].n
<1>1. run[o] \in Run /\ TriesSound(run[o], tx[o])
  BY DEF XsInv, Sound
<1>2. run[o].n \in 0..MaxRuns
  BY <1>1 DEF Run
<1>3. ~(m > run[o].n) /\ ~(m < run[o].n)
  BY <1>1 DEF TriesSound
<1> QED BY <1>2, <1>3, RunsAssumption

LEMMA XsInvSuffices ==
  XsInv => XsTypeOK /\ PayerApart /\ AskedOnce /\ GuardsMet /\ FullySigned /\ LandsOnce
<1> SUFFICES ASSUME XsInv
             PROVE  XsTypeOK /\ PayerApart /\ AskedOnce /\ GuardsMet /\ FullySigned /\ LandsOnce
  OBVIOUS
<1>1. XsTypeOK
  BY DEF XsInv, XsTypeOK, Run, Phases, TxStates, Sound, PayerSound, HasPayer
<1>2. PayerApart
  BY DEF XsInv, PayerApart, Sound, PayerSound
<1>3. AskedOnce
  BY DEF XsInv, AskedOnce, Sound, AskedSound
<1>4. GuardsMet
  <2> SUFFICES ASSUME NEW o \in Operations, run[o].phase \in HasPayer,
                      NEW g \in run[o].request.guards, ~Undersized(g),
                      Satisfied(g, run[o].codexPubs, run[o].request.pasted)
               PROVE  MetBy(g, run[o].pureSigningPubs)
    BY DEF GuardsMet, Request, HasPayer
  <2>1. run[o].request \in AnyRequest /\ Enough(g, run[o].pureSigningPubs)
    BY DEF XsInv, Run, Sound, GuardsSound
  <2>2. g.keys \in SUBSET Keys
    BY <2>1, RequestTypes
  <2> QED BY <2>1, <2>2, EnoughIsMet
<1>5. FullySigned
  BY DEF XsInv, FullySigned, At, Tx, Request, Provided, ProvidedIn, Sound, TriesSound
<1>6. LandsOnce
  BY OnlyTheLastIsMined DEF LandsOnce
<1> QED BY <1>1, <1>2, <1>3, <1>4, <1>5, <1>6

(* The locals of execute have their types, and from the simulation on      *)
(* there is a payer.                                                       *)
THEOREM SigningTypes == XsSpec => []XsTypeOK
BY XsInvSuffices, XsSafety, PTL

(* The key that signs for the gas signs for no guard, whatever the codex,  *)
(* the guards and the keys pasted.                                         *)
THEOREM PayerSignsForGasOnly == XsSpec => []PayerApart
BY XsInvSuffices, XsSafety, PTL

(* The user is prompted at most once for any key in a call of execute.     *)
THEOREM NobodyAskedTwice == XsSpec => []AskedOnce
BY XsInvSuffices, XsSafety, PTL

(* Every guard that codex and pasted keys can satisfy is met on chain by   *)
(* the signers collected, however many guards share keys and whatever the  *)
(* predicates, if the guard has the keys that its predicate counts.        *)
THEOREM GuardsAreMet == XsSpec => []GuardsMet
BY XsInvSuffices, XsSafety, PTL

(* A transaction lacks a signature only for a signer that the build added  *)
(* and nobody could be asked for.                                          *)
THEOREM SentFullySigned == XsSpec => []FullySigned
BY XsInvSuffices, XsSafety, PTL

(* No operation is done twice by a consumer that starts again when nothing *)
(* was submitted or the transaction is lost, however often it does.        *)
THEOREM OperationsLandOnce == XsSpec => []LandsOnce
BY XsInvSuffices, XsSafety, PTL

-----------------------------------------------------------------------------
(* SmartAccount: the call of execute for a chosen path.                    *)

Auth == [keysets : SUBSET Keysets, pasted : SUBSET Keys, holds : BOOLEAN]

(* The keyset is one that the account's guards ask for.                    *)
OfPath(a, ks) ==
  \E i \in Paths : /\ classifyGuardKind(a[i]) \in {"keyset", "keyset-ref"}
                   /\ ks = extractKeysetFromGuard(a[i])

(* How far execute is with the keyset of a path found satisfied: what can  *)
(* satisfy it is in the codex, then in codexPubs, then collected.          *)
KeysetSound(r, ks, u, keys) ==
  /\ r.phase = "idle" => u.keysets = {ks} /\ Satisfied(ks, keys, u.pasted)
  /\ r.phase # "idle" => r.request.guards = {ks}
  /\ r.phase = "listing" => Satisfied(ks, keys, r.request.pasted)
  /\ r.phase = "collecting" => /\ r.left \subseteq {ks}
                               /\ Satisfied(ks, r.codexPubs, r.request.pasted)
                               /\ ks \notin r.left => Enough(ks, r.pureSigningPubs \cup r.wanted)
  /\ r.phase \in HasPayer => Enough(ks, r.pureSigningPubs)

PathSound(r, a, u, keys) ==
  /\ r.phase # "idle" => u.keysets = {}
  /\ a = NoAccount => u.keysets = {} /\ ~u.holds
  /\ u.holds => \E ks \in Keysets : OfPath(a, ks) /\ KeysetSound(r, ks, u, keys)

SmartInv ==
  /\ codex \subseteq Keys
  /\ run \in [Operations -> Run]
  /\ account \in [Operations -> Accounts \cup {NoAccount}]
  /\ auth \in [Operations -> Auth]
  /\ \A o \in Operations : PathSound(run[o], account[o], auth[o], codex)

(* Keys that come into the codex leave what could be satisfied satisfied.  *)
LEMMA MoreCodexKeys ==
  ASSUME NEW ks \in Keysets, NEW S, NEW T, NEW pasted, S \subseteq T,
         Satisfied(ks, S, pasted)
  PROVE  Satisfied(ks, T, pasted)
<1>1. IsFiniteSet(ks.keys) /\ GuardThreshold(ks) \in Int
  BY KeysAssumption, FS_Subset, GuardThresholdBounded DEF Keysets
<1> DEFINE A == Available(ks, S, pasted)
           B == Available(ks, T, pasted)
<1>2. A \subseteq B /\ B \subseteq ks.keys
  BY DEF Available, CodexKeys, ResolvedForeignKeys
<1> HIDE DEF A, B
<1>3. IsFiniteSet(B) /\ IsFiniteSet(A)
  BY <1>1, <1>2, FS_Subset
<1>4. Cardinality(A) <= Cardinality(B) /\ Cardinality(A) \in Nat /\ Cardinality(B) \in Nat
  BY <1>2, <1>3, FS_Subset, FS_CardinalityType
<1> QED BY <1>1, <1>4 DEF Satisfied, A, B

(* firstSatisfied is -1 only when nothing is satisfied, and else the first *)
(* of the satisfied paths.                                                 *)
LEMMA FirstIsLeast ==
  ASSUME NEW S \in SUBSET Paths
  PROVE  /\ First(S) = 0 <=> S = {}
         /\ First(S) # 0 => First(S) \in S
         /\ \A j \in S : First(S) <= j
<1>1. \A j \in S : j \in {1, 2, 3}
  BY DEF Paths
<1>2. CASE S = {}
  BY <1>2 DEF First
<1>3. CASE 1 \in S
  BY <1>1, <1>3 DEF First
<1>4. CASE 1 \notin S /\ 2 \in S
  BY <1>1, <1>4 DEF First
<1>5. CASE 1 \notin S /\ 2 \notin S /\ S # {}
  BY <1>1, <1>5 DEF First
<1> QED BY <1>2, <1>3, <1>4, <1>5

(* A guard fetched that is signed for by keys is one of the account, with  *)
(* its keys, if not always by its kind.                                    *)
LEMMA FetchedIsOfPath ==
  ASSUME NEW a \in Accounts, NEW i \in Paths, NEW g \in Fetched(a[i]), KeyBased(g)
  PROVE  OfPath(a, extractKeysetFromGuard(g)) /\ extractKeysetFromGuard(g) \in Keysets
<1>1. a[i] \in RawGuard
  BY AccountsAssumption
<1>2. g # Null
  BY DEF KeyBased, classifyGuardKind, Null
<1>3. CASE g = a[i]
  BY <1>1, <1>3 DEF OfPath, KeyBased, extractKeysetFromGuard, Keysets, RawGuard
<1>4. CASE "keysetref" \in a[i].fields /\ g = [a[i] EXCEPT !.fields = {"pred", "keys"}]
  <2>1. classifyGuardKind(a[i]) = "keyset-ref"
    BY <1>4, OneKindAssumption
  <2>2. g.keys = a[i].keys /\ g.pred = a[i].pred
    BY <1>1, <1>4 DEF RawGuard
  <2> QED BY <1>1, <2>1, <2>2 DEF OfPath, extractKeysetFromGuard, Keysets, RawGuard
<1>5. g = a[i] \/ ("keysetref" \in a[i].fields /\ g = [a[i] EXCEPT !.fields = {"pred", "keys"}])
  BY <1>2 DEF Fetched, resolveGuard, normalizeKeysetRef
<1> QED BY <1>3, <1>4, <1>5

LEMMA FetchedTypes ==
  ASSUME NEW a \in Accounts, NEW i \in Paths, NEW g \in Fetched(a[i])
  PROVE  extractKeysetFromGuard(g) \in Keysets
<1>1. a[i] \in RawGuard
  BY AccountsAssumption
<1>2. g.keys \in SUBSET Keys /\ g.pred \in StandardPredicates \cup StoicPredicates \cup {"another"}
  BY <1>1 DEF Fetched, resolveGuard, normalizeKeysetRef, Null, RawGuard
<1> QED BY <1>2 DEF extractKeysetFromGuard, Keysets

LEMMA SmartInitEstablishes == SmartInit => SmartInv
<1> SUFFICES ASSUME SmartInit PROVE SmartInv
  OBVIOUS
<1>1. NoAuth \in Auth /\ NoAuth.keysets = {} /\ ~NoAuth.holds
  BY DEF NoAuth, Auth
<1>2. auth = [o \in Operations |-> NoAuth] /\ run = [o \in Operations |-> Idle] /\ codex \subseteq Keys
  BY DEF SmartInit, XsInit
<1> HIDE DEF NoAuth
<1> QED BY <1>1, <1>2, IdleTypes DEF SmartInv, SmartInit, PathSound

(* A step of execute, or one of the analysis, changes what belongs to one  *)
(* operation.                                                              *)
LEMMA OneRunChanges ==
  ASSUME SmartInv, NEW o \in Operations, NEW r \in Run, run' = [run EXCEPT ![o] = r],
         PathSound(r, account[o], auth[o], codex), UNCHANGED <<codex, account, auth>>
  PROVE  SmartInv'
<1>1. run' \in [Operations -> Run] /\ run'[o] = r /\ \A d \in Operations \ {o} : run'[d] = run[d]
  BY DEF SmartInv
<1>2. ASSUME NEW d \in Operations PROVE PathSound(run'[d], account'[d], auth'[d], codex')
  <2>1. CASE d = o
    BY <1>1, <2>1
  <2>2. CASE d # o
    BY <1>1, <2>2 DEF SmartInv
  <2> QED BY <2>1, <2>2
<1> QED BY <1>1, <1>2 DEF SmartInv

LEMMA OneAuthChanges ==
  ASSUME SmartInv, NEW o \in Operations, NEW u \in Auth, auth' = [auth EXCEPT ![o] = u],
         PathSound(run[o], account[o], u, codex), UNCHANGED <<codex, run, account>>
  PROVE  SmartInv'
<1>1. auth' \in [Operations -> Auth] /\ auth'[o] = u /\ \A d \in Operations \ {o} : auth'[d] = auth[d]
  BY DEF SmartInv
<1>2. ASSUME NEW d \in Operations PROVE PathSound(run'[d], account'[d], auth'[d], codex')
  <2>1. CASE d = o
    BY <1>1, <2>1
  <2>2. CASE d # o
    BY <1>1, <2>2 DEF SmartInv
  <2> QED BY <2>1, <2>2
<1> QED BY <1>1, <1>2 DEF SmartInv

(* A step of execute after its first keeps the request; it keeps PathSound *)
(* when it takes the keyset from one phase to the next.                    *)
LEMMA PathSoundStays ==
  ASSUME NEW r \in Run, NEW s \in Run, NEW a, NEW u, NEW keys,
         PathSound(r, a, u, keys), r.phase # "idle", s.phase # "idle",
         \A ks \in Keysets : KeysetSound(r, ks, u, keys) => KeysetSound(s, ks, u, keys)
  PROVE  PathSound(s, a, u, keys)
BY DEF PathSound

LEMMA SmartThrowsKeeps ==
  ASSUME SmartInv, NEW o \in Operations, NEW why \in Outcomes, Throws(o, why),
         run[o].phase # "idle", UNCHANGED <<codex, account, auth>>
  PROVE  SmartInv'
<1> DEFINE r == [run[o] EXCEPT !.phase = "settled", !.outcome = why]
<1>1. run[o] \in Run /\ PathSound(run[o], account[o], auth[o], codex)
  BY DEF SmartInv
<1>2. r \in Run /\ run' = [run EXCEPT ![o] = r] /\ r.phase = "settled" /\ r.request = run[o].request
  BY <1>1 DEF Run, Phases, Throws
<1> HIDE DEF r
<1>3. PathSound(r, account[o], auth[o], codex)
  BY <1>1, <1>2, PathSoundStays DEF KeysetSound, HasPayer
<1> QED BY <1>2, <1>3, OneRunChanges

(* The analysis and the consumer.                                          *)

LEMMA AnalyseKeeps ==
  ASSUME SmartInv, NEW o \in Operations, Analyse(o)
  PROVE  SmartInv'
<1> DEFINE pasted == auth[o].pasted
           Chosen(guards, i, sat) ==
             [keysets |-> IF i = 0 THEN {} ELSE {extractKeysetFromGuard(guards[i])},
              pasted |-> pasted, holds |-> sat # 0]
<1>1. PICK guards \in [Paths -> UNION {Fetched(account[o][i]) : i \in Paths}] :
        LET sat == firstSatisfied(guards, codex, pasted)
            open == firstSignableButUnsatisfied(guards, codex, pasted)
        IN /\ \A i \in Paths : guards[i] \in Fetched(account[o][i])
           /\ auth' = [auth EXCEPT ![o] = Chosen(guards, IF sat # 0 THEN sat ELSE open, sat)]
  BY DEF Analyse
<1> DEFINE sat == firstSatisfied(guards, codex, pasted)
           open == firstSignableButUnsatisfied(guards, codex, pasted)
           n == IF sat # 0 THEN sat ELSE open
           u == Chosen(guards, n, sat)
<1>2. /\ account[o] \in Accounts /\ auth[o] \in Auth /\ run[o].phase = "idle"
      /\ UNCHANGED <<codex, run, account>>
  BY DEF SmartInv, Analyse, IsSmart, At, signingVars
<1>3. sat # 0 => sat \in SatisfiedPaths(guards, codex, pasted)
  BY FirstIsLeast DEF firstSatisfied, SatisfiedPaths
<1>4. open # 0 => open \in Paths
  BY FirstIsLeast DEF firstSignableButUnsatisfied, SignablePaths
<1>5. /\ u.keysets = IF n = 0 THEN {} ELSE {extractKeysetFromGuard(guards[n])}
      /\ u.pasted = pasted /\ u.holds = (sat # 0) /\ auth' = [auth EXCEPT ![o] = u]
  BY <1>1
<1>6. n # 0 => n \in Paths
  BY <1>3, <1>4 DEF SatisfiedPaths
<1>7. \A i \in Paths : guards[i] \in Fetched(account[o][i])
  BY <1>1
<1>8. n # 0 => extractKeysetFromGuard(guards[n]) \in Keysets
  BY <1>2, <1>6, <1>7, FetchedTypes
<1>9. u \in Auth
  BY <1>2, <1>8 DEF Auth
<1> HIDE DEF u, open
<1>10. ASSUME u.holds
       PROVE  \E ks \in Keysets : OfPath(account[o], ks) /\ KeysetSound(run[o], ks, u, codex)
  <2> DEFINE ks == extractKeysetFromGuard(guards[sat])
  <2>1. sat # 0 /\ n = sat /\ sat \in Paths /\ KeyBased(guards[sat]) /\ Satisfied(ks, codex, pasted)
    BY <1>3, <1>5, <1>10 DEF SatisfiedPaths
  <2>2. OfPath(account[o], ks) /\ ks \in Keysets
    BY <1>2, <1>7, <2>1, FetchedIsOfPath
  <2>3. KeysetSound(run[o], ks, u, codex)
    BY <1>2, <1>5, <2>1 DEF KeysetSound, HasPayer
  <2> QED BY <2>2, <2>3
<1>11. account[o] # NoAccount
  BY <1>2, AccountsAssumption
<1>12. PathSound(run[o], account[o], u, codex)
  BY <1>2, <1>10, <1>11 DEF PathSound
<1> QED BY <1>2, <1>5, <1>9, <1>12, OneAuthChanges

LEMMA KeyPastedKeeps ==
  ASSUME SmartInv, NEW o \in Operations, NEW k \in Keys, KeyPasted(o, k)
  PROVE  SmartInv'
<1> DEFINE u == [NoAuth EXCEPT !.pasted = auth[o].pasted \cup {k}]
<1>1. auth[o] \in Auth /\ UNCHANGED <<codex, run, account>> /\ auth' = [auth EXCEPT ![o] = u]
  BY DEF SmartInv, KeyPasted, signingVars
<1>2. u \in Auth /\ u.keysets = {} /\ ~u.holds
  BY <1>1 DEF NoAuth, Auth
<1> HIDE DEF u
<1> QED BY <1>1, <1>2, OneAuthChanges DEF PathSound

LEMMA ExecutePathKeeps ==
  ASSUME SmartInv, NEW o \in Operations, NEW canAsk \in BOOLEAN, ExecutePath(o, canAsk)
  PROVE  SmartInv'
<1> DEFINE q == [NoRequest EXCEPT !.guards = auth[o].keysets, !.pasted = auth[o].pasted, !.canAsk = canAsk]
           r == [Idle EXCEPT !.phase = "listing", !.n = run[o].n + 1, !.request = q]
           u == [auth[o] EXCEPT !.keysets = {}]
<1>1. /\ run[o] \in Run /\ auth[o] \in Auth
      /\ PathSound(run[o], account[o], auth[o], codex) /\ auth[o].keysets # {}
  BY DEF SmartInv, ExecutePath
<1>2. run[o].phase = "idle"
  BY <1>1 DEF PathSound
<1>3. q \in AnyRequest /\ q.guards = auth[o].keysets /\ q.pasted = auth[o].pasted
  <2>1. q \in PathRequests
    BY <1>1 DEF PathRequests, NoRequest, Auth
  <2> QED BY <2>1 DEF AnyRequest, NoRequest
<1>4. /\ run' = [run EXCEPT ![o] = r] /\ auth' = [auth EXCEPT ![o] = u]
      /\ UNCHANGED <<codex, account>>
  BY DEF ExecutePath, Execute
<1> HIDE DEF q
<1>5. r \in Run
  <2>1. run[o].n + 1 \in 0..MaxRuns /\ "listing" \in Phases
    BY <1>1, RunsAssumption DEF Run, Phases, ExecutePath, Execute
  <2> QED BY <1>3, <2>1, IdleTypes DEF Run
<1>6. r.phase = "listing" /\ r.request = q
  BY DEF Idle
<1>7. u \in Auth /\ u.keysets = {} /\ u.holds = auth[o].holds /\ u.pasted = auth[o].pasted
  BY <1>1 DEF Auth
<1> HIDE DEF r, u
<1>8. PathSound(r, account[o], u, codex)
  <2>1. ASSUME u.holds
        PROVE  \E ks \in Keysets : OfPath(account[o], ks) /\ KeysetSound(r, ks, u, codex)
    <3>1. PICK ks \in Keysets : OfPath(account[o], ks) /\ KeysetSound(run[o], ks, auth[o], codex)
      BY <1>1, <1>7, <2>1 DEF PathSound
    <3>2. KeysetSound(r, ks, u, codex)
      BY <1>2, <1>3, <1>6, <1>7, <3>1 DEF KeysetSound, HasPayer
    <3> QED BY <3>1, <3>2
  <2> QED BY <1>1, <1>6, <1>7, <2>1 DEF PathSound
<1>9. ASSUME NEW d \in Operations PROVE PathSound(run'[d], account'[d], auth'[d], codex')
  <2>1. CASE d = o
    <3>1. run'[d] = r /\ auth'[d] = u
      BY <1>4, <2>1 DEF SmartInv
    <3> QED BY <1>4, <1>8, <2>1, <3>1
  <2>2. CASE d # o
    <3>1. run'[d] = run[d] /\ auth'[d] = auth[d]
      BY <1>4, <2>2 DEF SmartInv
    <3> QED BY <1>4, <3>1 DEF SmartInv
  <2> QED BY <2>1, <2>2
<1>10. run' \in [Operations -> Run] /\ auth' \in [Operations -> Auth]
  BY <1>4, <1>5, <1>7 DEF SmartInv
<1> QED BY <1>4, <1>9, <1>10 DEF SmartInv

(* An operation of a Standard account, for which no path is chosen.        *)
LEMMA PlainExecuteKeeps ==
  ASSUME SmartInv, NEW o \in Operations, ~IsSmart(o), NEW q \in Requests, Execute(o, q),
         UNCHANGED <<account, auth>>
  PROVE  SmartInv'
<1> DEFINE r == [Idle EXCEPT !.phase = "listing", !.n = run[o].n + 1, !.request = q]
<1>1. run[o] \in Run /\ auth[o].keysets = {} /\ ~auth[o].holds
  BY DEF SmartInv, PathSound, IsSmart
<1>2. r \in Run
  <2>1. run[o].n + 1 \in 0..MaxRuns /\ "listing" \in Phases /\ q \in AnyRequest
    BY <1>1, RunsAssumption DEF Run, Phases, AnyRequest, Execute
  <2> QED BY <2>1, IdleTypes DEF Run
<1>3. run' = [run EXCEPT ![o] = r] /\ UNCHANGED codex
  BY DEF Execute
<1> HIDE DEF r
<1> QED BY <1>1, <1>2, <1>3, OneRunChanges DEF PathSound

LEMMA RotatedKeeps ==
  ASSUME SmartInv, NEW o \in Operations, Rotated(o)
  PROVE  SmartInv'
<1> DEFINE u == [auth[o] EXCEPT !.holds = FALSE]
<1>1. PICK a \in Rotations[account[o]] : account' = [account EXCEPT ![o] = a]
  BY DEF Rotated
<1>2. account[o] \in Accounts /\ auth[o] \in Auth /\ PathSound(run[o], account[o], auth[o], codex)
  BY DEF SmartInv, Rotated, IsSmart
<1>3. a \in Accounts /\ a # NoAccount
  BY <1>2, AccountsAssumption
<1>4. u \in Auth /\ u.keysets = auth[o].keysets /\ ~u.holds
  BY <1>2 DEF Auth
<1>5. auth' = [auth EXCEPT ![o] = u] /\ UNCHANGED <<codex, run>>
  BY DEF Rotated, signingVars
<1> HIDE DEF u
<1>6. PathSound(run[o], a, u, codex)
  BY <1>2, <1>3, <1>4 DEF PathSound
<1>7. ASSUME NEW d \in Operations PROVE PathSound(run'[d], account'[d], auth'[d], codex')
  <2>1. CASE d = o
    <3>1. account'[d] = a /\ auth'[d] = u
      BY <1>1, <1>5, <2>1 DEF SmartInv
    <3> QED BY <1>5, <1>6, <2>1, <3>1
  <2>2. CASE d # o
    <3>1. account'[d] = account[d] /\ auth'[d] = auth[d]
      BY <1>1, <1>5, <2>2 DEF SmartInv
    <3> QED BY <1>5, <3>1 DEF SmartInv
  <2> QED BY <2>1, <2>2
<1>8. account' \in [Operations -> Accounts \cup {NoAccount}] /\ auth' \in [Operations -> Auth]
  BY <1>1, <1>3, <1>4, <1>5 DEF SmartInv
<1> QED BY <1>5, <1>7, <1>8 DEF SmartInv

(* A key that leaves the codex while it matters ends the promise; one that *)
(* comes takes nothing away.                                               *)
LEMMA CodexEditedKeeps ==
  ASSUME SmartInv, NEW k \in Keys, CodexEdited(k)
  PROVE  SmartInv'
<1> DEFINE holds(o) == auth[o].holds /\ (k \in codex' \/ run[o].phase \notin {"idle", "listing"})
<1>1. codex' \subseteq Keys /\ (k \in codex' => codex \subseteq codex')
  BY DEF CodexEdited, CodexChanges, SmartInv
<1>2. UNCHANGED <<run, account>> /\ auth' = [o \in Operations |-> [auth[o] EXCEPT !.holds = holds(o)]]
  BY DEF CodexEdited, CodexChanges
<1>3. ASSUME NEW o \in Operations
      PROVE  /\ auth'[o] \in Auth /\ auth'[o].holds = holds(o)
             /\ auth'[o].keysets = auth[o].keysets /\ auth'[o].pasted = auth[o].pasted
  <2>1. auth[o] \in Auth
    BY DEF SmartInv
  <2> QED BY <1>2, <2>1 DEF Auth
<1>4. ASSUME NEW o \in Operations PROVE PathSound(run'[o], account'[o], auth'[o], codex')
  <2>1. PathSound(run[o], account[o], auth[o], codex)
    BY DEF SmartInv
  <2>2. ASSUME auth'[o].holds
        PROVE  \E ks \in Keysets : OfPath(account[o], ks) /\ KeysetSound(run[o], ks, auth'[o], codex')
    <3>1. auth[o].holds /\ (k \in codex' \/ run[o].phase \notin {"idle", "listing"})
      BY <1>3, <2>2
    <3>2. PICK ks \in Keysets : OfPath(account[o], ks) /\ KeysetSound(run[o], ks, auth[o], codex)
      BY <2>1, <3>1 DEF PathSound
    <3>3. KeysetSound(run[o], ks, auth'[o], codex')
      BY <1>1, <1>3, <3>1, <3>2, MoreCodexKeys DEF KeysetSound
    <3> QED BY <3>2, <3>3
  <2> QED BY <1>2, <1>3, <2>1, <2>2 DEF PathSound
<1>5. auth' \in [Operations -> Auth]
  <2>1. DOMAIN auth' = Operations /\ auth' = [o \in Operations |-> auth'[o]]
    BY <1>2
  <2> QED BY <1>3, <2>1
<1> QED BY <1>1, <1>2, <1>4, <1>5 DEF SmartInv

(* The steps of execute, as far as they move the keyset of a path.         *)

LEMMA SmartListedKeeps ==
  ASSUME SmartInv, NEW o \in Operations, Listed(o), UNCHANGED <<account, auth>>
  PROVE  SmartInv'
<1>1. run[o] \in Run /\ PathSound(run[o], account[o], auth[o], codex) /\ run[o].phase = "listing"
  BY DEF SmartInv, Listed, At
<1>2. CASE Throws(o, "foreign key")
  BY <1>1, <1>2, SmartThrowsKeeps DEF Listed, Outcomes
<1>3. CASE run' = [run EXCEPT ![o].phase = "collecting", ![o].codexPubs = codex,
                              ![o].left = Request(o).guards]
  <2> DEFINE r == [run[o] EXCEPT !.phase = "collecting", !.codexPubs = codex, !.left = Request(o).guards]
  <2>1. run[o].request \in AnyRequest
    BY <1>1 DEF Run
  <2>2. run[o].request.guards \subseteq UNION {q.guards : q \in AnyRequest}
    BY <2>1
  <2>3. /\ r \in Run /\ r.phase = "collecting" /\ r.left = r.request.guards
        /\ r.codexPubs = codex /\ r.request = run[o].request
    BY <1>1, <2>2 DEF Run, Phases, SmartInv, Request
  <2>4. run' = [run EXCEPT ![o] = r]
    BY <1>3
  <2> HIDE DEF r
  <2>5. PathSound(r, account[o], auth[o], codex)
    BY <1>1, <2>3, PathSoundStays DEF KeysetSound, HasPayer
  <2> QED BY <2>3, <2>4, <2>5, OneRunChanges DEF Listed
<1> QED BY <1>2, <1>3 DEF Listed

LEMMA SmartAnalyzeGuardKeeps ==
  ASSUME SmartInv, NEW o \in Operations, AnalyzeGuard(o), UNCHANGED <<account, auth>>
  PROVE  SmartInv'
<1>1. PICK g \in run[o].left : \E needed \in Needed(o, g) :
        run' = [run EXCEPT ![o].left = @ \ {g},
                           ![o].wanted = (needed \cap CodexKeysOf(o, g)) \ run[o].pureSigningPubs,
                           ![o].pureSigningPubs = @ \cup (needed \ CodexKeysOf(o, g))]
  BY DEF AnalyzeGuard
<1>2. PICK needed \in Needed(o, g) :
        run' = [run EXCEPT ![o].left = @ \ {g},
                           ![o].wanted = (needed \cap CodexKeysOf(o, g)) \ run[o].pureSigningPubs,
                           ![o].pureSigningPubs = @ \cup (needed \ CodexKeysOf(o, g))]
  BY <1>1
<1> DEFINE mine == CodexKeysOf(o, g)
           r == [run[o] EXCEPT !.left = @ \ {g}, !.wanted = (needed \cap mine) \ run[o].pureSigningPubs,
                               !.pureSigningPubs = @ \cup (needed \ mine)]
<1>3. /\ run[o] \in Run /\ PathSound(run[o], account[o], auth[o], codex)
      /\ run[o].phase = "collecting" /\ run[o].wanted = {}
  BY DEF SmartInv, AnalyzeGuard, At
<1>4. g.keys \in SUBSET Keys
  <2>1. PICK q \in AnyRequest : g \in q.guards
    BY <1>3 DEF Run
  <2> QED BY <2>1, RequestTypes
<1>5. needed \subseteq Keys
  BY <1>4 DEF Needed, FirstKeys, AvailableOf, Available, CodexKeys, ResolvedForeignKeys
<1>6. r \in Run
  BY <1>3, <1>5 DEF Run
<1>7. run' = [run EXCEPT ![o] = r]
  BY <1>2
<1>8. /\ r.phase = "collecting" /\ r.left = run[o].left \ {g}
      /\ r.codexPubs = run[o].codexPubs /\ r.request = run[o].request
      /\ r.wanted = (needed \cap mine) \ run[o].pureSigningPubs
      /\ r.pureSigningPubs = run[o].pureSigningPubs \cup (needed \ mine)
  BY <1>3 DEF Run
<1> HIDE DEF r
<1>9. /\ needed \subseteq r.pureSigningPubs \cup r.wanted
      /\ run[o].pureSigningPubs \cup run[o].wanted \subseteq r.pureSigningPubs \cup r.wanted
  BY <1>3, <1>8
<1>10. ASSUME NEW ks \in Keysets, KeysetSound(run[o], ks, auth[o], codex)
       PROVE  KeysetSound(r, ks, auth[o], codex)
  <2>1. /\ run[o].left \subseteq {ks} /\ run[o].request.guards = {ks}
        /\ Satisfied(ks, run[o].codexPubs, run[o].request.pasted)
    BY <1>3, <1>10 DEF KeysetSound
  <2>2. g = ks
    BY <2>1
  <2>3. Enough(ks, needed)
    BY <1>4, <2>1, <2>2, NeededSuffice DEF Request
  <2>4. Enough(ks, r.pureSigningPubs \cup r.wanted)
    BY <1>4, <1>9, <2>2, <2>3, MoreCodexSigners
  <2> QED BY <1>8, <2>1, <2>4 DEF KeysetSound, HasPayer
<1>11. PathSound(r, account[o], auth[o], codex)
  BY <1>3, <1>6, <1>8, <1>10, PathSoundStays
<1> QED BY <1>6, <1>7, <1>11, OneRunChanges DEF AnalyzeGuard

LEMMA SmartKeyResolvedKeeps ==
  ASSUME SmartInv, NEW o \in Operations, NEW k \in Keys, KeyResolved(o, k), UNCHANGED <<account, auth>>
  PROVE  SmartInv'
<1> DEFINE r == [run[o] EXCEPT !.wanted = @ \ {k}, !.pureSigningPubs = @ \cup {k}, !.asked = Prompt(o, k)]
<1>1. /\ run[o] \in Run /\ PathSound(run[o], account[o], auth[o], codex)
      /\ run[o].phase = "collecting" /\ k \in run[o].wanted
  BY DEF SmartInv, KeyResolved, At
<1>2. Prompt(o, k) \in [Keys -> Nat]
  BY <1>1 DEF Run, Prompt
<1>3. /\ r \in Run /\ r.phase = "collecting" /\ r.left = run[o].left
      /\ r.codexPubs = run[o].codexPubs /\ r.request = run[o].request
      /\ r.pureSigningPubs \cup r.wanted = run[o].pureSigningPubs \cup run[o].wanted
  BY <1>1, <1>2 DEF Run
<1>4. run' = [run EXCEPT ![o] = r]
  BY DEF KeyResolved
<1> HIDE DEF r
<1>5. PathSound(r, account[o], auth[o], codex)
  BY <1>1, <1>3, PathSoundStays DEF KeysetSound, HasPayer
<1> QED BY <1>3, <1>4, <1>5, OneRunChanges DEF KeyResolved

LEMMA SmartSelectCapsKeeps ==
  ASSUME SmartInv, NEW o \in Operations, SelectCaps(o), UNCHANGED <<account, auth>>
  PROVE  SmartInv'
<1>1. /\ run[o] \in Run /\ PathSound(run[o], account[o], auth[o], codex)
      /\ run[o].phase = "collecting" /\ run[o].wanted = {} /\ run[o].left = {}
  BY DEF SmartInv, SelectCaps, At
<1>2. CASE Throws(o, "payer")
  BY <1>1, <1>2, SmartThrowsKeeps DEF SelectCaps, Outcomes
<1>3. CASE \E k \in CapsKeys(o) : run' = [run EXCEPT ![o].phase = "payer", ![o].payer = k]
  <2>1. PICK k \in CapsKeys(o) : run' = [run EXCEPT ![o].phase = "payer", ![o].payer = k]
    BY <1>3
  <2> DEFINE r == [run[o] EXCEPT !.phase = "payer", !.payer = k]
  <2>2. k \in Keys
    BY <1>1 DEF CapsKeys, FreeKeys, Run
  <2>3. /\ r \in Run /\ r.phase = "payer" /\ r.request = run[o].request
        /\ r.pureSigningPubs = run[o].pureSigningPubs \cup run[o].wanted
    BY <1>1, <2>2 DEF Run, Phases
  <2>4. run' = [run EXCEPT ![o] = r]
    BY <2>1
  <2> HIDE DEF r
  <2>5. PathSound(r, account[o], auth[o], codex)
    BY <1>1, <2>3, PathSoundStays DEF KeysetSound, HasPayer
  <2> QED BY <2>3, <2>4, <2>5, OneRunChanges DEF SelectCaps
<1> QED BY <1>2, <1>3 DEF SelectCaps

(* From the payer on the signers stay as they are.                         *)
LEMMA SignersStay ==
  ASSUME SmartInv, NEW o \in Operations, NEW r \in Run, run' = [run EXCEPT ![o] = r],
         run[o].phase \in HasPayer, r.phase \in HasPayer, r.request = run[o].request,
         r.pureSigningPubs = run[o].pureSigningPubs, UNCHANGED <<codex, account, auth>>
  PROVE  SmartInv'
<1>1. run[o] \in Run /\ PathSound(run[o], account[o], auth[o], codex)
  BY DEF SmartInv
<1>2. PathSound(r, account[o], auth[o], codex)
  BY <1>1, PathSoundStays DEF KeysetSound, HasPayer
<1> QED BY <1>2, OneRunChanges

LEMMA SmartPayerResolvedKeeps ==
  ASSUME SmartInv, NEW o \in Operations, PayerResolved(o), UNCHANGED <<account, auth>>
  PROVE  SmartInv'
<1> DEFINE r == [run[o] EXCEPT !.phase = "simulating", !.asked = Prompt(o, run[o].payer)]
<1>1. run[o] \in Run /\ run[o].phase = "payer" /\ codex \subseteq Keys /\ run[o].payer \in codex
  BY DEF SmartInv, PayerResolved, At
<1>2. Prompt(o, run[o].payer) \in [Keys -> Nat]
  BY <1>1 DEF Run, Prompt
<1>3. /\ r \in Run /\ r.phase \in HasPayer /\ r.request = run[o].request
      /\ r.pureSigningPubs = run[o].pureSigningPubs
  BY <1>1, <1>2 DEF Run, Phases, HasPayer
<1>4. run' = [run EXCEPT ![o] = r] /\ UNCHANGED codex
  BY DEF PayerResolved
<1> HIDE DEF r
<1> QED BY <1>1, <1>3, <1>4, SignersStay DEF HasPayer

LEMMA SimulatedKeeps ==
  ASSUME SmartInv, NEW o \in Operations, NEW met, SimulationAnsweredIf(o, met), UNCHANGED <<account, auth>>
  PROVE  SmartInv'
<1>1. run[o] \in Run /\ run[o].phase = "simulating" /\ UNCHANGED codex
  BY DEF SmartInv, SimulationAnsweredIf, At
<1>2. CASE Throws(o, "simulation")
  BY <1>1, <1>2, SmartThrowsKeeps DEF Outcomes
<1>3. CASE ~Throws(o, "simulation")
  <2> DEFINE unresolved == IF Request(o).canAsk THEN Signers(o) \ Provided(o) ELSE {}
             r == [run[o] EXCEPT !.phase = "signing", !.missing = unresolved]
  <2>1. run' = [run EXCEPT ![o] = r]
    BY <1>3 DEF SimulationAnsweredIf
  <2>2. run[o].request.others \subseteq Keys
    BY <1>1, RequestTypes DEF Run
  <2>3. unresolved \subseteq Keys
    BY <2>2 DEF Signers, Provided, Request
  <2> HIDE DEF unresolved
  <2>4. /\ r \in Run /\ r.phase \in HasPayer /\ r.request = run[o].request
        /\ r.pureSigningPubs = run[o].pureSigningPubs
    BY <1>1, <2>3 DEF Run, Phases, HasPayer
  <2> HIDE DEF r
  <2> QED BY <1>1, <2>1, <2>4, SignersStay DEF HasPayer
<1> QED BY <1>2, <1>3

LEMMA SmartForeignKeyGivenKeeps ==
  ASSUME SmartInv, NEW o \in Operations, NEW k \in Keys, ForeignKeyGiven(o, k), UNCHANGED <<account, auth>>
  PROVE  SmartInv'
<1> DEFINE r == [run[o] EXCEPT !.missing = @ \ {k}, !.asked = Prompt(o, k)]
<1>1. run[o] \in Run /\ run[o].phase = "signing"
  BY DEF SmartInv, ForeignKeyGiven, At
<1>2. Prompt(o, k) \in [Keys -> Nat]
  BY <1>1 DEF Run, Prompt
<1>3. /\ r \in Run /\ r.phase \in HasPayer /\ r.request = run[o].request
      /\ r.pureSigningPubs = run[o].pureSigningPubs
  BY <1>1, <1>2 DEF Run, Phases, HasPayer
<1>4. run' = [run EXCEPT ![o] = r] /\ UNCHANGED codex
  BY DEF ForeignKeyGiven
<1> HIDE DEF r
<1> QED BY <1>1, <1>3, <1>4, SignersStay DEF HasPayer

LEMMA SmartSubmitKeeps ==
  ASSUME SmartInv, NEW o \in Operations, Submit(o), UNCHANGED <<account, auth>>
  PROVE  SmartInv'
<1> DEFINE r == [run[o] EXCEPT !.phase = "submitting"]
<1>1. run[o] \in Run /\ run[o].phase = "signing"
  BY DEF SmartInv, Submit, At
<1>2. /\ r \in Run /\ r.phase \in HasPayer /\ r.request = run[o].request
      /\ r.pureSigningPubs = run[o].pureSigningPubs
  BY <1>1 DEF Run, Phases, HasPayer
<1>3. run' = [run EXCEPT ![o] = r] /\ UNCHANGED codex
  BY DEF Submit
<1> HIDE DEF r
<1> QED BY <1>1, <1>2, <1>3, SignersStay DEF HasPayer

LEMMA SmartEndKeeps ==
  ASSUME SmartInv, NEW o \in Operations, UNCHANGED <<account, auth>>,
         \/ KeyThrows(o) \/ SigningThrows(o) \/ SimulationTimesOut(o)
         \/ SubmitAnswered(o) \/ SubmitThrows(o) \/ SubmitTimesOut(o)
  PROVE  SmartInv'
<1>1. run[o].phase # "idle" /\ UNCHANGED codex
  BY DEF KeyThrows, SigningThrows, SimulationTimesOut, SubmitAnswered, SubmitThrows, SubmitTimesOut, At
<1>2. \E why \in Outcomes : Throws(o, why)
  BY DEF KeyThrows, SigningThrows, SimulationTimesOut, SubmitAnswered, SubmitThrows, SubmitTimesOut,
         Throws, Outcomes
<1> QED BY <1>1, <1>2, SmartThrowsKeeps

LEMMA SmartStepKeeps == SmartInv /\ [SmartNext]_smartVars => SmartInv'
<1> SUFFICES ASSUME SmartInv, [SmartNext]_smartVars PROVE SmartInv'
  OBVIOUS
<1>1. CASE UNCHANGED smartVars
  BY <1>1 DEF SmartInv, smartVars, signingVars
<1>2. ASSUME NEW o \in Operations,
             \/ Analyse(o) \/ \E k \in Keys : KeyPasted(o, k)
             \/ \E canAsk \in BOOLEAN : ExecutePath(o, canAsk)
             \/ Rotated(o)
      PROVE  SmartInv'
  BY <1>2, AnalyseKeeps, KeyPastedKeeps, ExecutePathKeeps, RotatedKeeps
<1>3. ASSUME NEW k \in Keys, CodexEdited(k) PROVE SmartInv'
  BY <1>3, CodexEditedKeeps
<1>4. ASSUME NEW o \in Operations, UNCHANGED <<account, auth>>,
             \/ ~IsSmart(o) /\ \E r \in Requests : Execute(o, r)
             \/ Simulated(o) \/ SimulationTimesOut(o)
             \/ SubmitAnswered(o) \/ SubmitThrows(o) \/ SubmitTimesOut(o)
      PROVE  SmartInv'
  BY <1>4, PlainExecuteKeeps, SimulatedKeeps, SmartEndKeeps DEF Simulated, SimulationAnswered
<1>5. ASSUME NEW o \in Operations, UNCHANGED <<account, auth>>, Resolver(o) PROVE SmartInv'
  BY <1>5, SmartListedKeeps, SmartEndKeeps, SmartPayerResolvedKeeps, SmartKeyResolvedKeeps,
     SmartForeignKeyGivenKeeps DEF Resolver
<1>6. ASSUME NEW o \in Operations, UNCHANGED <<account, auth>>, Local(o) PROVE SmartInv'
  BY <1>6, SmartAnalyzeGuardKeeps, SmartSelectCapsKeeps, SmartSubmitKeeps DEF Local
<1>7. ASSUME NEW o \in Operations, NEW n \in 1..MaxRuns, UNCHANGED <<account, auth>>, TxMoves(o, n)
      PROVE  SmartInv'
  BY <1>7 DEF TxMoves, SmartInv
<1> QED BY <1>1, <1>2, <1>3, <1>4, <1>5, <1>6, <1>7 DEF SmartNext

(* For execute it makes no difference that a step of an operation may      *)
(* belong to a Smart account: its request is of no kind that XsInv does    *)
(* not know, and the node may accept or refuse what it simulates.          *)
LEMMA SmartKeepsXs == XsInv /\ SmartInv /\ [SmartNext]_smartVars => XsInv'
<1> SUFFICES ASSUME XsInv, SmartInv, [SmartNext]_smartVars PROVE XsInv'
  OBVIOUS
<1>1. ASSUME UNCHANGED signingVars PROVE XsInv'
  BY <1>1 DEF XsInv, signingVars
<1>2. ASSUME NEW o \in Operations, NEW canAsk \in BOOLEAN, ExecutePath(o, canAsk)
      PROVE  XsInv'
  <2> DEFINE q == [NoRequest EXCEPT !.guards = auth[o].keysets, !.pasted = auth[o].pasted,
                                    !.canAsk = canAsk]
  <2>1. q \in PathRequests
    BY DEF SmartInv, Auth, PathRequests, NoRequest
  <2>2. Execute(o, q)
    BY <1>2 DEF ExecutePath
  <2> HIDE DEF q
  <2> QED BY <2>1, <2>2, ExecuteKeeps DEF AnyRequest
<1>3. ASSUME NEW o \in Operations,
             \/ \E r \in Requests : Execute(o, r)
             \/ Resolver(o) \/ Local(o)
             \/ SimulationTimesOut(o) \/ SubmitAnswered(o) \/ SubmitThrows(o) \/ SubmitTimesOut(o)
             \/ \E n \in 1..MaxRuns : TxMoves(o, n)
      PROVE  XsInv'
  BY <1>3, XsStepKeeps DEF XsNext
<1>4. ASSUME NEW o \in Operations, Simulated(o) PROVE XsInv'
  BY <1>4, SimulationAnsweredKeeps DEF Simulated, SimulationAnswered
<1>5. ASSUME NEW k \in Keys, CodexEdited(k) PROVE XsInv'
  BY <1>5, CodexChangesKeeps DEF CodexEdited
<1>6. ASSUME NEW o \in Operations, Analyse(o) \/ Rotated(o) \/ \E k \in Keys : KeyPasted(o, k)
      PROVE  XsInv'
  BY <1>1, <1>6 DEF Analyse, Rotated, KeyPasted
<1>7. CASE UNCHANGED smartVars
  BY <1>1, <1>7 DEF smartVars
<1> QED BY <1>2, <1>3, <1>4, <1>5, <1>6, <1>7 DEF SmartNext

LEMMA SmartSafety == SmartSpec => [](XsInv /\ SmartInv)
<1>1. SmartInit => XsInv /\ SmartInv
  BY XsInitEstablishes, SmartInitEstablishes DEF SmartInit
<1>2. XsInv /\ SmartInv /\ [SmartNext]_smartVars => (XsInv /\ SmartInv)'
  BY SmartKeepsXs, SmartStepKeeps
<1> QED BY <1>1, <1>2, PTL DEF SmartSpec

(* What the analysis calls satisfiable is accepted by the chain when       *)
(* execute signs for it, for any accounts, guards, keys pasted and codex,  *)
(* unless the account is rotated or the codex loses a key in between, or   *)
(* the keyset has fewer keys than its predicate counts.                    *)
THEOREM SatisfiablePathsAccepted == SmartSpec => []ChosenPathAccepted
<1>1. SmartInv => ChosenPathAccepted
  <2> SUFFICES ASSUME SmartInv, NEW o \in Operations, auth[o].holds, run[o].phase \in HasPayer,
                      \A g \in run[o].request.guards : ~Undersized(g)
               PROVE  EnforceOne(account[o], run[o].pureSigningPubs)
    BY DEF ChosenPathAccepted, Request, HasPayer
  <2>1. PICK ks \in Keysets : OfPath(account[o], ks) /\ KeysetSound(run[o], ks, auth[o], codex)
    BY DEF SmartInv, PathSound
  <2>2. ks \in run[o].request.guards /\ Enough(ks, run[o].pureSigningPubs) /\ ks.keys \in SUBSET Keys
    BY <2>1 DEF KeysetSound, HasPayer, Keysets
  <2>3. MetBy(ks, run[o].pureSigningPubs)
    BY <2>2, EnoughIsMet
  <2> QED BY <2>1, <2>3 DEF OfPath, EnforceOne
<1> QED BY <1>1, SmartSafety, PTL

(* What is proved of execute holds when operations of Smart accounts run   *)
(* among the others: types, the payer apart from the guards' signers, one  *)
(* prompt for a key, guards met, transactions signed in full, none twice.  *)
THEOREM SmartSigningSound ==
  SmartSpec => [](XsTypeOK /\ PayerApart /\ AskedOnce /\ GuardsMet /\ FullySigned /\ LandsOnce)
BY XsInvSuffices, SmartSafety, PTL

-----------------------------------------------------------------------------
(* A guard that is unresolved, unreadable or of a kind no signature meets  *)
(* never takes the place of one that can be met: if any of the account's   *)
(* keysets was fetched and the keys at hand satisfy it, a path is chosen,  *)
(* and the signatures of the keys at hand meet the guard of that path on   *)
(* the chain as it was when the account was analysed - unless it is one    *)
(* with fewer keys than its predicate counts, which the analysis may       *)
(* choose and which nobody can meet.                                       *)
THEOREM SatisfiablePathIsChosen ==
  ASSUME NEW a \in Accounts, NEW guards, NEW pubs, NEW pasted, NEW i \in Paths,
         \A j \in Paths : guards[j] \in Fetched(a[j]),
         KeyBased(guards[i]), Satisfied(extractKeysetFromGuard(guards[i]), pubs, pasted)
  PROVE  LET p == firstSatisfied(guards, pubs, pasted)
         IN  /\ p \in Paths /\ p <= i
             /\ KeyBased(guards[p])
             /\ ~Undersized(extractKeysetFromGuard(guards[p])) =>
                  EnforceOne(a, Available(extractKeysetFromGuard(guards[p]), pubs, pasted))
<1> DEFINE p == firstSatisfied(guards, pubs, pasted)
           ks == extractKeysetFromGuard(guards[p])
           signers == Available(ks, pubs, pasted)
<1>1. p \in SatisfiedPaths(guards, pubs, pasted) /\ p <= i
  <2>1. SatisfiedPaths(guards, pubs, pasted) \in SUBSET Paths /\ i \in SatisfiedPaths(guards, pubs, pasted)
    BY DEF SatisfiedPaths
  <2> QED BY <2>1, FirstIsLeast DEF firstSatisfied
<1>2. p \in Paths /\ KeyBased(guards[p]) /\ Satisfied(ks, pubs, pasted)
  BY <1>1 DEF SatisfiedPaths
<1>3. OfPath(a, ks) /\ ks.keys \in SUBSET Keys
  BY <1>2, FetchedIsOfPath DEF Keysets
<1> HIDE DEF p
<1>4. signers = ks.keys \cap signers
  BY DEF Available, CodexKeys, ResolvedForeignKeys
<1>5. Enough(ks, signers)
  BY <1>2, <1>4 DEF Satisfied, Enough
<1>6. ASSUME ~Undersized(ks) PROVE EnforceOne(a, signers)
  <2>1. MetBy(ks, signers)
    BY <1>3, <1>5, <1>6, EnoughIsMet
  <2> QED BY <1>3, <2>1 DEF OfPath, EnforceOne
<1> QED BY <1>1, <1>2, <1>6 DEF p
=============================================================================
