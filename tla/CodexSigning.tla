---------------------------- MODULE CodexSigning ----------------------------
(***************************************************************************)
(* src/signing/codexStrategy.ts with universalSign.ts: execute() turns the *)
(* guards of an operation into signers, asks a resolver for their keys,    *)
(* simulates, signs and submits. Every key, the simulation and the submit  *)
(* are awaited, while the user changes the codex behind the resolver; only *)
(* the last two have deadlines, and no node is tried twice.                *)
(*                                                                         *)
(* The order in which guards, their keys and codex keys are listed is left *)
(* open: the keys taken first may be any.                                  *)
(***************************************************************************)
EXTENDS Guards

CONSTANTS
  Keys, NoKey,
  Requests,          \* arguments execute is called with
  Operations,        \* what the consumer wants done, each at most once
  MaxRuns            \* bound: execute is called so often for an operation

ASSUME KeysAssumption == IsFiniteSet(Keys) /\ NoKey \notin Keys
ASSUME RunsAssumption == MaxRuns \in Nat \ {0}

(* `pasted`: the keys resolvedForeignKeys holds a private key for;         *)
(* `blank`: those it has an empty string for. `extra`: the keypairs in     *)
(* extraSigners. `others`: signers the build closure adds on its own       *)
(* account. `canAsk`: the resolver implements requestForeignKey.           *)
ASSUME RequestsAssumption ==
  \A r \in Requests : /\ \A g \in r.guards : g.keys \in SUBSET Keys
                      /\ r.paymentKey \in Keys \cup {NoKey}
                      /\ r.pasted \in SUBSET Keys /\ r.blank \in SUBSET (Keys \ r.pasted)
                      /\ r.extra \in SUBSET Keys
                      /\ r.others \in SUBSET Keys
                      /\ r.canAsk \in BOOLEAN

NoRequest == [guards |-> {}, paymentKey |-> NoKey, pasted |-> {}, blank |-> {}, extra |-> {},
              others |-> {}, canAsk |-> FALSE]

VARIABLES
  codex,   \* environment: the keys the resolver can sign for now
  run,     \* the execute() of each operation
  tx       \* environment: what became of the transaction of each call

signingVars == <<codex, run, tx>>

Outcomes == {"none", "ok", "foreign key", "key", "payer", "simulation", "timeout dirtyRead",
             "sign", "timeout submit", "submit"}

(* The outcomes after which nothing has been submitted.                    *)
BeforeSubmit == {"foreign key", "key", "payer", "simulation", "timeout dirtyRead", "sign"}

(* codexPubs, pureSigningPubs (the guard keypairs collected) and the payer *)
(* are locals of execute; `left` are the guards and `wanted` the keys the  *)
(* loops have still to handle, `missing` the signers still to be asked for *)
(* in universalSignTransaction; `asked` counts prompts, a history.         *)
Idle == [phase |-> "idle", n |-> 0, request |-> NoRequest, codexPubs |-> {}, left |-> {}, wanted |-> {},
         pureSigningPubs |-> {}, payer |-> NoKey, missing |-> {},
         asked |-> [k \in Keys |-> 0], outcome |-> "none"]

XsInit ==
  /\ codex \in SUBSET Keys
  /\ run = [o \in Operations |-> Idle]
  /\ tx = [o \in Operations |-> [n \in 1..MaxRuns |-> "none"]]

At(o, phase) == run[o].phase = phase
Request(o) == run[o].request
Tx(o) == tx[o][run[o].n]

Throws(o, why) == run' = [run EXCEPT ![o].phase = "settled", ![o].outcome = why]

-----------------------------------------------------------------------------
(* The consumer calls execute: for the first time, after an outcome that   *)
(* tells that nothing was submitted, or, as the doc of execute demands,    *)
(* once the transaction of the last call is known to be lost.              *)
MayExecute(o) ==
  \/ At(o, "idle")
  \/ At(o, "settled") /\ (run[o].outcome \in BeforeSubmit \/ Tx(o) = "lost")

Execute(o, r) ==
  /\ MayExecute(o) /\ run[o].n < MaxRuns
  /\ run' = [run EXCEPT ![o] = [Idle EXCEPT !.phase = "listing", !.n = run[o].n + 1, !.request = r]]
  /\ UNCHANGED <<codex, tx>>

(* listCodexPubs answers, and the pre-flight looks for a foreign key that  *)
(* nobody could give. Unlike analyzeGuard, which looks at the private key, *)
(* it is content with an entry for the key.                                *)
Unresolvable(o) ==
  /\ ~Request(o).canAsk
  /\ \E g \in Request(o).guards :
       ~(g.keys \subseteq codex \cup Request(o).pasted \cup Request(o).blank)

Listed(o) ==
  /\ At(o, "listing")
  /\ \/ Unresolvable(o) /\ Throws(o, "foreign key")
     \/ /\ ~Unresolvable(o)
        /\ run' = [run EXCEPT ![o].phase = "collecting", ![o].codexPubs = codex,
                              ![o].left = Request(o).guards]
  /\ UNCHANGED <<codex, tx>>

-----------------------------------------------------------------------------
(* Collecting the guard keypairs.                                          *)

CodexKeysOf(o, g) == CodexKeys(g, run[o].codexPubs)
AvailableOf(o, g) == Available(g, run[o].codexPubs, Request(o).pasted)

(* The first `count` available keys, those of the codex before the others. *)
FirstKeys(o, g, count) ==
  {S \in SUBSET AvailableOf(o, g) :
     /\ Cardinality(S) = AtMost(count, Cardinality(AvailableOf(o, g)))
     /\ S \subseteq CodexKeysOf(o, g) \/ CodexKeysOf(o, g) \subseteq S}

\* Mutant: signers collected for earlier guards are counted for this one.
NeededCountingAll(o, g) ==
  LET have == Cardinality(run[o].pureSigningPubs)
  IN FirstKeys(o, g, IF GuardThreshold(g) > have THEN GuardThreshold(g) - have ELSE 0)

Needed(o, g) == FirstKeys(o, g, GuardThreshold(g))

(* The next guard. Keys that are pasted need no resolver.                  *)
\* Mutant: a key that another guard has asked for is asked for again.
AnalyzeGuardUnseen(o) ==
  /\ At(o, "collecting") /\ run[o].wanted = {}
  /\ \E g \in run[o].left : \E needed \in Needed(o, g) :
       run' = [run EXCEPT ![o].left = @ \ {g},
                          ![o].wanted = needed \cap CodexKeysOf(o, g),
                          ![o].pureSigningPubs = @ \cup (needed \ CodexKeysOf(o, g))]
  /\ UNCHANGED <<codex, tx>>

AnalyzeGuard(o) ==
  /\ At(o, "collecting") /\ run[o].wanted = {}
  /\ \E g \in run[o].left : \E needed \in Needed(o, g) :
       run' = [run EXCEPT ![o].left = @ \ {g},
                          ![o].wanted = (needed \cap CodexKeysOf(o, g)) \ run[o].pureSigningPubs,
                          ![o].pureSigningPubs = @ \cup (needed \ CodexKeysOf(o, g))]
  /\ UNCHANGED <<codex, tx>>

(* getKeyPairByPublicKey: prompts the user, who may decline, and throws    *)
(* for a key that has left the codex.                                      *)
Prompt(o, k) == [run[o].asked EXCEPT ![k] = @ + 1]

KeyResolved(o, k) ==
  /\ At(o, "collecting") /\ k \in run[o].wanted /\ k \in codex
  /\ run' = [run EXCEPT ![o].wanted = @ \ {k}, ![o].pureSigningPubs = @ \cup {k},
                        ![o].asked = Prompt(o, k)]
  /\ UNCHANGED <<codex, tx>>

KeyThrows(o) ==
  /\ \/ At(o, "collecting") /\ run[o].wanted # {}
     \/ At(o, "payer")
  /\ Throws(o, "key")
  /\ UNCHANGED <<codex, tx>>

(* selectCapsSigningKey: the keys it may return, the payment key first.    *)
FreeKeys(o) == run[o].codexPubs \ run[o].pureSigningPubs

\* Mutant: the payment key is taken whether or not a guard needs it.
CapsKeysOverlapping(o) ==
  IF Request(o).paymentKey \in run[o].codexPubs THEN {Request(o).paymentKey} ELSE FreeKeys(o)

CapsKeys(o) ==
  IF Request(o).paymentKey \in FreeKeys(o) THEN {Request(o).paymentKey} ELSE FreeKeys(o)

\* Mutant: no key is as good as any.
SelectCapsUnchecked(o) ==
  /\ At(o, "collecting") /\ run[o].wanted = {} /\ run[o].left = {}
  /\ run' = [run EXCEPT ![o].phase = "payer",
                        ![o].payer = IF CapsKeys(o) = {} THEN NoKey ELSE CHOOSE k \in CapsKeys(o) : TRUE]
  /\ UNCHANGED <<codex, tx>>

SelectCaps(o) ==
  /\ At(o, "collecting") /\ run[o].wanted = {} /\ run[o].left = {}
  /\ \/ CapsKeys(o) = {} /\ Throws(o, "payer")
     \/ \E k \in CapsKeys(o) : run' = [run EXCEPT ![o].phase = "payer", ![o].payer = k]
  /\ UNCHANGED <<codex, tx>>

(* The payer's keypair arrives: build, and simulate.                       *)
PayerResolved(o) ==
  /\ At(o, "payer") /\ run[o].payer \in codex
  /\ run' = [run EXCEPT ![o].phase = "simulating", ![o].asked = Prompt(o, run[o].payer)]
  /\ UNCHANGED <<codex, tx>>

-----------------------------------------------------------------------------
(* Simulating, signing and submitting.                                     *)

Provided(o) == {run[o].payer} \cup run[o].pureSigningPubs \cup Request(o).extra
Signers(o) == {run[o].payer} \cup run[o].pureSigningPubs \cup Request(o).extra \cup Request(o).others

(* A node passes a simulation only if the signers meet the guards, by the  *)
(* chain's count and not by the repository's.                              *)
SimulationAnsweredIf(o, met) ==
  /\ At(o, "simulating")
  /\ \/ /\ met
        /\ run' = [run EXCEPT ![o].phase = "signing",
                              ![o].missing = IF Request(o).canAsk THEN Signers(o) \ Provided(o) ELSE {}]
     \/ Throws(o, "simulation")
  /\ UNCHANGED <<codex, tx>>

SimulationAnswered(o) ==
  SimulationAnsweredIf(o, \A g \in Request(o).guards : MetBy(g, Signers(o)))

\* Mutant: no deadline.
SimulationTimesOutNever(o) == FALSE

SimulationTimesOut(o) ==
  /\ At(o, "simulating")
  /\ Throws(o, "timeout dirtyRead")
  /\ UNCHANGED <<codex, tx>>

(* onMissingKey: the user pastes the private key of a signer.              *)
ForeignKeyGiven(o, k) ==
  /\ At(o, "signing") /\ k \in run[o].missing
  /\ run' = [run EXCEPT ![o].missing = @ \ {k}, ![o].asked = Prompt(o, k)]
  /\ UNCHANGED <<codex, tx>>

(* It is refused or does not match, or a wallet password is wrong.         *)
SigningThrows(o) ==
  /\ At(o, "signing")
  /\ Throws(o, "sign")
  /\ UNCHANGED <<codex, tx>>

(* The signers that have signed. A signer nobody has is left out silently. *)
\* Mutant: the extra keypairs are not handed to sign.
SignaturesNoExtra(o) ==
  IF Request(o).canAsk THEN Signers(o) ELSE Signers(o) \cap ({run[o].payer} \cup run[o].pureSigningPubs)

Signatures(o) == IF Request(o).canAsk THEN Signers(o) ELSE Signers(o) \cap Provided(o)

(* Signed and submitted with nothing awaited but the signatures. Every     *)
(* node refuses a transaction that lacks one.                              *)
Submit(o) ==
  /\ At(o, "signing") /\ run[o].missing = {}
  /\ run' = [run EXCEPT ![o].phase = "submitting"]
  /\ tx' = [tx EXCEPT ![o][run[o].n] = IF Signatures(o) = Signers(o) THEN "sent" ELSE "incomplete"]
  /\ UNCHANGED codex

SubmitAnswered(o) ==
  /\ At(o, "submitting") /\ Tx(o) \in {"mempool", "mined"}
  /\ run' = [run EXCEPT ![o].phase = "settled", ![o].outcome = "ok"]
  /\ UNCHANGED <<codex, tx>>

(* client.submit rejects: the node's error, or no connection.              *)
SubmitThrows(o) ==
  /\ At(o, "submitting")
  /\ Throws(o, "submit")
  /\ UNCHANGED <<codex, tx>>

\* Mutant: the error names the other operation.
SubmitTimesOutMislabelled(o) ==
  /\ At(o, "submitting")
  /\ Throws(o, "timeout dirtyRead")
  /\ UNCHANGED <<codex, tx>>

SubmitTimesOut(o) ==
  /\ At(o, "submitting")
  /\ Throws(o, "timeout submit")
  /\ UNCHANGED <<codex, tx>>

-----------------------------------------------------------------------------
(* Environment.                                                            *)

(* A request reaches its node or not, at any time; what the mempool holds  *)
(* is mined or expires.                                                    *)
TxMoves(o, n) ==
  /\ \/ tx[o][n] = "sent" /\ tx' = [tx EXCEPT ![o][n] = "mempool"]
     \/ tx[o][n] \in {"sent", "mempool", "incomplete"} /\ tx' = [tx EXCEPT ![o][n] = "lost"]
     \/ tx[o][n] = "mempool" /\ tx' = [tx EXCEPT ![o][n] = "mined"]
  /\ UNCHANGED <<codex, run>>

(* The user adds a key to the codex, or removes one.                       *)
CodexChanges(k) ==
  /\ codex' \in {codex \cup {k}, codex \ {k}}
  /\ UNCHANGED <<run, tx>>

Resolver(o) ==
  \/ Listed(o) \/ KeyThrows(o) \/ PayerResolved(o) \/ SigningThrows(o)
  \/ \E k \in Keys : KeyResolved(o, k) \/ ForeignKeyGiven(o, k)

Local(o) == AnalyzeGuard(o) \/ SelectCaps(o) \/ Submit(o)

XsNext ==
  \/ \E o \in Operations :
       \/ \E r \in Requests : Execute(o, r)
       \/ Resolver(o) \/ Local(o)
       \/ SimulationAnswered(o) \/ SimulationTimesOut(o)
       \/ SubmitAnswered(o) \/ SubmitThrows(o) \/ SubmitTimesOut(o)
       \/ \E n \in 1..MaxRuns : TxMoves(o, n)
  \/ \E k \in Keys : CodexChanges(k)

XsSpec == XsInit /\ [][XsNext]_signingVars

(* The resolver settles what it is asked (its user answers, or closes the  *)
(* dialog), synchronous code goes on, deadlines fire. Nodes owe nothing.   *)
XsFairSpec ==
  XsSpec /\ \A o \in Operations : /\ WF_signingVars(Resolver(o)) /\ WF_signingVars(Local(o))
                                  /\ WF_signingVars(SimulationTimesOut(o))
                                  /\ WF_signingVars(SubmitTimesOut(o))

-----------------------------------------------------------------------------
(* Properties.                                                             *)

(* The locals have their types; from the simulation on there is a payer.   *)
XsTypeOK ==
  /\ codex \subseteq Keys
  /\ tx \in [Operations -> [1..MaxRuns -> {"none", "sent", "incomplete", "mempool", "mined", "lost"}]]
  /\ \A o \in Operations :
       /\ run[o].phase \in {"idle", "listing", "collecting", "payer", "simulating", "signing",
                            "submitting", "settled"}
       /\ run[o].n \in 0..MaxRuns /\ run[o].outcome \in Outcomes
       /\ run[o].codexPubs \subseteq Keys /\ run[o].pureSigningPubs \subseteq Keys
       /\ run[o].wanted \subseteq Keys /\ run[o].missing \subseteq Keys
       /\ run[o].payer \in Keys \cup {NoKey}
       /\ run[o].phase \in {"payer", "simulating", "signing", "submitting"} => run[o].payer \in Keys

(* "avoiding pure-signer overlap": the key that signs for the gas is not   *)
(* one that signs for a guard, whichever keys the user has and pasted.     *)
PayerApart ==
  \A o \in Operations : run[o].payer # NoKey => run[o].payer \notin run[o].pureSigningPubs

(* The user is prompted at most once for a key, however many guards, the   *)
(* payer and the signing need it.                                          *)
AskedOnce == \A o \in Operations, k \in Keys : run[o].asked[k] <= 1

(* Once collected, the signers meet every guard that the codex and the     *)
(* pasted keys could satisfy: taking keys for one guard never starves      *)
(* another, and what computeThreshold counts as enough is enough for the   *)
(* chain - but for a guard with fewer keys than its predicate counts.      *)
GuardsMet ==
  \A o \in Operations :
    run[o].phase \in {"payer", "simulating", "signing", "submitting"} =>
      \A g \in Request(o).guards :
        Satisfied(g, run[o].codexPubs, Request(o).pasted) /\ ~Undersized(g) =>
          MetBy(g, run[o].pureSigningPubs)

(* "can find a priv for every sig slot in the tx": unless the build        *)
(* closure adds signers of its own, or with a resolver that can ask for    *)
(* them, a transaction is sent with all its signatures.                    *)
FullySigned ==
  \A o \in Operations : At(o, "submitting") /\ Tx(o) = "incomplete" =>
    ~Request(o).canAsk /\ ~(Request(o).others \subseteq Provided(o))

(* A consumer that starts again after every failure that precedes the      *)
(* submit, and otherwise only when the transaction is lost, never gets an  *)
(* operation done twice, although every call makes a new request key.      *)
LandsOnce ==
  \A o \in Operations : \A m, n \in 1..MaxRuns : tx[o][m] = "mined" /\ tx[o][n] = "mined" => m = n

(* execute settles if the resolver does, whatever the nodes do.            *)
ExecuteSettles == \A o \in Operations : run[o].phase # "idle" ~> run[o].phase = "settled"
=============================================================================
