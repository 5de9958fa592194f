# A verification of OuronetCore

OuronetCore (`src/`) is a TypeScript library. Wallet front ends (OuronetUI, the
codex tools) use it to read from and write to StoaChain, a chainweb network:
it keeps track of the node that answers, sends and follows transactions, decides
which keys have to sign, builds transactions, and encrypts the user's codex of
keys. This directory holds TLA+ modules that model it, the TLC runs that check
them on small instances, and theorems checked by TLAPS.

Contents: [inventory](#inventory) · [modules](#modules) · [runs](#runs) ·
[fairness](#fairness) · [proofs](#proofs) · [findings](#findings) ·
[observations without a run](#observations-without-a-run) ·
[what is not modelled](#what-is-not-modelled) · [plan](#plan)

## Inventory

Everything runs in one JavaScript thread: a callback, or the code between two
awaits, is never interrupted, and everything else may happen at an await. Paths
are relative to `src/src/`.

| part (source) | state | operations | modelled by |
| --- | --- | --- | --- |
| Node failover (`network/nodeFailover.ts`) | module variables: primary, fallback and active host, custom gas limit, retry timer; health checks and calls in flight | `setNodeConfig`, `resetNodeFailover`, `initNodeFailover`, the retry tick, `withFailover` | `NodeFailover` |
| Failover client (`network/failoverClient.ts`) | per call: attempt, abort controller, deadline | `dirtyRead`, `submit`, `listen`, `pollOne` | `FailoverClient`, `SubmitContract` |
| Cross-chain transfers (`interactions/crossChainFunctions.ts`) | none of its own: a defpact of two steps on two chains, and the loop of `pollSpvProof` | build, submit, poll status, poll for the SPV proof, continue | `CrossChain` |
| Transaction executors (`interactions/*Functions.ts`) | per call: transaction, simulation, gas limit | 33 executors that simulate, calibrate, rebuild, sign and submit | `Executors` |
| Gas calibration (`gas/gasUtils.ts`) | none | `calculateAutoGasLimit` | `GasLimit` |
| Codex signing (`signing/codexStrategy.ts`, `signing/universalSign.ts`) | per `execute`: codex listing, keys collected, payer | `execute`, `sign` | `CodexSigning` |
| Guard analysis (`guard/guardUtils.ts`) | none | `computeThreshold`, `analyzeGuard`, `selectCapsSigningKey` | `Guards` |
| Native UrSTOA transfer (`interactions/urStoaFunctions.ts`) | per call: signers, signatures that do not verify | `executeNativeUrStoaTransfer` | `UrStoaTransfer` |
| Partial signatures (`signing/partialSig.ts`) | envelopes held by several signers | `signPartial`, serialize, deserialize, who is missing, verify | `PartialSig` |
| Smart account authorisation (`guard/smartAccountAuth.ts`) | none | classification of the three guards of a Smart account, choice of the one to sign for | `SmartAccount` |
| Chain reads (`reads/`, the reads of `interactions/`) | one replaceable reader | some 120 reads: a `dirtyRead` each, or two, and what becomes of every kind of answer | `Reads` |
| Password encryption (`crypto/`) | a one-shot warning | encrypt, decrypt, version dispatch | planned: the dispatch |
| Codex files (`codex/`) | none | JSON conversions | planned |
| Wallet (`wallet/`) | a balance cache | key derivation, `getBalance` | `Reads`: the cache |
| Pact formatting, builders, errors, logging, constants, Dalos accounts | none, or one replaceable logger | texts and values | no |

How they interact. Every chain access is a call of `withFailover`, made by the
failover client or, for an SPV proof, directly; all of them share the module
variables of `nodeFailover.ts`, which a timer and the settings dialog change
behind their back. Executors and the cross-chain flow are sequences of such
calls. `execute` of the codex strategy is the exception: it uses the chain client
its consumer passes in, with deadlines of its own and without failover. A
resolver supplied by the consumer answers the requests for keys and prompts the
user; what it may sign with changes when the user edits the codex.

What is hard about them, and what makes each correct:

* **Node failover.** A host is captured before an await and compared after it,
  while ticks, other calls and `setNodeConfig` go on. It must keep one interval
  per outage, never retry a failure of the fallback, retry on the host that has
  not just failed, leave and re-enter the primary for a reason only, and find its
  way back to a primary that is healthy again.
* **Failover client.** A request that lost its race against a deadline is not
  recalled. Both attempts must carry one request key, a call must settle by its
  own deadline, an answer of the abandoned attempt must not count, and what
  the call ends in must be what became of its last attempt.
* **Cross-chain transfers.** Nodes lag, answers are lost, requests that "failed"
  are mined. The status must agree with the chain, the proof loop must end and give
  up after its attempts and not before, a continuation may follow a final first
  step only.
* **Executors.** Up to four awaited calls in a row, a gas limit chosen for the
  node active in between, a second simulation in one of them. What reaches a node
  must have passed its last simulation with a limit that covers it, and an error
  must tell whether a transaction may be out.
* **Chain reads.** A reader that may be replaced while reads are in flight, a pinned
  URL that bypasses the failover, and as many ways to treat a failed read as there are
  reads. What a caller takes for the chain's answer must be one, and a reading
  that was asked for later must not be overwritten by an older one for good.
* **Smart accounts.** Any of three guards authorises. The guards were fetched some time
  ago, some of them in vain or not resolved; what cannot be met must not be chosen in
  place of what can.
* **Codex signing.** Guards share keys, the codex changes between prompts, and a
  second `execute` makes a second request key. The payer must not be a guard's
  signer, nobody is asked twice, each guard that can be met is, and an operation
  started again by the rules the doc gives is not done twice.

`PROJECT.json` lists the hazards at their lines with the properties that cover
them.

## Modules

    NodeFailover ──┬── FailoverClient ──(refines)── SubmitContract
                   ├── CrossChain
                   ├── Reads
                   └── Executors ── GasLimit
    SmartAccount ── CodexSigning ──┬── Guards
                    UrStoaTransfer ┘
    PartialSig

A module right of `NodeFailover` EXTENDS it and adds its own variables; each of its
steps is a step of `NodeFailover` together with a step of its own, or leaves one of the two
alone (in `FailoverClient` and `Reads` an attempt may end in any way on any host, see `OpenNext` under
[proofs](#proofs)). `SmartAccount` EXTENDS `CodexSigning` in the same way. `GasLimit` and `Guards` are libraries of operators, extended by the modules left of them.

**`NodeFailover`** has one action per stretch of code between two awaits.
`primary`, `fallback`, `current`, `customGasLimit` and `retryTimer` are the
module variables; `intervals` counts live `setInterval` handles, which the code
cannot see. `probe` holds health checks in flight (`Ticks`: those of the retry
loop, `Checks`: those of `initNodeFailover`), `call` the `withFailover` calls, with
the constants they captured. `up` is the environment. Base URLs and hosts are
one-to-one, so a comparison of base URLs is one of hosts. The field `reconf` of a
probe or call is a history: the configuration changed under it. An attempt on a
host that is down may end in an error `withFailover` recognises ("network") or
not ("other").

**`FailoverClient`** adds, for each call, the requests of its two attempts
(`wire`), the armed deadline (`timer`), the deadlines that fired and the result;
`known` is what the mempool or the chain holds: nodes gossip, so one set serves
all. A request is taken, rejected, refused or lost at any time, also long after
its call has settled. Callers reuse and change transaction objects, but not under
a pending submit, as the doc of `submit` demands.

**`SubmitContract`** is what a caller may rely on: one key per call, success only
for a key that is known, and no promise about the key on failure.
`FailoverClient!Contract` maps a call that runs a submit to its status and key.

**`CrossChain`** takes one library call for one `withFailover` call of the
transfer's slot. Here `up` means that a host answers within the deadline of the
call: one that is not refuses or is silent. A node that answers may still refuse a submit, for a clock that is ahead or
for a reason of its own ("rejected"). `pollOne` and `submit` end in an error
that fails over; the `fetch` of `fetchSpvProof` ends by `AbortSignal.timeout`, in
one that does not. `source` and `target` are the two chains. A wallet's clock may be
ahead, and each of the three builders sets the creation time its own way.

**`Executors`** has one record (profile) per executor with the decisions in which
they differ: a read before the simulation, the default limit, the policy for the
limit (calibrated, raised only, capped or not, plus 5000, fixed), whether a failure
for want of gas is retried, and whether signing and submitting share one `catch`.
One state machine runs every profile. `held` are the runs whose transaction a node
may hold, `cap` the block limit a calibration was made for.

**`GasLimit`** is `calculateAutoGasLimit` in integers; since the product with 1.10
or 1.05 is a double, a product that ought to be whole may round up by one
(`tests/gas.test.ts:179` pins such a case), which `Drift` leaves open.

**`Guards`** has the threshold of each keyset predicate, the keys available for
it, and when the code counts a set of signers as enough. Beside it stands what the chain asks for
(`Required`, `MetBy`): the count of the predicate, not lowered to the number of keys there are, so that nobody meets
an `Undersized` guard. A percentage of the keys is a double in
`computeThreshold`; its ceiling is that of the exact quotient used here for each of the five percentages and any
keyset of less than two million keys. **`CodexSigning`** is `execute`: list the
codex, check for foreign keys, collect the keys of each guard, choose the payer,
build and simulate, sign, submit. The order of guards and keys is left open. A key
handed over is `pasted`, or `blank` when its entry is an empty string: the pre-flight takes a blank entry for an answer
(it asks for the property), the analysis and the collection do not (they ask for a value). `tx`
is what becomes of the transaction of each call of `execute`: sent late, refused
because signatures are missing, mined or lost. The consumer starts an operation
again after an error that precedes the submit, or when the transaction is known to
be lost (the rule in the doc of `execute`).

**`SmartAccount`** sets `execute` to work for an operation of a Smart account. Guards are records
of the fields that their JSON has, which is all that `classifyGuardKind` looks at. The
consumer analyses what it fetched (a reference resolved or not, or null for what could
not be read), may be given missing keys by the user and analyse again, and calls `execute` with the keyset
of the path chosen alone, since `execute` wants every guard it is given. The
chain enforces any one of the guards the account has *then*: rotations and edits of the codex come
in between. `holds` is a history: the path was found satisfied, and nothing has changed since.

**`Reads`** has a row per read: what becomes of a rejected call, of a node's failure, of an answer without
a result and of data of each shape (a value, a placeholder the chain could have answered too, null, an exception),
whether the read pins a `pactUrl`, and whether it looks up the keyset its guard refers to. A slot holds one read in
flight, with the reader it was handed to and the host it is pinned to; `heard` is the kind of the latest answer, be it to the
read or to the lookup that follows it. `seen` is the height of the chain that each
node shows, an answer carries the host and height it was given at, and at height 0 the row that is read does not exist.
Pinned reads bypass `withFailover` and have the deadline of their one attempt. `balance` is the cache of
`KadenaWallet`. How a value is computed from the chain's data is left out.

**`UrStoaTransfer`** is the one executor that verifies its own signatures: simulate with the
payment key and one guard key, sign, and, if the guard key's signature does not verify, build again
for *all* other guard keys, sign and verify once more. `bad` are the keys whose signatures do
not verify, from the start and for good (an algorithm that does not match the seed). That a simulation
passes only if the sender's guard is met is what the node does.

**`PartialSig`** has parties with keys of their own, the copy each works on, and envelopes under
way, which can be lost, imported late or repeatedly, or altered (cmd, hash, one slot), as the doc of
`deserializePartialTransaction` expects of transport. The client library may keep the slots there are or
make them as many as there are signers: both are tried. A hash is told by the contents it is the hash of,
a signature by its key and the hash signed. `Ready` is what the code's checks find, `Accepts` what the chain asks: contents it can
parse, a pubKey for each signer, as many slots, the right signature in each. The library keeps nothing: the state is the
consumers'. `signedBy`, `altered` and `agreed` are histories; a copy that comes from an altered one has no `signedBy`. An import that throws changes nothing and is
no step.

Definitions marked *Mutant* are plausible wrong versions of the definition that
follows them; no specification uses them. `PROJECT.json` pairs one with every
property and run: with it in place, TLC finds that property violated.

## Runs

| run | instance | states | shows |
| --- | --- | --- | --- |
| `NodeFailover_safety` | 2 calls, 1 tick, 1 startup check, 3 hosts, all five kinds of `setNodeConfig` | 1.25 M | timers, captured hosts, justified switches: TypeOK, TimerDiscipline, OnlyPrimaryFailuresRetry, RetryReachesFallback, TripIsJustified, RecoveryIsJustified |
| `FailoverClient_submit` | 2 submits sharing 1 object, 2 keys | 521 K | OneKeyPerSubmit, SettledByLastAttempt, ImplementsContract (which implies ResolvedSubmitIsKnown) |
| `FailoverClient_live` | 1 slot, all four methods, 1 tick, reconfigurations | 383 K | ClientTypeOK, CallsSettle, Recovery |
| `CrossChain_flow` | 1 transfer, 3 builders, 2 proof attempts, 1 tick | 64 K | StatusAgreesWithChain, ContinuesFinalTransfers, GivesUpAfterMaxAttempts, PollSpvProofEnds |
| `Executors_flow` | 1 run at a time of 8 profiles, 4 gas needs, custom node with a lower limit, 1 tick | 436 K | LimitCoversGas, LimitWithinNode, HeldWasSimulated, FailedBeforeSubmit, RunsSettle |
| `CodexSigning_execute` | 1 operation executed up to twice, 3 keys, 7 requests; or one of a Smart account of three kinds, rotated once | 269 K | PayerApart, AskedOnce, GuardsMet, FullySigned, LandsOnce, ChosenPathAccepted, ExecuteSettles |
| `UrStoaTransfer_flow` | every guard over 3 keys, every set of keypairs and of keys that sign wrongly | 2 K | AnyKeyGuardsMet, RebuildMeetsWhatItCan |
| `PartialSig_exchange` | 3 parties with a key each, 5 contents (three signers, two, one without a pubKey before or behind another, one that cannot be parsed), 1 envelope under way, 1 alteration | 1.5 M | ReadyIsComplete, ReadyIsAgreed, HandoffIsFaithful |
| `Reads_flow` | 2 slots, 2 hosts, heights 0 and 1; every kind of row alone, two readings of the wallet, a pinned read beside one that fails over | 169 K | ReadsTypeOK, NothingFabricated, BalanceGoesForward, RawReadsSettle |

Three more runs end in a counterexample: see [findings](#findings).

Why the bounds are enough to be of interest:

* *Calls, ticks, checks.* All races of `NodeFailover` are between what one
  activity captured and what one other changed, so two calls, one tick and one
  startup check cover each pair. The theorems hold for any number.
* *Hosts.* Two known nodes and a custom one; a custom URL that is node2's own makes
  primary and fallback coincide, and a refused URL is an argument too.
* *Keys and objects.* Two submits of one object, with a key to change it to, is the
  smallest instance in which a retry could carry another key.
* *Proof attempts.* With two, there is an attempt before the last, the last one, and a
  sleep between them. `MaxAttempts` is any positive number in the proofs.
* *Gas.* Needs below, between and above the default limits of executors and the
  two block limits (1.6 M, 2 M); each combination of decisions occurs in a profile,
  and the proofs take any profile and any need.
* *Signing.* Three keys of which the codex may hold any and may gain or lose any
  between awaits; requests with two guards that share a key, thresholds of one,
  two and all, a percentage, an unknown predicate, pasted and handed-over keys, a
  signer nobody has, an undersized guard beside one that can be met, a blank entry. `MaxRuns = 2` allows a second execution of an operation.
* *Smart accounts.* Accounts with a keyset, a reference, a capability, a user guard and shapes that lack a field,
  one of which can be rotated into another; one `execute` per Smart account, since what is executed again is
  the business of the requests above.
* *Reads.* A read shares nothing with another but the reader, the failover and the wallet's cache, so each row
  is run alone (`EachAndPairs`; rows that are alike count once), and two slots are for the pairs that can touch. Nodes at heights
  0 and 1 are enough for one to lag, for a row to appear and for a balance to become stale.
* *UrSTOA.* The payment key, inside or outside the guard, and two guard keys: the least at which
  a dropped key can be replaced by one that is valid or by one that is not.
* *Partial signatures.* Three parties are the doc's own example and the least with which two fork a copy
  that a third completes. Copies that parties keep can be exported again, so one envelope
  under way at a time still delivers old ones; with one alteration a copy is altered before, between
  and after signatures.
* Symmetry is used for the calls of `NodeFailover_safety` only, which has no
  liveness property.
* Deadlock is checked in every run.

## Fairness

* `NodeFailover!Fairness`: an interval that is set keeps firing, `isHealthy`
  settles by its timeout (`HEALTH_TIMEOUT_MS`), and its continuation runs. Nothing is asked
  of consumers or hosts.
* `ClientFairSpec`: `NodeFailover!Fairness`, and a deadline that is armed fires unless it is cleared. No node
  needs to answer for `CallsSettle`. `Recovery` assumes what its premise says, that the primary stays
  configured and passes its health checks from some time on, and promises that the client is on it again and
  again, not for good: a host that answers `/info` and lets calls time out is left on every such call and entered on the next
  tick.
* `XFairSpec`: the sleep of the proof loop ends, and so does each fetch (by the
  answer of a host that answers, else by `AbortSignal.timeout`).
* `XecFairSpec`: an attempt has a deadline (the failover client's), and code that
  can run runs; that a signer answers is an assumption about the consumer.
* `XsFairSpec`: the resolver settles what it is asked, possibly by throwing;
  synchronous code goes on; the deadlines of simulation and submit fire. Nodes owe
  nothing.

* `SmartFairSpec`: `XsFairSpec` on the steps of `execute`. Nobody needs to analyse, paste or rotate.
* `ReadsFairSpec`: an attempt of a read ends by its own deadline (`runWithTimeout`, or the deadline of the failover
  client), and its continuation runs. Nodes and a replaced reader owe nothing.

`UrStoaTransfer` and `PartialSig` have no liveness properties: a straight line of calls whose settling
`FailoverClient` covers, and an exchange that is up to its parties.

## Proofs

TLAPS checks the modules `*_proofs`. A theorem holds for all values of the
constants that satisfy the named ASSUMEs of its module: any number of calls, ticks and
checks, any custom hosts, keys, objects, transfers and profiles.

* **`NodeFailover_proofs`**: TypeCorrect, TimerDisciplined, ActiveAlwaysConfigured,
  FallbackFailuresPropagate, RetryOnFallback, TripNeedsFailure, RecoveryNeedsHealth, and, under
  `AllUrlsValid`, RetriesPrimary. The inductive invariant `IInv` adds
  `CapturesCurrent` to the properties: what a probe or call captured still describes the
  configuration unless that changed since. Without it `RetryReachesFallback` is not
  inductive, because the host a call captured could be anything.
  `RetriesPrimary` needs `AllUrlsValid`: see the first finding.
  They are theorems about `OpenSpec` first, whose next-state relation `OpenNext` adds to `Next` that an
  attempt may end in any way whatever `up` says, and then about `Spec`, which implies it. So they can be
  inherited by every user of `withFailover`: `FailoverClient` and `Reads`, whose deadlines also pass on hosts that are up,
  implement `OpenSpec`; `CrossChain` and `Executors` implement `Spec`.
* **`FailoverClient_proofs`**: ClientTypeCorrect, LastAttemptSettles, SubmitDedup, ResolvedIsKnown, ClientImplementsContract,
  ClientRefinesFailover, and inherited along it ClientTripNeedsFailure, ClientRecoveryNeedsHealth and ClientRetriesPrimary
  (`RetryingOnFallback`, the safety half of the liveness property `Recovery`; under `AllUrlsValid`).
  ClientTypeCorrect includes `DeadlineArmed`: a call in flight always has the deadline that ends it.
  `CIInv` strengthens the properties by `ContractInv`: the object of a call in
  flight still has the contents that were sent, an answered submit is in the mempool, and the
  mempool holds only what was handed over. With it every step of the client is one of
  `SubmitContract` or a stutter under the mapping `Contract`.
* **`RpcFlows_proofs`**, for `CrossChain`: XTypeCorrect, StatusSound, ProofSound, GivesUpAtTheBound, and
  FlowRefinesFailover (each step of the flow is a step of `NodeFailover`, so its
  invariants hold here). `XInv` relates attempt, fetches and step of the loop.
  For `Reads`: ReadsTypeCorrect, ReadsFabricateNothing, BalanceNeverGoesBack, ReadsRefineFailover, ReadsKeepFailover,
  ReadsTripNeedsFailure. `ReadsInv` adds to the types, slot by slot (`SlotInv`): the host a call runs against is a
  host; what a node showed when it answered is at least what it showed when the read began, and that at most what it
  shows now; a node that answers that a row is absent showed height 0 when the read began; and the result of a settled read is what its
  row makes of the answer, or of the answer to the lookup that followed (`LooksUpData`, `Outcome`). So ReadsFabricateNothing covers
  the lookups as well, and names the one that does hide an outage, getUrStoaGuard's (`LookupHidden`). `NullRows` is the part that depends on the table: what the rows that v3.0.0
  promises null for make of a rejected call, and of a failure.
* **`Executors_proofs`**: ExecutorTypes, LimitsCoverGas, LimitsRespectNode, HeldIsSimulated,
  ExecutorsRefineFailover, EndsAreTold. `XecInv` says which runs can be held and where limit and gas of a
  run come from; two lemmas about `AutoGasLimits` bound its results.
* **`Guards_proofs`**: ThresholdBounded (a threshold lies between one and the number of keys, for
  every predicate and size), ThresholdMeetsChain (signers the code counts as enough meet the guard on chain, unless it is
  undersized), UndersizedIsNeverMet (then nobody does), PercentageIsReached (and for a percentage it is the least number of signatures
  that reaches it), and the lemmas that more signers never unsatisfy a guard and
  that one satisfies a guard whose threshold is one.
* **`CodexSigning_proofs`**: SigningTypes, PayerSignsForGasOnly, NobodyAskedTwice, GuardsAreMet,
  SentFullySigned, OperationsLandOnce. `XsInv` says of a run, phase by
  phase, where a key that was asked for is, which guards the keys collected *and those still
  wanted* satisfy (by the code's count; ThresholdMeetsChain takes it to the chain's, which is where `GuardsMet` and
  `ChosenPathAccepted` except undersized guards), and that transactions of earlier calls are lost or were never sent.
  For `SmartAccount`, SmartSigningSound: all of these hold of `SmartSpec` too. Its steps preserve `XsInv`, which is why a
  run's request may be any in `AnyRequest`: one the specification enumerates, none, or the keyset of a path with the keys pasted.
  SatisfiablePathIsChosen: a guard that is unresolved or unreadable never hides one that can be met. SatisfiablePathsAccepted: `SmartInv` follows the keyset of a path found satisfied,
  from the codex at the analysis to `codexPubs` to the signers collected. It needs no invariant of the guards on
  chain but `OneKindAssumption` (a reference to a keyset is not a capability or user guard as well, as
  `guard/smartAccountAuth.ts:96` says of another mixture that it is impossible in practice): a resolved reference would otherwise pass for a
  guard that no signature meets.

* **`UrStoaTransfer_proofs`**: UrStoaTypes, UrStoaMeetsAnyKey, UrStoaMeetsWhatItCan.
  `UInv` says that what is submitted either passed its simulation or is signed by every keypair
  that was not dropped, and that only keys in `bad` were.
* **`PartialSig_proofs`**: ReadyCopiesComplete, ReadyCopiesAgreed, HandoffsFaithful. `PInv` says
  of every copy, held or under way, that a signature sits only where its contents (those of the hash signed) have
  that signer, that its key was used for them, and that an unaltered copy carries exactly the signatures of the
  parties it passed. The copies under way are needed: what is imported was exported before. That a
  ready copy of a cmd has its signers unshifted follows by counting: a rank equal to a position, for each of the signers
  that signed, leaves no nameless signer in front of one.

All invariants and action properties of the passing runs are proved. What stays with TLC is liveness, since
TLAPS does not treat fairness and ENABLED here: CallsSettle, Recovery, PollSpvProofEnds, RunsSettle, ExecuteSettles and
RawReadsSettle; and the counterexamples of the findings.

## Findings

Where the code does not do what a comment, doc or error text of the repository says.
Each has a run that ends in the counterexample.

1. `NodeFailover_badurl`: `setNodeConfig` stops the retry loop and only then validates
   the custom URL (`network/nodeFailover.ts:185`). A refused URL while the fallback is active
   leaves it active with no timer; `switchToFallback` returns early there, so nothing
   starts one. The header promises "Retry primary every 30s when on fallback."
2. `CrossChain_spvtimeout`: `AbortSignal.timeout` raises a TimeoutError, which
   `withFailover` does not recognise, so a fetch that times out on the primary never
   reaches the fallback (`interactions/crossChainFunctions.ts:360`, against its doc at 336 and the text at 386).
3. `CrossChain_completed`: `getContinuationStatus` reports a pending transfer as completed
   (`interactions/crossChainFunctions.ts:586`).

## Observations without a run

Met while modelling; no text of the repository claims otherwise, or the claim is loose.

* A submit that timed out may have landed, or land later, since a deadline does not recall a request. The doc
  of `submitCrossChainTransfer` (`interactions/crossChainFunctions.ts:233`) says that a failed submit "means the
  transaction did NOT land on chain". `SubmitContract` makes no promise on failure, and `LandsOnce` depends on
  the caller not taking TIMEOUT for one.
* A signer without a `pubKey` moves those behind it (`signing/partialSig.ts:261`): `getMissingSigners` names signers who
  have signed, and `verifyExistingSignatures` accuses their signatures. `ReadyIsComplete` shows that no signature then
  passes for another's, also in a copy that the chain will refuse.
* A signer without a `pubKey` *behind* the others, and a superfluous empty slot, are not noticed: `isFullySigned` and
  `allValid` are true of such a copy although the slot of that declared signer is empty, while its doc says "every declared signer
  slot is filled" (`signing/partialSig.ts:310`). The chain refuses the transaction. `ReadyIsComplete` promises
  its acceptance for contents whose signers all have a `pubKey` and a copy with as many slots as signers.
* `isFullySigned` and `verifyExistingSignatures` are both true of a cmd that cannot be parsed
  (`signing/partialSig.ts:274`), which the chain refuses (`WellFormed`, a premise of `ReadyIsComplete`). Signing it throws.
* `computeThreshold` lowers a count to the number of keys: it asks one signature for keys-2 of one key and none for
  an empty keyset (`guard/guardUtils.ts:98`, 93, 188), which the chain never takes for met. `analyzeGuard` calls such a guard satisfied,
  `execute` signs for it, and as a Smart account's first path it takes the place of a later one that can be met.
  `GuardsMet` and `ChosenPathAccepted` except undersized guards by name; no text of the repository speaks of them.
* A key handed over as an empty string passes the pre-flight of `execute`, which asks for the property
  (`signing/codexStrategy.ts:106`), and is still missing for `analyzeGuard`, which asks for a value (`guard/guardUtils.ts:217`): instead
  of the precise error, `execute` goes on without that key, to a simulation that fails if the key was needed.
* Copies signed apart cannot be merged: one party has to sign again on the other's copy.
* One `catch` of `sublimateOuroToIgnis` spans signing and submitting, so a TIMEOUT of the submit, after
  which the transaction may be in the mempool, is told as "Signing failed"
  (`interactions/ouroFunctions.ts:909`; the exception in `FailedBeforeSubmit`), while the doc of
  `createTimeoutError` says that its code can be looked for (`errors/transactionErrors.ts:205`).
* "rebuild without the bad keys if the guard predicate still holds" (`interactions/urStoaFunctions.ts:304`): the
  predicate is not looked at, only whether any guard keypair is left (341), and the second transaction
  is not simulated. A keys-all guard of the payment key and a key that signs wrongly is
  submitted with the payment key alone. What does hold is `RebuildMeetsWhatItCan`.
* The rebuilt transaction asks for `GAS_PAYER` with the payment key's address, where the comment on the
  first says it is always called with `""` (`interactions/urStoaFunctions.ts:245`, 381), and keeps the gas limit of
  a transaction with fewer signers.
* A tick whose health check began before `setNodeConfig` switches to the *new* primary,
  which nobody probed (`network/nodeFailover.ts:74`; the exception in `RecoveryIsJustified`).
* A call that fails after `setNodeConfig` may be retried on the host that failed
  (`network/nodeFailover.ts:138`; the exception in `RetryReachesFallback`).
* Errors are recognised by name and message: "fetch failed", ECONNRESET and "Load failed" do not
  fail over (`network/nodeFailover.ts:127`).
* TIMEOUT is also reported when the primary refused and the fallback timed out
  (`src/README.md:1231` speaks of both timing out). `SettledByLastAttempt` says
  what holds: the call ends in what became of its last attempt.
* `buildCTransferAcross` between other chains than 0, and the continuation, take the wallet's clock
  as creation time, where `buildCrossChainTransfer` takes a safe one (`interactions/crossChainFunctions.ts:207`, 126).
* `executeFuel`, `executeAddLiquiditySingle`, `executeRemoveLiquidity` and `coilTokensGeneric` choose
  their limits without `calculateAutoGasLimit`, hence without the node's cap (`interactions/addLiquidityFunctions.ts:607`).
* `transferToken` may retry with a calibrated limit no higher than the one that failed
  (`interactions/ouroFunctions.ts:1262`).
* Guard keys are taken greedily, so "the payment key is the only Codex key" can be reported although
  another choice would have left a payer (`signing/codexStrategy.ts:129`, 156).
* A limit is capped for the node active at calibration; the submit may reach another
  (`gas/gasUtils.ts:121`). `LimitWithinNode` speaks of the former.
* A primary that passes `/info` and lets calls time out makes the client flap between the two hosts, a failed attempt each
  (`network/nodeFailover.ts:73`; why `Recovery` says "again and again").
* `smartAccountAuth.ts:240` says that with a satisfied path "the consumer can sign the transaction immediately". A satisfied keyset with a
  key that is neither in the codex nor pasted is refused by the pre-flight of `execute` when the resolver cannot ask
  (`signing/codexStrategy.ts:102`), and a keyset that takes every codex key leaves no payer.
* `resolveGuard` resolves a reference under the chain's name `keysetref` only; one under `keysetRef`, which
  `classifyGuardKind` accepts as well, stays a reference and is never chosen (`interactions/ouroFunctions.ts:192`).
* Reads differ in what they make of a failure, and some texts promise more than the read tells:
  `getBalanceOnChain` answers `exists: false` also when the read failed (`interactions/crossChainFunctions.ts:11` reserves it for
  a row that does not exist); `checkCoinAccountExists` of `interactions/ouroFunctions.ts:2125` answers false to a node's failure;
  `getBalance` answers "0" to one; the last case of `getUrStoaGuard` hides a failed `describe-keyset`
  behind `isKeyset: false`; `getOuronetKdaDetails` answers `isActive: false` when the owner cannot be read,
  and may pair an owner with the guard of a later block. `NothingFabricated` speaks of the reads of which v3.0.0 promises null, and
  names its one exception (`LookupHidden`: `interactions/urStoaFunctions.ts:131-164`).
* `kadenaLedger` hands a node's failure over as if it were data: it answers `response.result` without a look at the status
  (`interactions/ouroFunctions.ts:133`), in the model a `value`.
* `getStoaPriceUSD` makes a price of 0 of `data` that is null or an empty string, since `Number(null)` is a finite
  number (`interactions/ouroFunctions.ts:2092`), where its doc promises that "no fabricated fallback price is ever returned"
  (2085). `CheckedNumber` models it; `NothingFabricated` takes whatever data a node
  sends for an answer.
* `getBalanceOnChain` and `simulateTransaction` pin the URL of the active host, where `constants/kadena.ts:37` speaks of failover.
* The one-shot warning about V1 data is given before the data is decrypted (`crypto/v2.ts`), also when that fails.

## What is not modelled

Cryptography and key derivation; the text of Pact code, capabilities, amounts and their
formatting; prices (only gas limits matter here); the nodes themselves, beyond answering,
refusing, lagging and gossiping. The synchronous rejection of a non-positive
`timeoutMs` is a precondition. `listen` of a cross-chain transfer is the plain `listen` of
`FailoverClient`. In `CodexSigning`, node errors of the simulation and of guards not met are one
outcome, and a pasted private key is taken to be the right one, as the code takes it.

## Plan

Order: failover and its client first, since everything else runs on them; then the flows that
move coins; then the keys. Done: `NodeFailover`, `SubmitContract`, `FailoverClient`,
`CrossChain`, `GasLimit`, `Executors`, `Guards`, `CodexSigning`, `UrStoaTransfer`, `PartialSig`, `Reads`, `SmartAccount`. Next:

1. `crypto/v2.ts`: the version dispatch and its one-shot warning; `codex/`: conversions and
   their round trip.
2. Reads that only compose others, and the rows' values where a consumer computes with them.
