------------------------------ MODULE Executors ------------------------------
(***************************************************************************)
(* The executors of src/interactions: every function that spends something *)
(* builds a transaction, simulates it unsigned (dirtyRead), chooses a gas  *)
(* limit, builds it again, signs it and submits it, over the failover      *)
(* state of nodeFailover. They differ in a few decisions, recorded for     *)
(* each as a profile; Pact code, capabilities, signers and amounts do not  *)
(* matter here.                                                            *)
(***************************************************************************)
EXTENDS NodeFailover, GasLimit

CONSTANTS
  Profiles,   \* the executors called
  GasNeeds,   \* gas a transaction may turn out to need
  NoProfile

ASSUME GasNeedsAssumption == GasNeeds \subseteq Nat \ {0}

(* read     - does a chain read come first, and is its failure the run's?  *)
(* simulate - gas limit of the transaction that is simulated               *)
(* limit    - how the limit of the submitted one is chosen                 *)
(* retry    - simulate again when the gas limit was the trouble            *)
(* rewrap   - whatever signing or submitting throws becomes a SigningError *)
(*            with the code GENERIC_SIGNING_ERROR                          *)
Ends == {"none", "ok", "SIMULATION", "SIGNING", "TIMEOUT", "network", "other"}

Profile == [read : {"none", "needed", "optional"}, simulate : Nat \ {0},
            limit : {"calibrate", "raise", "raise uncapped", "plus 5000"},
            retry : BOOLEAN, rewrap : BOOLEAN]

(* The one executor that simulates twice raises its limit afterwards.      *)
ASSUME ProfilesAssumption ==
  /\ Profiles \subseteq Profile /\ NoProfile \notin Profiles
  /\ \A p \in Profiles : p.retry => p.limit = "raise"

Raising == [read |-> "none", simulate |-> 2000000, limit |-> "raise",
            retry |-> FALSE, rewrap |-> FALSE]
Calibrating == [Raising EXCEPT !.limit = "calibrate"]
Swap(limit) == [Calibrating EXCEPT !.simulate = limit]
SwapWithSlippage(limit) == [Swap(limit) EXCEPT !.read = "needed"]   \* getSlippageBounds
Padding(limit) == [Raising EXCEPT !.simulate = limit, !.limit = "plus 5000"]

-----------------------------------------------------------------------------
(* dexFunctions.ts                                                         *)
executeSingleSwapWithSlippage == SwapWithSlippage(100000)
executeSingleSwapNoSlippage   == Swap(140000)
executeMultiSwapWithSlippage  == SwapWithSlippage(120000)
executeMultiSwapNoSlippage    == Swap(120000)
executeSmartSwapWithSlippage  == SwapWithSlippage(1500000)
executeSmartSwapNoSlippage    == Swap(1500000)

(* addLiquidityFunctions.ts, for a pool of so many tokens                  *)
executeAddLiquiditySingle(tokens) == Padding(tokens * 100000)
executeFuel(tokens)               == Padding(tokens * 100000)
executeRemoveLiquidity            == Padding(200000)
executeSpecialAddLiquidity        == Raising

(* ouroFunctions.ts                                                        *)
sublimateOuroToIgnis   == [Raising EXCEPT !.rewrap = TRUE]
compressIgnisToOuro    == Raising
wrapKadena             == Raising
unwrapKadena           == Raising
transferToken          == [Raising EXCEPT !.retry = TRUE]
movieBoosterBuy        == [Raising EXCEPT !.read = "optional"]      \* getTotalMBCost
firestarter            == Raising
curlOuroToEliteAuryn   == Raising
coilOuroToAuryn        == Raising
rotateKadenaPaymentKey == Calibrating
executeUnwrapStoa      == Calibrating
executeUnwrapUrStoa    == Calibrating

(* coilFunctions.ts, pensionFunctions.ts, kpayFunctions.ts                 *)
coilTokensGeneric   == [Raising EXCEPT !.simulate = 70000, !.limit = "raise uncapped"]
brumateWkdaToPkda   == Raising
constrictLkdaToPkda == Raising
kpayBuy             == [Raising EXCEPT !.read = "needed"]           \* its capabilities

(* guardFunctions.ts, activateFunctions.ts, wrapFunctions.ts, urStoaFunctions.ts *)
rotateGuard                  == Calibrating
executeDeployStandardAccount == Calibrating
executeWrapStoa              == Calibrating
executeWrapUrStoa            == Calibrating
executeStakeUrStoa           == Calibrating
executeUnstakeUrStoa         == Calibrating
executeCollectUrStoa         == Calibrating

-----------------------------------------------------------------------------
VARIABLES
  run,      \* the executors under way, one per withFailover slot
  held      \* environment: the runs whose transaction a node holds

execVars == <<vars, run, held>>

NoGas == 0        \* the answer carries no gas
NoNumber == 0     \* the error message names no number

(* limit - gas limit of the transaction as it is built now                 *)
(* gas   - what the last simulation used                                   *)
(* cap   - the node limit calculateAutoGasLimit was last given, 0 if none  *)
(* passed - history: the last simulation succeeded                         *)
Run == [profile : Profiles \cup {NoProfile},
        phase : {"idle", "reading", "ready", "simulating", "signing", "signed",
                 "submitting", "settled"},
        limit : Nat, gas : Nat, cap : Nat, retried : BOOLEAN, passed : BOOLEAN,
        outcome : Ends]

Fresh == [profile |-> NoProfile, phase |-> "idle", limit |-> 0, gas |-> NoGas, cap |-> 0,
          retried |-> FALSE, passed |-> FALSE, outcome |-> "none"]

XecInit ==
  /\ Init
  /\ run = [e \in Calls |-> Fresh]
  /\ held = {}

At(e, phase) == run[e].phase = phase
Host(e) == call[e].host

-----------------------------------------------------------------------------
(* What a call of the failover client comes to.                            *)

Answered(e) == up[Host(e)] /\ CallSettles(e, "ok")

(* It rejects: the node's error, or no answer from the last host asked.    *)
Rejected(e, cause) ==
  \/ cause = "other" /\ CallSettles(e, "other")
  \/ cause \in {"TIMEOUT", "network"} /\ ~up[Host(e)] /\ CallSettles(e, "network")

GoesToFallback(e) == ~up[Host(e)] /\ CallFailsOver(e, "network")

(* A request whose answer does not come may have reached its node.         *)
MayBeHeld(e) == held' \in {held, held \cup {e}}

(* The promise of the executor rejects.                                    *)
Throws(e, cause) ==
  run' = [run EXCEPT ![e].phase = "settled", ![e].outcome = cause]

-----------------------------------------------------------------------------
(* The executor is called: its first read, or the simulation at once.      *)
Begin(e, p) ==
  /\ run[e].phase \in {"idle", "settled"}
  /\ run' = [run EXCEPT ![e] = [Fresh EXCEPT !.profile = p, !.limit = p.simulate,
                                 !.phase = IF p.read = "none" THEN "ready" ELSE "reading"]]
  /\ held' = held \ {e}
  /\ IF p.read = "none" THEN UNCHANGED vars ELSE CallEnters(e)

ReadEnds(e) ==
  /\ At(e, "reading")
  /\ \/ Answered(e) /\ run' = [run EXCEPT ![e].phase = "ready"]
     \/ \E cause \in {"TIMEOUT", "network", "other"} :
          /\ Rejected(e, cause)
          /\ IF run[e].profile.read = "optional"
               THEN run' = [run EXCEPT ![e].phase = "ready"]
               ELSE Throws(e, cause)
  /\ UNCHANGED held

Simulate(e) ==
  /\ At(e, "ready")
  /\ CallEnters(e)
  /\ run' = [run EXCEPT ![e].phase = "simulating"]
  /\ UNCHANGED held

(* The first attempt of the running call fails.                            *)
Retried(e) ==
  /\ run[e].phase \in {"reading", "simulating", "submitting"}
  /\ GoesToFallback(e)
  /\ IF At(e, "submitting") THEN MayBeHeld(e) ELSE UNCHANGED held
  /\ UNCHANGED run

(* calculateAutoGasLimit(gas), at the node that is active now.             *)
Calibrated(e, gas) ==
  {[run[e] EXCEPT !.limit = l, !.cap = ActiveGasLimit] : l \in AutoGasLimits(gas, ActiveGasLimit)}

(* (simulation.gas || defaultGasLimit) + 5_000                             *)
Padded(e, gas) == (IF gas = NoGas THEN run[e].limit ELSE gas) + 5000

(* The limit of the transaction that will be signed, for the gas of a      *)
(* simulation that succeeded.                                              *)
\* Mutant: the limit is computed, and the transaction is not built again.
ChooseLimitNotRebuilt(e, gas) == {run[e]}

ChooseLimit(e, gas) ==
  LET policy == run[e].profile.limit
      set(limit) == {[run[e] EXCEPT !.limit = limit]}
  IN CASE policy = "calibrate" /\ gas # NoGas -> Calibrated(e, gas)
       [] policy = "raise" /\ gas > run[e].limit -> Calibrated(e, gas)
       [] policy = "raise uncapped" /\ gas > run[e].limit -> set(CeilDiv(gas * 12, 10))
       [] policy = "plus 5000" -> set(Padded(e, gas))
       [] OTHER -> {run[e]}

SimulationPasses(e, gas) ==
  \E r \in ChooseLimit(e, gas) :
    run' = [run EXCEPT ![e] = [r EXCEPT !.phase = "signing", !.gas = gas, !.passed = TRUE]]

(* The first failure for want of gas, in the executor that retries: build  *)
(* with the calibrated limit of the number the message names, or with half *)
(* as much again, and simulate that.                                       *)
\* Mutant: it is tried again as long as gas is the trouble.
RaiseAndRetryForever(e, number) ==
  \E r \in IF number = NoNumber
             THEN {[run[e] EXCEPT !.limit = CeilDiv(@ * 3, 2)]}
             ELSE Calibrated(e, number) :
    run' = [run EXCEPT ![e] = [r EXCEPT !.phase = "ready"]]

RaiseAndRetry(e, number) ==
  \E r \in IF number = NoNumber
             THEN {[run[e] EXCEPT !.limit = CeilDiv(@ * 3, 2)]}
             ELSE Calibrated(e, number) :
    run' = [run EXCEPT ![e] = [r EXCEPT !.phase = "ready", !.retried = TRUE]]

\* Mutant: the result of the second simulation is not looked at.
SimulationFailsUnchecked(e) ==
  run' = IF run[e].retried THEN [run EXCEPT ![e].phase = "signing"]
         ELSE [run EXCEPT ![e].phase = "settled", ![e].outcome = "SIMULATION"]

SimulationFails(e) == Throws(e, "SIMULATION")

RetriesGas(e) == run[e].profile.retry /\ ~run[e].retried

(* The answer of a simulation that needs so much gas. Nodes may or may not *)
(* hold a simulation to its limit; the message may name what was used when *)
(* the limit was passed.                                                   *)
SimulationAnswered(e) ==
  /\ At(e, "simulating") /\ Answered(e)
  /\ \E need \in GasNeeds :
       \/ \E gas \in {need, NoGas} : SimulationPasses(e, gas)
       \/ /\ need > run[e].limit
          /\ IF RetriesGas(e)
               THEN \E number \in {NoNumber} \cup {n \in GasNeeds : run[e].limit < n /\ n <= need} :
                      RaiseAndRetry(e, number)
               ELSE SimulationFails(e)
       \/ SimulationFails(e)     \* for a reason other than gas
  /\ UNCHANGED held

SimulationThrows(e) ==
  /\ At(e, "simulating")
  /\ \E cause \in {"TIMEOUT", "network", "other"} : Rejected(e, cause) /\ Throws(e, cause)
  /\ UNCHANGED held

(* A throw of the part between simulation and answer.                      *)
\* Mutant: every executor wraps it.
SigningOrSubmittingThrowsWrapped(e, cause) ==
  run' = [run EXCEPT ![e].phase = "settled", ![e].outcome = "SIGNING"]

SigningOrSubmittingThrows(e, cause) ==
  IF run[e].profile.rewrap
    THEN run' = [run EXCEPT ![e].phase = "settled", ![e].outcome = "SIGNING"]
    ELSE Throws(e, cause)

(* Keys are asked for, which may fail; movieBoosterBuy also throws before   *)
(* that when the cost it read is not positive.                             *)
Sign(e) ==
  /\ At(e, "signing")
  /\ \/ run' = [run EXCEPT ![e].phase = "signed"]
     \/ SigningOrSubmittingThrows(e, "SIGNING")
  /\ UNCHANGED <<vars, held>>

\* Mutant: the promise of submit is not awaited.
SubmitNotAwaited(e) ==
  /\ At(e, "signed")
  /\ CallEnters(e)
  /\ run' = [run EXCEPT ![e].phase = "settled", ![e].outcome = "ok"]
  /\ UNCHANGED held

Submit(e) ==
  /\ At(e, "signed")
  /\ CallEnters(e)
  /\ run' = [run EXCEPT ![e].phase = "submitting"]
  /\ UNCHANGED held

Submitted(e) ==
  /\ At(e, "submitting") /\ Answered(e)
  /\ run' = [run EXCEPT ![e].phase = "settled", ![e].outcome = "ok"]
  /\ held' = held \cup {e}

SubmitThrows(e) ==
  /\ At(e, "submitting")
  /\ \E cause \in {"TIMEOUT", "network", "other"} :
       Rejected(e, cause) /\ SigningOrSubmittingThrows(e, cause)
  /\ MayBeHeld(e)

-----------------------------------------------------------------------------
(* The failover state and the hosts go their own way.                      *)
XecBackground ==
  /\ \/ \E r \in ConfigCalls : SetNodeConfig(r)
     \/ \E p \in Ticks : RetryTick(p) \/ TickResumes(p)
     \/ \E p \in Probes : ProbeAnswered(p)
     \/ \E h \in Hosts : HostFlips(h)
  /\ UNCHANGED <<run, held>>

RunStep(e) ==
  \/ ReadEnds(e) \/ Simulate(e) \/ Retried(e) \/ SimulationAnswered(e) \/ SimulationThrows(e)
  \/ Sign(e) \/ Submit(e) \/ Submitted(e) \/ SubmitThrows(e)

XecNext ==
  \/ \E e \in Calls : RunStep(e) \/ \E p \in Profiles : Begin(e, p)
  \/ XecBackground

XecSpec == XecInit /\ [][XecNext]_execVars

(* Each attempt of a call has a deadline, and code that can run runs. (A   *)
(* signer answers; the library's own signs without asking anybody.)        *)
XecFairSpec == XecSpec /\ \A e \in Calls : WF_execVars(RunStep(e))

-----------------------------------------------------------------------------
(* Properties.                                                             *)

(* The variables have their types; a run is in a call exactly while it     *)
(* reads, simulates or submits.                                            *)
XecTypeOK ==
  /\ TypeOK
  /\ run \in [Calls -> Run]
  /\ held \subseteq Calls
  /\ \A e \in Calls : call[e].phase # "none" <=>
                        run[e].phase \in {"reading", "simulating", "submitting"}

Chosen(e) == run[e].passed /\ run[e].gas # NoGas

(* Whatever the executor's policy and however often it simulated, what it  *)
(* signs may use the gas the simulation used, or all that the node of the  *)
(* calibration allows.                                                     *)
LimitCoversGas ==
  \A e \in Calls : Chosen(e) => run[e].limit >= run[e].gas \/ run[e].limit = run[e].cap

(* A calibrated limit never exceeds the block limit of the node that was   *)
(* active then, in the first or in the second calibration.                 *)
LimitWithinNode ==
  \A e \in Calls : run[e].cap # 0 => run[e].limit <= run[e].cap

(* No node ever holds a transaction whose last simulation failed.          *)
HeldWasSimulated == \A e \in held : run[e].passed

(* A run that ends in its simulation or its signing has left nothing with  *)
(* any node: its caller may start again. (What an executor that rewraps    *)
(* calls a signing error may be one of submitting.)                        *)
FailedBeforeSubmit ==
  \A e \in Calls :
    (run[e].outcome = "SIMULATION" \/ (run[e].outcome = "SIGNING" /\ ~run[e].profile.rewrap)) =>
      e \notin held

(* Every executor settles, whatever nodes and configuration do.            *)
RunsSettle == \A e \in Calls : run[e].phase # "idle" ~> run[e].phase = "settled"
=============================================================================
