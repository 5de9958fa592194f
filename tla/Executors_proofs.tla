-------------------------- MODULE Executors_proofs --------------------------
(* Theorems about Executors, for any executors whose profiles satisfy      *)
(* ProfilesAssumption, any gas needs, and any number of runs and ticks.    *)
EXTENDS Executors, NodeFailover_proofs

-----------------------------------------------------------------------------
(* The calibrated limit covers the gas it was calibrated from unless the   *)
(* node's limit is in the way, and respects that limit.                    *)
LEMMA CalibrationCovers ==
  ASSUME NEW gas \in Nat, NEW nodeLimit \in Nat, NEW l \in AutoGasLimits(gas, nodeLimit)
  PROVE  /\ l \in Nat
         /\ l <= nodeLimit
         /\ l >= gas \/ l = nodeLimit
<1>1. BufferPercent(gas) \in {200, 115, 110, 105} /\ FlatBuffer(gas) \in Nat
  BY DEF BufferPercent, FlatBuffer
<1>2. CeilDiv(gas * BufferPercent(gas), 100) \in Nat
  BY <1>1 DEF CeilDiv
<1>3. CeilDiv(gas * BufferPercent(gas), 100) >= gas
  BY <1>1 DEF CeilDiv
<1>4. PICK d \in Drift(gas) :
        l = AtMost(CeilDiv(gas * BufferPercent(gas), 100) + d + FlatBuffer(gas), nodeLimit)
  BY DEF AutoGasLimits
<1>5. d \in Nat
  BY DEF Drift
<1> HIDE DEF BufferPercent, FlatBuffer, CeilDiv
<1> QED BY <1>1, <1>2, <1>3, <1>4, <1>5 DEF AtMost

LEMMA ActiveGasLimitNat == TypeOK => ActiveGasLimit \in Nat
BY GasAssumption DEF TypeOK, ActiveGasLimit

-----------------------------------------------------------------------------
(* Every step is a step of the failover module or leaves it alone.         *)
LEMMA RpcStepIsNext ==
  ASSUME NEW e \in Calls, NEW out \in Outcomes(call[e].host),
         CallSettles(e, out) \/ CallFailsOver(e, out)
  PROVE  Next
<1>1. call[e].phase # "none"
  BY DEF CallSettles, CallFailsOver
<1> QED BY <1>1 DEF Next

LEMMA AnsweredIsNext == ASSUME NEW e \in Calls, Answered(e) PROVE Next
<1>1. CallSettles(e, "ok") /\ "ok" \in Outcomes(call[e].host)
  BY DEF Answered, Outcomes, Host
<1> QED BY <1>1, RpcStepIsNext

LEMMA RejectedIsNext == ASSUME NEW e \in Calls, NEW cause, Rejected(e, cause) PROVE Next
<1>1. \E out \in Outcomes(call[e].host) : CallSettles(e, out)
  BY DEF Rejected, Outcomes, Host
<1> QED BY <1>1, RpcStepIsNext

LEMMA RunStepIsNext ==
  ASSUME NEW e \in Calls, RunStep(e) \/ \E p \in Profiles : Begin(e, p)
  PROVE  [Next]_vars
<1>1. CASE ReadEnds(e) \/ SimulationThrows(e) \/ SubmitThrows(e)
  BY <1>1, AnsweredIsNext, RejectedIsNext DEF ReadEnds, SimulationThrows, SubmitThrows
<1>2. CASE SimulationAnswered(e) \/ Submitted(e)
  BY <1>2, AnsweredIsNext DEF SimulationAnswered, Submitted
<1>3. CASE Simulate(e) \/ Submit(e)
  <2>1. CallEnters(e)
    BY <1>3 DEF Simulate, Submit
  <2> QED BY <2>1 DEF Next
<1>4. CASE Retried(e)
  <2>1. CallFailsOver(e, "network") /\ "network" \in Outcomes(call[e].host)
    BY <1>4 DEF Retried, GoesToFallback, Outcomes, Host
  <2> QED BY <2>1, RpcStepIsNext
<1>5. CASE Sign(e)
  BY <1>5 DEF Sign
<1>6. ASSUME NEW p \in Profiles, Begin(e, p) PROVE [Next]_vars
  <2>1. CallEnters(e) \/ UNCHANGED vars
    BY <1>6 DEF Begin
  <2> QED BY <2>1 DEF Next
<1> QED BY <1>1, <1>2, <1>3, <1>4, <1>5, <1>6 DEF RunStep

LEMMA BackgroundIsNext == ASSUME XecBackground PROVE Next
BY DEF XecBackground, Next, Probes

LEMMA XecStepIsNext == [XecNext]_execVars => [Next]_vars
BY RunStepIsNext, BackgroundIsNext DEF XecNext, execVars

(* Executors use the failover module as its clients may: what is proved of *)
(* it holds under them.                                                    *)
THEOREM ExecutorsRefineFailover == XecSpec => Spec
<1>1. XecInit => Init
  BY DEF XecInit
<1> QED BY <1>1, XecStepIsNext, PTL DEF XecSpec, Spec

-----------------------------------------------------------------------------
(* What is known of a run's record, and of whether its transaction is held *)
(* by a node. Until the last simulation is over nothing is chosen, and     *)
(* until the submit nothing is held.                                       *)
Sound(r, isHeld) ==
  /\ r.phase # "idle" => r.profile \in Profiles
  /\ r.phase \in {"reading", "ready", "simulating"} => ~r.passed /\ ~isHeld /\ (~r.retried => r.cap = 0)
  /\ r.phase \in {"signing", "signed", "submitting"} => r.passed
  /\ r.phase \in {"signing", "signed"} => ~isHeld
  /\ r.phase # "settled" => r.outcome = "none"
  /\ r.retried => r.profile \in Profiles /\ r.profile.limit = "raise"
  /\ r.passed /\ r.gas # NoGas => r.limit >= r.gas \/ r.limit = r.cap
  /\ r.cap # 0 => r.limit <= r.cap
  /\ isHeld => r.passed

XecInv == TypeOK /\ XecTypeOK /\ \A e \in Calls : Sound(run[e], e \in held)

LEMMA XecInitEstablishes == XecInit => XecInv
<1> SUFFICES ASSUME XecInit PROVE XecInv
  OBVIOUS
<1>1. TypeOK
  BY InitEstablishes DEF XecInit, IInv
<1>2. Fresh \in Run /\ Sound(Fresh, FALSE)
  BY DEF Fresh, Run, Ends, Sound, NoGas
<1>3. \A e \in Calls : call[e].phase = "none" /\ run[e] = Fresh /\ e \notin held
  BY DEF XecInit, Init, NoCall
<1>4. XecTypeOK
  BY <1>1, <1>2, <1>3 DEF XecTypeOK, XecInit, Fresh
<1>5. ASSUME NEW e \in Calls PROVE Sound(run[e], e \in held)
  BY <1>2, <1>3 DEF Sound
<1> QED BY <1>1, <1>4, <1>5 DEF XecInv

-----------------------------------------------------------------------------
(* What the three steps of a call do to the slots.                         *)
InCall(phase) == phase \in {"reading", "simulating", "submitting"}

LEMMA EntersSlot ==
  ASSUME TypeOK, NEW e \in Calls, CallEnters(e)
  PROVE  call'[e].phase # "none" /\ \A d \in Calls \ {e} : call'[d] = call[d]
BY DEF CallEnters, TypeOK

LEMMA SettlesSlot ==
  ASSUME TypeOK, NEW e \in Calls, NEW out, CallSettles(e, out)
  PROVE  call'[e].phase = "none" /\ \A d \in Calls \ {e} : call'[d] = call[d]
BY DEF CallSettles, TypeOK, NoCall

LEMMA FailsOverSlot ==
  ASSUME TypeOK, NEW e \in Calls, NEW out, CallFailsOver(e, out)
  PROVE  call'[e].phase # "none" /\ \A d \in Calls \ {e} : call'[d] = call[d]
BY DEF CallFailsOver, TypeOK, Call

LEMMA ReconfigureKeepsPhases ==
  ASSUME TypeOK, NEW r \in ConfigCalls, SetNodeConfig(r)
  PROVE  \A e \in Calls : call'[e].phase = call[e].phase
<1>1. CASE MarkReconfigured
  BY <1>1 DEF MarkReconfigured, TypeOK, Call
<1>2. CASE UNCHANGED call
  BY <1>2
<1> QED BY <1>1, <1>2 DEF SetNodeConfig, Assign

LEMMA BackgroundKeepsPhases ==
  ASSUME TypeOK, XecBackground
  PROVE  \A e \in Calls : call'[e].phase = call[e].phase
<1>1. CASE \E r \in ConfigCalls : SetNodeConfig(r)
  BY <1>1, ReconfigureKeepsPhases
<1>2. CASE ~\E r \in ConfigCalls : SetNodeConfig(r)
  BY <1>2 DEF XecBackground, RetryTick, Ask, TickResumes, ProbeAnswered, HostFlips
<1> QED BY <1>1, <1>2

(* A step that gives one run a new, sound record keeps the invariant.      *)
LEMMA RecordUpdate ==
  ASSUME XecInv, TypeOK', NEW e \in Calls, NEW r \in Run,
         run' = [run EXCEPT ![e] = r],
         held' \subseteq Calls,
         \A d \in Calls \ {e} : d \in held' <=> d \in held,
         \A d \in Calls \ {e} : call'[d] = call[d],
         call'[e].phase # "none" <=> InCall(r.phase),
         Sound(r, e \in held')
  PROVE  XecInv'
<1>1. run' \in [Calls -> Run] /\ run'[e] = r /\ \A d \in Calls \ {e} : run'[d] = run[d]
  BY DEF XecInv, XecTypeOK
<1>2. ASSUME NEW d \in Calls PROVE Sound(run[d], d \in held)'
  <2>1. CASE d = e
    BY <1>1, <2>1
  <2>2. CASE d # e
    <3>1. Sound(run[d], d \in held)
      BY DEF XecInv
    <3>2. run'[d] = run[d] /\ (d \in held' <=> d \in held)
      BY <1>1, <2>2
    <3> QED BY <3>1, <3>2 DEF Sound
  <2> QED BY <2>1, <2>2
<1>3. ASSUME NEW d \in Calls
      PROVE  call'[d].phase # "none" <=> run'[d].phase \in {"reading", "simulating", "submitting"}
  BY <1>1 DEF XecInv, XecTypeOK, InCall
<1>4. XecTypeOK'
  BY <1>1, <1>3 DEF XecTypeOK
<1> QED BY <1>2, <1>4 DEF XecInv

-----------------------------------------------------------------------------
(* The steps of a run, one by one.                                         *)

(* The record of a promise that rejects, where nothing may be held.        *)
Thrown(r, cause) == [r EXCEPT !.phase = "settled", !.outcome = cause]

LEMMA ThrowsUnheld ==
  ASSUME XecInv, TypeOK', NEW e \in Calls, NEW cause \in Ends \ {"none", "ok"},
         Throws(e, cause), UNCHANGED held, e \notin held, run[e].phase # "idle",
         call'[e].phase = "none", \A d \in Calls \ {e} : call'[d] = call[d]
  PROVE  XecInv'
<1> DEFINE r == Thrown(run[e], cause)
<1>1. run[e] \in Run /\ Sound(run[e], FALSE)
  BY DEF XecInv, XecTypeOK, Sound
<1>2. r \in Run
  BY <1>1 DEF Run, Thrown
<1>3. Sound(r, FALSE)
  BY <1>1 DEF Sound, Run, Thrown
<1>4. run' = [run EXCEPT ![e] = r]
  BY DEF Throws, Thrown
<1>5. ~InCall(r.phase)
  BY <1>1 DEF InCall, Thrown, Run
<1>6. Sound(r, e \in held')
  BY <1>3 DEF Sound
<1> HIDE DEF r
<1> QED BY <1>2, <1>4, <1>5, <1>6, RecordUpdate DEF XecInv, XecTypeOK

(* The record moves to another phase, where the invariant asks no more.    *)
LEMMA PhaseMoves ==
  ASSUME XecInv, TypeOK', NEW e \in Calls,
         NEW phase \in {"ready", "simulating", "signed", "submitting"},
         run' = [run EXCEPT ![e].phase = phase], UNCHANGED held,
         \/ run[e].phase \in {"reading", "ready"} /\ phase \in {"ready", "simulating"}
         \/ run[e].phase \in {"signing", "signed"} /\ phase \in {"signed", "submitting"},
         call'[e].phase # "none" <=> InCall(phase), \A d \in Calls \ {e} : call'[d] = call[d]
  PROVE  XecInv'
<1> DEFINE r == [run[e] EXCEPT !.phase = phase]
<1>1. run[e] \in Run /\ Sound(run[e], e \in held)
  BY DEF XecInv, XecTypeOK
<1>2. r \in Run
  BY <1>1 DEF Run
<1>3. Sound(r, e \in held)
  BY <1>1 DEF Sound, Run
<1>4. run' = [run EXCEPT ![e] = r]
  OBVIOUS
<1>5. call'[e].phase # "none" <=> InCall(r.phase)
  BY <1>1 DEF Run
<1>6. Sound(r, e \in held')
  BY <1>3 DEF Sound
<1> HIDE DEF r
<1> QED BY <1>2, <1>4, <1>5, <1>6, RecordUpdate DEF XecInv, XecTypeOK

LEMMA BeginKeeps ==
  ASSUME XecInv, TypeOK', NEW e \in Calls, NEW p \in Profiles, Begin(e, p)
  PROVE  XecInv'
<1> DEFINE first == IF p.read = "none" THEN "ready" ELSE "reading"
           r == [Fresh EXCEPT !.profile = p, !.limit = p.simulate, !.phase = first]
<1>1. p \in Profile
  BY ProfilesAssumption
<1>2. r \in Run /\ r.phase = first
  BY <1>1 DEF Run, Fresh, Ends, NoGas, Profile
<1>3. Sound(r, FALSE)
  BY <1>1 DEF Sound, Fresh, NoGas
<1>4. run' = [run EXCEPT ![e] = r] /\ held' = held \ {e}
  BY DEF Begin
<1>5. (call'[e].phase # "none" <=> InCall(first)) /\ \A d \in Calls \ {e} : call'[d] = call[d]
  <2>1. CASE p.read = "none"
    <3>1. UNCHANGED call /\ call[e].phase = "none"
      BY <2>1 DEF Begin, vars, XecInv, XecTypeOK
    <3> QED BY <2>1, <3>1 DEF InCall
  <2>2. CASE p.read # "none"
    BY <2>2, EntersSlot DEF Begin, InCall, XecInv
  <2> QED BY <2>1, <2>2
<1>6. Sound(r, e \in held')
  BY <1>3, <1>4 DEF Sound
<1> HIDE DEF r, first
<1> QED BY <1>2, <1>4, <1>5, <1>6, RecordUpdate DEF XecInv, XecTypeOK

LEMMA ReadEndsKeeps ==
  ASSUME XecInv, TypeOK', NEW e \in Calls, ReadEnds(e)
  PROVE  XecInv'
<1>1. call'[e].phase = "none" /\ \A d \in Calls \ {e} : call'[d] = call[d]
  BY SettlesSlot DEF ReadEnds, Answered, Rejected, XecInv
<1>2. e \notin held /\ run[e].phase = "reading" /\ UNCHANGED held
  BY DEF ReadEnds, At, XecInv, Sound
<1>3. CASE run' = [run EXCEPT ![e].phase = "ready"]
  BY <1>1, <1>2, <1>3, PhaseMoves DEF InCall
<1>4. CASE \E cause \in {"TIMEOUT", "network", "other"} : Throws(e, cause)
  BY <1>1, <1>2, <1>4, ThrowsUnheld DEF Ends
<1> QED BY <1>3, <1>4 DEF ReadEnds

LEMMA SimulateKeeps ==
  ASSUME XecInv, TypeOK', NEW e \in Calls, Simulate(e)
  PROVE  XecInv'
<1>1. call'[e].phase # "none" /\ \A d \in Calls \ {e} : call'[d] = call[d]
  BY EntersSlot DEF Simulate, XecInv
<1> QED BY <1>1, PhaseMoves DEF Simulate, At, InCall

LEMMA SubmitKeeps ==
  ASSUME XecInv, TypeOK', NEW e \in Calls, Submit(e)
  PROVE  XecInv'
<1>1. call'[e].phase # "none" /\ \A d \in Calls \ {e} : call'[d] = call[d]
  BY EntersSlot DEF Submit, XecInv
<1> QED BY <1>1, PhaseMoves DEF Submit, At, InCall

LEMMA RetriedKeeps ==
  ASSUME XecInv, TypeOK', NEW e \in Calls, Retried(e)
  PROVE  XecInv'
<1>1. call'[e].phase # "none" /\ \A d \in Calls \ {e} : call'[d] = call[d]
  BY FailsOverSlot DEF Retried, GoesToFallback, XecInv
<1>2. run' = run /\ run[e] \in Run /\ Sound(run[e], e \in held)
  BY DEF Retried, XecInv, XecTypeOK
<1>3. held' = held \/ (held' = held \cup {e} /\ run[e].phase = "submitting")
  BY DEF Retried, MayBeHeld, At
<1>4. Sound(run[e], e \in held')
  BY <1>2, <1>3 DEF Sound
<1>5. run' = [run EXCEPT ![e] = run[e]]
  BY <1>2 DEF XecInv, XecTypeOK
<1>6. InCall(run[e].phase)
  BY DEF Retried, InCall
<1> QED BY <1>1, <1>2, <1>3, <1>4, <1>5, <1>6, RecordUpdate DEF XecInv, XecTypeOK

-----------------------------------------------------------------------------
(* The simulation and the limit chosen from it.                            *)

LEMMA CalibratedRecord ==
  ASSUME TypeOK, NEW e \in Calls, run[e] \in Run, NEW gas \in Nat, NEW r \in Calibrated(e, gas)
  PROVE  /\ r = [run[e] EXCEPT !.limit = r.limit, !.cap = r.cap]
         /\ r.limit \in Nat /\ r.cap \in Nat
         /\ r.limit <= r.cap
         /\ r.limit >= gas \/ r.limit = r.cap
<1>1. PICK l \in AutoGasLimits(gas, ActiveGasLimit) :
        r = [run[e] EXCEPT !.limit = l, !.cap = ActiveGasLimit]
  BY DEF Calibrated
<1>2. ActiveGasLimit \in Nat
  BY ActiveGasLimitNat
<1>3. l \in Nat /\ l <= ActiveGasLimit /\ (l >= gas \/ l = ActiveGasLimit)
  BY <1>2, CalibrationCovers
<1>4. r.limit = l /\ r.cap = ActiveGasLimit
  BY <1>1 DEF Run
<1> QED BY <1>1, <1>2, <1>3, <1>4

LEMMA ChosenRecord ==
  ASSUME TypeOK, NEW e \in Calls, run[e] \in Run, run[e].profile \in Profiles,
         run[e].cap # 0 => run[e].limit <= run[e].cap /\ run[e].profile.limit = "raise",
         NEW gas \in Nat, NEW r \in ChooseLimit(e, gas)
  PROVE  /\ r = [run[e] EXCEPT !.limit = r.limit, !.cap = r.cap]
         /\ r.limit \in Nat /\ r.cap \in Nat
         /\ r.cap # 0 => r.limit <= r.cap
         /\ gas # NoGas => r.limit >= gas \/ r.limit = r.cap
<1> DEFINE policy == run[e].profile.limit
<1>1. policy \in {"calibrate", "raise", "raise uncapped", "plus 5000"}
  BY ProfilesAssumption DEF Profile
<1>2. CASE \/ policy = "calibrate" /\ gas # NoGas
           \/ policy = "raise" /\ gas > run[e].limit
  <2>1. r \in Calibrated(e, gas)
    BY <1>2 DEF ChooseLimit
  <2> QED BY <2>1, CalibratedRecord
<1>3. CASE policy = "raise uncapped" /\ gas > run[e].limit
  <2>1. r = [run[e] EXCEPT !.limit = CeilDiv(gas * 12, 10)]
    BY <1>3 DEF ChooseLimit
  <2>2. CeilDiv(gas * 12, 10) \in Nat /\ CeilDiv(gas * 12, 10) >= gas
    BY DEF CeilDiv
  <2>3. r.limit = CeilDiv(gas * 12, 10) /\ r.cap = run[e].cap /\ run[e].cap \in Nat
    BY <2>1 DEF Run
  <2>4. run[e].cap = 0
    BY <1>3
  <2>5. r = [run[e] EXCEPT !.limit = r.limit, !.cap = r.cap]
    BY <2>1, <2>3 DEF Run
  <2> QED BY <2>2, <2>3, <2>4, <2>5
<1>4. CASE policy = "plus 5000"
  <2>1. r = [run[e] EXCEPT !.limit = Padded(e, gas)]
    BY <1>4 DEF ChooseLimit
  <2>2. run[e].limit \in Nat /\ run[e].cap \in Nat
    BY DEF Run
  <2>3. r.limit = Padded(e, gas) /\ r.cap = run[e].cap
    BY <2>1 DEF Run
  <2>4. run[e].cap = 0
    BY <1>4
  <2>5. r = [run[e] EXCEPT !.limit = r.limit, !.cap = r.cap]
    BY <2>1, <2>3 DEF Run
  <2>6. Padded(e, gas) \in Nat /\ (gas # NoGas => Padded(e, gas) >= gas)
    BY <2>2 DEF Padded
  <2> QED BY <2>2, <2>3, <2>4, <2>5, <2>6
<1>5. CASE \/ policy = "calibrate" /\ gas = NoGas
           \/ policy \in {"raise", "raise uncapped"} /\ ~(gas > run[e].limit)
  <2>1. r = run[e]
    BY <1>5 DEF ChooseLimit
  <2>2. run[e].limit \in Nat /\ run[e].cap \in Nat
    BY DEF Run
  <2>3. gas # NoGas => run[e].limit >= gas
    <3>1. gas = NoGas \/ ~(gas > run[e].limit)
      BY <1>5
    <3> HIDE DEF policy
    <3> QED BY <2>2, <3>1
  <2>4. r = [run[e] EXCEPT !.limit = r.limit, !.cap = r.cap]
    BY <2>1 DEF Run
  <2> QED BY <2>1, <2>2, <2>3, <2>4
<1> QED BY <1>1, <1>2, <1>3, <1>4, <1>5

LEMMA SimulationAnsweredKeeps ==
  ASSUME XecInv, TypeOK', NEW e \in Calls, SimulationAnswered(e)
  PROVE  XecInv'
<1>1. call'[e].phase = "none" /\ \A d \in Calls \ {e} : call'[d] = call[d]
  BY SettlesSlot DEF SimulationAnswered, Answered, XecInv
<1>2. run[e].phase = "simulating" /\ UNCHANGED held
  BY DEF SimulationAnswered, At
<1>3. TypeOK /\ run[e] \in Run /\ Sound(run[e], e \in held) /\ held \subseteq Calls
  BY DEF XecInv, XecTypeOK
<1>4. e \notin held /\ run[e].profile \in Profiles
  BY <1>2, <1>3 DEF Sound
<1>5. ASSUME NEW gas \in Nat, SimulationPasses(e, gas) PROVE XecInv'
  <2>1. PICK c \in ChooseLimit(e, gas) :
          run' = [run EXCEPT ![e] = [c EXCEPT !.phase = "signing", !.gas = gas, !.passed = TRUE]]
    BY <1>5 DEF SimulationPasses
  <2>2. run[e].cap # 0 => run[e].limit <= run[e].cap /\ run[e].profile.limit = "raise"
    BY <1>2, <1>3 DEF Sound
  <2>3. /\ c = [run[e] EXCEPT !.limit = c.limit, !.cap = c.cap]
        /\ c.limit \in Nat /\ c.cap \in Nat
        /\ c.cap # 0 => c.limit <= c.cap
        /\ gas # NoGas => c.limit >= gas \/ c.limit = c.cap
    BY <1>3, <1>4, <2>1, <2>2, ChosenRecord
  <2> DEFINE r == [c EXCEPT !.phase = "signing", !.gas = gas, !.passed = TRUE]
  <2>4. c \in Run
    BY <1>3, <2>3 DEF Run
  <2>5. r \in Run /\ r.phase = "signing"
    BY <2>4 DEF Run
  <2>6. /\ r.profile = run[e].profile /\ r.retried = run[e].retried /\ r.outcome = run[e].outcome
        /\ r.limit = c.limit /\ r.cap = c.cap /\ r.gas = gas /\ r.passed
    BY <1>3, <2>3, <2>4 DEF Run
  <2>7. Sound(r, e \in held')
    BY <1>2, <1>3, <1>4, <2>3, <2>5, <2>6 DEF Sound
  <2>8. ~InCall(r.phase)
    BY <2>5 DEF InCall
  <2>9. run' = [run EXCEPT ![e] = r]
    BY <2>1
  <2> HIDE DEF r
  <2> QED BY <1>1, <1>2, <1>3, <2>5, <2>7, <2>8, <2>9, RecordUpdate
<1>6. ASSUME NEW number \in Nat, RetriesGas(e), RaiseAndRetry(e, number) PROVE XecInv'
  <2>1. PICK c \in IF number = NoNumber
                     THEN {[run[e] EXCEPT !.limit = CeilDiv(@ * 3, 2)]}
                     ELSE Calibrated(e, number) :
          run' = [run EXCEPT ![e] = [c EXCEPT !.phase = "ready", !.retried = TRUE]]
    BY <1>6 DEF RaiseAndRetry
  <2>2. ~run[e].retried /\ run[e].profile.limit = "raise" /\ run[e].cap = 0
    BY <1>2, <1>3, <1>4, <1>6, ProfilesAssumption DEF RetriesGas, Sound
  <2>3. /\ c = [run[e] EXCEPT !.limit = c.limit, !.cap = c.cap]
        /\ c.limit \in Nat /\ c.cap \in Nat
        /\ c.cap # 0 => c.limit <= c.cap
    <3>1. CASE number = NoNumber
      <4>1. c = [run[e] EXCEPT !.limit = CeilDiv(run[e].limit * 3, 2)]
        BY <2>1, <3>1
      <4>2. run[e].limit \in Nat /\ CeilDiv(run[e].limit * 3, 2) \in Nat
        BY <1>3 DEF Run, CeilDiv
      <4>3. c.limit = CeilDiv(run[e].limit * 3, 2) /\ c.cap = 0
        BY <1>3, <2>2, <4>1 DEF Run
      <4> QED BY <1>3, <2>2, <4>1, <4>2, <4>3 DEF Run
    <3>2. CASE number # NoNumber
      BY <1>3, <2>1, <3>2, CalibratedRecord
    <3> QED BY <3>1, <3>2
  <2> DEFINE r == [c EXCEPT !.phase = "ready", !.retried = TRUE]
  <2>4. c \in Run
    BY <1>3, <2>3 DEF Run
  <2>5. r \in Run /\ r.phase = "ready"
    BY <2>4 DEF Run
  <2>6. /\ r.profile = run[e].profile /\ r.retried /\ r.outcome = run[e].outcome
        /\ r.limit = c.limit /\ r.cap = c.cap /\ r.gas = run[e].gas /\ r.passed = run[e].passed
    BY <1>3, <2>3, <2>4 DEF Run
  <2>7. Sound(r, e \in held')
    BY <1>2, <1>3, <1>4, <2>2, <2>3, <2>5, <2>6 DEF Sound
  <2>8. ~InCall(r.phase)
    BY <2>5 DEF InCall
  <2>9. run' = [run EXCEPT ![e] = r]
    BY <2>1
  <2> HIDE DEF r
  <2> QED BY <1>1, <1>2, <1>3, <2>5, <2>7, <2>8, <2>9, RecordUpdate
<1>7. CASE SimulationFails(e)
  BY <1>1, <1>2, <1>4, <1>7, ThrowsUnheld DEF SimulationFails, Ends
<1>8. /\ GasNeeds \subseteq Nat /\ NoGas \in Nat /\ NoNumber \in Nat
  BY GasNeedsAssumption DEF NoGas, NoNumber
<1> QED BY <1>5, <1>6, <1>7, <1>8 DEF SimulationAnswered

LEMMA SimulationThrowsKeeps ==
  ASSUME XecInv, TypeOK', NEW e \in Calls, SimulationThrows(e)
  PROVE  XecInv'
<1>1. call'[e].phase = "none" /\ \A d \in Calls \ {e} : call'[d] = call[d]
  BY SettlesSlot DEF SimulationThrows, Rejected, XecInv
<1>2. e \notin held /\ run[e].phase = "simulating" /\ UNCHANGED held
  BY DEF SimulationThrows, At, XecInv, Sound
<1> QED BY <1>1, <1>2, ThrowsUnheld DEF SimulationThrows, Ends

-----------------------------------------------------------------------------
(* Signing and submitting. The record of a run that ends there.            *)

LEMMA EndsAfterSimulation ==
  ASSUME XecInv, TypeOK', NEW e \in Calls, run[e].phase \in {"signing", "submitting"},
         NEW outcome \in Ends,
         run' = [run EXCEPT ![e].phase = "settled", ![e].outcome = outcome],
         held' = held \/ held' = held \cup {e},
         call'[e].phase = "none", \A d \in Calls \ {e} : call'[d] = call[d]
  PROVE  XecInv'
<1> DEFINE r == [run[e] EXCEPT !.phase = "settled", !.outcome = outcome]
<1>1. run[e] \in Run /\ Sound(run[e], e \in held) /\ held \subseteq Calls
  BY DEF XecInv, XecTypeOK
<1>2. r \in Run /\ r.phase = "settled"
  BY <1>1 DEF Run
<1>3. /\ r.profile = run[e].profile /\ r.retried = run[e].retried /\ r.passed = run[e].passed
      /\ r.limit = run[e].limit /\ r.cap = run[e].cap /\ r.gas = run[e].gas
  BY <1>1 DEF Run
<1>4. Sound(r, e \in held')
  BY <1>1, <1>2, <1>3 DEF Sound
<1>5. run' = [run EXCEPT ![e] = r]
  OBVIOUS
<1>6. ~InCall(r.phase)
  BY <1>2 DEF InCall
<1> HIDE DEF r
<1> QED BY <1>1, <1>2, <1>4, <1>5, <1>6, RecordUpdate

LEMMA SignKeeps ==
  ASSUME XecInv, TypeOK', NEW e \in Calls, Sign(e)
  PROVE  XecInv'
<1>1. run[e].phase = "signing" /\ UNCHANGED held /\ UNCHANGED call
  BY DEF Sign, At, vars
<1>2. call[e].phase = "none" /\ call'[e].phase = "none"
  BY <1>1 DEF XecInv, XecTypeOK
<1>3. CASE run' = [run EXCEPT ![e].phase = "signed"]
  BY <1>1, <1>2, <1>3, PhaseMoves DEF InCall
<1>4. CASE SigningOrSubmittingThrows(e, "SIGNING")
  <2>1. run' = [run EXCEPT ![e].phase = "settled", ![e].outcome = "SIGNING"]
    BY <1>4 DEF SigningOrSubmittingThrows, Throws
  <2>2. "SIGNING" \in Ends
    BY DEF Ends
  <2> QED BY <1>1, <1>2, <2>1, <2>2, EndsAfterSimulation
<1> QED BY <1>3, <1>4 DEF Sign

LEMMA SubmittedKeeps ==
  ASSUME XecInv, TypeOK', NEW e \in Calls, Submitted(e)
  PROVE  XecInv'
<1>1. call'[e].phase = "none" /\ \A d \in Calls \ {e} : call'[d] = call[d]
  BY SettlesSlot DEF Submitted, Answered, XecInv
<1> QED BY <1>1, EndsAfterSimulation DEF Submitted, At, Ends

LEMMA SubmitThrowsKeeps ==
  ASSUME XecInv, TypeOK', NEW e \in Calls, SubmitThrows(e)
  PROVE  XecInv'
<1>1. PICK cause \in {"TIMEOUT", "network", "other"} :
        Rejected(e, cause) /\ SigningOrSubmittingThrows(e, cause)
  BY DEF SubmitThrows
<1>2. call'[e].phase = "none" /\ \A d \in Calls \ {e} : call'[d] = call[d]
  BY <1>1, SettlesSlot DEF Rejected, XecInv
<1>3. PICK outcome \in Ends :
        run' = [run EXCEPT ![e].phase = "settled", ![e].outcome = outcome]
  <2>1. CASE run[e].profile.rewrap
    BY <1>1, <2>1 DEF SigningOrSubmittingThrows, Ends
  <2>2. CASE ~run[e].profile.rewrap
    BY <1>1, <2>2 DEF SigningOrSubmittingThrows, Throws, Ends
  <2> QED BY <2>1, <2>2
<1>4. cause \in Ends /\ run[e].phase = "submitting" /\ (held' = held \/ held' = held \cup {e})
  BY DEF SubmitThrows, At, MayBeHeld, Ends
<1> QED BY <1>2, <1>3, <1>4, EndsAfterSimulation

LEMMA BackgroundKeeps ==
  ASSUME XecInv, TypeOK', XecBackground \/ UNCHANGED execVars
  PROVE  XecInv'
<1>1. UNCHANGED <<run, held>>
  BY DEF XecBackground, execVars
<1>2. \A e \in Calls : call'[e].phase = call[e].phase
  BY BackgroundKeepsPhases DEF XecInv, execVars, vars
<1> QED BY <1>1, <1>2 DEF XecInv, XecTypeOK, Sound

LEMMA XecStepKeeps == IInv' /\ XecInv /\ [XecNext]_execVars => XecInv'
<1> SUFFICES ASSUME IInv', XecInv, [XecNext]_execVars PROVE XecInv'
  OBVIOUS
<1>0. TypeOK'
  BY DEF IInv
<1>1. ASSUME NEW e \in Calls, RunStep(e) PROVE XecInv'
  BY <1>0, <1>1, ReadEndsKeeps, SimulateKeeps, RetriedKeeps, SimulationAnsweredKeeps,
     SimulationThrowsKeeps, SignKeeps, SubmitKeeps, SubmittedKeeps, SubmitThrowsKeeps DEF RunStep
<1>2. ASSUME NEW e \in Calls, NEW p \in Profiles, Begin(e, p) PROVE XecInv'
  BY <1>0, <1>2, BeginKeeps
<1> QED BY <1>0, <1>1, <1>2, BackgroundKeeps DEF XecNext

LEMMA XecSafety == XecSpec => []XecInv
<1>1. XecSpec => []IInv
  BY ExecutorsRefineFailover, Safety, PTL
<1> QED BY <1>1, XecInitEstablishes, XecStepKeeps, PTL DEF XecSpec

-----------------------------------------------------------------------------
(* Records keep their type, and a run holds a slot of withFailover exactly *)
(* while it awaits a read, a simulation or a submit.                       *)
THEOREM ExecutorTypes == XecSpec => []XecTypeOK
BY XecSafety, PTL DEF XecInv

(* Whatever the policy of an executor, the gas its simulation used and the *)
(* nodes active meanwhile: what it signs covers that gas, or all the node  *)
(* of the calibration allows.                                              *)
THEOREM LimitsCoverGas == XecSpec => []LimitCoversGas
<1>1. XecInv => LimitCoversGas
  BY DEF XecInv, Sound, LimitCoversGas, Chosen
<1> QED BY <1>1, XecSafety, PTL

(* A calibrated limit respects the block limit it was calibrated for.      *)
THEOREM LimitsRespectNode == XecSpec => []LimitWithinNode
<1>1. XecInv => LimitWithinNode
  BY DEF XecInv, Sound, LimitWithinNode
<1> QED BY <1>1, XecSafety, PTL

(* Nodes hold only transactions whose last simulation succeeded.           *)
THEOREM HeldIsSimulated == XecSpec => []HeldWasSimulated
<1>1. XecInv => HeldWasSimulated
  BY DEF XecInv, XecTypeOK, Sound, HeldWasSimulated
<1> QED BY <1>1, XecSafety, PTL

-----------------------------------------------------------------------------
(* What a run ends with tells whether anything was submitted.              *)
Told(e) ==
  (run[e].outcome = "SIMULATION" \/ (run[e].outcome = "SIGNING" /\ ~run[e].profile.rewrap)) =>
    e \notin held

LEMMA OthersUntouched ==
  ASSUME XecInv, NEW e \in Calls, RunStep(e) \/ \E p \in Profiles : Begin(e, p)
  PROVE  \A d \in Calls \ {e} : run'[d] = run[d] /\ (d \in held' <=> d \in held)
<1> USE DEF XecInv, XecTypeOK
<1>1. run \in [Calls -> Run]
  OBVIOUS
<1>2. CASE ReadEnds(e) \/ SimulationThrows(e)
  BY <1>1, <1>2 DEF ReadEnds, SimulationThrows, Throws
<1>3. CASE SimulationAnswered(e)
  BY <1>1, <1>3 DEF SimulationAnswered, SimulationPasses, RaiseAndRetry, SimulationFails, Throws
<1>4. CASE Simulate(e) \/ Submit(e) \/ Sign(e)
  BY <1>1, <1>4 DEF Simulate, Submit, Sign, SigningOrSubmittingThrows, Throws
<1>5. CASE Retried(e) \/ Submitted(e) \/ SubmitThrows(e)
  BY <1>1, <1>5 DEF Retried, Submitted, SubmitThrows, MayBeHeld, SigningOrSubmittingThrows, Throws
<1>6. CASE \E p \in Profiles : Begin(e, p)
  BY <1>1, <1>6 DEF Begin
<1> QED BY <1>2, <1>3, <1>4, <1>5, <1>6 DEF RunStep

LEMMA RunTells ==
  ASSUME XecInv, XecInv', NEW e \in Calls,
         RunStep(e) \/ \E p \in Profiles : Begin(e, p), Told(e)
  PROVE  Told(e)'
<1>1. Sound(run[e], e \in held) /\ Sound(run'[e], e \in held') /\ run \in [Calls -> Run]
  BY DEF XecInv, XecTypeOK
<1>2. CASE run'[e].phase # "settled"
  BY <1>1, <1>2 DEF Told, Sound
<1>3. CASE Submitted(e)
  BY <1>1, <1>3 DEF Submitted, Told, Run
<1>4. CASE SubmitThrows(e)
  <2>1. run[e].profile.rewrap \/ run'[e].outcome \in {"TIMEOUT", "network", "other"}
    BY <1>1, <1>4 DEF SubmitThrows, SigningOrSubmittingThrows, Throws, Run
  <2>2. run'[e].profile = run[e].profile /\ run'[e].outcome # "SIMULATION"
    BY <1>1, <1>4 DEF SubmitThrows, SigningOrSubmittingThrows, Throws, Run
  <2> QED BY <2>1, <2>2 DEF Told
<1>5. CASE run[e].phase \in {"reading", "ready", "simulating", "signing", "signed"} /\ UNCHANGED held
  BY <1>1, <1>5 DEF Sound, Told
<1>6. CASE Retried(e)
  BY <1>1, <1>6 DEF Retried, Sound, Told
<1>7. CASE \E p \in Profiles : Begin(e, p)
  BY <1>7 DEF Begin, Told
<1> QED BY <1>3, <1>4, <1>5, <1>6, <1>7
    DEF RunStep, ReadEnds, Simulate, SimulationAnswered, SimulationThrows, Sign, Submit, At

(* Unless its executor rewraps what its submit throws, a run that ends in  *)
(* its simulation or its signing has left nothing with any node.           *)
THEOREM EndsAreTold == XecSpec => []FailedBeforeSubmit
<1>1. XecInit => FailedBeforeSubmit
  BY DEF XecInit, FailedBeforeSubmit
<1>2. XecInv /\ XecInv' /\ FailedBeforeSubmit /\ [XecNext]_execVars => FailedBeforeSubmit'
  <2> SUFFICES ASSUME XecInv, XecInv', FailedBeforeSubmit, [XecNext]_execVars, NEW d \in Calls
               PROVE  Told(d)'
    BY DEF FailedBeforeSubmit, Told
  <2>0. Told(d)
    BY DEF FailedBeforeSubmit, Told
  <2>1. ASSUME NEW e \in Calls, RunStep(e) \/ \E p \in Profiles : Begin(e, p)
        PROVE  Told(d)'
    <3>1. CASE d = e
      BY <2>0, <2>1, <3>1, RunTells
    <3>2. CASE d # e
      BY <2>0, <2>1, <3>2, OthersUntouched DEF Told
    <3> QED BY <3>1, <3>2
  <2>2. CASE XecBackground \/ UNCHANGED execVars
    BY <2>0, <2>2 DEF XecBackground, execVars, Told
  <2> QED BY <2>1, <2>2 DEF XecNext
<1> QED BY <1>1, <1>2, XecSafety, PTL DEF XecSpec
=============================================================================
