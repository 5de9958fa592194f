-------------------------- MODULE RpcFlows_proofs --------------------------
(* Theorems about the two flows whose every question to a node runs in     *)
(* withFailover: CrossChain, for any number of transfers, attempts and     *)
(* retry ticks, and Reads, for any reads of the table, any slots and any   *)
(* height of the chain. They inherit the invariants of NodeFailover.       *)
EXTENDS CrossChain, Reads, NodeFailover_proofs

-----------------------------------------------------------------------------
(* CrossChain. Its steps are steps of NodeFailover.                        *)

(* How far the loop of pollSpvProof has come, by where the transfer is.    *)
LoopInv(t) ==
  /\ step[t] = "fetching" => attempt[t] \in 1..MaxAttempts /\ fetches[t] = attempt[t]
  /\ step[t] = "sleeping" => attempt[t] \in 1..(MaxAttempts - 1) /\ fetches[t] = attempt[t]
  /\ step[t] = "gaveup" => attempt[t] = MaxAttempts /\ fetches[t] = MaxAttempts

ChainInv(t) ==
  /\ status[t] = "success" => source[t] \in {"success", "final"}
  /\ status[t] = "failure" => source[t] = "failure"
  /\ step[t] \in {"proved", "continuing", "finished"} => source[t] = "final"

XInv == TypeOK /\ XTypeOK /\ \A t \in Transfers : LoopInv(t) /\ ChainInv(t)

-----------------------------------------------------------------------------
(* Every step is a step of the failover module or leaves it alone.         *)
LEMMA RpcIsNext ==
  ASSUME NEW t \in Calls, NEW out \in Outcomes(call[t].host),
         CallSettles(t, out) \/ CallFailsOver(t, out)
  PROVE  Next
<1>1. call[t].phase # "none"
  BY DEF CallSettles, CallFailsOver
<1> QED BY <1>1 DEF Next

LEMMA FlowIsNext ==
  ASSUME NEW t \in Transfers, Flow(t)
  PROVE  Next
<1> USE DEF Transfers
<1>1. CASE Submit(t) \/ Poll(t) \/ PollSpvProof(t) \/ Wake(t) \/ SubmitContinuation(t)
  <2>1. CallEnters(t)
    BY <1>1 DEF Submit, Poll, PollSpvProof, Wake, SubmitContinuation, FetchEnters
  <2> QED BY <2>1 DEF Next
<1>2. CASE Submitted(t) \/ Polled(t) \/ FetchAnswered(t) \/ Continued(t)
  <2>1. CallSettles(t, "ok") /\ "ok" \in Outcomes(call[t].host)
    BY <1>2 DEF Submitted, Polled, FetchAnswered, Continued, Outcomes, HostOf
  <2> QED BY <2>1, RpcIsNext
<1>3. CASE SubmitThrows(t) \/ PollErrs(t) \/ FetchTimesOut(t) \/ ContinueThrows(t)
  <2>1. \E out \in Outcomes(call[t].host) : CallSettles(t, out)
    BY <1>3 DEF SubmitThrows, PollErrs, FetchTimesOut, ContinueThrows, GivesUp, Outcomes, HostOf
  <2> QED BY <2>1, RpcIsNext
<1>4. CASE SubmitRetried(t) \/ FetchRefused(t)
  <2>1. "network" \in Outcomes(call[t].host)
    BY <1>4 DEF SubmitRetried, FetchRefused, GivesUp, GoesToFallback, Outcomes, HostOf
  <2>2. CallSettles(t, "network") \/ CallFailsOver(t, "network")
    BY <1>4 DEF SubmitRetried, FetchRefused, GivesUp, GoesToFallback
  <2> QED BY <2>1, <2>2, RpcIsNext
<1> QED BY <1>1, <1>2, <1>3, <1>4 DEF Flow

LEMMA StepIsNext == [XNext]_xchainVars => [Next]_vars
<1> SUFFICES ASSUME [XNext]_xchainVars PROVE [Next]_vars
  OBVIOUS
<1>1. ASSUME NEW t \in Transfers, Flow(t) PROVE Next
  BY <1>1, FlowIsNext
<1>2. ASSUME NEW t \in Transfers, SourceAdvances(t) \/ TargetAdvances(t) PROVE UNCHANGED vars
  BY <1>2 DEF SourceAdvances, TargetAdvances
<1>3. CASE XBackground
  BY <1>3 DEF XBackground, Next, Probes
<1>4. CASE UNCHANGED xchainVars
  BY <1>4 DEF xchainVars
<1> QED BY <1>1, <1>2, <1>3, <1>4 DEF XNext

(* What the failover module guarantees holds under the cross-chain flow.   *)
THEOREM FlowRefinesFailover == XSpec => Spec
<1>1. XInit => Init
  BY DEF XInit
<1> QED BY <1>1, StepIsNext, PTL DEF XSpec, Spec

-----------------------------------------------------------------------------
LEMMA XInitEstablishes == XInit => XInv
<1> SUFFICES ASSUME XInit PROVE XInv
  OBVIOUS
<1>1. TypeOK
  BY InitEstablishes DEF XInit, IInv
<1>2. XTypeOK
  BY <1>1, AttemptsAssumption DEF XInit, XTypeOK, Steps, Statuses
<1>3. \A t \in Transfers : LoopInv(t) /\ ChainInv(t)
  BY DEF XInit, LoopInv, ChainInv
<1> QED BY <1>1, <1>2, <1>3 DEF XInv

(* The host a retry runs on is a host.                                     *)
LEMMA RetryHost ==
  ASSUME IInv, NEW t \in Calls, CallFailsOver(t, "network")
  PROVE  call'[t].host \in Hosts
<1>1. current' \in Hosts
  BY FailOverKeeps DEF IInv, TypeOK
<1> QED BY <1>1 DEF CallFailsOver, IInv, TypeOK, Call

(* What the flow of one transfer does to the variables of CrossChain.      *)
LEMMA FlowTypes ==
  ASSUME IInv, XInv, TypeOK', NEW t \in Transfers, Flow(t)
  PROVE  XTypeOK'
<1> USE DEF XTypeOK, Transfers, Goto, chainVars, flowVars
<1>0. XTypeOK /\ LoopInv(t)
  BY DEF XInv
<1>1. CASE Submit(t) \/ Poll(t) \/ SubmitContinuation(t) \/ SubmitRetried(t)
  BY <1>0, <1>1 DEF Submit, Poll, SubmitContinuation, SubmitRetried, Steps
<1>2. CASE Submitted(t) \/ Continued(t)
  BY <1>0, <1>2 DEF Submitted, Continued, Steps
<1>3. CASE SubmitThrows(t) \/ ContinueThrows(t)
  BY <1>0, <1>3 DEF SubmitThrows, ContinueThrows, Steps
<1>4. CASE Polled(t) \/ PollErrs(t)
  BY <1>0, <1>4 DEF Polled, PollErrs, StatusOf, Statuses, Steps
<1>5. ASSUME NEW n \in 1..MaxAttempts, FetchEnters(t, n) PROVE XTypeOK'
  <2>1. current \in Hosts
    BY DEF IInv, TypeOK
  <2> QED BY <1>0, <1>5, <2>1 DEF FetchEnters, Steps
<1>6. CASE PollSpvProof(t)
  BY <1>5, <1>6, AttemptsAssumption DEF PollSpvProof
<1>7. CASE Wake(t)
  <2>1. attempt[t] + 1 \in 1..MaxAttempts
    BY <1>0, <1>7, AttemptsAssumption DEF Wake, LoopInv
  <2> QED BY <1>5, <1>7, <2>1 DEF Wake
<1>8. CASE FetchAnswered(t) \/ FetchTimesOut(t)
  BY <1>0, <1>8 DEF FetchAnswered, FetchTimesOut, NoProofYet, Steps
<1>9. CASE FetchRefused(t)
  <2>1. GoesToFallback(t) => call'[t].host \in Hosts
    BY RetryHost DEF GoesToFallback
  <2> QED BY <1>0, <1>9, <2>1 DEF FetchRefused, NoProofYet, Steps
<1> QED BY <1>1, <1>2, <1>3, <1>4, <1>6, <1>7, <1>8, <1>9 DEF Flow

LEMMA FlowKeepsLoop ==
  ASSUME XInv, NEW t \in Transfers, Flow(t), NEW u \in Transfers
  PROVE  LoopInv(u)'
<1> USE DEF XTypeOK, Goto, chainVars, flowVars, LoopInv
<1>0. XTypeOK /\ LoopInv(t) /\ LoopInv(u)
  BY DEF XInv
<1>1. CASE Submit(t) \/ Poll(t) \/ SubmitContinuation(t) \/ SubmitRetried(t)
  BY <1>0, <1>1 DEF Submit, Poll, SubmitContinuation, SubmitRetried
<1>2. CASE Submitted(t) \/ Continued(t) \/ SubmitThrows(t) \/ ContinueThrows(t)
  BY <1>0, <1>2 DEF Submitted, Continued, SubmitThrows, ContinueThrows
<1>3. CASE Polled(t) \/ PollErrs(t)
  BY <1>0, <1>3 DEF Polled, PollErrs
<1>4. CASE PollSpvProof(t)
  BY <1>0, <1>4, AttemptsAssumption DEF PollSpvProof, FetchEnters
<1>5. CASE Wake(t)
  BY <1>0, <1>5, AttemptsAssumption DEF Wake, FetchEnters
<1>6. CASE FetchAnswered(t) \/ FetchTimesOut(t) \/ FetchRefused(t)
  BY <1>0, <1>6, AttemptsAssumption DEF FetchAnswered, FetchTimesOut, FetchRefused, NoProofYet
<1> QED BY <1>1, <1>2, <1>3, <1>4, <1>5, <1>6 DEF Flow

LEMMA FlowKeepsChain ==
  ASSUME XInv, NEW t \in Transfers, Flow(t), NEW u \in Transfers
  PROVE  ChainInv(u)'
<1> USE DEF XTypeOK, Goto, chainVars, flowVars, ChainInv
<1>0. XTypeOK /\ ChainInv(t) /\ ChainInv(u)
  BY DEF XInv
<1>1. CASE Submit(t) \/ Poll(t) \/ SubmitContinuation(t) \/ SubmitRetried(t)
  BY <1>0, <1>1 DEF Submit, Poll, SubmitContinuation, SubmitRetried
<1>2. CASE Submitted(t) \/ Continued(t) \/ SubmitThrows(t) \/ ContinueThrows(t)
  BY <1>0, <1>2 DEF Submitted, Continued, SubmitThrows, ContinueThrows
<1>3. CASE Polled(t) \/ PollErrs(t)
  BY <1>0, <1>3 DEF Polled, PollErrs, StatusOf
<1>4. CASE PollSpvProof(t) \/ Wake(t)
  BY <1>0, <1>4 DEF PollSpvProof, Wake, FetchEnters
<1>5. CASE FetchAnswered(t) \/ FetchTimesOut(t) \/ FetchRefused(t)
  BY <1>0, <1>5 DEF FetchAnswered, FetchTimesOut, FetchRefused, NoProofYet
<1> QED BY <1>1, <1>2, <1>3, <1>4, <1>5 DEF Flow

(* The chains only move forward, and never away from an outcome.           *)
LEMMA ChainsKeep ==
  ASSUME XInv, NEW t \in Transfers, SourceAdvances(t) \/ TargetAdvances(t)
  PROVE  XInv'
<1>1. TypeOK' /\ UNCHANGED flowVars /\ UNCHANGED <<builder, skewed>>
  BY DEF SourceAdvances, TargetAdvances, XInv, TypeOK, vars
<1>2. XTypeOK'
  BY <1>1 DEF SourceAdvances, TargetAdvances, XInv, XTypeOK, flowVars
<1>3. ASSUME NEW u \in Transfers PROVE LoopInv(u)' /\ ChainInv(u)'
  BY <1>1 DEF SourceAdvances, TargetAdvances, XInv, XTypeOK, LoopInv, ChainInv, flowVars
<1> QED BY <1>1, <1>2, <1>3 DEF XInv

LEMMA XStepKeeps == IInv /\ IInv' /\ XInv /\ [XNext]_xchainVars => XInv'
<1> SUFFICES ASSUME IInv, IInv', XInv, [XNext]_xchainVars PROVE XInv'
  OBVIOUS
<1>0. TypeOK'
  BY DEF IInv
<1>1. ASSUME NEW t \in Transfers, Flow(t) PROVE XInv'
  BY <1>0, <1>1, FlowTypes, FlowKeepsLoop, FlowKeepsChain DEF XInv
<1>2. ASSUME NEW t \in Transfers, SourceAdvances(t) \/ TargetAdvances(t) PROVE XInv'
  BY <1>2, ChainsKeep
<1>3. CASE XBackground \/ UNCHANGED xchainVars
  <2>1. UNCHANGED flowVars /\ UNCHANGED chainVars
    BY <1>3 DEF XBackground, xchainVars
  <2> QED BY <1>0, <2>1 DEF XInv, XTypeOK, LoopInv, ChainInv, flowVars, chainVars
<1> QED BY <1>1, <1>2, <1>3 DEF XNext

LEMMA XSafety == XSpec => []XInv
<1>1. XSpec => []IInv
  BY FlowRefinesFailover, Safety, PTL
<1> QED BY <1>1, XInitEstablishes, XStepKeeps, PTL DEF XSpec

(* Every variable of the flow keeps its type: attempt never exceeds the    *)
(* bound of the loop.                                                      *)
THEOREM XTypeCorrect == XSpec => []XTypeOK
BY XSafety, PTL DEF XInv

(* A reported outcome is the chain's.                                      *)
THEOREM StatusSound == XSpec => []StatusAgreesWithChain
<1>1. XInv => StatusAgreesWithChain
  BY DEF XInv, ChainInv, StatusAgreesWithChain
<1> QED BY <1>1, XSafety, PTL

(* Only final transfers are continued.                                     *)
THEOREM ProofSound == XSpec => []ContinuesFinalTransfers
<1>1. XInv => ContinuesFinalTransfers
  BY DEF XInv, ChainInv, ContinuesFinalTransfers
<1> QED BY <1>1, XSafety, PTL

(* The loop makes exactly maxAttempts fetches before it gives up.          *)
THEOREM GivesUpAtTheBound == XSpec => []GivesUpAfterMaxAttempts
<1>1. XInv => GivesUpAfterMaxAttempts
  BY DEF XInv, LoopInv, GivesUpAfterMaxAttempts
<1> QED BY <1>1, XSafety, PTL

-----------------------------------------------------------------------------
(* Reads. Its steps are those of NodeFailover for the calls, but `up` plays *)
(* no part: any attempt may die.                                           *)

(* A keyset's name is looked up only when the question had an answer.      *)
LooksUpData(s) == s.ask.then # "none" /\ s.told.kind = "data"

(* What a settled read gives follows from the latest answer it heard.      *)
Outcome(s) ==
  /\ s.leg = 1 => s.heard = s.told.kind /\ s.result = s.ask.on[s.told.kind]
  /\ s.leg > 1 /\ s.ask.then = "keyset" => s.result = readKeyset.on[s.heard]
  /\ s.leg > 1 /\ s.ask.then = "keyset-twice" /\ s.heard # "data" => s.result = "default"
  /\ s.told.kind = "absent" /\ s.told.view.host \in Hosts => s.since[s.told.view.host] = 0

(* A slot and what it rests on. A node that answered showed at least what  *)
(* it showed when the read began.                                          *)
SlotInv(s) ==
  /\ s.phase # "idle" => s.ask \in Read
  /\ \A h \in Hosts : s.since[h] <= seen[h]
  /\ s.phase = "next" => s.leg < 3 /\ LooksUpData(s)
  /\ s.leg > 1 => LooksUpData(s)
  /\ s.phase = "answered" => s.answer.host \in Hosts /\ s.since[s.answer.host] <= s.answer.height
  /\ s.phase = "settled" => Outcome(s)

ReadsInv ==
  /\ IInv
  /\ ReadsTypeOK
  /\ \A c \in Calls : call[c].phase # "none" => call[c].host \in Hosts
  /\ balance.host = NoHost => balance.height = 0
  /\ \A c \in Calls : SlotInv(read[c])

-----------------------------------------------------------------------------
(* The table.                                                              *)

LEMMA NullRows ==
  /\ \A r \in NullOnFailure : r.on["rejects"] = "null" /\ r.on["failure"] = "null"
  /\ \A r \in NullOnReject : r.on["rejects"] \in {"null", "throws"}
<1>1. /\ Checked.on["rejects"] = "null" /\ Checked.on["failure"] = "null"
      /\ Caught.on["rejects"] = "null" /\ Caught.on["failure"] = "null"
  BY DEF Checked, Caught, Shape
<1>2. /\ Try(Checked).on["rejects"] = "null" /\ Try(Checked).on["failure"] = "null"
      /\ checkCoinAccountExists_urStoa.on["rejects"] = "null"
      /\ checkCoinAccountExists_urStoa.on["failure"] = "null"
  BY DEF Checked, Shape, Try, checkCoinAccountExists_urStoa
<1>3. getUrStoaGuard.on["rejects"] = "null" /\ getUrStoaGuard.on["failure"] = "null"
  BY DEF getUrStoaGuard, Shape, Try
<1>4. getLPTypeInfo.on["rejects"] = "null" /\ validateLiquidity.on["rejects"] = "null"
  BY DEF getLPTypeInfo, validateLiquidity, Shape, Try
<1>5. KadenaWalletGetBalance.on["rejects"] = "throws"
  BY DEF KadenaWalletGetBalance, getBalance, Shape, Row
<1>6. CheckedNumber.on["rejects"] = "null" /\ CheckedNumber.on["failure"] = "null"
  BY DEF CheckedNumber, Checked, Shape
<1> QED
  BY <1>1, <1>2, <1>3, <1>4, <1>5, <1>6
     DEF NullOnFailure, NullOnReject, getStoaPriceUSD, getTokenDecimals, getPoolTotalFee,
         getDPTFMinMove, getIgnisBalance, getAccountTokenSupply, getOuroDispoCapacity,
         getVirtualOuro, getUrStoaBalance, getMaxBuyMovieBooster, getSWPSpawnLimit,
         getSWPInactiveLimit

LEMMA KeysetRow == readKeyset.on \in [Kinds -> Results] /\ readKeyset.on["rejects"] = "throws"
BY DEF readKeyset, Uncaught, Row, Shape, Kinds, Results

-----------------------------------------------------------------------------
LEMMA IdleSound == IdleSlot \in Slot /\ (seen \in [Hosts -> Heights] => SlotInv(IdleSlot))
<1>1. IdleSlot \in Slot
  BY HostFacts, HeightAssumption DEF IdleSlot, Slot, View, NoView, Rejected, Answer, Kinds, Heights
<1>2. seen \in [Hosts -> Heights] => SlotInv(IdleSlot)
  BY HeightAssumption DEF IdleSlot, SlotInv, Heights
<1> QED BY <1>1, <1>2

LEMMA ReadsInitEstablishes == ReadsInit => ReadsInv
<1> SUFFICES ASSUME ReadsInit PROVE ReadsInv
  OBVIOUS
<1>1. IInv
  BY InitEstablishes DEF ReadsInit
<1>2. \A c \in Calls : call[c] = NoCall /\ call[c].phase = "none" /\ read[c] = IdleSlot
  BY DEF ReadsInit, Init, NoCall
<1>3. ReadsTypeOK
  BY <1>1, <1>2, IdleSound, HeightAssumption
     DEF ReadsInit, IInv, ReadsTypeOK, View, NoView, Heights, Waiting, IdleSlot
<1> QED BY <1>1, <1>2, <1>3, IdleSound DEF ReadsInit, ReadsInv, NoView

-----------------------------------------------------------------------------
(* What a step of withFailover does to the call of one slot.               *)
CallChanges(c, waits) ==
  /\ \A d \in Calls \ {c} : call'[d] = call[d]
  /\ call'[c].phase # "none" <=> waits
  /\ call'[c].phase # "none" => call'[c].host \in Hosts

LEMMA CallEffects ==
  ASSUME ReadsInv, NEW c \in Calls
  PROVE  /\ CallEnters(c) => IInv' /\ CallChanges(c, TRUE)
         /\ \A out : CallSettles(c, out) => IInv' /\ CallChanges(c, FALSE)
         /\ \A out : CallFailsOver(c, out) => IInv' /\ CallChanges(c, TRUE)
         /\ UNCHANGED vars => IInv' /\ CallChanges(c, Waiting(c) /\ Unpinned(c))
<1>1. call \in [Calls -> Call] /\ current \in Hosts /\ IInv
  BY DEF ReadsInv, IInv, TypeOK
<1>2. ASSUME CallEnters(c) PROVE IInv' /\ CallChanges(c, TRUE)
  <2>1. IInv'
    BY <1>1, <1>2, CallStepKeeps
  <2>2. CallChanges(c, TRUE)
    BY <1>1, <1>2 DEF CallEnters, CallChanges
  <2> QED BY <2>1, <2>2
<1>3. ASSUME NEW out, CallSettles(c, out) PROVE IInv' /\ CallChanges(c, FALSE)
  <2>1. IInv'
    BY <1>1, <1>3, CallStepKeeps
  <2>2. CallChanges(c, FALSE)
    BY <1>1, <1>3 DEF CallSettles, CallChanges, NoCall
  <2> QED BY <2>1, <2>2
<1>4. ASSUME NEW out, CallFailsOver(c, out) PROVE IInv' /\ CallChanges(c, TRUE)
  <2>1. IInv'
    BY <1>1, <1>4, FailOverKeeps
  <2>2. current' \in Hosts
    BY <2>1 DEF IInv, TypeOK
  <2>3. call'[c].phase = "second" /\ call'[c].host = current'
    BY <1>1, <1>4 DEF CallFailsOver, Call
  <2>4. CallChanges(c, TRUE)
    BY <1>1, <1>4, <2>2, <2>3 DEF CallFailsOver, CallChanges
  <2> QED BY <2>1, <2>4
<1>5. ASSUME UNCHANGED vars PROVE IInv' /\ CallChanges(c, Waiting(c) /\ Unpinned(c))
  <2>1. IInv'
    BY <1>1, <1>5, StutterKeeps
  <2>2. CallChanges(c, Waiting(c) /\ Unpinned(c))
    BY <1>5 DEF vars, CallChanges, ReadsInv, ReadsTypeOK
  <2> QED BY <2>1, <2>2
<1> QED BY <1>2, <1>3, <1>4, <1>5

(* A step that gives one slot a sound record, and the call that belongs to *)
(* it, keeps the invariant.                                                *)
LEMMA OneSlotChanges ==
  ASSUME ReadsInv, IInv', NEW c \in Calls, NEW s \in Slot, SlotInv(s),
         read' = [read EXCEPT ![c] = s], UNCHANGED <<workload, reader, seen>>,
         balance' \in View, balance'.host = NoHost => balance'.height = 0,
         CallChanges(c, s.phase \in {"asked", "answered"} /\ s.via = "raw" /\ s.pin = NoHost)
  PROVE  ReadsInv'
<1>1. read' \in [Calls -> Slot] /\ read'[c] = s /\ \A d \in Calls \ {c} : read'[d] = read[d]
  BY DEF ReadsInv, ReadsTypeOK
<1>2. \A d \in Calls : SlotInv(read[d])
  BY DEF ReadsInv
<1>3. \A d \in Calls : SlotInv(read[d])'
  <2> SUFFICES ASSUME NEW d \in Calls PROVE SlotInv(read[d])'
    OBVIOUS
  <2>1. CASE d = c
    BY <1>1, <2>1 DEF SlotInv
  <2>2. CASE d # c
    BY <1>1, <1>2, <2>2 DEF SlotInv
  <2> QED BY <2>1, <2>2
<1>4. \A d \in Calls : /\ call'[d].phase # "none" <=> (Waiting(d) /\ Unpinned(d))'
                       /\ call'[d].phase # "none" => call'[d].host \in Hosts
  BY <1>1 DEF CallChanges, ReadsInv, ReadsTypeOK, Waiting, Unpinned
<1>5. ReadsTypeOK'
  <2>1. TypeOK'
    BY DEF IInv
  <2> QED BY <1>1, <1>4, <2>1 DEF ReadsInv, ReadsTypeOK
<1> QED BY <1>3, <1>4, <1>5 DEF ReadsInv

-----------------------------------------------------------------------------
LEMMA AskingKeeps ==
  ASSUME ReadsInv, NEW c \in Calls, read[c].phase \in {"idle", "settled", "next"},
         NEW slot \in Slot, slot.ask \in Read, \A h \in Hosts : slot.since[h] <= seen[h],
         slot.leg > 1 => LooksUpData(slot), pactRead(c, slot)
  PROVE  ReadsInv'
<1> DEFINE s == [slot EXCEPT !.phase = "asked", !.via = reader,
                             !.pin = IF slot.ask.pinned THEN current ELSE NoHost]
<1>1. reader \in {"raw", "consumer"} /\ current \in Hosts /\ balance \in View
      /\ (balance.host = NoHost => balance.height = 0)
  BY DEF ReadsInv, ReadsTypeOK, TypeOK
<1>2. /\ s \in Slot /\ s.phase = "asked" /\ s.via = reader /\ s.ask = slot.ask
      /\ s.leg = slot.leg /\ s.told = slot.told
      /\ s.since = slot.since /\ (s.pin = NoHost <=> ~slot.ask.pinned)
  BY <1>1, HostFacts DEF Slot
<1>3. SlotInv(s)
  BY <1>2 DEF SlotInv, LooksUpData
<1>4. /\ read' = [read EXCEPT ![c] = s] /\ UNCHANGED <<workload, reader, seen, balance>>
      /\ IF reader = "raw" /\ ~slot.ask.pinned THEN CallEnters(c) ELSE UNCHANGED vars
  BY DEF pactRead
<1> HIDE DEF s
<1>5. ~Waiting(c)
  BY DEF Waiting
<1>6. IInv' /\ CallChanges(c, reader = "raw" /\ ~slot.ask.pinned)
  BY <1>4, <1>5, CallEffects DEF CallChanges
<1>7. CallChanges(c, s.phase \in {"asked", "answered"} /\ s.via = "raw" /\ s.pin = NoHost)
  BY <1>2, <1>6 DEF CallChanges
<1> QED BY <1>1, <1>2, <1>3, <1>4, <1>6, <1>7, OneSlotChanges

LEMMA BeginKeeps ==
  ASSUME ReadsInv, NEW c \in Calls, NEW p \in workload[c], Begin(c, p)
  PROVE  ReadsInv'
<1> DEFINE slot == [IdleSlot EXCEPT !.ask = p, !.since = seen]
<1>1. p \in Read /\ seen \in [Hosts -> Heights]
  BY WorkloadAssumption DEF ReadsInv, ReadsTypeOK
<1>2. slot \in Slot /\ slot.ask = p /\ slot.since = seen /\ slot.phase = "idle" /\ slot.leg = 1
  BY <1>1, IdleSound DEF Slot, IdleSlot
<1>3. \A h \in Hosts : slot.since[h] <= seen[h]
  BY <1>1, <1>2 DEF Heights
<1>4. pactRead(c, slot) /\ read[c].phase \in {"idle", "settled"}
  BY DEF Begin
<1> HIDE DEF slot
<1> QED BY <1>1, <1>2, <1>3, <1>4, AskingKeeps

LEMMA NextLegKeeps ==
  ASSUME ReadsInv, NEW c \in Calls, NextLeg(c)
  PROVE  ReadsInv'
<1> DEFINE slot == [read[c] EXCEPT !.leg = @ + 1]
<1>1. read[c] \in Slot /\ SlotInv(read[c]) /\ read[c].phase = "next"
  BY DEF ReadsInv, ReadsTypeOK, NextLeg
<1>2. read[c].leg \in 1..3 /\ read[c].leg < 3 /\ read[c].ask \in Read /\ LooksUpData(read[c])
  BY <1>1 DEF SlotInv, Slot
<1>3. slot \in Slot /\ slot.ask = read[c].ask /\ slot.told = read[c].told
  BY <1>1, <1>2 DEF Slot
<1>4. \A h \in Hosts : slot.since[h] <= seen[h]
  BY <1>1 DEF Slot, SlotInv
<1>5. pactRead(c, slot)
  BY DEF NextLeg
<1>6. LooksUpData(slot)
  BY <1>2, <1>3 DEF LooksUpData
<1> HIDE DEF slot
<1> QED BY <1>1, <1>2, <1>3, <1>4, <1>5, <1>6, AskingKeeps

-----------------------------------------------------------------------------
(* What holds of an answer when it is delivered. One that a node gave is   *)
(* no older than what that node showed when the read began, and a row is   *)
(* absent only where it was absent then.                                   *)
Honest(c, a) ==
  /\ a \in Answer
  /\ a.view.host = NoHost => a.view.height = 0
  /\ a.kind = "absent" /\ a.view.host \in Hosts => read[c].since[a.view.host] = 0

LEMMA ResumingKeeps ==
  ASSUME ReadsInv, IInv', NEW c \in Calls, NEW a, Honest(c, a), read[c].phase # "idle",
         CallChanges(c, FALSE), Resumes(c, a)
  PROVE  ReadsInv'
<1> DEFINE heard == Heard(c, a)
<1>1. /\ read[c] \in Slot /\ SlotInv(read[c]) /\ read[c].ask \in Read
      /\ a.kind \in Kinds /\ a.view \in View /\ balance \in View
      /\ (balance.host = NoHost => balance.height = 0)
  BY DEF ReadsInv, ReadsTypeOK, SlotInv, Honest, Answer
<1>2. /\ heard \in Slot /\ heard.ask = read[c].ask /\ heard.leg = read[c].leg
      /\ heard.told = IF read[c].leg = 1 THEN a ELSE read[c].told
      /\ heard.heard = a.kind /\ heard.via = "raw"
      /\ heard.since = [h \in Hosts |-> IF h = heard.told.view.host THEN read[c].since[h] ELSE 0]
  <2> DEFINE told == IF read[c].leg = 1 THEN a ELSE read[c].told
             since == [h \in Hosts |-> IF h = told.view.host THEN read[c].since[h] ELSE 0]
  <2>1. told \in Answer /\ NoView \in View /\ since \in [Hosts -> Heights]
    BY <1>1, HostFacts, HeightAssumption DEF Slot, NoView, View, Heights, Honest
  <2>2. heard = [read[c] EXCEPT !.answer = NoView, !.via = "raw", !.told = told,
                                !.heard = a.kind, !.since = since]
    BY <1>1 DEF Heard, Slot
  <2> HIDE DEF heard, told, since
  <2>3. /\ heard \in Slot /\ heard.ask = read[c].ask /\ heard.leg = read[c].leg
        /\ heard.told = told /\ heard.heard = a.kind /\ heard.via = "raw" /\ heard.since = since
    BY <1>1, <2>1, <2>2 DEF Slot
  <2> QED BY <2>3 DEF told, since
<1>3. \A h \in Hosts : heard.since[h] <= seen[h]
  BY <1>1, <1>2 DEF SlotInv, ReadsInv, ReadsTypeOK, Heights
<1>4. ASSUME NEW result \in Results, Settles(c, a, result),
             read[c].leg = 1 => result = read[c].ask.on[a.kind],
             read[c].leg > 1 /\ read[c].ask.then = "keyset" => result = readKeyset.on[a.kind],
             read[c].leg > 1 /\ read[c].ask.then = "keyset-twice" /\ a.kind # "data" =>
               result = "default",
             UNCHANGED <<workload, reader, seen>>
      PROVE  ReadsInv'
  <2> DEFINE s == [heard EXCEPT !.phase = "settled", !.result = result]
  <2>1. /\ s \in Slot /\ s.phase = "settled" /\ s.result = result /\ s.ask = heard.ask
        /\ s.leg = heard.leg /\ s.told = heard.told /\ s.since = heard.since
        /\ s.heard = heard.heard
    BY <1>2 DEF Slot
  <2>2. read' = [read EXCEPT ![c] = s] /\ balance' \in {balance, a.view}
    BY <1>4 DEF Settles
  <2> HIDE DEF s, heard
  <2>3. s.leg \in 1..3 /\ (s.leg > 1 => LooksUpData(s))
    BY <1>1, <1>2, <2>1 DEF SlotInv, LooksUpData, Slot
  <2>4. Outcome(s)
    BY <1>2, <1>4, <2>1, <2>3 DEF Outcome, LooksUpData, Honest
  <2>5. SlotInv(s)
    BY <1>1, <1>2, <1>3, <2>1, <2>3, <2>4 DEF SlotInv
  <2> QED BY <1>1, <1>4, <2>1, <2>2, <2>5, OneSlotChanges DEF Honest, CallChanges
<1>5. ASSUME LooksUp(c, a), read[c].leg < 3, read[c].ask.then # "none",
             read[c].leg = 1 => a.kind = "data", UNCHANGED <<workload, reader, seen>>
      PROVE  ReadsInv'
  <2> DEFINE s == [heard EXCEPT !.phase = "next"]
  <2>1. /\ s \in Slot /\ s.phase = "next" /\ s.ask = heard.ask
        /\ s.leg = heard.leg /\ s.told = heard.told /\ s.since = heard.since
    BY <1>2 DEF Slot
  <2>2. read' = [read EXCEPT ![c] = s] /\ UNCHANGED balance
    BY <1>5 DEF LooksUp
  <2> HIDE DEF s, heard
  <2>3. LooksUpData(s)
    BY <1>1, <1>2, <1>5, <2>1 DEF SlotInv, LooksUpData, Slot
  <2>4. SlotInv(s)
    BY <1>1, <1>2, <1>3, <1>5, <2>1, <2>3 DEF SlotInv
  <2> QED BY <1>1, <1>5, <2>1, <2>2, <2>4, OneSlotChanges DEF CallChanges
<1>6. read[c].ask.on[a.kind] \in Results /\ readKeyset.on[a.kind] \in Results
  BY <1>1, KeysetRow DEF Read
<1>7. read[c].leg \in 1..3
  BY <1>1 DEF Slot
<1> QED BY <1>4, <1>5, <1>6, <1>7 DEF Resumes, Results

LEMMA RejectedHonest == \A c \in Calls : Honest(c, Rejected)
BY HostFacts, HeightAssumption DEF Honest, Rejected, Answer, NoView, View, Kinds, Heights

LEMMA NodeAnswersKeeps ==
  ASSUME ReadsInv, NEW c \in Calls, NodeAnswers(c)
  PROVE  ReadsInv'
<1> DEFINE answer == [host |-> Asked(c), height |-> seen[Asked(c)]]
           s == [read[c] EXCEPT !.phase = "answered", !.answer = answer]
<1>1. /\ read \in [Calls -> Slot] /\ read[c] \in Slot /\ SlotInv(read[c]) /\ read[c].ask \in Read
      /\ read[c].phase = "asked" /\ read[c].via = "raw" /\ balance \in View
      /\ (balance.host = NoHost => balance.height = 0) /\ seen \in [Hosts -> Heights]
  BY DEF ReadsInv, ReadsTypeOK, SlotInv, NodeAnswers, Waiting
<1>2. Asked(c) \in Hosts
  BY <1>1, HostFacts DEF ReadsInv, ReadsTypeOK, NodeAnswers, Asked, Unpinned, Slot
<1>3. answer \in View /\ read[c].since[Asked(c)] <= seen[Asked(c)]
  BY <1>1, <1>2 DEF View, SlotInv
<1>4. /\ s \in Slot /\ s.phase = "answered" /\ s.answer = answer /\ s.ask = read[c].ask
      /\ s.leg = read[c].leg /\ s.told = read[c].told
      /\ s.since = read[c].since /\ s.via = read[c].via /\ s.pin = read[c].pin
  BY <1>1, <1>3 DEF Slot
<1>5. SlotInv(s)
  BY <1>1, <1>2, <1>3, <1>4 DEF SlotInv, LooksUpData
<1>6. read' = [read EXCEPT ![c] = s]
  BY <1>1 DEF NodeAnswers
<1>7. IInv' /\ CallChanges(c, Waiting(c) /\ Unpinned(c))
  BY CallEffects DEF NodeAnswers
<1>8. CallChanges(c, s.phase \in {"asked", "answered"} /\ s.via = "raw" /\ s.pin = NoHost)
  BY <1>1, <1>4, <1>7 DEF CallChanges, Waiting, Unpinned
<1> HIDE DEF s
<1> QED BY <1>1, <1>4, <1>5, <1>6, <1>7, <1>8, OneSlotChanges DEF NodeAnswers

LEMMA DeliveredHonest ==
  ASSUME ReadsInv, NEW c \in Calls, Waiting(c), read[c].phase = "answered",
         NEW k \in Replies(read[c], read[c].answer.height)
  PROVE  Honest(c, [kind |-> k, view |-> read[c].answer])
<1>1. /\ read[c] \in Slot /\ SlotInv(read[c]) /\ read[c].answer \in View
      /\ read[c].answer.host \in Hosts
      /\ read[c].since[read[c].answer.host] <= read[c].answer.height
      /\ read[c].since[read[c].answer.host] \in Heights
  BY DEF ReadsInv, ReadsTypeOK, SlotInv, Slot
<1>2. k \in Kinds /\ (k = "absent" => read[c].answer.height = 0)
  BY DEF Replies, Kinds
<1>3. k = "absent" => read[c].since[read[c].answer.host] = 0
  BY <1>1, <1>2 DEF Heights
<1> QED BY <1>1, <1>2, <1>3, HostFacts DEF Honest, Answer

LEMMA DeliveredKeeps ==
  ASSUME ReadsInv, NEW c \in Calls, Delivered(c)
  PROVE  ReadsInv'
<1>1. IInv' /\ CallChanges(c, FALSE)
  BY CallEffects DEF Delivered, CallChanges
<1>2. PICK k \in Replies(read[c], read[c].answer.height) :
        Resumes(c, [kind |-> k, view |-> read[c].answer])
  BY DEF Delivered
<1>3. Waiting(c) /\ read[c].phase = "answered"
  BY DEF Delivered
<1> QED BY <1>1, <1>2, <1>3, DeliveredHonest, ResumingKeeps

LEMMA AttemptDiesKeeps ==
  ASSUME ReadsInv, NEW c \in Calls, AttemptDies(c)
  PROVE  ReadsInv'
<1>1. /\ read \in [Calls -> Slot] /\ read[c] \in Slot /\ SlotInv(read[c]) /\ read[c].ask \in Read
      /\ read[c].phase \in {"asked", "answered"} /\ read[c].via = "raw" /\ balance \in View
      /\ (balance.host = NoHost => balance.height = 0)
  BY DEF ReadsInv, ReadsTypeOK, SlotInv, AttemptDies, Waiting
<1>2. CASE /\ Unpinned(c) /\ CallFailsOver(c, "network")
           /\ read' = [read EXCEPT ![c].phase = "asked", ![c].answer = NoView]
           /\ UNCHANGED <<workload, reader, seen, balance>>
  <2> DEFINE s == [read[c] EXCEPT !.phase = "asked", !.answer = NoView]
  <2>1. NoView \in View
    BY HeightAssumption DEF NoView, View, Heights
  <2>2. /\ s \in Slot /\ s.phase = "asked" /\ s.ask = read[c].ask
        /\ s.leg = read[c].leg /\ s.told = read[c].told
        /\ s.since = read[c].since /\ s.via = read[c].via /\ s.pin = read[c].pin
    BY <1>1, <2>1 DEF Slot
  <2>3. SlotInv(s)
    BY <1>1, <2>2 DEF SlotInv, LooksUpData
  <2>4. read' = [read EXCEPT ![c] = s]
    BY <1>1, <1>2
  <2>5. IInv' /\ CallChanges(c, TRUE)
    BY <1>2, CallEffects
  <2>6. CallChanges(c, s.phase \in {"asked", "answered"} /\ s.via = "raw" /\ s.pin = NoHost)
    BY <1>1, <1>2, <2>2, <2>5 DEF CallChanges, Unpinned
  <2> HIDE DEF s
  <2> QED BY <1>1, <1>2, <2>2, <2>3, <2>4, <2>5, <2>6, OneSlotChanges
<1>3. CASE \/ Unpinned(c) /\ CallSettles(c, "network") /\ Resumes(c, Rejected)
           \/ ~Unpinned(c) /\ UNCHANGED vars /\ Resumes(c, Rejected)
  <2>1. IInv' /\ CallChanges(c, FALSE)
    BY <1>3, CallEffects DEF CallChanges
  <2> QED BY <1>1, <1>3, <2>1, RejectedHonest, ResumingKeeps
<1> QED BY <1>2, <1>3 DEF AttemptDies

LEMMA NodeErrorsKeeps ==
  ASSUME ReadsInv, NEW c \in Calls, NodeErrors(c)
  PROVE  ReadsInv'
<1>1. IInv' /\ CallChanges(c, FALSE)
  BY CallEffects DEF NodeErrors
<1>2. read[c].phase # "idle"
  BY DEF NodeErrors, Waiting
<1> QED BY <1>1, <1>2, RejectedHonest, ResumingKeeps DEF NodeErrors

LEMMA ConsumerAnswersKeeps ==
  ASSUME ReadsInv, NEW c \in Calls, ConsumerAnswers(c)
  PROVE  ReadsInv'
<1>1. ~Waiting(c) /\ read[c].phase = "asked"
  BY DEF ConsumerAnswers, Waiting
<1>2. IInv' /\ CallChanges(c, FALSE)
  BY <1>1, CallEffects DEF ConsumerAnswers, CallChanges
<1>3. PICK k \in Kinds : Resumes(c, [kind |-> k, view |-> NoView])
  BY DEF ConsumerAnswers
<1>4. Honest(c, [kind |-> k, view |-> NoView])
  BY HostFacts, HeightAssumption DEF Honest, Answer, NoView, View, Heights
<1> QED BY <1>1, <1>2, <1>3, <1>4, ResumingKeeps

-----------------------------------------------------------------------------
LEMMA EnvironmentKeeps ==
  ASSUME ReadsInv, UNCHANGED <<workload, read, balance, vars>>,
         reader' \in {"raw", "consumer"}, seen' \in [Hosts -> Heights],
         \A h \in Hosts : seen[h] <= seen'[h]
  PROVE  ReadsInv'
<1>1. IInv'
  BY StutterKeeps DEF ReadsInv
<1>2. UNCHANGED call
  BY DEF vars
<1>3. ReadsTypeOK' /\ \A c \in Calls : call'[c].phase # "none" => call'[c].host \in Hosts
  BY <1>1, <1>2 DEF ReadsInv, ReadsTypeOK, IInv, Waiting, Unpinned
<1>4. ASSUME NEW c \in Calls PROVE SlotInv(read[c])'
  <2>1. SlotInv(read[c]) /\ read[c].since \in [Hosts -> Heights] /\ seen \in [Hosts -> Heights]
    BY DEF ReadsInv, ReadsTypeOK, Slot
  <2>2. \A h \in Hosts : read[c].since[h] <= seen'[h]
    BY <2>1 DEF SlotInv, Heights
  <2> QED BY <2>1, <2>2 DEF SlotInv
<1> QED BY <1>1, <1>3, <1>4 DEF ReadsInv

LEMMA BackgroundKeeps ==
  ASSUME ReadsInv, Background
  PROVE  ReadsInv'
<1>1. PICK r \in ConfigCalls : SetNodeConfig(r)
  BY DEF Background
<1>2. IInv'
  BY <1>1, SetNodeConfigKeeps DEF ReadsInv
<1>3. \A c \in Calls : call'[c].phase = call[c].phase /\ call'[c].host = call[c].host
  BY <1>1 DEF SetNodeConfig, Assign, MarkReconfigured, ReadsInv, IInv, TypeOK, Call
<1>4. ReadsTypeOK' /\ \A c \in Calls : call'[c].phase # "none" => call'[c].host \in Hosts
  BY <1>2, <1>3 DEF Background, ReadsInv, ReadsTypeOK, IInv, Waiting, Unpinned
<1>5. \A c \in Calls : SlotInv(read[c])'
  BY DEF Background, ReadsInv, SlotInv
<1> QED BY <1>2, <1>4, <1>5 DEF Background, ReadsInv

(* The inductive step, one case per action.                                *)
LEMMA ReadsStepKeeps == ReadsInv /\ [ReadsNext]_readVars => ReadsInv'
<1> SUFFICES ASSUME ReadsInv, [ReadsNext]_readVars PROVE ReadsInv'
  OBVIOUS
<1>0. reader \in {"raw", "consumer"} /\ seen \in [Hosts -> Heights] /\ \A h \in Hosts : seen[h] <= seen[h]
  BY DEF ReadsInv, ReadsTypeOK, Heights
<1>1. ASSUME NEW c \in Calls, NEW p \in workload[c], Begin(c, p) PROVE ReadsInv'
  BY <1>1, BeginKeeps
<1>2. ASSUME NEW c \in Calls, NextLeg(c) PROVE ReadsInv'
  BY <1>2, NextLegKeeps
<1>3. ASSUME NEW c \in Calls, NodeAnswers(c) PROVE ReadsInv'
  BY <1>3, NodeAnswersKeeps
<1>4. ASSUME NEW c \in Calls, Delivered(c) PROVE ReadsInv'
  BY <1>4, DeliveredKeeps
<1>5. ASSUME NEW c \in Calls, AttemptDies(c) PROVE ReadsInv'
  BY <1>5, AttemptDiesKeeps
<1>6. ASSUME NEW c \in Calls, NodeErrors(c) PROVE ReadsInv'
  BY <1>6, NodeErrorsKeeps
<1>7. ASSUME NEW c \in Calls, ConsumerAnswers(c) PROVE ReadsInv'
  BY <1>7, ConsumerAnswersKeeps
<1>8. ASSUME NEW r \in {"raw", "consumer", "not-a-function"}, setPactReader(r) PROVE ReadsInv'
  BY <1>0, <1>8, EnvironmentKeeps DEF setPactReader
<1>9. ASSUME NEW h \in Hosts, HeightGrows(h) PROVE ReadsInv'
  <2>1. seen' \in [Hosts -> Heights] /\ \A g \in Hosts : seen[g] <= seen'[g]
    BY <1>0, <1>9, HeightAssumption DEF HeightGrows, Heights
  <2> QED BY <1>0, <1>9, <2>1, EnvironmentKeeps DEF HeightGrows
<1>10. CASE Background
  BY <1>10, BackgroundKeeps
<1>11. CASE UNCHANGED readVars
  BY <1>0, <1>11, EnvironmentKeeps DEF readVars
<1> QED
  BY <1>1, <1>2, <1>3, <1>4, <1>5, <1>6, <1>7, <1>8, <1>9, <1>10, <1>11 DEF ReadsNext

LEMMA ReadsSafety == ReadsSpec => []ReadsInv
BY ReadsInitEstablishes, ReadsStepKeeps, PTL DEF ReadsSpec

(* Every variable of the reads keeps its type, and a withFailover call is  *)
(* in flight exactly for the reads that wait for one and are not pinned.   *)
THEOREM ReadsTypeCorrect == ReadsSpec => []ReadsTypeOK
BY ReadsSafety, PTL DEF ReadsInv

(* Reads do to the failover state what withFailover calls may do to it; a  *)
(* pinned one, or one that a consumer's reader answers, nothing at all.    *)
LEMMA ReadsStepIsOpen == [ReadsNext]_readVars => [OpenNext]_vars
<1> SUFFICES ASSUME [ReadsNext]_readVars PROVE [OpenNext]_vars
  OBVIOUS
<1>1. ASSUME NEW c \in Calls, NEW slot, pactRead(c, slot) PROVE [OpenNext]_vars
  <2>1. CallEnters(c) \/ UNCHANGED vars
    BY <1>1 DEF pactRead
  <2> QED BY <2>1 DEF OpenNext, Next
<1>2. ASSUME NEW c \in Calls, Delivered(c) \/ AttemptDies(c) \/ NodeErrors(c)
      PROVE  [OpenNext]_vars
  <2>1. \/ UNCHANGED vars
        \/ \E out \in {"ok", "network", "other"} : CallSettles(c, out) \/ CallFailsOver(c, out)
    BY <1>2 DEF Delivered, AttemptDies, NodeErrors
  <2> QED BY <2>1 DEF OpenNext
<1>3. ASSUME NEW c \in Calls, NodeAnswers(c) \/ ConsumerAnswers(c) PROVE UNCHANGED vars
  BY <1>3 DEF NodeAnswers, ConsumerAnswers
<1>4. CASE \E r : setPactReader(r)
  BY <1>4 DEF setPactReader
<1>5. CASE \E h \in Hosts : HeightGrows(h)
  BY <1>5 DEF HeightGrows
<1>6. CASE Background
  BY <1>6 DEF Background, OpenNext, Next
<1>7. CASE UNCHANGED readVars
  BY <1>7 DEF readVars
<1> QED BY <1>1, <1>2, <1>3, <1>4, <1>5, <1>6, <1>7 DEF ReadsNext, Begin, NextLeg

(* The reads keep what the failover module promises for any outcome of the *)
(* attempts.                                                               *)
THEOREM ReadsRefineFailover == ReadsSpec => OpenSpec
<1>1. ReadsInit => Init
  BY DEF ReadsInit
<1> QED BY <1>1, ReadsStepIsOpen, PTL DEF ReadsSpec, OpenSpec

(* Reads leave the failover in order: no timer is leaked, and no call that *)
(* failed on the fallback is sent a second time.                           *)
THEOREM ReadsKeepFailover == ReadsSpec => []IInv
BY ReadsRefineFailover, OpenSafety, PTL

(* A read moves the traffic to the fallback only by failing on the primary.*)
THEOREM ReadsTripNeedsFailure == ReadsSpec => TripIsJustified
BY ReadsRefineFailover, OpenTrip, PTL

(* An outage is never a number, a false or an empty list: not of the       *)
(* question, nor of a lookup that follows it. getUrStoaGuard is the one    *)
(* exception, and only once it has read the guard: it takes a keyset it    *)
(* could not look up for no keyset.                                        *)
THEOREM ReadsFabricateNothing == ReadsSpec => []NothingFabricated
<1>1. ReadsInv => NothingFabricated
  <2> SUFFICES ASSUME ReadsInv, NEW c \in Calls, Done(c), read[c].result \in {"value", "default"}
      PROVE  /\ AnswerOwned(c)
             /\ read[c].heard = "rejects" /\ (read[c].leg > 1 \/ read[c].ask \in NullOnFailure) =>
                  LookupHidden(c)
    BY DEF NothingFabricated
  <2>1. /\ read[c] \in Slot /\ read[c].ask \in Read /\ Outcome(read[c])
        /\ read[c].leg > 1 => LooksUpData(read[c])
    BY DEF ReadsInv, ReadsTypeOK, SlotInv, Done
  <2>2. read[c].leg \in 1..3 /\ read[c].ask.then \in {"none", "keyset", "keyset-twice"}
    BY <2>1 DEF Slot, Read
  <2>3. CASE read[c].leg = 1
    <3>1. /\ read[c].result = read[c].ask.on[read[c].told.kind]
          /\ read[c].heard = read[c].told.kind
      BY <2>1, <2>3 DEF Outcome
    <3>2. /\ read[c].ask \in NullOnFailure \cup NullOnReject => read[c].told.kind # "rejects"
          /\ read[c].ask \in NullOnFailure => read[c].told.kind # "failure"
      BY <3>1, NullRows
    <3> QED BY <2>1, <2>3, <3>1, <3>2 DEF AnswerOwned, FromNode, Outcome
  <2>4. CASE read[c].leg > 1
    <3>1. read[c].told.kind = "data" /\ read[c].ask.then \in {"keyset", "keyset-twice"}
      BY <2>1, <2>2, <2>4 DEF LooksUpData
    <3>2. AnswerOwned(c)
      BY <3>1 DEF AnswerOwned
    <3>3. ASSUME read[c].heard = "rejects" PROVE LookupHidden(c)
      <4>1. read[c].ask.then = "keyset-twice"
        BY <2>1, <2>4, <3>1, <3>3, KeysetRow DEF Outcome
      <4> QED BY <2>1, <2>4, <3>1, <3>3, <4>1 DEF Outcome, LookupHidden
    <3> QED BY <3>2, <3>3
  <2> QED BY <2>2, <2>3, <2>4
<1> QED BY <1>1, ReadsSafety, PTL

-----------------------------------------------------------------------------
(* Only a read that settles touches the balance, and it takes what the     *)
(* answer was read from.                                                   *)
LEMMA BalanceChanges ==
  ASSUME NEW c \in Calls, NEW a, Resumes(c, a), balance' # balance
  PROVE  balance' = a.view /\ read[c].ask.caches
BY DEF Resumes, Settles, LooksUp

LEMMA BalanceStepHolds ==
  ASSUME ReadsInv, ReadsNext
  PROVE  BalanceStep
<1> SUFFICES ASSUME balance.host = balance'.host, balance'.height < balance.height
             PROVE  \E c \in Calls : /\ read[c].phase = "answered" /\ read[c].ask.caches
                                     /\ read[c].since[balance.host] < balance.height
  BY DEF BalanceStep
<1>0. balance \in View /\ (balance.host = NoHost => balance.height = 0) /\ balance' # balance
  BY DEF ReadsInv, ReadsTypeOK, View, Heights
<1>1. ASSUME balance' = NoView PROVE FALSE
  BY <1>0, <1>1 DEF NoView, View, Heights
<1>2. PICK c \in Calls : Delivered(c)
  <2>1. ASSUME NEW c \in Calls, Resumes(c, Rejected) PROVE FALSE
    BY <1>0, <1>1, <2>1, BalanceChanges DEF Rejected
  <2>2. ASSUME NEW c \in Calls, ConsumerAnswers(c) PROVE FALSE
    BY <1>0, <1>1, <2>2, BalanceChanges DEF ConsumerAnswers
  <2>3. /\ \A c \in Calls : ~AttemptDies(c) /\ ~NodeErrors(c) /\ ~NextLeg(c) /\ ~NodeAnswers(c)
        /\ \A c \in Calls : \A p : ~Begin(c, p)
        /\ \A r : ~setPactReader(r)
        /\ \A h : ~HeightGrows(h)
        /\ ~Background
    BY <1>0, <2>1 DEF AttemptDies, NodeErrors, NextLeg, NodeAnswers, Begin, pactRead,
                      setPactReader, HeightGrows, Background
  <2> QED BY <2>2, <2>3 DEF ReadsNext
<1>3. read[c].phase = "answered" /\ balance' = read[c].answer /\ read[c].ask.caches
  BY <1>0, <1>2, BalanceChanges DEF Delivered
<1>4. /\ read[c].since[read[c].answer.host] <= read[c].answer.height
      /\ read[c].since[read[c].answer.host] \in Heights /\ read[c].answer.height \in Heights
  BY <1>3 DEF ReadsInv, ReadsTypeOK, SlotInv, Slot, View
<1>5. read[c].since[balance.host] < balance.height
  BY <1>0, <1>3, <1>4 DEF View, Heights
<1> QED BY <1>3, <1>5

(* The balance of the wallet goes back to an older state of a node only    *)
(* through a call that was made before the newer one was seen.             *)
THEOREM BalanceNeverGoesBack == ReadsSpec => BalanceGoesForward
<1>1. ReadsInv /\ [ReadsNext]_readVars => [BalanceStep]_readVars
  BY BalanceStepHolds
<1> QED BY <1>1, ReadsSafety, PTL DEF ReadsSpec, BalanceGoesForward
=============================================================================
