------------------------- MODULE NodeFailover_proofs -------------------------
(* Theorems about NodeFailover, for any hosts, any configuration calls and *)
(* any number of withFailover calls, ticks and startup checks in flight.   *)
EXTENDS NodeFailover, TLAPS

(* What every user of withFailover does to the failover state, whether or  *)
(* not it goes by `up`: an attempt may end in any way, by its own deadline *)
(* on a host that is up, say. The theorems are about these steps, of which *)
(* those of Next are some.                                                 *)
OpenNext ==
  \/ Next
  \/ \E c \in Calls, out \in {"ok", "network", "other"} : CallSettles(c, out) \/ CallFailsOver(c, out)

OpenSpec == Init /\ [][OpenNext]_vars

LEMMA HostFacts == Node1 \in Hosts /\ Node2 \in Hosts /\ Node1 # Node2 /\ NoHost \notin Hosts
BY HostsAssumption DEF Hosts

(* switchToFallback keeps the active host configured and the timer paired. *)
LEMMA SwitchToFallbackKeeps ==
  ASSUME TypeOK, TimerDiscipline, ActiveIsConfigured, SwitchToFallback
  PROVE  /\ current' = fallback /\ retryTimer' \in BOOLEAN /\ intervals' \in Nat
         /\ intervals' = IF retryTimer' THEN 1 ELSE 0
         /\ retryTimer' => fallback # primary
         /\ primary # fallback /\ (current # primary => retryTimer) => retryTimer'
<1>1. CASE current = fallback
  BY <1>1 DEF SwitchToFallback, TypeOK, TimerDiscipline
<1>2. CASE current # fallback
  BY <1>2 DEF SwitchToFallback, StartRetryLoop, TypeOK, TimerDiscipline, ActiveIsConfigured
<1> QED BY <1>1, <1>2

(* switchToPrimary likewise.                                               *)
LEMMA SwitchToPrimaryKeeps ==
  ASSUME TypeOK, TimerDiscipline, ActiveIsConfigured, SwitchToPrimary
  PROVE  current' = primary /\ retryTimer' = FALSE /\ intervals' = 0
<1>1. CASE current = primary
  BY <1>1 DEF SwitchToPrimary, TypeOK, TimerDiscipline
<1>2. CASE current # primary
  BY <1>2 DEF SwitchToPrimary, StopRetryLoop, TypeOK, TimerDiscipline, ActiveIsConfigured
<1> QED BY <1>1, <1>2

(* A successful reconfiguration establishes the invariant on its own.      *)
LEMMA AssignKeeps ==
  ASSUME IInv, NEW p \in Hosts, NEW f \in Hosts, NEW l \in GasLimits,
         Assign(p, f, l), UNCHANGED up
  PROVE  IInv' /\ current' = primary'
<1> USE DEF IInv, Assign
<1>1. retryTimer' = FALSE /\ intervals' = 0
  BY DEF StopRetryLoop, TimerDiscipline, TypeOK
<1>2. /\ probe' \in [Probes -> Probe] /\ call' \in [Calls -> Call]
      /\ \A q \in Probes : probe'[q].phase = probe[q].phase /\ (probe[q].phase # "none" => probe'[q].reconf)
      /\ \A c \in Calls : /\ call'[c].phase = call[c].phase /\ (call[c].phase # "none" => call'[c].reconf)
                          /\ call'[c].attempted = call[c].attempted /\ call'[c].host = call[c].host
                          /\ call'[c].attemptedPrimary = call[c].attemptedPrimary
  BY DEF MarkReconfigured, TypeOK, Probe, Call
<1>3. TypeOK'
  BY <1>1, <1>2 DEF TypeOK
<1>4. TimerDiscipline' /\ ActiveIsConfigured'
  BY <1>1 DEF TimerDiscipline, ActiveIsConfigured
<1>5. OnlyPrimaryFailuresRetry' /\ RetryReachesFallback' /\ CapturesCurrent'
  BY <1>2 DEF OnlyPrimaryFailuresRetry, RetryReachesFallback, CapturesCurrent
<1> QED BY <1>3, <1>4, <1>5

(* setNodeConfig, the path that throws included.                           *)
LEMMA SetNodeConfigKeeps ==
  ASSUME IInv, NEW r \in ConfigCalls, SetNodeConfig(r)
  PROVE  IInv'
<1>0. r.origin \in Hosts \cup {NoHost} /\ r.limit \in GasLimits
  BY ConfigAssumption DEF ConfigCall
<1>1. CASE r.selected = "node1" /\ Assign(Node1, Node2, r.limit)
  BY <1>0, <1>1, HostFacts, AssignKeeps DEF SetNodeConfig
<1>2. CASE r.selected = "node2" /\ Assign(Node2, Node1, r.limit)
  BY <1>0, <1>2, HostFacts, AssignKeeps DEF SetNodeConfig
<1>3. CASE r.selected = "custom" /\ r.origin # NoHost /\ Assign(r.origin, Node2, r.limit)
  BY <1>0, <1>3, HostFacts, AssignKeeps DEF SetNodeConfig
<1>4. CASE /\ StopRetryLoop
           /\ UNCHANGED <<primary, fallback, customGasLimit, current, probe, call, up>>
  <2>1. retryTimer' = FALSE /\ intervals' = 0
    BY <1>4 DEF StopRetryLoop, IInv, TimerDiscipline, TypeOK
  <2>2. TypeOK' /\ TimerDiscipline'
    BY <1>4, <2>1 DEF IInv, TypeOK, TimerDiscipline
  <2>3. ActiveIsConfigured' /\ OnlyPrimaryFailuresRetry' /\ RetryReachesFallback' /\ CapturesCurrent'
    BY <1>4 DEF IInv, ActiveIsConfigured, OnlyPrimaryFailuresRetry, RetryReachesFallback,
                CapturesCurrent
  <2> QED BY <2>2, <2>3 DEF IInv
<1> QED BY <1>1, <1>2, <1>3, <1>4 DEF SetNodeConfig

(* A health check starts or is answered.                                   *)
LEMMA ProbeStepKeeps ==
  ASSUME IInv, NEW p \in Probes, Ask(p) \/ ProbeAnswered(p)
  PROVE  IInv'
<1>1. /\ UNCHANGED primary /\ UNCHANGED fallback /\ UNCHANGED customGasLimit
      /\ UNCHANGED current /\ UNCHANGED retryTimer /\ UNCHANGED intervals
      /\ UNCHANGED call /\ UNCHANGED up
      /\ probe' \in [Probes -> Probe]
      /\ \A q \in Probes : \/ probe'[q] = probe[q]
                           \/ probe'[q].host = primary /\ ~probe'[q].reconf
                           \/ /\ probe'[q].host = probe[q].host /\ probe[q].phase # "none"
                              /\ probe'[q].reconf = probe[q].reconf
  <2>1. probe \in [Probes -> Probe] /\ primary \in Hosts
    BY DEF IInv, TypeOK
  <2>2. CASE Ask(p)
    <3>1. [phase |-> "asked", host |-> primary, reconf |-> FALSE] \in Probe
      BY <2>1 DEF Probe
    <3> QED BY <2>1, <2>2, <3>1 DEF Ask, failoverVars
  <2>3. CASE ProbeAnswered(p)
    <3>1. \A v \in {"healthy", "unhealthy"} : [probe[p] EXCEPT !.phase = v] \in Probe
      BY <2>1 DEF Probe
    <3>2. PICK v \in {"healthy", "unhealthy"} :
            probe' = [probe EXCEPT ![p] = [probe[p] EXCEPT !.phase = v]]
      BY <2>1, <2>3 DEF ProbeAnswered
    <3>3. probe' \in [Probes -> Probe]
      BY <2>1, <3>1, <3>2
    <3>4. \A q \in Probes : \/ probe'[q] = probe[q]
                            \/ /\ probe'[q].host = probe[q].host /\ probe[q].phase # "none"
                               /\ probe'[q].reconf = probe[q].reconf
      BY <2>1, <2>3, <3>2 DEF ProbeAnswered, Probe
    <3> QED BY <2>3, <3>3, <3>4 DEF ProbeAnswered, failoverVars
  <2> QED BY <2>2, <2>3
<1>2. TypeOK'
  BY <1>1 DEF IInv, TypeOK
<1>5. TimerDiscipline' /\ ActiveIsConfigured'
  BY <1>1 DEF IInv, TimerDiscipline, ActiveIsConfigured
<1>3. OnlyPrimaryFailuresRetry' /\ RetryReachesFallback'
  BY <1>1 DEF IInv, OnlyPrimaryFailuresRetry, RetryReachesFallback
<1>4. CapturesCurrent'
  BY <1>1 DEF IInv, CapturesCurrent
<1> QED BY <1>2, <1>3, <1>4, <1>5 DEF IInv

(* A health check ends, with or without a switch of the active host.       *)
LEMMA ProbeEndKeeps ==
  ASSUME IInv, NEW p \in Probes, probe' = [probe EXCEPT ![p] = NoProbe],
         SwitchToPrimary \/ SwitchToFallback \/ UNCHANGED <<current, retryTimer, intervals>>,
         UNCHANGED <<primary, fallback, customGasLimit, call, up>>
  PROVE  IInv'
<1>1. /\ current' \in {primary, fallback} /\ retryTimer' \in BOOLEAN /\ intervals' \in Nat
      /\ intervals' = IF retryTimer' THEN 1 ELSE 0
      /\ retryTimer' => current' = fallback /\ fallback # primary
  <2>1. CASE SwitchToPrimary
    BY <2>1, SwitchToPrimaryKeeps DEF IInv
  <2>2. CASE SwitchToFallback
    BY <2>2, SwitchToFallbackKeeps DEF IInv
  <2>3. CASE UNCHANGED <<current, retryTimer, intervals>>
    BY <2>3 DEF IInv, TypeOK, TimerDiscipline, ActiveIsConfigured
  <2> QED BY <2>1, <2>2, <2>3
<1>2. /\ probe' \in [Probes -> Probe]
      /\ \A q \in Probes : probe'[q] = probe[q] \/ probe'[q].phase = "none"
  BY DEF IInv, TypeOK, Probe, NoProbe
<1>3. TypeOK' /\ TimerDiscipline' /\ ActiveIsConfigured'
  BY <1>1, <1>2 DEF IInv, TypeOK, TimerDiscipline, ActiveIsConfigured
<1>4. OnlyPrimaryFailuresRetry' /\ RetryReachesFallback' /\ CapturesCurrent'
  BY <1>2 DEF IInv, OnlyPrimaryFailuresRetry, RetryReachesFallback, CapturesCurrent
<1> QED BY <1>3, <1>4 DEF IInv

(* withFailover is entered or its promise settles.                         *)
LEMMA CallStepKeeps ==
  ASSUME IInv, NEW c \in Calls, NEW out, CallEnters(c) \/ CallSettles(c, out)
  PROVE  IInv'
<1>1. /\ UNCHANGED primary /\ UNCHANGED fallback /\ UNCHANGED customGasLimit
      /\ UNCHANGED current /\ UNCHANGED retryTimer /\ UNCHANGED intervals
      /\ UNCHANGED probe /\ UNCHANGED up
      /\ call' \in [Calls -> Call]
      /\ \A d \in Calls : \/ call'[d] = call[d]
                          \/ call'[d].phase = "none"
                          \/ /\ call'[d].phase = "first" /\ ~call'[d].reconf
                             /\ call'[d].attemptedPrimary = primary
                             /\ call'[d].host = call'[d].attempted
  <2>1. call \in [Calls -> Call] /\ primary \in Hosts /\ current \in Hosts
    BY DEF IInv, TypeOK
  <2>2. CASE CallEnters(c)
    <3>1. [phase |-> "first", host |-> current, attempted |-> current,
           attemptedPrimary |-> primary, reconf |-> FALSE] \in Call
      BY <2>1 DEF Call
    <3> QED BY <2>1, <2>2, <3>1 DEF CallEnters, failoverVars
  <2>3. CASE CallSettles(c, out)
    <3>1. NoCall \in Call /\ NoCall.phase = "none"
      BY DEF Call, NoCall
    <3> QED BY <2>1, <2>3, <3>1 DEF CallSettles, failoverVars
  <2> QED BY <2>2, <2>3
<1>2. TypeOK'
  BY <1>1 DEF IInv, TypeOK
<1>6. TimerDiscipline' /\ ActiveIsConfigured'
  BY <1>1 DEF IInv, TimerDiscipline, ActiveIsConfigured
<1>3. OnlyPrimaryFailuresRetry'
  BY <1>1 DEF IInv, OnlyPrimaryFailuresRetry
<1>4. RetryReachesFallback'
  BY <1>1 DEF IInv, RetryReachesFallback
<1>5. CapturesCurrent'
  BY <1>1 DEF IInv, CapturesCurrent
<1> QED BY <1>2, <1>3, <1>4, <1>5, <1>6 DEF IInv

(* The catch block of withFailover: switch, then the second attempt.       *)
LEMMA FailOverKeeps ==
  ASSUME IInv, NEW c \in Calls, NEW out, CallFailsOver(c, out)
  PROVE  IInv'
<1>1. /\ current' = fallback /\ retryTimer' \in BOOLEAN /\ intervals' \in Nat
      /\ intervals' = IF retryTimer' THEN 1 ELSE 0
      /\ retryTimer' => fallback # primary
      /\ UNCHANGED <<primary, fallback, customGasLimit, probe, up>>
  BY SwitchToFallbackKeeps DEF CallFailsOver, IInv
<1>2. /\ call' \in [Calls -> Call]
      /\ \A d \in Calls \ {c} : call'[d] = call[d]
      /\ call'[c].phase = "second" /\ call'[c].host = fallback
      /\ call'[c].attempted = call[c].attempted /\ call'[c].reconf = call[c].reconf
      /\ call'[c].attemptedPrimary = call[c].attemptedPrimary
      /\ call[c].phase = "first" /\ call[c].attempted = call[c].attemptedPrimary
  BY <1>1 DEF CallFailsOver, AttemptedPrimary, IInv, TypeOK, Call
<1>3. TypeOK' /\ TimerDiscipline' /\ ActiveIsConfigured'
  BY <1>1, <1>2 DEF IInv, TypeOK, TimerDiscipline, ActiveIsConfigured
<1>4. OnlyPrimaryFailuresRetry'
  BY <1>2 DEF IInv, OnlyPrimaryFailuresRetry
<1>5. CapturesCurrent'
  BY <1>1, <1>2 DEF IInv, CapturesCurrent
<1>6. RetryReachesFallback'
  BY <1>1, <1>2 DEF IInv, CapturesCurrent, RetryReachesFallback
<1> QED BY <1>3, <1>4, <1>5, <1>6 DEF IInv

LEMMA InitEstablishes == Init => IInv
<1> SUFFICES ASSUME Init PROVE IInv
  OBVIOUS
<1>1. TypeOK
  BY HostFacts, GasAssumption DEF Init, TypeOK, Probe, NoProbe, Call, NoCall
<1>2. TimerDiscipline /\ ActiveIsConfigured
  BY DEF Init, TimerDiscipline, ActiveIsConfigured
<1>3. OnlyPrimaryFailuresRetry /\ RetryReachesFallback /\ CapturesCurrent
  BY DEF Init, OnlyPrimaryFailuresRetry, RetryReachesFallback, CapturesCurrent, NoProbe, NoCall
<1> QED BY <1>1, <1>2, <1>3 DEF IInv

LEMMA ResetKeeps ==
  ASSUME IInv, ResetNodeFailover
  PROVE  IInv'
BY HostFacts, GasAssumption, AssignKeeps DEF ResetNodeFailover

LEMMA FlipKeeps ==
  ASSUME IInv, NEW h \in Hosts, HostFlips(h)
  PROVE  IInv'
<1>1. up' \in [Hosts -> BOOLEAN] /\ UNCHANGED <<failoverVars, probe, call>>
  BY DEF HostFlips, IInv, TypeOK
<1>2. TypeOK' /\ TimerDiscipline' /\ ActiveIsConfigured'
  BY <1>1 DEF IInv, TypeOK, failoverVars, TimerDiscipline, ActiveIsConfigured
<1>3. OnlyPrimaryFailuresRetry' /\ RetryReachesFallback' /\ CapturesCurrent'
  BY <1>1 DEF IInv, failoverVars, OnlyPrimaryFailuresRetry, RetryReachesFallback, CapturesCurrent
<1> QED BY <1>2, <1>3 DEF IInv

LEMMA StutterKeeps ==
  ASSUME IInv, UNCHANGED vars
  PROVE  IInv'
<1>1. TypeOK' /\ TimerDiscipline' /\ ActiveIsConfigured'
  BY DEF IInv, vars, TypeOK, TimerDiscipline, ActiveIsConfigured
<1>2. OnlyPrimaryFailuresRetry' /\ RetryReachesFallback' /\ CapturesCurrent'
  BY DEF IInv, vars, OnlyPrimaryFailuresRetry, RetryReachesFallback, CapturesCurrent
<1> QED BY <1>1, <1>2 DEF IInv

(* The inductive step, one case per action.                                *)
LEMMA StepKeeps == IInv /\ [OpenNext]_vars => IInv'
<1> SUFFICES ASSUME IInv, [OpenNext]_vars PROVE IInv'
  OBVIOUS
<1>1. CASE \E r \in ConfigCalls : SetNodeConfig(r)
  BY <1>1, SetNodeConfigKeeps
<1>2. CASE ResetNodeFailover
  BY <1>2, ResetKeeps
<1>3. ASSUME NEW p \in Ticks, RetryTick(p)
      PROVE  IInv'
  BY <1>3, ProbeStepKeeps DEF RetryTick, Probes
<1>4. ASSUME NEW p \in Ticks, TickResumes(p)
      PROVE  IInv'
  BY <1>4, ProbeEndKeeps DEF TickResumes, Probes
<1>5. ASSUME NEW p \in Checks, InitCheck(p)
      PROVE  IInv'
  BY <1>5, ProbeStepKeeps DEF InitCheck, Probes
<1>6. ASSUME NEW p \in Checks, InitResumes(p)
      PROVE  IInv'
  BY <1>6, ProbeEndKeeps DEF InitResumes, Probes
<1>7. ASSUME NEW p \in Probes, ProbeAnswered(p)
      PROVE  IInv'
  BY <1>7, ProbeStepKeeps
<1>8. ASSUME NEW c \in Calls, CallEnters(c)
      PROVE  IInv'
  BY <1>8, CallStepKeeps
<1>9. ASSUME NEW c \in Calls, NEW out, CallSettles(c, out)
      PROVE  IInv'
  BY <1>9, CallStepKeeps
<1>10. ASSUME NEW c \in Calls, NEW out, CallFailsOver(c, out)
       PROVE  IInv'
  BY <1>10, FailOverKeeps
<1>11. ASSUME NEW h \in Hosts, HostFlips(h)
       PROVE  IInv'
  BY <1>11, FlipKeeps
<1>12. CASE UNCHANGED vars
  BY <1>12, StutterKeeps
<1> QED
  BY <1>1, <1>2, <1>3, <1>4, <1>5, <1>6, <1>7, <1>8, <1>9, <1>10, <1>11, <1>12 DEF OpenNext, Next

LEMMA NextIsOpen == Spec => OpenSpec
<1>1. [Next]_vars => [OpenNext]_vars
  BY DEF OpenNext
<1> QED BY <1>1, PTL DEF Spec, OpenSpec

(* The invariant of every behaviour, whatever is configured, fails or is   *)
(* in flight.                                                              *)
LEMMA OpenSafety == OpenSpec => []IInv
BY InitEstablishes, StepKeeps, PTL DEF OpenSpec

LEMMA Safety == Spec => []IInv
BY OpenSafety, NextIsOpen, PTL

(* Every variable of the failover module keeps its type.                   *)
THEOREM TypeCorrect == Spec => []TypeOK
BY Safety, PTL DEF IInv

(* No interval is leaked, and none runs while the primary is active.       *)
THEOREM TimerDisciplined == Spec => []TimerDiscipline
BY Safety, PTL DEF IInv

(* The active host is one of the two configured ones.                      *)
THEOREM ActiveAlwaysConfigured == Spec => []ActiveIsConfigured
BY Safety, PTL DEF IInv

(* A call entered on the fallback is never sent a second time.             *)
THEOREM FallbackFailuresPropagate == Spec => []OnlyPrimaryFailuresRetry
BY Safety, PTL DEF IInv

(* Without a reconfiguration under it, a second attempt is on the fallback.*)
THEOREM RetryOnFallback == Spec => []RetryReachesFallback
BY Safety, PTL DEF IInv

-----------------------------------------------------------------------------
(* The steps that can leave the active host on the fallback keep the       *)
(* retry timer set, given that no setNodeConfig call throws.               *)
LEMMA RetryingStep ==
  ASSUME AllUrlsValid, IInv, RetryingOnFallback, [OpenNext]_vars
  PROVE  RetryingOnFallback'
<1>0. TypeOK /\ TimerDiscipline /\ ActiveIsConfigured
  BY DEF IInv
<1>1. CASE \E r \in ConfigCalls : SetNodeConfig(r)
  BY <1>1, ConfigAssumption DEF SetNodeConfig, Assign, AllUrlsValid, RetryingOnFallback, ConfigCall
<1>2. CASE ResetNodeFailover
  BY <1>2 DEF ResetNodeFailover, Assign, RetryingOnFallback
<1>3. ASSUME SwitchToFallback, UNCHANGED <<primary, fallback>>
      PROVE  RetryingOnFallback'
  BY <1>0, <1>3, SwitchToFallbackKeeps DEF RetryingOnFallback
<1>4. ASSUME SwitchToPrimary, UNCHANGED <<primary, fallback>>
      PROVE  RetryingOnFallback'
  BY <1>0, <1>4, SwitchToPrimaryKeeps DEF RetryingOnFallback
<1>5. ASSUME UNCHANGED <<current, retryTimer>>, UNCHANGED <<primary, fallback>>
      PROVE  RetryingOnFallback'
  BY <1>5 DEF RetryingOnFallback
<1>6. ASSUME NEW p \in Ticks, RetryTick(p) \/ TickResumes(p)
      PROVE  RetryingOnFallback'
  BY <1>4, <1>5, <1>6 DEF RetryTick, Ask, TickResumes, failoverVars
<1>7. ASSUME NEW p \in Checks, InitCheck(p) \/ InitResumes(p)
      PROVE  RetryingOnFallback'
  BY <1>3, <1>5, <1>7 DEF InitCheck, Ask, InitResumes, failoverVars
<1>8. ASSUME NEW p \in Probes, ProbeAnswered(p)
      PROVE  RetryingOnFallback'
  BY <1>5, <1>8 DEF ProbeAnswered, failoverVars
<1>9. ASSUME NEW c \in Calls, NEW out, CallEnters(c) \/ CallSettles(c, out)
      PROVE  RetryingOnFallback'
  BY <1>5, <1>9 DEF CallEnters, CallSettles, failoverVars
<1>10. ASSUME NEW c \in Calls, NEW out, CallFailsOver(c, out)
       PROVE  RetryingOnFallback'
  BY <1>3, <1>10 DEF CallFailsOver
<1>11. ASSUME NEW h \in Hosts, HostFlips(h)
       PROVE  RetryingOnFallback'
  BY <1>5, <1>11 DEF HostFlips, failoverVars
<1>12. CASE UNCHANGED vars
  BY <1>5, <1>12 DEF vars
<1> QED
  BY <1>1, <1>2, <1>6, <1>7, <1>8, <1>9, <1>10, <1>11, <1>12 DEF OpenNext, Next

LEMMA OpenRetriesPrimary ==
  ASSUME AllUrlsValid
  PROVE  OpenSpec => []RetryingOnFallback
<1>1. Init => RetryingOnFallback
  BY DEF Init, RetryingOnFallback
<1>2. IInv /\ RetryingOnFallback /\ [OpenNext]_vars => RetryingOnFallback'
  BY RetryingStep
<1> QED BY <1>1, <1>2, OpenSafety, PTL DEF OpenSpec

(* "Retry primary every 30s when on fallback": it holds of every behaviour *)
(* in which setNodeConfig is only called with URLs it accepts. Without     *)
(* that hypothesis it does not (run NodeFailover_badurl).                  *)
THEOREM RetriesPrimary ==
  ASSUME AllUrlsValid
  PROVE  Spec => []RetryingOnFallback
BY OpenRetriesPrimary, NextIsOpen, PTL

(* What the ways of touching the active host do to it.                     *)
LEMMA FallbackSwitchNeverRecovers ==
  ASSUME IInv, SwitchToFallback, current # primary
  PROVE  UNCHANGED current
BY DEF SwitchToFallback, IInv, ActiveIsConfigured

LEMMA RecoveryHasHealthyTick ==
  ASSUME IInv, OpenNext
  PROVE  RecoveryStep
<1> SUFFICES ASSUME current # primary, current' = primary, ~Reconfigure
             PROVE  \E p \in Ticks : /\ Concluded(p, "healthy")
                                     /\ probe[p].host = primary \/ probe[p].reconf
  BY DEF RecoveryStep
<1>1. ~UNCHANGED current /\ ~SwitchToFallback
  BY FallbackSwitchNeverRecovers
<1>2. PICK p \in Ticks : TickResumes(p)
  <2>1. /\ \A p \in Ticks : ~RetryTick(p)
        /\ \A p \in Checks : ~InitCheck(p) /\ ~InitResumes(p)
        /\ \A p \in Probes : ~ProbeAnswered(p)
    BY <1>1 DEF RetryTick, InitCheck, Ask, InitResumes, ProbeAnswered, failoverVars
  <2>2. /\ \A c \in Calls : ~CallEnters(c) /\ \A out : ~CallSettles(c, out) /\ ~CallFailsOver(c, out)
        /\ \A h \in Hosts : ~HostFlips(h)
    BY <1>1 DEF CallEnters, CallSettles, CallFailsOver, HostFlips, failoverVars
  <2> QED BY <2>1, <2>2 DEF OpenNext, Next, Reconfigure
<1>3. probe[p].phase = "healthy" /\ probe'[p].phase = "none"
  BY <1>1, <1>2 DEF TickResumes, NoProbe, IInv, TypeOK, Probes
<1>4. probe[p].host = primary \/ probe[p].reconf
  <2>1. probe[p] \in Probe
    BY <1>2 DEF IInv, TypeOK, Probes
  <2> QED BY <1>2, <1>3, <2>1 DEF IInv, CapturesCurrent, Probes, Probe
<1> QED BY <1>2, <1>3, <1>4 DEF Concluded

LEMMA OpenRecovery == OpenSpec => RecoveryIsJustified
<1>1. IInv /\ [OpenNext]_vars => [RecoveryStep]_vars
  BY RecoveryHasHealthyTick
<1> QED BY <1>1, OpenSafety, PTL DEF OpenSpec, RecoveryIsJustified

(* The traffic goes back to the primary only on a successful health check  *)
(* of that primary, or of the one before a reconfiguration.                *)
THEOREM RecoveryNeedsHealth == Spec => RecoveryIsJustified
BY OpenRecovery, NextIsOpen, PTL

LEMMA TripHasFailure ==
  ASSUME IInv, OpenNext
  PROVE  TripStep
<1> SUFFICES ASSUME current = primary, current' # primary, ~Reconfigure
             PROVE  \/ \E c \in Calls : /\ FailedCall(c)
                                        /\ call[c].attempted = primary \/ call[c].reconf
                    \/ \E p \in Checks : /\ Concluded(p, "unhealthy")
                                         /\ probe[p].host = primary \/ probe[p].reconf
  BY DEF TripStep
<1>1. ~UNCHANGED current /\ ~SwitchToPrimary
  BY DEF SwitchToPrimary
<1>2. \/ \E p \in Checks : InitResumes(p)
      \/ \E c \in Calls : \E out : CallFailsOver(c, out)
  <2>1. /\ \A p \in Ticks : ~RetryTick(p) /\ ~TickResumes(p)
        /\ \A p \in Checks : ~InitCheck(p)
        /\ \A p \in Probes : ~ProbeAnswered(p)
    BY <1>1 DEF RetryTick, TickResumes, InitCheck, Ask, ProbeAnswered, failoverVars
  <2>2. /\ \A c \in Calls : ~CallEnters(c) /\ \A out : ~CallSettles(c, out)
        /\ \A h \in Hosts : ~HostFlips(h)
    BY <1>1 DEF CallEnters, CallSettles, HostFlips, failoverVars
  <2> QED BY <2>1, <2>2 DEF OpenNext, Next, Reconfigure
<1>3. ASSUME NEW p \in Checks, InitResumes(p)
      PROVE  Concluded(p, "unhealthy") /\ (probe[p].host = primary \/ probe[p].reconf)
  <2>1. probe[p].phase = "unhealthy" /\ probe'[p].phase = "none"
    BY <1>1, <1>3 DEF InitResumes, NoProbe, IInv, TypeOK, Probes
  <2>2. probe[p] \in Probe
    BY DEF IInv, TypeOK, Probes
  <2> QED BY <2>1, <2>2 DEF Concluded, IInv, CapturesCurrent, Probes, Probe
<1>4. ASSUME NEW c \in Calls, NEW out, CallFailsOver(c, out)
      PROVE  FailedCall(c) /\ (call[c].attempted = primary \/ call[c].reconf)
  <2>1. call[c].phase = "first" /\ call[c].attempted = call[c].attemptedPrimary
    BY <1>4 DEF CallFailsOver, AttemptedPrimary
  <2>2. call[c] \in Call /\ call'[c].phase = "second"
    BY <1>4 DEF CallFailsOver, IInv, TypeOK, Call
  <2> QED BY <2>1, <2>2 DEF FailedCall, IInv, CapturesCurrent, Call
<1> QED BY <1>2, <1>3, <1>4

LEMMA OpenTrip == OpenSpec => TripIsJustified
<1>1. IInv /\ [OpenNext]_vars => [TripStep]_vars
  BY TripHasFailure
<1> QED BY <1>1, OpenSafety, PTL DEF OpenSpec, TripIsJustified

(* The traffic leaves the primary only when a call has failed on it or the *)
(* startup check found it unhealthy (or the one before a reconfiguration). *)
THEOREM TripNeedsFailure == Spec => TripIsJustified
BY OpenTrip, NextIsOpen, PTL
=============================================================================
