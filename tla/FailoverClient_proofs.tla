------------------------ MODULE FailoverClient_proofs ------------------------
(* Theorems about FailoverClient: deadlines and TIMEOUT, the dedup contract*)
(* of submit and the refinement of SubmitContract, for any callers, nodes  *)
(* and failures.                                                           *)
EXTENDS FailoverClient, NodeFailover_proofs

CIInv ==
  /\ IInv
  /\ ClientTypeOK
  /\ SettledByLastAttempt
  /\ OneKeyPerSubmit
  /\ ContractInv
  /\ ResolvedSubmitIsKnown

(* The part of CIInv that speaks of one call, given the other variables.   *)
CallInv(c) ==
  /\ timer[c] = IF InFlight(c) THEN Attempt(c) ELSE 0
  /\ result[c] = "timeout" => LastAttempt(c) \in timedOut[c]
  /\ result[c] = "ok" => wire[c][LastAttempt(c)].state = "taken"
  /\ result[c] = "network" => wire[c][LastAttempt(c)].state = "refused"
  /\ result[c] = "other" => wire[c][LastAttempt(c)].state = "rejected"
  /\ op[c].tier = "submit" =>
       /\ wire[c][1].key \in handed
       /\ wire[c][2].state # "none" => wire[c][2].key = wire[c][1].key
       /\ wire[c][1].state # "none"
       /\ \A n \in Attempts : wire[c][n].state = "taken" => wire[c][n].key \in known
       /\ result[c] = "ok" => wire[c][1].key \in known
  /\ InFlight(c) => /\ op[c].tier \in Tiers /\ op[c].tx \in Txs
                    /\ wire[c][1].key = txKey[op[c].tx]
                    /\ wire[c][2].state = "none" <=> call[c].phase = "first"
                    /\ wire[c][1].state # "none" /\ result[c] = "none"

LEMMA CallByCall ==
  CIInv <=> IInv /\ ClientTypes /\ known \subseteq handed /\ \A c \in Calls : CallInv(c)
BY DEF CIInv, ClientTypeOK, DeadlineArmed, SettledByLastAttempt, OneKeyPerSubmit, ContractInv,
       ResolvedSubmitIsKnown, CallInv

LEMMA CallByCallPrimed ==
  CIInv' <=> IInv' /\ ClientTypes' /\ (known \subseteq handed)' /\ \A c \in Calls : CallInv(c)'
BY DEF CIInv, ClientTypeOK, DeadlineArmed, SettledByLastAttempt, OneKeyPerSubmit, ContractInv,
       ResolvedSubmitIsKnown, CallInv

LEMMA ClientInitEstablishes == ClientInit => CIInv
<1> SUFFICES ASSUME ClientInit PROVE CIInv
  OBVIOUS
<1>1. IInv
  BY InitEstablishes DEF ClientInit
<1>2. ClientTypes
  BY DEF ClientInit, ClientTypes, Op, Request, NoRequest, Attempts
<1>3. known \subseteq handed /\ \A c \in Calls : CallInv(c)
  BY DEF ClientInit, CallInv, InFlight, Init, NoCall, Tiers
<1> QED BY <1>1, <1>2, <1>3, CallByCall

(* A call that the step leaves alone keeps its part of the invariant.      *)
LEMMA OtherCallKeeps ==
  ASSUME NEW c \in Calls, CallInv(c), call'[c].phase = call[c].phase,
         op'[c] = op[c], wire'[c] = wire[c], timer'[c] = timer[c],
         timedOut'[c] = timedOut[c], result'[c] = result[c], UNCHANGED txKey, handed \subseteq handed', known \subseteq known'
  PROVE  CallInv(c)'
BY DEF CallInv, InFlight, Attempt, LastAttempt

LEMMA IssueKeeps ==
  ASSUME CIInv, NEW c \in Calls, NEW tier \in UsedTiers, NEW t \in Txs, Issue(c, tier, t)
  PROVE  CIInv'
<1> USE TierAssumption
<1>0. /\ ClientTypes /\ call \in [Calls -> Call] /\ current \in Hosts /\ known \subseteq handed
      /\ \A d \in Calls : CallInv(d)
  BY CallByCall DEF CIInv, IInv, TypeOK
<1>1. IInv'
  BY CallStepKeeps DEF CIInv, Issue
<1>2. Send(t, current) \in Request /\ NoRequest \in Request /\ txKey[t] \in RequestKeys
  BY <1>0 DEF ClientTypes, Send, Request, NoRequest
<1>3. ClientTypes'
  <2>1. wire' \in [Calls -> [Attempts -> Request]]
    BY <1>0, <1>2 DEF Issue, ClientTypes
  <2>2. op' \in [Calls -> Op] /\ timer' \in [Calls -> 0..2] /\ timedOut' \in [Calls -> SUBSET Attempts]
    BY <1>0 DEF Issue, ClientTypes, Op
  <2>3. /\ result' \in [Calls -> {"none", "ok", "timeout", "network", "other"}]
        /\ handed' \subseteq RequestKeys /\ known' \subseteq RequestKeys
        /\ txKey' \in [Txs -> RequestKeys]
    BY <1>0, <1>2 DEF Issue, ClientTypes
  <2> QED BY <2>1, <2>2, <2>3 DEF ClientTypes
<1>4. handed \subseteq handed' /\ known' = known /\ (known \subseteq handed)'
  BY <1>0 DEF Issue
<1>5. CallInv(c)'
  <2>1. wire'[c][1] = Send(t, current) /\ wire'[c][2] = NoRequest
    BY <1>0 DEF Issue, ClientTypes, Attempts
  <2>2. /\ call'[c].phase = "first" /\ op'[c].tier = tier /\ op'[c].tx = t
        /\ result'[c] = "none" /\ timer'[c] = 1
    BY <1>0 DEF Issue, CallEnters, ClientTypes
  <2>3. tier = "submit" => txKey[t] \in handed'
    BY DEF Issue
  <2> QED BY <2>1, <2>2, <2>3 DEF CallInv, InFlight, Send, NoRequest, Issue, Attempt,
                                       Attempts
<1>6. ASSUME NEW d \in Calls \ {c} PROVE CallInv(d)'
  <2>1. /\ call'[d].phase = call[d].phase /\ op'[d] = op[d] /\ wire'[d] = wire[d]
        /\ result'[d] = result[d] /\ timer'[d] = timer[d] /\ timedOut'[d] = timedOut[d]
        /\ UNCHANGED txKey
    BY <1>0 DEF Issue, CallEnters, ClientTypes
  <2> QED BY <1>0, <1>4, <2>1, OtherCallKeeps
<1> QED BY <1>1, <1>3, <1>4, <1>5, <1>6, CallByCallPrimed

Errors == {"AbortError", "network", "other"}

LEMMA AttemptFailsKeeps ==
  ASSUME CIInv, NEW c \in Calls, NEW err \in Errors, InFlight(c), AttemptFails(c, err),
         UNCHANGED <<txKey, op, handed, known>>, timedOut' \in [Calls -> SUBSET Attempts],
         err = "AbortError" => Attempt(c) \in timedOut'[c],
         err = "network" => wire[c][Attempt(c)].state = "refused",
         err = "other" => wire[c][Attempt(c)].state = "rejected",
         \A d \in Calls \ {c} : timedOut'[d] = timedOut[d]
  PROVE  CIInv'
<1>0. /\ ClientTypes /\ call \in [Calls -> Call] /\ current \in Hosts /\ known \subseteq handed
      /\ \A d \in Calls : CallInv(d)
  BY CallByCall DEF CIInv, IInv, TypeOK
<1>1. ASSUME CallFailsOver(c, Classify(err)),
             wire' = [wire EXCEPT ![c][2] = Send(op[c].tx, call'[c].host)],
             timer' = [timer EXCEPT ![c] = 2], UNCHANGED result
      PROVE  CIInv'
  <2>1. IInv'
    BY <1>1, FailOverKeeps DEF CIInv
  <2>2. /\ call[c].phase = "first" /\ call'[c].phase = "second" /\ call'[c].host \in Hosts
        /\ \A d \in Calls \ {c} : call'[d] = call[d]
    <3>1. SwitchToFallback /\ TypeOK /\ TimerDiscipline /\ ActiveIsConfigured
      BY <1>1 DEF CallFailsOver, CIInv, IInv
    <3>2. current' \in Hosts
      BY <3>1, SwitchToFallbackKeeps DEF TypeOK
    <3> QED BY <1>0, <1>1, <3>2 DEF CallFailsOver, Call
  <2>3. Send(op[c].tx, call'[c].host) \in Request
    BY <1>0, <2>2 DEF CallInv, InFlight, Send, Request, ClientTypes
  <2>4. ClientTypes'
    BY <1>0, <1>1, <2>3 DEF ClientTypes, Attempts
  <2>5. CallInv(c)'
    <3>1. wire'[c][1] = wire[c][1] /\ wire'[c][2] = Send(op[c].tx, call'[c].host)
      BY <1>0, <1>1 DEF ClientTypes, Attempts
    <3>2. timer'[c] = 2
      BY <1>0, <1>1 DEF ClientTypes
    <3> QED BY <1>0, <1>1, <2>2, <3>1, <3>2 DEF CallInv, InFlight, Send, Attempt, Attempts
  <2>6. ASSUME NEW d \in Calls \ {c} PROVE CallInv(d)'
    BY <1>0, <1>1, <2>2, OtherCallKeeps DEF ClientTypes
  <2> QED BY <1>0, <2>1, <2>4, <2>5, <2>6, CallByCallPrimed
<1>2. ASSUME CallSettles(c, Classify(err)),
             result' = [result EXCEPT ![c] = OuterBoundaryConvert(c, err)],
             timer' = [timer EXCEPT ![c] = 0], UNCHANGED wire
      PROVE  CIInv'
  <2>1. IInv'
    BY <1>2, CallStepKeeps DEF CIInv
  <2>2. call'[c].phase = "none" /\ \A d \in Calls \ {c} : call'[d] = call[d]
    BY <1>0, <1>2 DEF CallSettles, NoCall
  <2>3. OuterBoundaryConvert(c, err) \in {"timeout", "network", "other"}
    BY DEF OuterBoundaryConvert, Errors
  <2>4. ClientTypes'
    BY <1>0, <1>2, <2>3 DEF ClientTypes
  <2>5. CallInv(c)'
    <3>1. result'[c] # "ok" /\ timer'[c] = 0 /\ ~InFlight(c)'
      BY <1>0, <1>2, <2>2, <2>3 DEF ClientTypes, InFlight
    <3>2. /\ result'[c] = "timeout" => err = "AbortError"
          /\ result'[c] \in {"network", "other"} => err = result'[c]
      BY <1>0, <1>2 DEF ClientTypes, OuterBoundaryConvert, Errors
    <3>3. LastAttempt(c)' = Attempt(c)
      BY <1>0, <1>2 DEF CallInv, InFlight, LastAttempt, Attempt, CallSettles
    <3> QED BY <1>0, <1>2, <3>1, <3>2, <3>3 DEF CallInv
  <2>6. ASSUME NEW d \in Calls \ {c} PROVE CallInv(d)'
    BY <1>0, <1>2, <2>2, OtherCallKeeps DEF ClientTypes
  <2> QED BY <1>0, <2>1, <2>4, <2>5, <2>6, CallByCallPrimed
<1> QED BY <1>1, <1>2 DEF AttemptFails

LEMMA AnswerKeeps ==
  ASSUME CIInv, NEW c \in Calls, Answer(c)
  PROVE  CIInv'
<1>0. /\ ClientTypes /\ call \in [Calls -> Call] /\ known \subseteq handed
      /\ \A d \in Calls : CallInv(d)
  BY CallByCall DEF CIInv, IInv, TypeOK
<1>1. IInv'
  BY CallStepKeeps DEF CIInv, Answer
<1>2. call'[c].phase = "none" /\ \A d \in Calls \ {c} : call'[d] = call[d]
  BY <1>0 DEF Answer, CallSettles, NoCall
<1>3. ClientTypes'
  BY <1>0 DEF ClientTypes, Answer
<1>4. CallInv(c)'
  <2>1. op[c].tier = "submit" => wire[c][1].key \in known
    BY <1>0 DEF CallInv, Answer, InFlight, Attempt, Attempts
  <2>2. ~InFlight(c)' /\ timer'[c] = 0 /\ result'[c] = "ok"
    BY <1>0, <1>2 DEF InFlight, Answer, ClientTypes
  <2>3. LastAttempt(c)' = Attempt(c) /\ wire[c][Attempt(c)].state = "taken"
    BY <1>0 DEF CallInv, Answer, InFlight, LastAttempt, Attempt, CallSettles
  <2> QED BY <1>0, <2>1, <2>2, <2>3 DEF CallInv, Answer
<1>5. ASSUME NEW d \in Calls \ {c} PROVE CallInv(d)'
  BY <1>0, <1>2, OtherCallKeeps DEF ClientTypes, Answer
<1> QED BY <1>0, <1>1, <1>3, <1>4, <1>5, CallByCallPrimed DEF Answer

(* A request of one of the calls moves on the network or at a node.        *)
LEMMA WireKeeps ==
  ASSUME CIInv, NEW c \in Calls, NEW n \in Attempts,
         NodeTakes(c, n) \/ NodeRejects(c, n) \/ RequestLost(c, n)
  PROVE  CIInv'
<1>0. /\ ClientTypes /\ known \subseteq handed /\ \A d \in Calls : CallInv(d)
  BY CallByCall DEF CIInv
<1>1. IInv' /\ UNCHANGED <<call, txKey, op, result, timer, timedOut, handed>>
  BY StutterKeeps DEF CIInv, NodeTakes, NodeRejects, RequestLost, vars
<1>2. PICK s \in {"taken", "rejected", "refused", "lost"} :
        /\ wire[c][n].state = "sent"
        /\ wire' = [wire EXCEPT ![c][n].state = s]
        /\ \/ known' = known /\ (s = "taken" => op[c].tier # "submit")
           \/ known' = known \cup {wire[c][n].key} /\ op[c].tier = "submit"
  BY DEF NodeTakes, NodeRejects, RequestLost
<1>3. /\ \A d \in Calls \ {c} : wire'[d] = wire[d]
      /\ \A m \in Attempts : m # n => wire'[c][m] = wire[c][m]
      /\ wire'[c][n].state = s /\ wire'[c][n].key = wire[c][n].key
      /\ wire' \in [Calls -> [Attempts -> Request]]
  <2>1. wire \in [Calls -> [Attempts -> Request]]
    BY <1>0 DEF ClientTypes
  <2>2. [wire[c][n] EXCEPT !.state = s] \in Request
    <3>1. wire[c][n] \in Request
      BY <2>1
    <3> QED BY <1>2, <3>1 DEF Request
  <2>3. wire' = [wire EXCEPT ![c] = [wire[c] EXCEPT ![n] = [wire[c][n] EXCEPT !.state = s]]]
    BY <1>2
  <2> QED BY <2>1, <2>2, <2>3 DEF Request
<1>4. op[c].tier = "submit" => wire[c][n].key \in handed
  BY <1>0, <1>2 DEF CallInv, Attempts
<1>5. (known \subseteq handed)' /\ known \subseteq known' /\ ClientTypes'
  BY <1>0, <1>1, <1>2, <1>3, <1>4 DEF ClientTypes
<1>6. CallInv(c)'
  <2>1. LastAttempt(c)' = LastAttempt(c)
    BY <1>2, <1>3 DEF LastAttempt, Attempts
  <2> QED BY <1>0, <1>1, <1>2, <1>3, <1>5, <2>1 DEF CallInv, InFlight, Attempt, Attempts
<1>7. ASSUME NEW d \in Calls \ {c} PROVE CallInv(d)'
  BY <1>0, <1>1, <1>3, <1>5, OtherCallKeeps
<1> QED BY <1>1, <1>5, <1>6, <1>7, CallByCallPrimed

LEMMA MutateKeeps ==
  ASSUME CIInv, NEW t \in Txs, NEW k \in RequestKeys, CallerMutates(t, k)
  PROVE  CIInv'
<1>0. /\ ClientTypes /\ known \subseteq handed /\ \A d \in Calls : CallInv(d)
  BY CallByCall DEF CIInv
<1>1. IInv' /\ UNCHANGED <<call, op, wire, result, timer, timedOut, handed, known>>
  BY StutterKeeps DEF CIInv, CallerMutates, vars
<1>2. ClientTypes'
  BY <1>0, <1>1 DEF ClientTypes, CallerMutates
<1>3. ASSUME NEW d \in Calls PROVE CallInv(d)'
  <2>1. InFlight(d) => op[d].tx # t
    BY DEF CallerMutates
  <2>2. InFlight(d) => txKey'[op[d].tx] = txKey[op[d].tx]
    BY <1>0, <2>1 DEF CallerMutates, CallInv, ClientTypes
  <2> QED BY <1>0, <1>1, <2>2 DEF CallInv, InFlight, Attempt, LastAttempt
<1> QED BY <1>0, <1>1, <1>2, <1>3, CallByCallPrimed

LEMMA BackgroundKeepsPhases ==
  ASSUME call \in [Calls -> Call], Background
  PROVE  \A d \in Calls : call'[d].phase = call[d].phase
BY DEF Background, SetNodeConfig, Assign, MarkReconfigured, RetryTick, InitCheck, Ask,
       TickResumes, InitResumes, ProbeAnswered, HostFlips, Call

LEMMA BackgroundKeeps ==
  ASSUME CIInv, Background
  PROVE  CIInv'
<1>0. /\ ClientTypes /\ call \in [Calls -> Call] /\ known \subseteq handed
      /\ \A d \in Calls : CallInv(d)
  BY CallByCall DEF CIInv, IInv, TypeOK
<1>1. IInv'
  BY SetNodeConfigKeeps, ProbeStepKeeps, ProbeEndKeeps, FlipKeeps
     DEF Background, CIInv, RetryTick, InitCheck, TickResumes, InitResumes, Probes
<1>2. \A d \in Calls : call'[d].phase = call[d].phase
  BY <1>0, BackgroundKeepsPhases
<1>3. UNCHANGED <<txKey, op, wire, result, timer, timedOut, handed, known>>
  BY DEF Background, clientVars
<1>4. ClientTypes'
  BY <1>0, <1>3 DEF ClientTypes
<1>5. ASSUME NEW d \in Calls PROVE CallInv(d)'
  BY <1>0, <1>2, <1>3, OtherCallKeeps
<1> QED BY <1>0, <1>1, <1>3, <1>4, <1>5, CallByCallPrimed

LEMMA ClientStepKeeps == CIInv /\ [ClientNext]_allVars => CIInv'
<1> SUFFICES ASSUME CIInv, [ClientNext]_allVars PROVE CIInv'
  OBVIOUS
<1>1. ASSUME NEW c \in Calls, NEW tier \in UsedTiers, NEW t \in Txs, Issue(c, tier, t)
      PROVE  CIInv'
  BY <1>1, IssueKeeps
<1>2. ASSUME NEW c \in Calls, Deadline(c)
      PROVE  CIInv'
  <2>1. /\ timedOut' \in [Calls -> SUBSET Attempts] /\ Attempt(c) \in timedOut'[c]
        /\ \A d \in Calls \ {c} : timedOut'[d] = timedOut[d]
    BY <1>2 DEF Deadline, CIInv, ClientTypeOK, ClientTypes, Attempt, Attempts
  <2> QED BY <1>2, <2>1, AttemptFailsKeeps DEF Deadline, Errors
<1>3. ASSUME NEW c \in Calls, Answer(c)
      PROVE  CIInv'
  BY <1>3, AnswerKeeps
<1>4. ASSUME NEW c \in Calls, ErrorAnswer(c)
      PROVE  CIInv'
  <2>1. PICK s \in {"rejected", "refused"} :
          /\ wire[c][Attempt(c)].state = s
          /\ AttemptFails(c, IF s = "refused" THEN "network" ELSE "other")
    BY <1>4 DEF ErrorAnswer
  <2>2. timedOut' \in [Calls -> SUBSET Attempts]
    BY <1>4 DEF ErrorAnswer, CIInv, ClientTypeOK, ClientTypes
  <2> QED BY <1>4, <2>1, <2>2, AttemptFailsKeeps DEF ErrorAnswer, Errors
<1>5. ASSUME NEW c \in Calls, NEW n \in Attempts,
             NodeTakes(c, n) \/ NodeRejects(c, n) \/ RequestLost(c, n)
      PROVE  CIInv'
  BY <1>5, WireKeeps
<1>6. ASSUME NEW t \in Txs, NEW k \in RequestKeys, CallerMutates(t, k)
      PROVE  CIInv'
  BY <1>6, MutateKeeps
<1>7. CASE Background
  BY <1>7, BackgroundKeeps
<1>8. CASE UNCHANGED allVars
  <2>1. IInv'
    BY <1>8, StutterKeeps DEF CIInv, allVars
  <2> QED BY <1>8, <2>1 DEF CIInv, allVars, clientVars, vars, ClientTypeOK, ClientTypes,
                       DeadlineArmed, SettledByLastAttempt, OneKeyPerSubmit, ContractInv,
                       ResolvedSubmitIsKnown, InFlight, Attempt, LastAttempt
<1> QED BY <1>1, <1>2, <1>3, <1>4, <1>5, <1>6, <1>7, <1>8 DEF ClientNext

LEMMA ClientSafety == ClientSpec => []CIInv
BY ClientInitEstablishes, ClientStepKeeps, PTL DEF ClientSpec

(* The types, and one deadline per attempt in flight: that of the attempt  *)
(* which is running.                                                       *)
THEOREM ClientTypeCorrect == ClientSpec => []ClientTypeOK
BY ClientSafety, PTL DEF CIInv

(* The last attempt of a call decides what the caller is told: TIMEOUT when*)
(* its deadline fired, else how its own request was answered.              *)
THEOREM LastAttemptSettles == ClientSpec => []SettledByLastAttempt
BY ClientSafety, PTL DEF CIInv

(* A submit sends one request key, on both of its attempts: the retry is   *)
(* a duplicate and not a second transaction.                               *)
THEOREM SubmitDedup == ClientSpec => []OneKeyPerSubmit
BY ClientSafety, PTL DEF CIInv

(* A submit that resolved is in the mempool or on chain.                   *)
THEOREM ResolvedIsKnown == ClientSpec => []ResolvedSubmitIsKnown
BY ClientSafety, PTL DEF CIInv

-----------------------------------------------------------------------------
(* The refinement: SubmitContract's status and key of one call.            *)
StatusOf(c) == IF op[c].tier # "submit" THEN "idle"
               ELSE IF InFlight(c) THEN "pending" ELSE result[c]
KeyOf(c) == IF op[c].tier = "submit" THEN wire[c][1].key ELSE NoKey

(* What a step leaves alone for every call, it leaves alone in the         *)
(* contract's state.                                                       *)
LEMMA SameCalls ==
  ASSUME \A d \in Calls : StatusOf(d)' = StatusOf(d) /\ KeyOf(d)' = KeyOf(d),
         UNCHANGED <<handed, known>>
  PROVE  UNCHANGED Contract!contractVars
BY DEF Contract!contractVars, StatusOf, KeyOf

(* A step that changes the status of one call and nothing else.            *)
LEMMA OneStatus ==
  ASSUME NEW c \in Calls, NEW s, StatusOf(c)' = s, KeyOf(c)' = KeyOf(c),
         \A d \in Calls \ {c} : StatusOf(d)' = StatusOf(d) /\ KeyOf(d)' = KeyOf(d)
  PROVE  /\ [d \in Calls |-> StatusOf(d)]' = [[d \in Calls |-> StatusOf(d)] EXCEPT ![c] = s]
         /\ [d \in Calls |-> KeyOf(d)]' = [d \in Calls |-> KeyOf(d)]
OBVIOUS

LEMMA IssueRefines ==
  ASSUME CIInv, NEW c \in Calls, NEW tier \in UsedTiers, NEW t \in Txs, Issue(c, tier, t)
  PROVE  Contract!Next
<1>0. /\ op \in [Calls -> Op] /\ call \in [Calls -> Call] /\ txKey[t] \in RequestKeys
      /\ wire \in [Calls -> [Attempts -> Request]] /\ result \in [Calls -> {"none", "ok", "timeout", "network", "other"}]
  BY DEF CIInv, IInv, TypeOK, ClientTypeOK, ClientTypes
<1>1. ~InFlight(c) /\ StatusOf(c) # "pending"
  BY <1>0 DEF Issue, CallEnters, InFlight, StatusOf
<1>2. ASSUME NEW d \in Calls \ {c}
      PROVE  StatusOf(d)' = StatusOf(d) /\ KeyOf(d)' = KeyOf(d)
  BY <1>0 DEF Issue, CallEnters, InFlight, StatusOf, KeyOf
<1>3. /\ op'[c].tier = tier /\ wire'[c][1].key = txKey[t] /\ call'[c].phase = "first"
      /\ known' = known
  BY <1>0 DEF Issue, CallEnters, Send, Attempts
<1>4. CASE tier = "submit"
  <2>1. StatusOf(c)' = "pending" /\ KeyOf(c)' = txKey[t] /\ handed' = handed \cup {txKey[t]}
    BY <1>3, <1>4 DEF StatusOf, KeyOf, InFlight, Issue
  <2>2. PICK k \in RequestKeys : k = txKey[t]
    BY <1>0
  <2>3. Contract!Begin(c, k)
    BY <1>1, <1>2, <1>3, <2>1, <2>2 DEF Contract!Begin, StatusOf, KeyOf
  <2> QED BY <2>3 DEF Contract!Next
<1>5. CASE tier # "submit"
  <2>1. StatusOf(c)' = "idle" /\ KeyOf(c)' = NoKey /\ handed' = handed
    BY <1>3, <1>5 DEF StatusOf, KeyOf, Issue
  <2>2. Contract!Forget(c)
    BY <1>1, <1>2, <1>3, <2>1 DEF Contract!Forget, StatusOf, KeyOf
  <2> QED BY <2>2 DEF Contract!Next
<1> QED BY <1>4, <1>5

LEMMA AttemptFailsRefines ==
  ASSUME CIInv, NEW c \in Calls, NEW err \in Errors, InFlight(c), AttemptFails(c, err),
         UNCHANGED <<txKey, op, handed, known>>
  PROVE  [Contract!Next]_(Contract!contractVars)
<1>0. /\ op \in [Calls -> Op] /\ call \in [Calls -> Call] /\ wire \in [Calls -> [Attempts -> Request]]
      /\ result \in [Calls -> {"none", "ok", "timeout", "network", "other"}]
  BY DEF CIInv, IInv, TypeOK, ClientTypeOK, ClientTypes
<1>1. CASE CallFailsOver(c, Classify(err)) /\ UNCHANGED result
           /\ wire' = [wire EXCEPT ![c][2] = Send(op[c].tx, call'[c].host)]
  <2>1. InFlight(c)' /\ wire'[c][1] = wire[c][1]
    BY <1>0, <1>1 DEF CallFailsOver, InFlight, Attempts, Call
  <2>2. \A d \in Calls \ {c} : InFlight(d)' = InFlight(d) /\ wire'[d] = wire[d]
    BY <1>0, <1>1 DEF CallFailsOver, InFlight
  <2>3. \A d \in Calls : StatusOf(d)' = StatusOf(d) /\ KeyOf(d)' = KeyOf(d)
    BY <1>1, <2>1, <2>2 DEF StatusOf, KeyOf
  <2> QED BY <2>3, SameCalls
<1>2. CASE CallSettles(c, Classify(err)) /\ UNCHANGED wire
           /\ result' = [result EXCEPT ![c] = OuterBoundaryConvert(c, err)]
  <2>1. ~InFlight(c)' /\ result'[c] = OuterBoundaryConvert(c, err)
    BY <1>0, <1>2 DEF CallSettles, InFlight, NoCall
  <2>2. \A d \in Calls \ {c} : InFlight(d)' = InFlight(d) /\ result'[d] = result[d]
    BY <1>0, <1>2 DEF CallSettles, InFlight
  <2>3. \A d \in Calls \ {c} : StatusOf(d)' = StatusOf(d) /\ KeyOf(d)' = KeyOf(d)
    BY <1>2, <2>2 DEF StatusOf, KeyOf
  <2>4. KeyOf(c)' = KeyOf(c)
    BY <1>2 DEF KeyOf
  <2>5. CASE op[c].tier = "submit"
    <3>1. StatusOf(c) = "pending" /\ StatusOf(c)' = OuterBoundaryConvert(c, err)
      BY <2>1, <2>5 DEF StatusOf
    <3>2. OuterBoundaryConvert(c, err) \in Contract!Failures
      BY DEF OuterBoundaryConvert, Errors, Contract!Failures
    <3>3. Contract!Fail(c, OuterBoundaryConvert(c, err))
      BY <2>3, <2>4, <3>1 DEF Contract!Fail, StatusOf, KeyOf
    <3> QED BY <3>2, <3>3 DEF Contract!Next
  <2>6. CASE op[c].tier # "submit"
    <3>1. StatusOf(c)' = StatusOf(c)
      BY <2>6 DEF StatusOf
    <3> QED BY <2>3, <2>4, <3>1, SameCalls
  <2> QED BY <2>5, <2>6
<1> QED BY <1>1, <1>2 DEF AttemptFails

LEMMA AnswerRefines ==
  ASSUME CIInv, NEW c \in Calls, Answer(c)
  PROVE  [Contract!Next]_(Contract!contractVars)
<1>0. /\ call \in [Calls -> Call] /\ CallInv(c) /\ known \subseteq handed
      /\ result \in [Calls -> {"none", "ok", "timeout", "network", "other"}]
  BY CallByCall DEF CIInv, IInv, TypeOK, ClientTypes
<1>1. /\ InFlight(c) /\ ~InFlight(c)' /\ result'[c] = "ok"
      /\ \A d \in Calls \ {c} : InFlight(d)' = InFlight(d) /\ result'[d] = result[d]
      /\ UNCHANGED <<op, wire, handed, known>>
  BY <1>0 DEF Answer, CallSettles, InFlight, NoCall
<1>2. \A d \in Calls \ {c} : StatusOf(d)' = StatusOf(d) /\ KeyOf(d)' = KeyOf(d)
  BY <1>1 DEF StatusOf, KeyOf
<1>3. CASE op[c].tier = "submit"
  <2>1. wire[c][1].key \in known
    BY <1>0, <1>3 DEF CallInv, Answer, Attempt, Attempts
  <2>2. /\ StatusOf(c) = "pending" /\ StatusOf(c)' = "ok" /\ KeyOf(c) \in known
        /\ KeyOf(c)' = KeyOf(c)
    BY <1>1, <1>3, <2>1 DEF StatusOf, KeyOf
  <2>3. Contract!Succeed(c)
    BY <1>1, <1>2, <2>2 DEF Contract!Succeed, StatusOf, KeyOf
  <2> QED BY <2>3 DEF Contract!Next
<1>4. CASE op[c].tier # "submit"
  <2>1. StatusOf(c)' = StatusOf(c) /\ KeyOf(c)' = KeyOf(c)
    BY <1>1, <1>4 DEF StatusOf, KeyOf
  <2> QED BY <1>1, <1>2, <2>1, SameCalls
<1> QED BY <1>3, <1>4

LEMMA WireRefines ==
  ASSUME CIInv, NEW c \in Calls, NEW n \in Attempts,
         NodeTakes(c, n) \/ NodeRejects(c, n) \/ RequestLost(c, n)
  PROVE  [Contract!Next]_(Contract!contractVars)
<1>0. /\ wire \in [Calls -> [Attempts -> Request]] /\ CallInv(c) /\ handed \subseteq RequestKeys
  BY CallByCall DEF CIInv, ClientTypes
<1>1. UNCHANGED <<call, op, result, handed>>
  BY DEF NodeTakes, NodeRejects, RequestLost, vars
<1>2. PICK s : wire' = [wire EXCEPT ![c][n].state = s]
  BY DEF NodeTakes, NodeRejects, RequestLost
<1>3. ASSUME NEW d \in Calls PROVE wire'[d][1].key = wire[d][1].key
  <2>1. wire' = [wire EXCEPT ![c] = [wire[c] EXCEPT ![n] = [wire[c][n] EXCEPT !.state = s]]]
    BY <1>2
  <2> QED BY <1>0, <2>1 DEF Request, Attempts
<1>4. \A d \in Calls : StatusOf(d)' = StatusOf(d) /\ KeyOf(d)' = KeyOf(d)
  BY <1>1, <1>3 DEF StatusOf, KeyOf, InFlight
<1>5. CASE known' = known
  BY <1>1, <1>4, <1>5, SameCalls
<1>6. CASE NodeTakes(c, n) /\ op[c].tier = "submit"
  <2>1. wire[c][n].key \in handed
    BY <1>0, <1>6 DEF CallInv, NodeTakes, Attempts
  <2>2. Contract!Accept(wire[c][n].key)
    BY <1>1, <1>4, <1>6, <2>1 DEF Contract!Accept, NodeTakes, StatusOf, KeyOf
  <2> QED BY <1>0, <2>1, <2>2 DEF Contract!Next
<1> QED BY <1>5, <1>6 DEF NodeTakes, NodeRejects, RequestLost

(* Every step of the client is a step of the contract or changes nothing   *)
(* the contract speaks of.                                                 *)
LEMMA StepRefines == CIInv /\ [ClientNext]_allVars => [Contract!Next]_(Contract!contractVars)
<1> SUFFICES ASSUME CIInv, [ClientNext]_allVars
             PROVE  [Contract!Next]_(Contract!contractVars)
  OBVIOUS
<1>1. ASSUME NEW c \in Calls, NEW tier \in UsedTiers, NEW t \in Txs, Issue(c, tier, t)
      PROVE  [Contract!Next]_(Contract!contractVars)
  BY <1>1, IssueRefines
<1>2. ASSUME NEW c \in Calls, Deadline(c)
      PROVE  [Contract!Next]_(Contract!contractVars)
  BY <1>2, AttemptFailsRefines DEF Deadline, Errors
<1>3. ASSUME NEW c \in Calls, Answer(c)
      PROVE  [Contract!Next]_(Contract!contractVars)
  BY <1>3, AnswerRefines
<1>4. ASSUME NEW c \in Calls, ErrorAnswer(c)
      PROVE  [Contract!Next]_(Contract!contractVars)
  <2>1. PICK s \in {"rejected", "refused"} :
          AttemptFails(c, IF s = "refused" THEN "network" ELSE "other")
    BY <1>4 DEF ErrorAnswer
  <2> QED BY <1>4, <2>1, AttemptFailsRefines DEF ErrorAnswer, Errors
<1>5. ASSUME NEW c \in Calls, NEW n \in Attempts,
             NodeTakes(c, n) \/ NodeRejects(c, n) \/ RequestLost(c, n)
      PROVE  [Contract!Next]_(Contract!contractVars)
  BY <1>5, WireRefines
<1>6. ASSUME NEW t \in Txs, NEW k \in RequestKeys, CallerMutates(t, k)
      PROVE  [Contract!Next]_(Contract!contractVars)
  BY <1>6, SameCalls DEF CallerMutates, vars, StatusOf, KeyOf, InFlight
<1>7. CASE Background
  <2>1. \A d \in Calls : call'[d].phase = call[d].phase
    BY <1>7, BackgroundKeepsPhases DEF CIInv, IInv, TypeOK
  <2> QED BY <1>7, <2>1, SameCalls DEF Background, clientVars, StatusOf, KeyOf, InFlight
<1>8. CASE UNCHANGED allVars
  BY <1>8, SameCalls DEF allVars, vars, clientVars, StatusOf, KeyOf, InFlight
<1> QED BY <1>1, <1>2, <1>3, <1>4, <1>5, <1>6, <1>7, <1>8 DEF ClientNext

(* The client implements SubmitContract: one key per submit, success only  *)
(* for a known key, and failures that promise nothing.                     *)
THEOREM ClientImplementsContract == ClientSpec => ImplementsContract
<1>1. ClientInit => Contract!Init
  BY DEF ClientInit, Contract!Init
<1>2. CIInv /\ [ClientNext]_allVars => [Contract!Next]_(Contract!contractVars)
  BY StepRefines
<1> QED BY <1>1, <1>2, ClientSafety, PTL DEF ClientSpec, ImplementsContract, Contract!Spec

-----------------------------------------------------------------------------
(* The failover state under the client's calls.                            *)

LEMMA AttemptFailsIsOpen ==
  ASSUME NEW c \in Calls, NEW err \in Errors, AttemptFails(c, err)
  PROVE  OpenNext
<1>1. Classify(err) \in {"ok", "network", "other"}
  BY DEF Classify, Errors
<1>2. CallSettles(c, Classify(err)) \/ CallFailsOver(c, Classify(err))
  BY DEF AttemptFails
<1> QED BY <1>1, <1>2 DEF OpenNext

LEMMA ClientStepIsOpen == [ClientNext]_allVars => [OpenNext]_vars
<1> SUFFICES ASSUME [ClientNext]_allVars PROVE [OpenNext]_vars
  OBVIOUS
<1>1. ASSUME NEW c \in Calls, NEW tier \in UsedTiers, NEW t \in Txs, Issue(c, tier, t)
      PROVE  OpenNext
  <2>1. CallEnters(c)
    BY <1>1 DEF Issue
  <2> QED BY <2>1 DEF OpenNext, Next
<1>2. ASSUME NEW c \in Calls, Deadline(c)
      PROVE  OpenNext
  <2>1. AttemptFails(c, "AbortError") /\ "AbortError" \in Errors
    BY <1>2 DEF Deadline, Errors
  <2> QED BY <2>1, AttemptFailsIsOpen
<1>3. ASSUME NEW c \in Calls, Answer(c)
      PROVE  OpenNext
  <2>1. CallSettles(c, "ok")
    BY <1>3 DEF Answer
  <2> QED BY <2>1 DEF OpenNext
<1>4. ASSUME NEW c \in Calls, ErrorAnswer(c)
      PROVE  OpenNext
  <2>1. AttemptFails(c, "network") \/ AttemptFails(c, "other")
    BY <1>4 DEF ErrorAnswer
  <2> QED BY <2>1, AttemptFailsIsOpen DEF Errors
<1>5. ASSUME NEW c \in Calls, NEW n \in Attempts,
             NodeTakes(c, n) \/ NodeRejects(c, n) \/ RequestLost(c, n)
      PROVE  UNCHANGED vars
  BY <1>5 DEF NodeTakes, NodeRejects, RequestLost
<1>6. ASSUME NEW t \in Txs, NEW k \in RequestKeys, CallerMutates(t, k)
      PROVE  UNCHANGED vars
  BY <1>6 DEF CallerMutates
<1>7. CASE Background
  BY <1>7 DEF Background, OpenNext, Next
<1>8. CASE UNCHANGED allVars
  BY <1>8 DEF allVars
<1> QED BY <1>1, <1>2, <1>3, <1>4, <1>5, <1>6, <1>7, <1>8 DEF ClientNext

(* What the client's calls do to the failover state is what withFailover   *)
(* calls may do to it: deadlines, late answers and lost requests add       *)
(* nothing. An attempt may die by its deadline on a host that is up, hence *)
(* OpenSpec.                                                               *)
THEOREM ClientRefinesFailover == ClientSpec => OpenSpec
<1>1. ClientInit => Init
  BY DEF ClientInit
<1> QED BY <1>1, ClientStepIsOpen, PTL DEF ClientSpec, OpenSpec

(* Deadlines included, the traffic leaves the primary only when an attempt *)
(* on it has failed or the startup check found it unhealthy.               *)
THEOREM ClientTripNeedsFailure == ClientSpec => TripIsJustified
BY ClientRefinesFailover, OpenTrip, PTL

(* And it comes back only on a successful health check.                    *)
THEOREM ClientRecoveryNeedsHealth == ClientSpec => RecoveryIsJustified
BY ClientRefinesFailover, OpenRecovery, PTL

(* While the client's traffic is on the fallback the retry timer is set,   *)
(* provided every configured URL is accepted: what the liveness property   *)
(* Recovery rests on.                                                      *)
THEOREM ClientRetriesPrimary ==
  ASSUME AllUrlsValid
  PROVE  ClientSpec => []RetryingOnFallback
BY ClientRefinesFailover, OpenRetriesPrimary, PTL
=============================================================================
