----------------------------- MODULE CrossChain -----------------------------
(***************************************************************************)
(* src/interactions/crossChainFunctions.ts over nodeFailover: the calls a  *)
(* wallet makes to move coins between two chains, any of them at any time  *)
(* the previous ones allow: submit the first step, poll its status, poll   *)
(* for the SPV proof, submit the continuation.                             *)
(*                                                                         *)
(* Each library call is one withFailover call of the transfer's slot. A    *)
(* host that is `up` answers before every deadline; one that is not        *)
(* refuses, or stays silent until the deadline of the call.                *)
(***************************************************************************)
EXTENDS NodeFailover

CONSTANTS
  MaxAttempts,   \* maxAttempts of pollSpvProof
  Builders       \* which function built the first step of a transfer

ASSUME AttemptsAssumption == MaxAttempts \in Nat \ {0}
ASSUME BuildersAssumption ==
  Builders \subseteq {"buildCrossChainTransfer", "C_TransferAcross chain 0", "C_TransferAcross"}

Transfers == Calls

VARIABLES
  step,      \* where each transfer is in the flow
  builder,   \* what built its first step
  skewed,    \* environment: the wallet's clock is ahead of the nodes'
  status,    \* the last TransferStatus the wallet holds
  attempt,   \* attempt of the running pollSpvProof
  fetches,   \* history: fetchSpvProof calls of the running pollSpvProof
  tried,     \* history: hosts the last fetchSpvProof asked
  failure,   \* how the last submit or fetchSpvProof went wrong
  source,    \* environment: the first step on the source chain
  target     \* environment: the continuation on the target chain

flowVars == <<step, status, attempt, fetches, tried, failure>>
chainVars == <<builder, skewed, source, target>>
xchainVars == <<vars, flowVars, chainVars>>

Steps == {"built", "submitting", "thrown", "submitted", "polling", "fetching", "sleeping",
          "proved", "gaveup", "continuing", "finished"}

(* TransferStatus. "not-found" is declared, and never produced.            *)
Statuses == {"none", "pending", "success", "failure", "not-found"}

XInit ==
  /\ Init
  /\ step = [t \in Transfers |-> "built"]
  /\ builder \in [Transfers -> Builders]
  /\ skewed \in BOOLEAN
  /\ status = [t \in Transfers |-> "none"]
  /\ attempt = [t \in Transfers |-> 0]
  /\ fetches = [t \in Transfers |-> 0]
  /\ tried = [t \in Transfers |-> {}]
  /\ failure = [t \in Transfers |-> "none"]
  /\ source = [t \in Transfers |-> "absent"]
  /\ target = [t \in Transfers |-> "absent"]

HostOf(t) == call[t].host
Goto(t, s) == step' = [step EXCEPT ![t] = s]

-----------------------------------------------------------------------------
(* Building the first step.                                                *)

(* Whether the builder sets creationTime: safeCreationTime(). Without it   *)
(* the client library takes the wallet's clock as it is.                   *)
SafeCreationTime(t) == builder[t] # "C_TransferAcross"

(* The node refuses a creation time that lies in its future.               *)
RefusedForClock(t) == skewed /\ ~SafeCreationTime(t)

-----------------------------------------------------------------------------
(* submit, pollOne: methods of the failover client, whose deadlines raise  *)
(* an AbortError that withFailover takes for a network error.              *)

(* The attempt on a silent or refusing host ends.                          *)
GoesToFallback(t) == ~up[HostOf(t)] /\ CallFailsOver(t, "network")
GivesUp(t) == ~up[HostOf(t)] /\ CallSettles(t, "network")

Submit(t) ==
  /\ step[t] \in {"built", "thrown"}
  /\ CallEnters(t)
  /\ Goto(t, "submitting")
  /\ UNCHANGED <<status, attempt, fetches, tried, failure, chainVars>>

(* The node takes the transaction, or it answers with an error.            *)
Submitted(t) ==
  /\ step[t] = "submitting" /\ up[HostOf(t)] /\ ~RefusedForClock(t)
  /\ CallSettles(t, "ok")
  /\ source' = [source EXCEPT ![t] = IF @ = "absent" THEN "mempool" ELSE @]
  /\ Goto(t, "submitted")
  /\ UNCHANGED <<status, attempt, fetches, tried, failure, builder, skewed, target>>

(* submitCrossChainTransfer throws, and the wallet may submit again: the   *)
(* node refused the request, for the clock or for any other reason, or it  *)
(* did not answer, and may have taken the request or take it later.        *)
SubmitThrows(t) ==
  /\ step[t] = "submitting"
  /\ \/ /\ up[HostOf(t)] /\ CallSettles(t, "other")
        /\ failure' = [failure EXCEPT ![t] = IF RefusedForClock(t) THEN "clock" ELSE "rejected"]
     \/ GivesUp(t) /\ UNCHANGED failure
  /\ Goto(t, "thrown")
  /\ UNCHANGED <<status, attempt, fetches, tried, chainVars>>

SubmitRetried(t) ==
  /\ step[t] \in {"submitting", "polling", "continuing"}
  /\ GoesToFallback(t)
  /\ UNCHANGED <<flowVars, chainVars>>

-----------------------------------------------------------------------------
(* pollTransactionStatus.                                                  *)

Poll(t) ==
  /\ step[t] = "submitted"
  /\ CallEnters(t)
  /\ Goto(t, "polling")
  /\ UNCHANGED <<status, attempt, fetches, tried, failure, chainVars>>

(* The status for a chainweb answer: the empty answer of a node that has   *)
(* not seen the block is pending.                                          *)
\* Mutant: any answer that is not a success is a failure.
StatusOfStrict(seen) == IF seen \in {"success", "final"} THEN "success" ELSE "failure"

StatusOf(seen) ==
  CASE seen \in {"success", "final"} -> "success"
    [] seen = "failure" -> "failure"
    [] OTHER -> "pending"

(* The node answers with the block it has seen, or it lags.                *)
Polled(t) ==
  /\ step[t] = "polling" /\ up[HostOf(t)]
  /\ CallSettles(t, "ok")
  /\ \E seen \in {source[t], "absent"} : status' = [status EXCEPT ![t] = StatusOf(seen)]
  /\ Goto(t, "submitted")
  /\ UNCHANGED <<attempt, fetches, tried, failure, chainVars>>

(* The catch block: every error is pending.                                *)
PollErrs(t) ==
  /\ step[t] = "polling"
  /\ GivesUp(t) \/ CallSettles(t, "other")
  /\ status' = [status EXCEPT ![t] = "pending"]
  /\ Goto(t, "submitted")
  /\ UNCHANGED <<attempt, fetches, tried, failure, chainVars>>

(* getContinuationStatus of a polled transfer. A success always carries    *)
(* the continuation of the coin defpact.                                   *)
ContinuationStatus(t) ==
  [exists    |-> status[t] # "not-found",
   completed |-> status[t] \notin {"not-found", "failure", "success"}]

-----------------------------------------------------------------------------
(* pollSpvProof: a loop over fetchSpvProof.                                *)

(* The request of an attempt of the loop.                                  *)
FetchEnters(t, n) ==
  /\ CallEnters(t)
  /\ attempt' = [attempt EXCEPT ![t] = n]
  /\ fetches' = [fetches EXCEPT ![t] = IF n = 1 THEN 1 ELSE @ + 1]
  /\ tried' = [tried EXCEPT ![t] = {current}]
  /\ failure' = [failure EXCEPT ![t] = "none"]
  /\ Goto(t, "fetching")
  /\ UNCHANGED <<status, chainVars>>

PollSpvProof(t) == step[t] \in {"submitted", "gaveup"} /\ FetchEnters(t, 1)

(* No proof this time: sleep delayMs, or stop after the last attempt.      *)
\* Mutant: the bound is lost in the test.
NoProofYetUnbounded(t) == Goto(t, "sleeping")

\* Mutant: one attempt short.
NoProofYetShort(t) ==
  Goto(t, IF attempt[t] + 1 < MaxAttempts THEN "sleeping" ELSE "gaveup")

NoProofYet(t) == Goto(t, IF attempt[t] < MaxAttempts THEN "sleeping" ELSE "gaveup")

Wake(t) == step[t] = "sleeping" /\ FetchEnters(t, attempt[t] + 1)

(* The node answers: with a proof once the block is final, else with 400   *)
(* or another error text.                                                  *)
\* Mutant: the error text is returned as the proof.
FetchAnsweredAnyText(t) ==
  /\ step[t] = "fetching" /\ up[HostOf(t)]
  /\ CallSettles(t, "ok")
  /\ Goto(t, "proved")
  /\ UNCHANGED <<status, attempt, fetches, tried, failure, chainVars>>

FetchAnswered(t) ==
  /\ step[t] = "fetching" /\ up[HostOf(t)]
  /\ CallSettles(t, "ok")
  /\ \/ source[t] = "final" /\ Goto(t, "proved") /\ UNCHANGED failure
     \/ NoProofYet(t) /\ failure' = [failure EXCEPT ![t] = "answer"]
  /\ UNCHANGED <<status, attempt, fetches, tried, chainVars>>

(* AbortSignal.timeout fires: fetch rejects with a TimeoutError, which is  *)
(* none of the errors withFailover takes for a network error.              *)
\* Mutant: fetch without a signal, which a silent host never ends.
FetchTimesOutNever(t) == FALSE

FetchTimesOut(t) ==
  /\ step[t] = "fetching" /\ ~up[HostOf(t)]
  /\ CallSettles(t, "other")
  /\ NoProofYet(t)
  /\ failure' = [failure EXCEPT ![t] = "timeout"]
  /\ UNCHANGED <<status, attempt, fetches, tried, chainVars>>

(* The host refuses the connection.                                        *)
FetchRefused(t) ==
  /\ step[t] = "fetching"
  /\ \/ /\ GoesToFallback(t)
        /\ tried' = [tried EXCEPT ![t] = @ \cup {call'[t].host}]
        /\ UNCHANGED <<step, failure>>
     \/ /\ GivesUp(t)
        /\ NoProofYet(t)
        /\ failure' = [failure EXCEPT ![t] = "refused"]
        /\ UNCHANGED tried
  /\ UNCHANGED <<status, attempt, fetches, chainVars>>

-----------------------------------------------------------------------------
(* buildContinuationTransaction and submitContinuation.                    *)

SubmitContinuation(t) ==
  /\ step[t] = "proved"
  /\ CallEnters(t)
  /\ Goto(t, "continuing")
  /\ UNCHANGED <<status, attempt, fetches, tried, failure, chainVars>>

(* Its meta has no safe creation time: an early clock is always refused.   *)
Continued(t) ==
  /\ step[t] = "continuing" /\ up[HostOf(t)] /\ ~skewed
  /\ CallSettles(t, "ok")
  /\ target' = [target EXCEPT ![t] = IF @ = "absent" THEN "mempool" ELSE @]
  /\ Goto(t, "finished")
  /\ UNCHANGED <<status, attempt, fetches, tried, failure, builder, skewed, source>>

(* The node may refuse it for other reasons too, or the answer is lost.    *)
ContinueThrows(t) ==
  /\ step[t] = "continuing"
  /\ (up[HostOf(t)] /\ CallSettles(t, "other")) \/ GivesUp(t)
  /\ Goto(t, "proved")
  /\ UNCHANGED <<status, attempt, fetches, tried, failure, chainVars>>

-----------------------------------------------------------------------------
(* Environment: the two chains.                                            *)

(* A request whose answer was lost arrives; a mempool entry is mined; its  *)
(* block becomes final.                                                    *)
SourceAdvances(t) ==
  /\ \/ /\ source[t] = "absent" /\ step[t] # "built" /\ ~RefusedForClock(t)
        /\ source' = [source EXCEPT ![t] = "mempool"]
     \/ /\ source[t] = "mempool"
        /\ \E r \in {"success", "failure"} : source' = [source EXCEPT ![t] = r]
     \/ /\ source[t] = "success"
        /\ source' = [source EXCEPT ![t] = "final"]
  /\ UNCHANGED <<vars, flowVars, builder, skewed, target>>

TargetAdvances(t) ==
  /\ \/ target[t] = "absent" /\ source[t] = "final"   \* anyone may continue
     \/ target[t] = "mempool"
  /\ target' = [target EXCEPT ![t] = IF @ = "absent" THEN "mempool" ELSE "done"]
  /\ UNCHANGED <<vars, flowVars, builder, skewed, source>>

XBackground ==
  /\ \/ \E p \in Ticks : RetryTick(p) \/ TickResumes(p)
     \/ \E p \in Ticks : ProbeAnswered(p)
     \/ \E h \in Hosts : HostFlips(h)
  /\ UNCHANGED <<flowVars, chainVars>>

Flow(t) ==
  \/ Submit(t) \/ Submitted(t) \/ SubmitThrows(t) \/ SubmitRetried(t)
  \/ Poll(t) \/ Polled(t) \/ PollErrs(t)
  \/ PollSpvProof(t) \/ Wake(t) \/ FetchAnswered(t) \/ FetchTimesOut(t) \/ FetchRefused(t)
  \/ SubmitContinuation(t) \/ Continued(t) \/ ContinueThrows(t)

XNext ==
  \/ \E t \in Transfers : Flow(t) \/ SourceAdvances(t) \/ TargetAdvances(t)
  \/ XBackground

XSpec == XInit /\ [][XNext]_xchainVars

(* Timers fire: the sleep between attempts ends, and so does a fetch.      *)
XFairSpec ==
  XSpec /\ \A t \in Transfers : WF_xchainVars(Wake(t)) /\ WF_xchainVars(FetchAnswered(t) \/ FetchTimesOut(t))
-----------------------------------------------------------------------------
(* Properties.                                                             *)

(* Every variable of the flow has its type, and the loop counter stays in  *)
(* its bound.                                                              *)
XTypeOK ==
  /\ TypeOK
  /\ step \in [Transfers -> Steps]
  /\ builder \in [Transfers -> Builders] /\ skewed \in BOOLEAN
  /\ status \in [Transfers -> Statuses]
  /\ attempt \in [Transfers -> 0..MaxAttempts]
  /\ fetches \in [Transfers -> Nat]
  /\ tried \in [Transfers -> SUBSET Hosts]
  /\ failure \in [Transfers -> {"none", "answer", "refused", "timeout", "clock", "rejected"}]
  /\ source \in [Transfers -> {"absent", "mempool", "success", "failure", "final"}]
  /\ target \in [Transfers -> {"absent", "mempool", "done"}]

(* pollTransactionStatus reports an outcome only when the chain has it, so *)
(* that lost calls, failovers and lagging nodes never turn a transfer that *)
(* may still succeed into a failed one.                                    *)
StatusAgreesWithChain ==
  \A t \in Transfers : /\ status[t] = "success" => source[t] \in {"success", "final"}
                       /\ status[t] = "failure" => source[t] = "failure"

(* A continuation is built only from the proof of a final first step.      *)
ContinuesFinalTransfers ==
  \A t \in Transfers : step[t] \in {"proved", "continuing", "finished"} => source[t] = "final"

(* pollSpvProof gives up only after maxAttempts calls of fetchSpvProof,    *)
(* none of which a deadline or failover has swallowed.                     *)
GivesUpAfterMaxAttempts == \A t \in Transfers : step[t] = "gaveup" => fetches[t] = MaxAttempts

(* "never an infinite hang": pollSpvProof ends, even if no node answers.   *)
PollSpvProofEnds ==
  \A t \in Transfers : step[t] \in {"fetching", "sleeping"} ~> step[t] \in {"proved", "gaveup"}

(* The error text of a fetch that timed out: both nodes were asked.        *)
TimeoutTriedBothNodes ==
  \A t \in Transfers : failure[t] = "timeout" => tried[t] = {primary, fallback}

(* getContinuationStatus reports a transfer as completed only when its     *)
(* continuation is on the target chain.                                    *)
CompletedMeansContinued ==
  \A t \in Transfers : status[t] # "none" /\ ContinuationStatus(t).completed => target[t] = "done"
=============================================================================
