--------------------------- MODULE FailoverClient ---------------------------
(***************************************************************************)
(* src/network/failoverClient.ts over src/network/nodeFailover.ts: a       *)
(* dirtyRead, submit, listen or pollOne is a withFailover call whose two   *)
(* attempts each race a request against their own deadline.                *)
(*                                                                         *)
(* A request that lost its race is not taken back: it may still reach its  *)
(* node. The nodes gossip, so a transaction one of them takes is known to  *)
(* all, and they recognise a request key they have seen.                   *)
(***************************************************************************)
EXTENDS NodeFailover

CONSTANTS
  UsedTiers,     \* the methods callers use
  Txs,           \* transaction objects callers hold
  RequestKeys,   \* what their contents may hash to
  NoTx, NoKey

ASSUME KeyAssumption == NoKey \notin RequestKeys /\ NoTx \notin Txs

VARIABLES
  txKey,    \* request key of each object's present contents
  op,       \* the operation each call runs, kept until its slot is reused
  wire,     \* the two requests of each call
  timer,    \* the attempt whose deadline is armed, 0 if none
  timedOut, \* history: the attempts of the call whose deadline fired
  result,   \* how the promise returned to the caller settled
  handed,   \* history: request keys handed to submit
  known     \* request keys in the mempool or on chain

clientVars == <<txKey, op, wire, timer, timedOut, result, handed, known>>
allVars == <<vars, clientVars>>

Tiers == {"dirtyRead", "submit", "listen", "pollOne"}
ASSUME TierAssumption == UsedTiers \subseteq Tiers
Attempts == 1..2

Op == [tier : Tiers \cup {"none"}, tx : Txs \cup {NoTx}]

(* "sent": on its way; "taken", "rejected", "refused": an answer is on its *)
(* way back; "lost": nothing will come back.                               *)
Request == [state : {"none", "sent", "taken", "rejected", "refused", "lost"},
            host : Hosts \cup {NoHost}, key : RequestKeys \cup {NoKey}]
NoRequest == [state |-> "none", host |-> NoHost, key |-> NoKey]

ClientInit ==
  /\ Init
  /\ txKey \in [Txs -> RequestKeys]
  /\ \A t, u \in Txs : txKey[t] = txKey[u] => t = u
  /\ op = [c \in Calls |-> [tier |-> "none", tx |-> NoTx]]
  /\ wire = [c \in Calls |-> [n \in Attempts |-> NoRequest]]
  /\ timer = [c \in Calls |-> 0]
  /\ timedOut = [c \in Calls |-> {}]
  /\ result = [c \in Calls |-> "none"]
  /\ handed = {}
  /\ known = {}

InFlight(c) == call[c].phase # "none"
Attempt(c) == IF call[c].phase = "second" THEN 2 ELSE 1

-----------------------------------------------------------------------------
(* fn(baseUrl) of the wrapper closure: send the object as it is now.       *)
Send(t, h) == [state |-> "sent", host |-> h, key |-> txKey[t]]

(* A method of the client is called: withFailover enters and runs the      *)
(* first attempt with a fresh controller and deadline.                     *)
Issue(c, tier, t) ==
  /\ \A n \in Attempts : wire[c][n].state # "sent"   \* bound: slots, not calls, are finite
  /\ CallEnters(c)
  /\ op' = [op EXCEPT ![c] = [tier |-> tier, tx |-> t]]
  /\ wire' = [wire EXCEPT ![c] = [n \in Attempts |-> IF n = 1 THEN Send(t, current)
                                                              ELSE NoRequest]]
  /\ timer' = [timer EXCEPT ![c] = 1]
  /\ timedOut' = [timedOut EXCEPT ![c] = {}]
  /\ result' = [result EXCEPT ![c] = "none"]
  /\ handed' = IF tier = "submit" THEN handed \cup {txKey[t]} ELSE handed
  /\ UNCHANGED <<txKey, known>>

(* How runWithTimeout's race and the outer boundary turn an error of the   *)
(* last attempt into the caller's: an AbortError becomes TIMEOUT.          *)
\* Mutant: the first deadline that fires is reported, whatever follows.
OuterBoundaryConvertEager(c, err) ==
  IF err = "AbortError" \/ timedOut[c] # {} THEN "timeout" ELSE err

OuterBoundaryConvert(c, err) == IF err = "AbortError" THEN "timeout" ELSE err

(* withFailover sees the name and message of an error, not its cause.      *)
Classify(err) == IF err \in {"AbortError", "network"} THEN "network" ELSE err

(* The attempt rejects with `err`; `finally` clears its timer. Either      *)
(* withFailover starts the second attempt or the caller's promise rejects. *)
\* Mutant: the transaction is re-created for the retry.
AttemptFailsRebuilt(c, err) ==
  \/ /\ CallFailsOver(c, Classify(err))
     /\ \E k \in RequestKeys :
          wire' = [wire EXCEPT ![c][2] = [state |-> "sent", host |-> call'[c].host, key |-> k]]
     /\ timer' = [timer EXCEPT ![c] = 2]
     /\ UNCHANGED result
  \/ /\ CallSettles(c, Classify(err))
     /\ result' = [result EXCEPT ![c] = OuterBoundaryConvert(c, err)]
     /\ timer' = [timer EXCEPT ![c] = 0]
     /\ UNCHANGED wire

\* Mutant: every failure arms one more deadline.
AttemptFailsRearmed(c, err) ==
  \/ /\ CallFailsOver(c, Classify(err))
     /\ wire' = [wire EXCEPT ![c][2] = Send(op[c].tx, call'[c].host)]
     /\ timer' = [timer EXCEPT ![c] = @ + 1]
     /\ UNCHANGED result
  \/ /\ CallSettles(c, Classify(err))
     /\ result' = [result EXCEPT ![c] = OuterBoundaryConvert(c, err)]
     /\ timer' = [timer EXCEPT ![c] = @ + 1]
     /\ UNCHANGED wire

\* Mutant: only the first attempt gets a deadline.
AttemptFailsNoDeadline(c, err) ==
  \/ /\ CallFailsOver(c, Classify(err))
     /\ wire' = [wire EXCEPT ![c][2] = Send(op[c].tx, call'[c].host)]
     /\ timer' = [timer EXCEPT ![c] = 0]
     /\ UNCHANGED result
  \/ /\ CallSettles(c, Classify(err))
     /\ result' = [result EXCEPT ![c] = OuterBoundaryConvert(c, err)]
     /\ timer' = [timer EXCEPT ![c] = 0]
     /\ UNCHANGED wire

AttemptFails(c, err) ==
  \/ /\ CallFailsOver(c, Classify(err))
     /\ wire' = [wire EXCEPT ![c][2] = Send(op[c].tx, call'[c].host)]
     /\ timer' = [timer EXCEPT ![c] = 2]
     /\ UNCHANGED result
  \/ /\ CallSettles(c, Classify(err))
     /\ result' = [result EXCEPT ![c] = OuterBoundaryConvert(c, err)]
     /\ timer' = [timer EXCEPT ![c] = 0]
     /\ UNCHANGED wire

(* The deadline of the running attempt fires first.                        *)
Deadline(c) ==
  /\ InFlight(c) /\ timer[c] = Attempt(c)
  /\ timedOut' = [timedOut EXCEPT ![c] = @ \cup {Attempt(c)}]
  /\ AttemptFails(c, "AbortError")
  /\ UNCHANGED <<txKey, op, handed, known>>

(* The answer to the running attempt arrives first.                        *)
\* Mutant: whichever attempt is answered settles the call.
AnswerOfEither(c) ==
  /\ InFlight(c) /\ \E n \in Attempts : wire[c][n].state = "taken"
  /\ CallSettles(c, "ok")
  /\ result' = [result EXCEPT ![c] = "ok"]
  /\ timer' = [timer EXCEPT ![c] = 0]
  /\ UNCHANGED <<txKey, op, wire, timedOut, handed, known>>

Answer(c) ==
  /\ InFlight(c) /\ wire[c][Attempt(c)].state = "taken"
  /\ CallSettles(c, "ok")
  /\ result' = [result EXCEPT ![c] = "ok"]
  /\ timer' = [timer EXCEPT ![c] = 0]
  /\ UNCHANGED <<txKey, op, wire, timedOut, handed, known>>

ErrorAnswer(c) ==
  /\ InFlight(c)
  /\ \E s \in {"rejected", "refused"} :
       /\ wire[c][Attempt(c)].state = s
       /\ AttemptFails(c, IF s = "refused" THEN "network" ELSE "other")
  /\ UNCHANGED <<txKey, op, timedOut, handed, known>>

-----------------------------------------------------------------------------
(* Environment: the network, the nodes and the caller.                     *)

(* A node takes a request; one carrying a submit is in the mempool then.   *)
NodeTakes(c, n) ==
  /\ wire[c][n].state = "sent" /\ up[wire[c][n].host]
  /\ wire' = [wire EXCEPT ![c][n].state = "taken"]
  /\ known' = IF op[c].tier = "submit" THEN known \cup {wire[c][n].key} ELSE known
  /\ UNCHANGED <<vars, txKey, op, timer, timedOut, result, handed>>

(* It answers with an error, the connection is refused, or nothing comes.  *)
NodeRejects(c, n) ==
  /\ wire[c][n].state = "sent"
  /\ wire' = [wire EXCEPT ![c][n].state = IF up[wire[c][n].host] THEN "rejected" ELSE "refused"]
  /\ UNCHANGED <<vars, txKey, op, timer, timedOut, result, handed, known>>

RequestLost(c, n) ==
  /\ wire[c][n].state = "sent"
  /\ wire' = [wire EXCEPT ![c][n].state = "lost"]
  /\ UNCHANGED <<vars, txKey, op, timer, timedOut, result, handed, known>>

(* A caller changes an object it holds (re-signs it with a new creation    *)
(* time, say), which submit's contract forbids while it is in flight.      *)
\* Mutant: it does so under a pending submit.
CallerMutatesInFlight(t, k) ==
  /\ \A u \in Txs : txKey[u] # k
  /\ txKey' = [txKey EXCEPT ![t] = k]
  /\ UNCHANGED <<vars, op, wire, timer, timedOut, result, handed, known>>

CallerMutates(t, k) ==
  /\ \A c \in Calls : InFlight(c) => op[c].tx # t
  /\ \A u \in Txs : txKey[u] # k
  /\ txKey' = [txKey EXCEPT ![t] = k]
  /\ UNCHANGED <<vars, op, wire, timer, timedOut, result, handed, known>>

(* The failover state changes under the calls.                             *)
Background ==
  /\ \/ \E r \in ConfigCalls : SetNodeConfig(r)
     \/ \E p \in Ticks : RetryTick(p) \/ TickResumes(p)
     \/ \E p \in Checks : InitCheck(p) \/ InitResumes(p)
     \/ \E p \in Probes : ProbeAnswered(p)
     \/ \E h \in Hosts : HostFlips(h)
  /\ UNCHANGED clientVars

ClientNext ==
  \/ \E c \in Calls : \/ \E tier \in UsedTiers, t \in Txs : Issue(c, tier, t)
                      \/ Deadline(c) \/ Answer(c) \/ ErrorAnswer(c)
  \/ \E c \in Calls, n \in Attempts : NodeTakes(c, n) \/ NodeRejects(c, n) \/ RequestLost(c, n)
  \/ \E t \in Txs, k \in RequestKeys : CallerMutates(t, k)
  \/ Background

ClientSpec == ClientInit /\ [][ClientNext]_allVars

(* A timer that is armed fires unless it is cleared first, the interval    *)
(* and the deadline of the health check among them.                        *)
ClientFairSpec == ClientSpec /\ Fairness /\ \A c \in Calls : WF_allVars(Deadline(c))
-----------------------------------------------------------------------------
(* Properties.                                                             *)

ClientTypes ==
  /\ txKey \in [Txs -> RequestKeys]
  /\ op \in [Calls -> Op]
  /\ wire \in [Calls -> [Attempts -> Request]]
  /\ timer \in [Calls -> 0..2]
  /\ timedOut \in [Calls -> SUBSET Attempts]
  /\ result \in [Calls -> {"none", "ok", "timeout", "network", "other"}]
  /\ handed \subseteq RequestKeys /\ known \subseteq RequestKeys

DeadlineArmed == \A c \in Calls : timer[c] = IF InFlight(c) THEN Attempt(c) ELSE 0

(* Every client variable has its type, and runWithTimeout's try/finally    *)
(* keeps its word: the deadline of the running attempt, and no other, is   *)
(* armed while a call is in flight, and none once it settled.              *)
ClientTypeOK == ClientTypes /\ DeadlineArmed

(* The request-key dedup contract (REQ-01): both attempts of a submit send *)
(* the key the caller handed over, so that a retry is a duplicate for the  *)
(* mempool and not a second transaction.                                   *)
OneKeyPerSubmit ==
  \A c \in Calls : op[c].tier = "submit" =>
    /\ wire[c][1].key \in handed
    /\ wire[c][2].state # "none" => wire[c][2].key = wire[c][1].key

LastAttempt(c) == IF wire[c][2].state = "none" THEN 1 ELSE 2

(* "a primary-only timeout followed by a successful fallback resolves      *)
(* normally": the last attempt, and no other, decides what the caller is   *)
(* told - TIMEOUT when its own deadline fired, else how its own request was*)
(* answered. Neither a deadline nor a late answer of the abandoned one     *)
(* does.                                                                   *)
SettledByLastAttempt ==
  \A c \in Calls :
    LET last == LastAttempt(c)
    IN /\ result[c] = "timeout" => last \in timedOut[c]
       /\ result[c] = "ok" => wire[c][last].state = "taken"
       /\ result[c] = "network" => wire[c][last].state = "refused"
       /\ result[c] = "other" => wire[c][last].state = "rejected"

(* A submit that resolved was taken by a node, even if an earlier attempt  *)
(* of it was answered, lost or refused.                                    *)
ResolvedSubmitIsKnown ==
  \A c \in Calls : op[c].tier = "submit" /\ result[c] = "ok" => wire[c][1].key \in known

(* What makes the contract inductive: the object of a call in flight still *)
(* has the contents that were sent, an answered submit is in the mempool,  *)
(* and the mempool holds nothing that was not handed over.                 *)
ContractInv ==
  /\ known \subseteq handed
  /\ \A c \in Calls :
       /\ InFlight(c) => /\ op[c].tier \in Tiers /\ op[c].tx \in Txs
                         /\ wire[c][1].key = txKey[op[c].tx]
                         /\ wire[c][2].state = "none" <=> call[c].phase = "first"
                         /\ wire[c][1].state # "none" /\ result[c] = "none"
       /\ op[c].tier = "submit" =>
            /\ wire[c][1].state # "none"
            /\ \A n \in Attempts : wire[c][n].state = "taken" => wire[c][n].key \in known

(* The client implements the contract callers see: one key per call,       *)
(* success only for a key that is known, and no promise on failure.        *)
Contract == INSTANCE SubmitContract WITH
  status <- [c \in Calls |-> IF op[c].tier # "submit" THEN "idle"
                             ELSE IF InFlight(c) THEN "pending" ELSE result[c]],
  key    <- [c \in Calls |-> IF op[c].tier = "submit" THEN wire[c][1].key ELSE NoKey]

ImplementsContract == Contract!Spec

(* Every call settles: each attempt has a deadline of its own, so at most  *)
(* two of them bound the wait, whatever the nodes and the network do.      *)
CallsSettle == \A c \in Calls : InFlight(c) ~> ~InFlight(c)

(* "Retry primary every 30s when on fallback": as long as the health check *)
(* of a configured primary succeeds, the traffic is brought back to it     *)
(* again and again, whatever calls, stale checks and reconfigurations to   *)
(* that same primary go on. (It need not stay there: a node may pass the   *)
(* health check and let the deadlines of calls pass.)                      *)
Recovery == \A h \in Hosts : <>[](primary = h /\ up[h]) => []<>(current = h)
=============================================================================
