---------------------------- MODULE NodeFailover ----------------------------
(***************************************************************************)
(* src/network/nodeFailover.ts: the module-level failover state shared by  *)
(* every chain call, and the three kinds of asynchronous activity that     *)
(* read it before an await and change it after one:                        *)
(*                                                                         *)
(*   - withFailover calls, each an attempt on the host that was active     *)
(*     when it was entered and perhaps a second one on the fallback;       *)
(*   - ticks of the setInterval retry loop, each a health check of the     *)
(*     primary followed by switchToPrimary();                              *)
(*   - initNodeFailover(), a health check followed by switchToFallback().  *)
(*                                                                         *)
(* JavaScript runs one callback at a time, so the code between two awaits  *)
(* is one action.  A host is a value; base URLs are one-to-one with hosts, *)
(* so comparing base URLs is comparing hosts.                              *)
(***************************************************************************)
EXTENDS Naturals, FiniteSets

CONSTANTS
  Node1, Node2,    \* NODE1_HOST and NODE2_HOST
  CustomHosts,     \* origins a consumer may configure besides those two
  NoHost,          \* no host: an idle slot, or a customUrl that is rejected
  ConfigCalls,     \* the arguments setNodeConfig may be called with
  GasLimits,       \* limits passed as customNodeGasLimit
  DefaultGasLimit, \* DEFAULT_GAS_LIMIT
  KnownGasLimit,   \* NODE_GAS_LIMITS of both known nodes
  Calls,           \* slots for withFailover calls in flight
  Ticks,           \* slots for retry ticks in flight
  Checks           \* slots for initNodeFailover calls in flight

Hosts == {Node1, Node2} \cup CustomHosts

ASSUME HostsAssumption == Node1 # Node2 /\ NoHost \notin Hosts

(* Every health check in flight.                                           *)
Probes == Ticks \cup Checks

ASSUME SlotsAssumption == Ticks \cap Checks = {}

ASSUME GasAssumption ==
  /\ GasLimits \subseteq Nat
  /\ DefaultGasLimit \in GasLimits
  /\ KnownGasLimit \in Nat

(* A call of setNodeConfig: `origin` is what new URL(customUrl).origin     *)
(* yields, or NoHost when the URL is missing, malformed or not https.      *)
ConfigCall == [selected : {"node1", "node2", "custom"},
               origin   : Hosts \cup {NoHost},
               limit    : GasLimits]

ASSUME ConfigAssumption == ConfigCalls \subseteq ConfigCall

VARIABLES
  primary,         \* PRIMARY_HOST
  fallback,        \* FALLBACK_HOST
  customGasLimit,
  current,         \* currentHost
  retryTimer,      \* retryTimer # null
  intervals,       \* setInterval handles that have not been cleared
  probe,           \* health checks in flight
  call,            \* withFailover calls in flight
  up               \* environment: does the host answer within the timeout?

failoverVars == <<primary, fallback, customGasLimit, current, retryTimer, intervals>>
vars == <<primary, fallback, customGasLimit, current, retryTimer, intervals,
          probe, call, up>>

(* `reconf` is a history field: setNodeConfig or resetNodeFailover has     *)
(* assigned the hosts since this probe or call read them.                  *)
Probe == [phase : {"none", "asked", "healthy", "unhealthy"},
          host : Hosts \cup {NoHost}, reconf : BOOLEAN]
NoProbe == [phase |-> "none", host |-> NoHost, reconf |-> FALSE]

(* `attempted` and `attemptedPrimary` are the two captured constants of    *)
(* withFailover, `host` the host fn is now running against.                *)
Call == [phase : {"none", "first", "second"}, host : Hosts \cup {NoHost},
         attempted : Hosts \cup {NoHost}, attemptedPrimary : Hosts \cup {NoHost},
         reconf : BOOLEAN]
NoCall == [phase |-> "none", host |-> NoHost, attempted |-> NoHost,
           attemptedPrimary |-> NoHost, reconf |-> FALSE]

-----------------------------------------------------------------------------
(* Module load. Nothing is in flight and the hosts may be in any health.   *)
Init ==
  /\ primary = Node2
  /\ fallback = Node1
  /\ customGasLimit = DefaultGasLimit
  /\ current = Node2
  /\ retryTimer = FALSE
  /\ intervals = 0
  /\ probe = [p \in Probes |-> NoProbe]
  /\ call = [c \in Calls |-> NoCall]
  /\ up \in [Hosts -> BOOLEAN]

(* getActiveGasLimit: the block gas limit of the active node.              *)
ActiveGasLimit == IF current \in {Node1, Node2} THEN KnownGasLimit ELSE customGasLimit

-----------------------------------------------------------------------------
(* The retry timer.                                                        *)

StartRetryLoop ==
  /\ retryTimer' = TRUE
  /\ intervals' = IF retryTimer THEN intervals ELSE intervals + 1

\* Mutant: the handle is forgotten without clearInterval.
StopRetryLoopLeak ==
  /\ retryTimer' = FALSE
  /\ intervals' = intervals

StopRetryLoop ==
  /\ retryTimer' = FALSE
  /\ intervals' = IF retryTimer THEN intervals - 1 ELSE intervals


SwitchToFallback ==
  IF current = fallback
    THEN UNCHANGED <<current, retryTimer, intervals>>
    ELSE current' = fallback /\ StartRetryLoop

SwitchToPrimary ==
  IF current = primary
    THEN UNCHANGED <<current, retryTimer, intervals>>
    ELSE current' = primary /\ StopRetryLoop

-----------------------------------------------------------------------------
(* Configuration.                                                          *)

(* What a reconfiguration leaves behind: everything in flight keeps the    *)
(* hosts it captured.                                                      *)
MarkReconfigured ==
  /\ probe' = [p \in Probes |-> IF probe[p].phase = "none" THEN probe[p]
                                ELSE [probe[p] EXCEPT !.reconf = TRUE]]
  /\ call' = [c \in Calls |-> IF call[c].phase = "none" THEN call[c]
                              ELSE [call[c] EXCEPT !.reconf = TRUE]]

Assign(p, f, limit) ==
  /\ primary' = p
  /\ fallback' = f
  /\ customGasLimit' = limit
  /\ current' = p
  /\ StopRetryLoop
  /\ MarkReconfigured

\* Mutant: any custom URL is taken, as it was before v3.2.3.
SetNodeConfigUnvalidated(r) ==
  /\ UNCHANGED up
  /\ \/ r.selected = "node1" /\ Assign(Node1, Node2, r.limit)
     \/ r.selected = "node2" /\ Assign(Node2, Node1, r.limit)
     \/ r.selected = "custom" /\ Assign(r.origin, Node2, r.limit)

(* setNodeConfig. stopRetryLoop() comes first, the TypeError after it.     *)
SetNodeConfig(r) ==
  /\ UNCHANGED up
  /\ \/ r.selected = "node1" /\ Assign(Node1, Node2, r.limit)
     \/ r.selected = "node2" /\ Assign(Node2, Node1, r.limit)
     \/ r.selected = "custom" /\ r.origin # NoHost /\ Assign(r.origin, Node2, r.limit)
     \/ /\ r.selected = "custom" /\ r.origin = NoHost
        /\ StopRetryLoop
        /\ UNCHANGED <<primary, fallback, customGasLimit, current, probe, call>>

ResetNodeFailover == Assign(Node2, Node1, DefaultGasLimit) /\ UNCHANGED up

-----------------------------------------------------------------------------
(* Health checks. isHealthy never rejects: a host that does not answer     *)
(* within HEALTH_TIMEOUT_MS, or at all, is unhealthy.                      *)

Ask(p) ==
  /\ probe[p].phase = "none"
  /\ probe' = [probe EXCEPT ![p] = [phase |-> "asked", host |-> primary, reconf |-> FALSE]]
  /\ UNCHANGED <<failoverVars, call, up>>

(* The interval fires. Callbacks of a timer that has been cleared since    *)
(* are not cancelled, so several may be in flight.                         *)
RetryTick(p) == retryTimer /\ Ask(p)

InitCheck(p) == Ask(p)

ProbeAnswered(p) ==
  /\ probe[p].phase = "asked"
  /\ probe' = [probe EXCEPT ![p].phase = IF up[probe[p].host] THEN "healthy"
                                                             ELSE "unhealthy"]
  /\ UNCHANGED <<failoverVars, call, up>>

\* Mutant: the tick switches back whatever the health check said.
TickResumesUnchecked(p) ==
  /\ probe[p].phase \in {"healthy", "unhealthy"}
  /\ SwitchToPrimary
  /\ probe' = [probe EXCEPT ![p] = NoProbe]
  /\ UNCHANGED <<primary, fallback, customGasLimit, call, up>>


\* Mutant: the primary is probed once instead of at every interval.
TickResumesOneShot(p) ==
  /\ probe[p].phase \in {"healthy", "unhealthy"}
  /\ IF probe[p].phase = "healthy" THEN SwitchToPrimary
                                   ELSE StopRetryLoop /\ UNCHANGED current
  /\ probe' = [probe EXCEPT ![p] = NoProbe]
  /\ UNCHANGED <<primary, fallback, customGasLimit, call, up>>

(* The tick resumes after its await and reads PRIMARY_HOST afresh.         *)
TickResumes(p) ==
  /\ probe[p].phase \in {"healthy", "unhealthy"}
  /\ IF probe[p].phase = "healthy" THEN SwitchToPrimary
                                   ELSE UNCHANGED <<current, retryTimer, intervals>>
  /\ probe' = [probe EXCEPT ![p] = NoProbe]
  /\ UNCHANGED <<primary, fallback, customGasLimit, call, up>>

\* Mutant: the negation is lost.
InitResumesInverted(p) ==
  /\ probe[p].phase \in {"healthy", "unhealthy"}
  /\ IF probe[p].phase = "healthy" THEN SwitchToFallback
                                   ELSE UNCHANGED <<current, retryTimer, intervals>>
  /\ probe' = [probe EXCEPT ![p] = NoProbe]
  /\ UNCHANGED <<primary, fallback, customGasLimit, call, up>>

(* initNodeFailover resumes after its await.                               *)
InitResumes(p) ==
  /\ probe[p].phase \in {"healthy", "unhealthy"}
  /\ IF probe[p].phase = "unhealthy" THEN SwitchToFallback
                                     ELSE UNCHANGED <<current, retryTimer, intervals>>
  /\ probe' = [probe EXCEPT ![p] = NoProbe]
  /\ UNCHANGED <<primary, fallback, customGasLimit, call, up>>

-----------------------------------------------------------------------------
(* withFailover.                                                           *)

CallEnters(c) ==
  /\ call[c].phase = "none"
  /\ call' = [call EXCEPT ![c] = [phase |-> "first", host |-> current,
                                  attempted |-> current, attemptedPrimary |-> primary,
                                  reconf |-> FALSE]]
  /\ UNCHANGED <<failoverVars, probe, up>>

(* How fn(baseUrl) may settle. "network" is the class withFailover         *)
(* recognises (Failed to fetch, NetworkError, ECONNREFUSED, AbortError);   *)
(* "other" is an answer of the node that is an error, or a transport       *)
(* error it does not recognise.                                            *)
Outcomes(h) == IF up[h] THEN {"ok", "other"} ELSE {"network", "other"}

(* The primary the call captured, and the host it attempted, are the same. *)
\* Mutant: the primary is read again in the catch block.
AttemptedPrimaryReread(c) == call[c].attempted = primary

AttemptedPrimary(c) == call[c].attempted = call[c].attemptedPrimary

(* The promise settles for the caller: the call is over.                   *)
CallSettles(c, out) ==
  /\ \/ call[c].phase = "first" /\ ~(out = "network" /\ AttemptedPrimary(c))
     \/ call[c].phase = "second"
  /\ call' = [call EXCEPT ![c] = NoCall]
  /\ UNCHANGED <<failoverVars, probe, up>>

\* Mutant: the retry goes to the base URL captured at entry.
CallFailsOverSameHost(c, out) ==
  /\ call[c].phase = "first" /\ out = "network" /\ AttemptedPrimary(c)
  /\ SwitchToFallback
  /\ call' = [call EXCEPT ![c].phase = "second"]
  /\ UNCHANGED <<primary, fallback, customGasLimit, probe, up>>

(* The catch block: switch and start the retry on the now active host,     *)
(* with no await in between.                                               *)
CallFailsOver(c, out) ==
  /\ call[c].phase = "first" /\ out = "network" /\ AttemptedPrimary(c)
  /\ SwitchToFallback
  /\ call' = [call EXCEPT ![c].phase = "second", ![c].host = current']
  /\ UNCHANGED <<primary, fallback, customGasLimit, probe, up>>

-----------------------------------------------------------------------------
(* Environment: a host comes up or goes down.                              *)
HostFlips(h) ==
  /\ up' = [up EXCEPT ![h] = ~@]
  /\ UNCHANGED <<failoverVars, probe, call>>

Reconfigure == ResetNodeFailover \/ \E r \in ConfigCalls : SetNodeConfig(r)

Next ==
  \/ \E r \in ConfigCalls : SetNodeConfig(r)
  \/ ResetNodeFailover
  \/ \E p \in Ticks : RetryTick(p) \/ TickResumes(p)
  \/ \E p \in Checks : InitCheck(p) \/ InitResumes(p)
  \/ \E p \in Probes : ProbeAnswered(p)
  \/ \E c \in Calls : CallEnters(c)
  \/ \E c \in Calls : call[c].phase # "none" /\
       \E out \in Outcomes(call[c].host) : CallSettles(c, out) \/ CallFailsOver(c, out)
  \/ \E h \in Hosts : HostFlips(h)

(* The interval keeps firing while it is set, every health check is over   *)
(* within its timeout, and its continuation runs. Consumers and hosts owe  *)
(* nothing.                                                                *)
Fairness ==
  /\ WF_vars(\E p \in Ticks : RetryTick(p))
  /\ \A p \in Probes : WF_vars(ProbeAnswered(p))
  /\ \A p \in Ticks : WF_vars(TickResumes(p))
  /\ \A p \in Checks : WF_vars(InitResumes(p))

Spec == Init /\ [][Next]_vars

-----------------------------------------------------------------------------
(* Properties.                                                             *)

(* Every variable has its type, and the counter of live intervals stays a  *)
(* natural number (setInterval and clearInterval are paired).              *)
TypeOK ==
  /\ primary \in Hosts /\ fallback \in Hosts /\ current \in Hosts
  /\ customGasLimit \in GasLimits
  /\ retryTimer \in BOOLEAN
  /\ intervals \in Nat
  /\ probe \in [Probes -> Probe]
  /\ call \in [Calls -> Call]
  /\ up \in [Hosts -> BOOLEAN]

(* There is one live interval exactly while retryTimer holds a handle, and *)
(* only while the active host is a fallback distinct from the primary, so  *)
(* no interleaving of ticks, failing calls and reconfigurations leaks a    *)
(* timer or leaves one probing a primary that is already active.           *)
TimerDiscipline ==
  /\ intervals = IF retryTimer THEN 1 ELSE 0
  /\ retryTimer => current = fallback /\ fallback # primary

(* The active host is always one of the two configured ones, whatever was  *)
(* in flight when the configuration changed (getCurrentNodeStatus).        *)
ActiveIsConfigured == current \in {primary, fallback}

(* The header's promise "Retry primary every 30s when on fallback": away   *)
(* from the primary, the retry timer is set.                               *)
RetryingOnFallback == current # primary => retryTimer

(* withFailover retries a failure of the primary only: a call entered      *)
(* while the fallback was active is never sent twice, even if that host    *)
(* has become the primary while the call was in flight.                    *)
OnlyPrimaryFailuresRetry ==
  \A c \in Calls : call[c].phase = "second" => call[c].attempted = call[c].attemptedPrimary

(* "Retry on the now-active fallback": unless the hosts were reconfigured  *)
(* under the call (or are one and the same), the second attempt runs on    *)
(* the fallback and not on the host that has just failed.                  *)
RetryReachesFallback ==
  \A c \in Calls : call[c].phase = "second" /\ ~call[c].reconf /\ primary # fallback =>
     call[c].host = fallback /\ call[c].attempted = primary

(* What a probe or call captured at its start still describes the          *)
(* configuration, unless that changed since. Strengthens the invariants    *)
(* above to an inductive one.                                              *)
CapturesCurrent ==
  /\ \A p \in Probes : probe[p].phase # "none" /\ ~probe[p].reconf => probe[p].host = primary
  /\ \A c \in Calls : /\ call[c].phase # "none" /\ ~call[c].reconf =>
                           call[c].attemptedPrimary = primary
                      /\ call[c].phase = "first" => call[c].host = call[c].attempted

(* Every setNodeConfig call carries a URL that is accepted.                *)
AllUrlsValid == \A r \in ConfigCalls : r.selected = "custom" => r.origin # NoHost

IInv ==
  /\ TypeOK
  /\ TimerDiscipline
  /\ ActiveIsConfigured
  /\ OnlyPrimaryFailuresRetry
  /\ RetryReachesFallback
  /\ CapturesCurrent

FailedCall(c) == call[c].phase = "first" /\ call'[c].phase = "second"
Concluded(p, verdict) == probe[p].phase = verdict /\ probe'[p].phase = "none"

(* A reconfiguration aside, the active host leaves the primary only in the *)
(* step in which a call or the startup check finds that primary failing    *)
(* (evidence gathered before a reconfiguration may concern another host).  *)
TripStep ==
  current = primary /\ current' # primary /\ ~Reconfigure =>
    \/ \E c \in Calls : FailedCall(c) /\ (call[c].attempted = primary \/ call[c].reconf)
    \/ \E p \in Checks : Concluded(p, "unhealthy") /\ (probe[p].host = primary \/ probe[p].reconf)
TripIsJustified == [][TripStep]_vars

(* A reconfiguration aside, the active host returns to the primary only in *)
(* the step in which a retry tick found that primary healthy.              *)
RecoveryStep ==
  current # primary /\ current' = primary /\ ~Reconfigure =>
    \E p \in Ticks : Concluded(p, "healthy") /\ (probe[p].host = primary \/ probe[p].reconf)
RecoveryIsJustified == [][RecoveryStep]_vars
=============================================================================
