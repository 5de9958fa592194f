---------------------------- MODULE UrStoaTransfer ----------------------------
(***************************************************************************)
(* src/interactions/urStoaFunctions.ts: executeNativeUrStoaTransfer, the   *)
(* executor that verifies what it has signed. Keys whose signatures do not *)
(* verify are dropped, and the transaction is built and signed once more   *)
(* for those that are left. (Its reads, gas limit and failover are those   *)
(* of the other executors: see Executors.)                                 *)
(***************************************************************************)
EXTENDS Guards

CONSTANTS
  Keys,
  Requests           \* arguments the executor is called with

(* `guard` is the sender's, `senderGuardKeys` the keypairs of it that the  *)
(* caller holds; the payment key may be among them.                        *)
ASSUME KeysAssumption == IsFiniteSet(Keys)
ASSUME RequestsAssumption ==
  \A r \in Requests : /\ r.guard.keys \in SUBSET Keys
                      /\ r.paymentKey \in Keys
                      /\ r.senderGuardKeys \subseteq r.guard.keys

VARIABLES
  bad,       \* environment: keys whose signatures do not verify
  request,   \* the arguments of the call
  phase,
  signers,   \* of the transaction built last
  outcome    \* how the promise settled

urStoaVars == <<bad, request, phase, signers, outcome>>

Failures == {"simulation", "sign", "payment key", "guard keys", "still invalid", "submit"}

UInit ==
  /\ bad \in SUBSET Keys
  /\ request \in Requests
  /\ phase = "idle"
  /\ signers = {}
  /\ outcome = "none"

Throws(why) == phase' = "settled" /\ outcome' = why

(* The payment key and one guard key, if there is another one. Which one   *)
(* is first in the list is left open.                                      *)

FirstSigners(r) ==
  LET pure == r.senderGuardKeys \ {r.paymentKey}
  IN IF pure = {} THEN {{r.paymentKey}} ELSE {{r.paymentKey, k} : k \in pure}

(* The executor is called: build, and simulate.                            *)
Begin(r) ==
  /\ phase \in {"idle", "settled"}
  /\ request' = r
  /\ signers' \in FirstSigners(r)
  /\ phase' = "simulating" /\ outcome' = "none"
  /\ UNCHANGED bad

(* The simulation passes only if the sender's guard is met.                *)
SimulationPasses ==
  /\ phase = "simulating"
  /\ MetBy(request.guard, signers)
  /\ phase' = "signing"
  /\ UNCHANGED <<bad, request, signers, outcome>>

SimulationFails ==
  /\ phase = "simulating"
  /\ Throws("simulation")
  /\ UNCHANGED <<bad, request, signers>>

(* Signing throws (a wrong password, for example), at the first time or    *)
(* the second.                                                             *)
SigningThrows ==
  /\ phase \in {"signing", "resigning"}
  /\ Throws("sign")
  /\ UNCHANGED <<bad, request, signers>>

(* Signed; the signatures that do not verify are found.                    *)
Invalid == signers \cap bad

ValidGuardKeys == request.senderGuardKeys \ Invalid

\* Mutant: one guard key is enough, as in the first transaction.
RebuiltSignersOne == {request.paymentKey} \cup
  (IF ValidGuardKeys = {} THEN {} ELSE {CHOOSE k \in ValidGuardKeys : TRUE})

RebuiltSigners == {request.paymentKey} \cup ValidGuardKeys

\* Mutant: it rebuilds without looking at what is left.
SignedUnchecked ==
  /\ phase = "signing"
  /\ \/ Invalid = {} /\ phase' = "submitting" /\ UNCHANGED <<signers, outcome>>
     \/ request.paymentKey \in Invalid /\ Throws("payment key") /\ UNCHANGED signers
     \/ /\ Invalid # {} /\ request.paymentKey \notin Invalid
        /\ signers' = RebuiltSigners
        /\ phase' = "resigning"
        /\ UNCHANGED outcome
  /\ UNCHANGED <<bad, request>>

Signed ==
  /\ phase = "signing"
  /\ \/ Invalid = {} /\ phase' = "submitting" /\ UNCHANGED <<signers, outcome>>
     \/ request.paymentKey \in Invalid /\ Throws("payment key") /\ UNCHANGED signers
     \/ /\ Invalid # {} /\ request.paymentKey \notin Invalid /\ ValidGuardKeys = {}
        /\ Throws("guard keys")
        /\ UNCHANGED signers
     \/ /\ Invalid # {} /\ request.paymentKey \notin Invalid /\ ValidGuardKeys # {}
        /\ signers' = RebuiltSigners
        /\ phase' = "resigning"
        /\ UNCHANGED outcome
  /\ UNCHANGED <<bad, request>>

(* The second transaction is signed, by keys not tried before among others.*)
SignedAgain ==
  /\ phase = "resigning"
  /\ \/ Invalid = {} /\ phase' = "submitting" /\ UNCHANGED outcome
     \/ Invalid # {} /\ Throws("still invalid")
  /\ UNCHANGED <<bad, request, signers>>

SubmitSettles ==
  /\ phase = "submitting"
  /\ \E why \in {"ok", "submit"} : Throws(why)
  /\ UNCHANGED <<bad, request, signers>>

Step == SimulationPasses \/ SimulationFails \/ SigningThrows \/ Signed \/ SignedAgain \/ SubmitSettles

UNext == Step \/ \E r \in Requests : Begin(r)

USpec == UInit /\ [][UNext]_urStoaVars

-----------------------------------------------------------------------------
(* Properties.                                                             *)

(* The locals have their types; the payment key always signs.              *)
UTypeOK ==
  /\ bad \subseteq Keys /\ signers \subseteq Keys
  /\ request \in Requests
  /\ phase \in {"idle", "simulating", "signing", "resigning", "submitting", "settled"}
  /\ outcome \in Failures \cup {"none", "ok"}
  /\ phase # "idle" => request.paymentKey \in signers

(* Dropping keys leaves a guard that any one key satisfies satisfied.      *)
AnyKeyGuardsMet ==
  phase = "submitting" /\ Required(request.guard) <= 1 => MetBy(request.guard, signers)

(* Every signature submitted verifies, whichever keys were dropped and     *)
(* whichever came in by the rebuild; and what is submitted misses the      *)
(* guard only if the keys the caller holds and whose signatures verify     *)
(* would miss it, all together.                                            *)
RebuildMeetsWhatItCan ==
  phase = "submitting" =>
    /\ Invalid = {}
    /\ \/ MetBy(request.guard, signers)
       \/ ~MetBy(request.guard, ({request.paymentKey} \cup request.senderGuardKeys) \ bad)
=============================================================================
