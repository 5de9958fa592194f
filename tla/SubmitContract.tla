--------------------------- MODULE SubmitContract ---------------------------
(* What a caller of getFailoverClient(chain).submit may rely on, with no   *)
(* nodes, attempts or timers in sight: one request key per call, a success *)
(* only for a key the chain holds, and any failure without a promise about *)
(* the key.                                                                *)
CONSTANTS Calls, RequestKeys, NoKey

VARIABLES
  status,   \* of each call: "idle", "pending" or how its promise settled
  key,      \* the request key the call was handed
  known,    \* request keys the mempool or the chain holds
  handed    \* request keys callers have handed over so far

contractVars == <<status, key, known, handed>>

Failures == {"timeout", "network", "other"}

Init ==
  /\ status = [c \in Calls |-> "idle"]
  /\ key = [c \in Calls |-> NoKey]
  /\ known = {}
  /\ handed = {}

Begin(c, k) ==
  /\ status[c] # "pending"
  /\ status' = [status EXCEPT ![c] = "pending"]
  /\ key' = [key EXCEPT ![c] = k]
  /\ handed' = handed \cup {k}
  /\ UNCHANGED known

(* A node takes the transaction, at any time after it was handed over:     *)
(* while the call is pending or long after it failed.                      *)
Accept(k) ==
  /\ k \in handed
  /\ known' = known \cup {k}
  /\ UNCHANGED <<status, key, handed>>

Succeed(c) ==
  /\ status[c] = "pending" /\ key[c] \in known
  /\ status' = [status EXCEPT ![c] = "ok"]
  /\ UNCHANGED <<key, known, handed>>

Fail(c, why) ==
  /\ status[c] = "pending"
  /\ status' = [status EXCEPT ![c] = why]
  /\ UNCHANGED <<key, known, handed>>

(* The caller reuses the slot for something else.                          *)
Forget(c) ==
  /\ status[c] # "pending"
  /\ status' = [status EXCEPT ![c] = "idle"]
  /\ key' = [key EXCEPT ![c] = NoKey]
  /\ UNCHANGED <<known, handed>>

Next ==
  \/ \E c \in Calls : \/ \E k \in RequestKeys : Begin(c, k)
                      \/ Succeed(c) \/ Forget(c)
                      \/ \E why \in Failures : Fail(c, why)
  \/ \E k \in RequestKeys : Accept(k)

Spec == Init /\ [][Next]_contractVars
=============================================================================
