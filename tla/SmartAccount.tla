---------------------------- MODULE SmartAccount ----------------------------
(***************************************************************************)
(* src/guard/smartAccountAuth.ts over codexStrategy.ts. The chain accepts  *)
(* an operation of a Smart account when one of three guards is met. Which  *)
(* are fetched, any of them in vain, and analysed for the keys at hand;    *)
(* the user may paste some that are missing; execute is called with the    *)
(* keyset of the path chosen. Codex and account may change in between.     *)
(***************************************************************************)
EXTENDS CodexSigning

CONSTANTS
  Accounts,   \* the three guards a Smart account may have on chain
  Rotations,  \* bound: what each account may be changed to
  NoAccount   \* of an operation of a Standard account

Paths == 1..3   \* guard, sovereign, governor; 0 stands for -1

(* The fields of a guard's JSON; `keys` and `pred` are those of the keyset *)
(* that a keyset or a reference to one stands for.                         *)
Fields == {"cgName", "cgArgs", "cgPactId", "fun", "args", "keysetref", "keysetRef", "pred", "keys"}
RawGuard == [fields : SUBSET Fields, keys : SUBSET Keys,
             pred : StandardPredicates \cup StoicPredicates \cup {"another"}]
Null == [fields |-> {}, keys |-> {}, pred |-> "another"]

ASSUME AccountsAssumption ==
  /\ Accounts \subseteq [Paths -> RawGuard] /\ NoAccount \notin Accounts
  /\ Rotations \in [Accounts -> SUBSET Accounts]

-----------------------------------------------------------------------------
(* The analysis.                                                           *)

classifyGuardKind(g) ==
  CASE {"cgName", "cgArgs", "cgPactId"} \subseteq g.fields -> "capability"
    [] OTHER ->
  CASE {"fun", "args"} \subseteq g.fields -> "user"
    [] OTHER ->
  CASE {"keysetref", "keysetRef"} \cap g.fields # {} -> "keyset-ref"
    [] OTHER ->
  CASE {"pred", "keys"} \subseteq g.fields -> "keyset"
    [] OTHER -> "unknown"

(* The chain's guards are of one kind (the code calls `pred` with `cgName` *)
(* "impossible in practice"): a reference to a keyset is nothing else.     *)
ASSUME OneKindAssumption ==
  \A a \in Accounts, i \in Paths :
    "keysetref" \in a[i].fields => classifyGuardKind(a[i]) = "keyset-ref"

normalizeKeysetRef(g) ==
  IF "keysetref" \in g.fields THEN [g EXCEPT !.fields = @ \cup {"keysetRef"}] ELSE g

(* resolveGuard: a reference becomes its keyset, or null when that cannot  *)
(* be read. It sees the name the chain gives the field only.               *)
resolveGuard(g) ==
  IF "keysetref" \in g.fields THEN {[g EXCEPT !.fields = {"pred", "keys"}], Null}
                              ELSE {normalizeKeysetRef(g)}

(* What the consumer may have of a guard: resolved or not, or nothing.     *)
Fetched(g) == {g, Null} \cup resolveGuard(g)

extractKeysetFromGuard(g) == [keys |-> g.keys, pred |-> g.pred]
KeyBased(g) == classifyGuardKind(g) = "keyset"

SatisfiedPaths(guards, pubs, pasted) ==
  {i \in Paths : KeyBased(guards[i]) /\ Satisfied(extractKeysetFromGuard(guards[i]), pubs, pasted)}
SignablePaths(guards) == {i \in Paths : KeyBased(guards[i])}

First(S) == IF S = {} THEN 0 ELSE CHOOSE i \in S : \A j \in S : i <= j

\* Mutant: the first path that has keys, satisfied or not.
FirstSatisfiedKeyBased(guards, pubs, pasted) == First(SignablePaths(guards))

firstSatisfied(guards, pubs, pasted) == First(SatisfiedPaths(guards, pubs, pasted))

firstSignableButUnsatisfied(guards, pubs, pasted) ==
  First(SignablePaths(guards) \ SatisfiedPaths(guards, pubs, pasted))

-----------------------------------------------------------------------------
VARIABLES
  account,  \* environment: the guards on chain of each operation's account
  auth      \* the analysis of each operation that the consumer goes by

smartVars == <<signingVars, account, auth>>

(* keysets - that of the path chosen, if there is one                      *)
(* pasted  - resolvedManualKeys, kept from one analysis to the next        *)
(* holds   - history: the path was found satisfied, and since then neither *)
(*           the account was rotated nor the codex lost a key              *)
NoAuth == [keysets |-> {}, pasted |-> {}, holds |-> FALSE]

SmartInit ==
  /\ XsInit
  /\ account \in [Operations -> Accounts \cup {NoAccount}]
  /\ auth = [o \in Operations |-> NoAuth]

IsSmart(o) == account[o] # NoAccount

(* enforce-one, by the chain's count of signatures. A capability or user   *)
(* guard is not met by signatures.                                         *)
EnforceOne(guards, signers) ==
  \E i \in Paths : /\ classifyGuardKind(guards[i]) \in {"keyset", "keyset-ref"}
                   /\ MetBy(extractKeysetFromGuard(guards[i]), signers)

(* analyzeSmartAccountAuthPaths, for what has been fetched.                *)
Analyse(o) ==
  /\ IsSmart(o) /\ At(o, "idle")   \* bound: one execute for a Smart account
  /\ \E guards \in [Paths -> UNION {Fetched(account[o][i]) : i \in Paths}] :
       LET pasted == auth[o].pasted
           sat == firstSatisfied(guards, codex, pasted)
           open == firstSignableButUnsatisfied(guards, codex, pasted)
           Chosen(i) == [keysets |-> IF i = 0 THEN {} ELSE {extractKeysetFromGuard(guards[i])},
                         pasted |-> pasted, holds |-> sat # 0]
       IN /\ \A i \in Paths : guards[i] \in Fetched(account[o][i])
          /\ auth' = [auth EXCEPT ![o] = Chosen(IF sat # 0 THEN sat ELSE open)]
  /\ UNCHANGED <<signingVars, account>>

(* The user pastes a missing key of the path; the analysis is made again.  *)
KeyPasted(o, k) ==
  /\ At(o, "idle") /\ ~auth[o].holds
  /\ \E ks \in auth[o].keysets : k \in ks.keys \ codex
  /\ auth' = [auth EXCEPT ![o] = [NoAuth EXCEPT !.pasted = auth[o].pasted \cup {k}]]
  /\ UNCHANGED <<signingVars, account>>

(* execute with the path's keyset alone: it is AND-required over guards.   *)
ExecutePath(o, canAsk) ==
  /\ auth[o].keysets # {}
  /\ Execute(o, [NoRequest EXCEPT !.guards = auth[o].keysets, !.pasted = auth[o].pasted,
                                  !.canAsk = canAsk])
  /\ auth' = [auth EXCEPT ![o].keysets = {}]
  /\ UNCHANGED account

(* Somebody rotates a guard of the account, or its sovereign.              *)
Rotated(o) ==
  /\ IsSmart(o)
  /\ \E a \in Rotations[account[o]] : account' = [account EXCEPT ![o] = a]
  /\ auth' = [auth EXCEPT ![o].holds = FALSE]
  /\ UNCHANGED signingVars

(* The codex is listed by execute, and what it loses later is another      *)
(* matter.                                                                 *)
CodexEdited(k) ==
  /\ CodexChanges(k)
  /\ auth' = [o \in Operations |->
       [auth[o] EXCEPT !.holds = @ /\ (k \in codex' \/ run[o].phase \notin {"idle", "listing"})]]
  /\ UNCHANGED account

(* What the node enforces is the account's guards, not those of the call.  *)
Simulated(o) ==
  IF IsSmart(o) THEN SimulationAnsweredIf(o, EnforceOne(account[o], Signers(o)))
                ELSE SimulationAnswered(o)

SmartNext ==
  \/ \E o \in Operations :
       \/ Analyse(o) \/ \E k \in Keys : KeyPasted(o, k)
       \/ \E canAsk \in BOOLEAN : ExecutePath(o, canAsk)
       \/ Rotated(o)
  \/ \E k \in Keys : CodexEdited(k)
  \/ /\ \E o \in Operations :
          \/ ~IsSmart(o) /\ \E r \in Requests : Execute(o, r)
          \/ Resolver(o) \/ Local(o)
          \/ Simulated(o) \/ SimulationTimesOut(o)
          \/ SubmitAnswered(o) \/ SubmitThrows(o) \/ SubmitTimesOut(o)
          \/ \E n \in 1..MaxRuns : TxMoves(o, n)
     /\ UNCHANGED <<account, auth>>

SmartSpec == SmartInit /\ [][SmartNext]_smartVars

SmartFairSpec ==
  /\ SmartSpec
  /\ \A o \in Operations : /\ WF_signingVars(Resolver(o)) /\ WF_signingVars(Local(o))
                           /\ WF_signingVars(SimulationTimesOut(o))
                           /\ WF_signingVars(SubmitTimesOut(o))

-----------------------------------------------------------------------------
(* Properties.                                                             *)

(* "A satisfiable path exists": the signers collected for the first path   *)
(* the analysis found satisfied are accepted by the chain, unless the      *)
(* account was rotated or the codex had lost a key when execute listed it. *)
(* An unresolved reference or a guard that could not be read never takes   *)
(* the place of one that can be met. (A keyset with fewer keys than its    *)
(* predicate counts does: the analysis calls it satisfied.)                *)
ChosenPathAccepted ==
  \A o \in Operations :
    /\ auth[o].holds /\ run[o].phase \in {"payer", "simulating", "signing", "submitting"}
    /\ \A g \in Request(o).guards : ~Undersized(g)
    => EnforceOne(account[o], run[o].pureSigningPubs)
=============================================================================
