------------------------------- MODULE Reads -------------------------------
(***************************************************************************)
(* The reads of src/reads and src/interactions. A read asks its question   *)
(* through pactRead, that is through the reader installed by setPactReader *)
(* - by default rawCalibratedDirtyRead, over the failover state or, with a *)
(* pactUrl, at that one node - and turns what comes back into a value, a   *)
(* placeholder, null or an exception. How it does that is recorded for     *)
(* each as a row of a table; what it asks for does not matter here.        *)
(*                                                                         *)
(* Nodes show the chain at heights of their own. At height 0 the row that  *)
(* is read is not there; each height after that changes it.                *)
(***************************************************************************)
EXTENDS NodeFailover

CONSTANTS
  Workloads,   \* bound: which reads are asked through each slot
  MaxHeight,   \* bound: how far the chain grows
  NoRead       \* no read: a slot that has not been used yet

ASSUME HeightAssumption == MaxHeight \in Nat

Heights == 0..MaxHeight

(* What comes back: the value; the default of a (try default ...); success *)
(* with data of another shape; status "failure"; no result; an exception.  *)
Kinds == {"data", "absent", "odd", "failure", "empty", "rejects"}

(* What becomes of it. A "default" is a placeholder such as [], "0" or     *)
(* false, which the chain could have answered too. Of what a row makes of  *)
(* odd data, the table has the one that misleads most.                     *)
Results == {"value", "default", "null", "throws"}

(* asks   - a "row" that fails when it is not there, a "try" around one,   *)
(*          or a "view" that is always there                               *)
(* pinned - the read passes a pactUrl                                      *)
(* then   - a guard that is a keyset reference is looked up in turn        *)
(* caches - the answer is kept as the balance of the wallet                *)
Read == [asks : {"row", "try", "view"}, on : [Kinds -> Results], pinned : BOOLEAN,
         then : {"none", "keyset", "keyset-twice"}, caches : BOOLEAN]

ASSUME WorkloadAssumption ==
  \A w \in Workloads : w \in [Calls -> SUBSET Read] /\ \A c \in Calls : NoRead \notin w[c]

-----------------------------------------------------------------------------
(* The shapes most reads have.                                             *)

Shape(absent, odd, failure, empty, rejects) ==
  [asks |-> "view", pinned |-> FALSE, then |-> "none", caches |-> FALSE,
   on |-> [data |-> "value", absent |-> absent, odd |-> odd, failure |-> failure,
           empty |-> empty, rejects |-> rejects]]

Caught == Shape("default", "value", "null", "null", "null")
Checked == Shape("default", "null", "null", "null", "null")
Filled == Shape("default", "default", "default", "default", "default")
Thrown == Shape("default", "value", "throws", "throws", "throws")
ThrownNull == Shape("default", "null", "throws", "throws", "throws")
Uncaught == Shape("default", "value", "null", "throws", "throws")

(* Number(null), Number("") and resolvePactDecimalLocal(null) are 0.         *)
CheckedNumber == [Checked EXCEPT !.on.odd = "default"]

Row(r) == [r EXCEPT !.asks = "row"]
Try(r) == [r EXCEPT !.asks = "try"]

-----------------------------------------------------------------------------
(* infoOneFunctions.ts                                                     *)
getTransferPreview == Caught
getCoilPreviewInfo == Caught
getCurlPreviewInfo == Caught
getBrumatePreviewInfo == Caught
getConstrictPreviewInfo == Caught
getSublimateInfo == Caught
getFirestarterInfo == Caught
getTransferInfo == Caught
getRecoveryPrimordial == Caught
getColdRecoveryInfo == Caught
getDirectRecoveryInfo == Caught
getMaxRecoveryAmount == Caught
getCullInfo == Shape("default", "value", "null", "null", "throws")
getHibernatedNoncesDisplay == Checked
getAwakeInfo == Caught
getSlumberInfo == Caught
getClearDispoInfo == Caught
getInfoAddLiquidity == Caught
getInfoFuel == Caught
getInfoSinglePoolSwap == Caught
getInfoMultiPoolSwap == Caught
getInfoRemoveLiquidity == Caught

-----------------------------------------------------------------------------
(* dexFunctions.ts                                                         *)
getPoolIds == ThrownNull
getPrimordialPool == Caught
getSWPairGeneralInfo == Thrown
getSWPairDashboardInfo == ThrownNull
getPoolPreviewData == ThrownNull
getSWPairMultiDashboardInfo == ThrownNull
getSwpairInternalDashboard == Thrown
calculateDirectSwap == Thrown
calculateInverseSwap == Thrown
calculateDirectSwapB == Thrown
calculateInverseSwapB == Thrown
getCappedInverseAmount == Thrown
getUserAccountSupplies == Thrown
getSlippageBounds == Thrown
getAllPoolTokens == Shape("default", "default", "throws", "throws", "throws")
getSmartSwapHopper == Thrown
getSmartSwapSlippageBounds == Thrown
getTokenDecimals == Checked
getPoolTotalFee == CheckedNumber
describeModule == Caught
getSWPPrincipals == Filled
getSWPSpawnLimit == Caught
getSWPInactiveLimit == Caught

(* The native entry; the frozen one is asked with (try false ...), whose   *)
(* default means that there is none.                                       *)
getTrueFungibleLPEntry == Checked
getFrozenLPEntry == Try([Checked EXCEPT !.on.absent = "null"])
getLPEntries == {getTrueFungibleLPEntry, getFrozenLPEntry}   \* side by side

getOwnedSwapPairs == Filled
getSwpairManagementPoolSettings == Caught
getSwpairManagementFeeSettings == Caught
getUsagePrice == Checked
getBranding == Caught
getTrueFungibleHeader == Checked
getTrueFungibleEntries == Checked
getNativeLPEntries == Checked
getFrozenLPEntries == Checked
getSwpairFromLpId == Checked
getSwpairsFromLpIds == Try([Checked EXCEPT !.on.absent = "null"])
getTrueFungibleButtonState == Checked
getOrtoFungibleHeader == Checked
getOrtoFungibleEntries == Checked
getOrtoFungibleSleepingLPEntries == Checked
getOrtoFungibleNoncesSupplies == Filled
getOrtoFungibleNoncesMetaDatas == Checked
getOrtofungibleButtonState == Checked
getHibernatingNonceData == Checked
getCollectablesHeader == Checked
getSemifungibleEntries == Checked
getNonfungibleEntries == Checked
getCollectableNonceData == Filled
getCollectableNonceSupply == Filled
getAccountNoncesSupplies == Filled
getCollectableSets == Filled
filterNoncesByClass == Filled
filterNoncesByClasses == Filled
getCollectablesButtonState == Checked

-----------------------------------------------------------------------------
(* ouroFunctions.ts; its other names of urStoaFunctions, infoOneFunctions  *)
(* and coilFunctions carry a suffix.                                       *)
getAccountSelectorData == Shape("default", "value", "default", "default", "throws")
getStoaAccountSelectorData == getAccountSelectorData
getAccountOverview == Shape("default", "value", "null", "null", "throws")
isAdministrativePause == Uncaught
kadenaLedger == Row([Uncaught EXCEPT !.on.failure = "value"])   \* the failure object
getKadenaAccountOwner == Row(Uncaught)
readKeyset == Row(Uncaught)
resolveGuard == readKeyset
getKadenaAccountGuard == [Row(Uncaught) EXCEPT !.then = "keyset"]

(* isActive is whether the owner is not null; the guard is asked for side  *)
(* by side.                                                                *)
getOuronetKdaDetails ==
  {[getKadenaAccountOwner EXCEPT !.on.failure = "default"], getKadenaAccountGuard}

primordialPrices == Uncaught
eliteAccount == Row(Uncaught)
filterKeysForInfo == Uncaught
usagePrice == Uncaught
getHeaderData == Uncaught
getPrimordials == Shape("default", "throws", "null", "null", "throws")
getSublimatPreview == Caught
getCompressPreview == Checked
getTotalMBCost == Caught
getMaxBuyMovieBooster == CheckedNumber
getSparksBalance == Caught
getCoilPreview_ouro == Caught
\* Mutant: a failing read is a balance of "0", as it was before v3.0.0.
getIgnisBalanceZero == Filled
getIgnisBalance == Caught
getAccountTokenSupply == Caught
getOuroDispoCapacity == Caught
getVirtualOuro == Caught
getRotateKadenaInfo == Caught
getStoaPriceUSD == CheckedNumber
getUnwrapStoaTarget == Row(Caught)

(* (try false ...): anything but a balance is "does not exist".            *)
checkCoinAccountExists_ouro == Try(Shape("default", "default", "default", "default", "null"))

getDPTFIssueInfo == Caught
getSublimateInfo_ouro == Caught
getCompressInfo == Caught
getUnwrapStoaInfo == Caught
getDPTFMinMove == Checked
checkUrStoaAccountExists == Try(Checked)
getUnwrapUrStoaInfo == Caught

-----------------------------------------------------------------------------
(* urStoaFunctions.ts                                                      *)
getUrStoaBalance == Try(Checked)
describeKeyset_urStoa == Row(Checked)

(* {exists: false} unless there is a guard; a keyset it refers to is asked *)
(* for a second time when the first answer is of no use.                   *)
getUrStoaGuard == [Try(Shape("default", "default", "null", "null", "null"))
                                EXCEPT !.then = "keyset-twice"]
checkCoinAccountExists_urStoa == Try([Checked EXCEPT !.on.absent = "null"])

(* addLiquidityFunctions.ts. A deviation above the maximum is a failure    *)
(* whose text is parsed into {isValid: false}: an answer like that of try. *)
generateLiquidityData == Thrown
validateLiquidityDeviation == Try(Shape("default", "null", "throws", "throws", "throws"))
calculateBalancedLiquidity == Shape("default", "throws", "throws", "throws", "throws")
getLPTypeInfo == Shape("default", "default", "default", "default", "null") \* each flag
getBalancedLiquidity == Checked
getSortLiquidity == Caught
getLiquidityData == Caught
validateLiquidity == Try(Shape("default", "value", "default", "default", "null"))

(* The remaining files. getHibernateFee falls back to a local formula.     *)
getCoilPreviewGeneric == Thrown
getCoilPreview == getCoilPreviewGeneric
getAurynCoilPreview == getCoilPreviewGeneric
getWkdaCoilPreview == getCoilPreviewGeneric
getHibernateFee == Shape("default", "value", "default", "default", "default")
getKpayData == Caught
getKpayAmountCosts == Caught
getKpayAcquireCapabilities == Caught
getDeployStandardAccountInfoOnly == Caught
getDeployStandardAccountInfo == Caught
getRotateGuardInfo == Caught
describeKeyset == Row(Thrown)
getWrapStoaInfo == Caught
getWrapperPaymentKey == Row(Caught)
getPaymentKeyBalance == Try(Caught)
getWrapUrStoaInfo == Caught
getBalance == Row(Shape("default", "value", "default", "throws", "throws"))
accountDescription == Row(Shape("default", "value", "default", "default", "throws"))

(* The two that pin the active node's URL. What getBalanceOnChain adds to  *)
(* {exists: false} when the call rejects is an error text.                 *)
getBalanceOnChain == [Row(Shape("default", "value", "default", "default", "default"))
                                EXCEPT !.pinned = TRUE]
simulateTransaction == [Shape("default", "value", "default", "default", "default")
                                EXCEPT !.pinned = TRUE]

(* KadenaWallet.getBalance, with getBalance as the resolver it is given.   *)
KadenaWalletGetBalance == [getBalance EXCEPT !.caches = TRUE]

-----------------------------------------------------------------------------
VARIABLES
  workload,  \* environment: the reads that are asked
  reader,    \* _reader of pactReader.ts: the raw one or a consumer's
  seen,      \* environment: the height of the chain each node shows
  read,      \* the reads in flight and the last one settled in each slot
  balance    \* the answer KadenaWallet.balance holds

readVars == <<workload, reader, seen, read, balance, vars>>

(* What a node showed when it answered; NoHost when none did (there is no  *)
(* answer yet, an exception, an answer of another reader).                 *)
View == [host : Hosts \cup {NoHost}, height : Heights]
NoView == [host |-> NoHost, height |-> 0]

Answer == [kind : Kinds, view : View]
Rejected == [kind |-> "rejects", view |-> NoView]

(* phase  - asked of a reader; answered by the node, not yet delivered;    *)
(*          next: delivered, and a lookup is due; settled for the caller   *)
(* leg    - 1 for the question itself, 2 and 3 for lookups                 *)
(* answer - the node's, on its way; told: the answer to the question;      *)
(*          heard: history, the kind of the latest answer, to a lookup too *)
(* since  - history: what each node showed when the read began             *)
Slot == [ask : Read \cup {NoRead}, phase : {"idle", "asked", "answered", "next", "settled"},
         leg : 1..3, via : {"raw", "consumer"}, pin : Hosts \cup {NoHost},
         since : [Hosts -> Heights], answer : View, told : Answer,
         heard : Kinds, result : Results \cup {"none"}]

IdleSlot == [ask |-> NoRead, phase |-> "idle", leg |-> 1, via |-> "raw", pin |-> NoHost,
             since |-> [h \in Hosts |-> 0], answer |-> NoView, told |-> Rejected,
             heard |-> "rejects", result |-> "none"]

ReadsInit ==
  /\ Init
  /\ up = [h \in Hosts |-> TRUE]   \* plays no part: any attempt may die
  /\ workload \in Workloads
  /\ reader = "raw"
  /\ seen \in [Hosts -> Heights]
  /\ read = [c \in Calls |-> IdleSlot]
  /\ balance = NoView

-----------------------------------------------------------------------------
(* Asking. pactRead looks the reader up when it is called. The raw reader  *)
(* enters withFailover, unless a pactUrl is given: getPactUrl, the URL of  *)
(* the node that is active at that moment.                                 *)

\* Mutant: a pinned read goes through withFailover too.
AskUnpinned(c, slot) ==
  /\ read' = [read EXCEPT ![c] = [slot EXCEPT
       !.phase = "asked", !.via = reader,
       !.pin = IF slot.ask.pinned THEN current ELSE NoHost]]
  /\ IF reader = "raw" THEN CallEnters(c) ELSE UNCHANGED vars
  /\ UNCHANGED <<workload, reader, seen, balance>>

pactRead(c, slot) ==
  /\ read' = [read EXCEPT ![c] = [slot EXCEPT
       !.phase = "asked", !.via = reader,
       !.pin = IF slot.ask.pinned THEN current ELSE NoHost]]
  /\ IF reader = "raw" /\ ~slot.ask.pinned THEN CallEnters(c) ELSE UNCHANGED vars
  /\ UNCHANGED <<workload, reader, seen, balance>>

Begin(c, p) ==
  /\ read[c].phase \in {"idle", "settled"}
  /\ pactRead(c, [IdleSlot EXCEPT !.ask = p, !.since = seen])

(* (describe-keyset ...) of the guard that has been read.                  *)
NextLeg(c) ==
  /\ read[c].phase = "next"
  /\ pactRead(c, [read[c] EXCEPT !.leg = @ + 1])

-----------------------------------------------------------------------------
(* What the caller gets.                                                   *)

(* The slot at the time the answer to its latest question is delivered;    *)
(* what the nodes that have not answered showed is forgotten.              *)
Heard(c, a) ==
  LET told == IF read[c].leg = 1 THEN a ELSE read[c].told
  IN [read[c] EXCEPT !.answer = NoView, !.via = "raw", !.told = told,
                     !.heard = a.kind,
                     !.since = [h \in Hosts |-> IF h = told.view.host THEN @[h] ELSE 0]]

(* The promise settles. KadenaWallet.getBalance keeps what it resolved to. *)
Settles(c, a, result) ==
  /\ read' = [read EXCEPT ![c] = [Heard(c, a) EXCEPT !.phase = "settled", !.result = result]]
  /\ balance' = IF read[c].ask.caches /\ result # "throws" THEN a.view ELSE balance

LooksUp(c, a) ==
  /\ read' = [read EXCEPT ![c] = [Heard(c, a) EXCEPT !.phase = "next"]]
  /\ UNCHANGED balance

(* The read resumes with answer a. A guard that is a keyset reference is   *)
(* looked up: getKadenaAccountGuard hands on what readKeyset makes of it;  *)
(* getUrStoaGuard asks for it twice, or once for another kind of reference,*)
(* and then settles for {isKeyset: false}.                                 *)
Resumes(c, a) ==
  LET slot == read[c]
      then == slot.ask.then
  IN /\ \/ slot.leg = 1 /\ Settles(c, a, slot.ask.on[a.kind])
        \/ slot.leg = 1 /\ then # "none" /\ a.kind = "data" /\ LooksUp(c, a)
        \/ slot.leg > 1 /\ then = "keyset" /\ Settles(c, a, readKeyset.on[a.kind])
        \/ slot.leg > 1 /\ then = "keyset-twice" /\ a.kind = "data" /\ Settles(c, a, "value")
        \/ slot.leg > 1 /\ then = "keyset-twice" /\ a.kind # "data" /\ Settles(c, a, "default")
        \/ slot.leg = 2 /\ then = "keyset-twice" /\ a.kind # "data" /\ LooksUp(c, a)
     /\ UNCHANGED <<workload, reader, seen>>

-----------------------------------------------------------------------------
(* Answers.                                                                *)

Waiting(c) == read[c].phase \in {"asked", "answered"} /\ read[c].via = "raw"
Unpinned(c) == read[c].pin = NoHost

(* The node that works on the question: the pinned one, or the host that   *)
(* the attempt of withFailover runs against.                               *)
Asked(c) == IF Unpinned(c) THEN call[c].host ELSE read[c].pin

(* What a node whose chain has height n may say. A lookup is a row that    *)
(* need not be there.                                                      *)
Replies(slot, n) ==
  LET asks == IF slot.leg = 1 THEN slot.ask.asks ELSE "row"
  IN {"odd", "failure", "empty"}
       \cup (IF n > 0 \/ asks = "view" THEN {"data"} ELSE {})
       \cup (IF n = 0 /\ asks = "try" THEN {"absent"} ELSE {})

\* Mutant: a cache in front of the node answers with an older state.
NodeAnswersCached(c) ==
  /\ Waiting(c) /\ read[c].phase = "asked"
  /\ \E n \in 0..seen[Asked(c)] :
       read' = [read EXCEPT ![c].phase = "answered",
                            ![c].answer = [host |-> Asked(c), height |-> n]]
  /\ UNCHANGED <<workload, reader, seen, balance, vars>>

NodeAnswers(c) ==
  /\ Waiting(c) /\ read[c].phase = "asked"
  /\ read' = [read EXCEPT ![c].phase = "answered",
                          ![c].answer = [host |-> Asked(c), height |-> seen[Asked(c)]]]
  /\ UNCHANGED <<workload, reader, seen, balance, vars>>

Delivered(c) ==
  /\ Waiting(c) /\ read[c].phase = "answered"
  /\ IF Unpinned(c) THEN CallSettles(c, "ok") ELSE UNCHANGED vars
  /\ \E k \in Replies(read[c], read[c].answer.height) :
       Resumes(c, [kind |-> k, view |-> read[c].answer])

(* The attempt ends by its deadline or is refused, a late answer is not    *)
(* heard. withFailover asks the fallback; otherwise the read rejects.      *)
\* Mutant: the pinned path runs without a timeout.
AttemptDiesPinnedHangs(c) ==
  /\ Waiting(c) /\ Unpinned(c)
  /\ \/ /\ CallFailsOver(c, "network")
        /\ read' = [read EXCEPT ![c].phase = "asked", ![c].answer = NoView]
        /\ UNCHANGED <<workload, reader, seen, balance>>
     \/ CallSettles(c, "network") /\ Resumes(c, Rejected)

AttemptDies(c) ==
  /\ Waiting(c)
  /\ \/ /\ Unpinned(c) /\ CallFailsOver(c, "network")
        /\ read' = [read EXCEPT ![c].phase = "asked", ![c].answer = NoView]
        /\ UNCHANGED <<workload, reader, seen, balance>>
     \/ Unpinned(c) /\ CallSettles(c, "network") /\ Resumes(c, Rejected)
     \/ ~Unpinned(c) /\ UNCHANGED vars /\ Resumes(c, Rejected)

(* The attempt fails in a way withFailover does not recognise.             *)
NodeErrors(c) ==
  /\ Waiting(c) /\ Unpinned(c)
  /\ CallSettles(c, "other")
  /\ Resumes(c, Rejected)

(* Another reader answers from its cache, from a node, or throws.          *)
ConsumerAnswers(c) ==
  /\ read[c].phase = "asked" /\ read[c].via = "consumer"
  /\ \E k \in Kinds : /\ k = "absent" => read[c].leg = 1 /\ read[c].ask.asks = "try"
                      /\ Resumes(c, [kind |-> k, view |-> NoView])
  /\ UNCHANGED vars

-----------------------------------------------------------------------------
(* Around them.                                                            *)

(* setPactReader throws when it is not given a function. Reads in flight   *)
(* stay with the reader they were handed to.                               *)
\* Mutant: the new reader takes them over.
setPactReaderTakesOver(r) ==
  /\ r # "not-a-function"
  /\ reader' = r
  /\ read' = [c \in Calls |-> IF read[c].phase = "asked" THEN [read[c] EXCEPT !.via = r]
                                                         ELSE read[c]]
  /\ UNCHANGED <<workload, seen, balance, vars>>

setPactReader(r) ==
  /\ r # "not-a-function"
  /\ reader' = r
  /\ UNCHANGED <<workload, seen, read, balance, vars>>

(* Nodes show new blocks, each in its own time.                            *)
HeightGrows(h) ==
  /\ seen[h] < MaxHeight
  /\ seen' = [seen EXCEPT ![h] = @ + 1]
  /\ UNCHANGED <<workload, reader, read, balance, vars>>

(* The configuration changes under the reads. (That the retry loop returns *)
(* to the primary is, for a read, no more than that.)                      *)
Background ==
  /\ \E r \in ConfigCalls : SetNodeConfig(r)
  /\ UNCHANGED <<workload, reader, seen, read, balance>>

ReadsNext ==
  \/ \E c \in Calls : \E p \in workload[c] : Begin(c, p)
  \/ \E c \in Calls : \/ NextLeg(c)
                      \/ NodeAnswers(c)
                      \/ Delivered(c)
                      \/ AttemptDies(c)
                      \/ NodeErrors(c)
                      \/ ConsumerAnswers(c)
  \/ \E r \in {"raw", "consumer", "not-a-function"} : setPactReader(r)
  \/ \E h \in Hosts : HeightGrows(h)
  \/ Background

(* runWithTimeout ends every attempt, and the code after an await runs. A  *)
(* consumer's reader owes nothing.                                         *)
ReadsFairness == \A c \in Calls : WF_readVars(AttemptDies(c)) /\ WF_readVars(NextLeg(c))

ReadsSpec == ReadsInit /\ [][ReadsNext]_readVars
ReadsFairSpec == ReadsSpec /\ ReadsFairness

-----------------------------------------------------------------------------
(* Properties.                                                             *)

(* Every variable has its type. A read that waits for the raw reader has a *)
(* withFailover call of its own, unless it is pinned: a pactUrl wins over  *)
(* the failover, and no outage such a read meets switches the host.        *)
ReadsTypeOK ==
  /\ TypeOK
  /\ workload \in Workloads
  /\ reader \in {"raw", "consumer"}
  /\ seen \in [Hosts -> Heights]
  /\ read \in [Calls -> Slot]
  /\ balance \in View
  /\ \A c \in Calls : call[c].phase # "none" <=> Waiting(c) /\ Unpinned(c)

Done(c) == read[c].phase = "settled"
FromNode(c) == read[c].told.view.host \in Hosts

(* The reads of the README's "Migrating to v3.x" that give null on every   *)
(* trouble, and those that own up (by null, or the wallet by throwing)     *)
(* only when the call itself fails.                                        *)
NullOnFailure ==
  {getStoaPriceUSD, getTokenDecimals, getPoolTotalFee, getDPTFMinMove, getIgnisBalance,
   getAccountTokenSupply, getOuroDispoCapacity, getVirtualOuro, getUrStoaBalance,
   checkCoinAccountExists_urStoa, getMaxBuyMovieBooster, getSWPSpawnLimit,
   getSWPInactiveLimit, getUrStoaGuard}
NullOnReject == {getLPTypeInfo, validateLiquidity, KadenaWalletGetBalance}

(* The question was answered: what is given rests on the chain's answer.   *)
AnswerOwned(c) ==
  /\ read[c].ask \in NullOnFailure \cup NullOnReject => read[c].told.kind # "rejects"
  /\ read[c].ask \in NullOnFailure => read[c].told.kind # "failure"
  /\ read[c].ask \in NullOnFailure /\ FromNode(c) /\ read[c].told.kind = "absent" =>
       read[c].since[read[c].told.view.host] = 0

(* The one trouble that is hidden: getUrStoaGuard has read the guard, finds*)
(* a keyset's name and cannot look it up; it says {isKeyset: false}.       *)
LookupHidden(c) ==
  /\ read[c].ask.then = "keyset-twice" /\ read[c].leg > 1 /\ read[c].result = "default"
  /\ read[c].told.kind = "data"

(* v3.0.0: an outage is never a number, a false or an empty list. What one *)
(* of these reads gives other than null rests on an answer to its question;*)
(* a placeholder rests on a chain that did not have the row when the       *)
(* question was asked. The lookup that follows getUrStoaGuard may hide an  *)
(* outage, and no other lookup of any read does: it throws.                *)
NothingFabricated ==
  \A c \in Calls : Done(c) /\ read[c].result \in {"value", "default"} =>
    /\ AnswerOwned(c)
    /\ read[c].heard = "rejects" /\ (read[c].leg > 1 \/ read[c].ask \in NullOnFailure) =>
         LookupHidden(c)

(* KadenaWallet.balance is taken back to an older state of the same node   *)
(* only by a call that was made before the newer one was seen: calls that  *)
(* do not overlap never do.                                                *)
BalanceStep ==
  balance.host = balance'.host /\ balance'.height < balance.height =>
    \E c \in Calls : /\ read[c].phase = "answered" /\ read[c].ask.caches
                     /\ read[c].since[balance.host] < balance.height
BalanceGoesForward == [][BalanceStep]_readVars

(* A read through the raw reader comes to an end, pinned or not, whatever  *)
(* the nodes do; one that is handed to a consumer's reader is in its hands.*)
RawReadsSettle ==
  \A c \in Calls : read[c].phase \in {"asked", "answered", "next"} ~>
                     read[c].phase = "settled" \/ read[c].via = "consumer"
=============================================================================
