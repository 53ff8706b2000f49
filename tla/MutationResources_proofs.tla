----------------------- MODULE MutationResources_proofs -----------------------
(***************************************************************************)
(* Proofs that the tasks of MutationLifecycle give back what they hold: a    *)
(* lane always has the task that is in it, and a claim in 'processing'       *)
(* always has somebody who will settle it.  These are the safety halves of   *)
(* TasksEnd and ClaimsSettle, for any number of requests, store errors and   *)
(* crashes.                                                                  *)
(***************************************************************************)
EXTENDS MutationLifecycle_proofs

USE ConstantsAssumption

--------------------------------------------------------------------------------
(* What a task cannot touch *)

\* The tasks of other requests, the process and startup recovery are left alone, and
\* no scheduled recovery is cancelled.
Alone(r) ==
    /\ \A s \in Reqs \ {r} : pc'[s] = pc[s] /\ reply'[s] = reply[s]
    /\ UNCHANGED <<up, rpc, todo, recFailed>>
    /\ lifecycle \subseteq lifecycle'

\* Every operation of a task is of that kind.
LEMMA ActsAlone ==
    ASSUME TypeOK, NEW r \in Reqs, Act(r)
    PROVE  Alone(r)
<1> USE DEF Alone, TypeOK, Goto, process, recovery, tasks
<1>1. CASE Submit(r) \/ AuthBlocked(r)
  BY <1>1 DEF Submit, AuthBlocked, End, Answer
<1>2. CASE BodyStep(r) \/ Timer(r)
  BY <1>2 DEF BodyStep, StartBody, SendWrite, BodyReturns, Timer, DeadlineExpires, BodyTimeout,
       End, Answer
<1>3. CASE LookupClaim(r) \/ LookupReceipt(r) \/ LookupFails(r)
  BY <1>3 DEF LookupClaim, LookupReceipt, LookupFails, End, Answer
<1>4. CASE Claim(r) \/ ClaimFails(r)
  BY <1>4 DEF Claim, ClaimFails, Accept, End, Answer
<1>5. CASE InsertPendingReceipt(r) \/ InsertPendingOperation(r)
  BY <1>5 DEF InsertPendingReceipt, InsertPendingOperation, Accept, End, Answer
<1>6. CASE IntentFails(r) \/ FinalizeClaimed(r) \/ FinalizeFails(r)
  BY <1>6 DEF IntentFails, FinalizeClaimed, FinalizeFails, Retry, ScheduleRecovery, End, Answer
<1>7. CASE Fallback(r) \/ FallbackFails(r)
  BY <1>7 DEF Fallback, FallbackFails, Retry, ScheduleRecovery, End, Answer
<1>8. CASE PersistIndeterminate(r) \/ PersistIndeterminateFails(r)
  BY <1>8 DEF PersistIndeterminate, PersistIndeterminateFails, Retry, ScheduleRecovery, End,
       Answer
<1>9. CASE FinalizePartial(r) \/ FinalizeReceipt(r) \/ FinalizeOperation(r)
  BY <1>9 DEF FinalizePartial, FinalizeReceipt, FinalizeOperation, End, Answer
<1>10. CASE GuardRecovers(r) \/ GuardFails(r)
  BY <1>10 DEF GuardRecovers, GuardFails, Retry, End, Answer
<1> QED BY <1>1, <1>2, <1>3, <1>4, <1>5, <1>6, <1>7, <1>8, <1>9, <1>10 DEF Act, StoreStep

--------------------------------------------------------------------------------
(* Lanes *)

\* A task drops its lane when it leaves, and keeps it otherwise.
LeavesLane(r) == Release(r) /\ ~HoldsLane(r)'
KeepsLane(r)  == UNCHANGED lane /\ (HoldsLane(r)' <=> HoldsLane(r))

\* Either way the lanes stay with the tasks that are in them.
LEMMA LaneStep ==
    ASSUME TypeOK, LanesSerialize, NEW r \in Reqs, Alone(r), LeavesLane(r) \/ KeepsLane(r)
    PROVE  LanesSerialize'
<1> SUFFICES ASSUME NEW l \in Lanes, NEW s \in Reqs
             PROVE  lane'[l] = s <=> HoldsLane(s)' /\ LaneOf[Payload[s]] = l
  BY DEF LanesSerialize
<1>1. s # r => (HoldsLane(s)' <=> HoldsLane(s))
  BY DEF Alone, HoldsLane, Opt
<1>2. lane[l] = s <=> HoldsLane(s) /\ LaneOf[Payload[s]] = l
  BY DEF LanesSerialize
<1>3. CASE LeavesLane(r)
  BY <1>1, <1>2, <1>3 DEF LeavesLane, Release
<1>4. CASE KeepsLane(r)
  BY <1>1, <1>2, <1>4 DEF KeepsLane
<1> QED BY <1>3, <1>4

\* A task that ends gives its lane back.
LEMMA EndLeaves ==
    ASSUME TypeOK, NEW r \in Reqs, NEW a, NEW s, End(r, a, s)
    PROVE  LeavesLane(r)
BY DEF LeavesLane, End, Goto, HoldsLane, Saving, TypeOK

\* The one step that takes a lane finds it free.
LEMMA StartBodyLane ==
    ASSUME IndInv, LanesSerialize, NEW r \in Reqs, StartBody(r)
    PROVE  LanesSerialize'
<1> DEFINE L == LaneOf[Payload[r]]
<1>1. /\ L \in Lanes /\ lane[L] = NoReq /\ lane' = [lane EXCEPT ![L] = r]
      /\ pc[r] = "lane" /\ pc' = [pc EXCEPT ![r] = "body"]
      /\ lane \in [Lanes -> Reqs \cup {NoReq}] /\ pc \in [Reqs -> Live \cup {"idle", "done", "dead"}]
  BY DEF StartBody, Goto, IndInv, TypeOK
<1>2. HoldsLane(r)' /\ ~HoldsLane(r)
  BY <1>1 DEF HoldsLane, Saving
<1>3. \A s \in Reqs \ {r} : HoldsLane(s)' <=> HoldsLane(s)
  BY <1>1 DEF HoldsLane, Opt
<1>4. ASSUME NEW l \in Lanes, NEW s \in Reqs
      PROVE  lane'[l] = s <=> HoldsLane(s)' /\ LaneOf[Payload[s]] = l
  <2>1. lane[l] = s <=> HoldsLane(s) /\ LaneOf[Payload[s]] = l
    BY DEF LanesSerialize
  <2>2. CASE l = L
    BY <1>1, <1>2, <1>3, <2>1, <2>2
  <2>3. CASE l # L
    BY <1>1, <1>2, <1>3, <2>1, <2>3
  <2> QED BY <2>2, <2>3
<1> QED BY <1>4 DEF LanesSerialize

\* Every operation of a task.
LEMMA ActLanes ==
    ASSUME IndInv, LanesSerialize, NEW r \in Reqs, Act(r)
    PROVE  LanesSerialize'
<1> DEFINE Good == LeavesLane(r) \/ KeepsLane(r)
<1>0. TypeOK /\ Control(r) /\ pc \in [Reqs -> Live \cup {"idle", "done", "dead"}]
  BY DEF IndInv, TaskInv, TypeOK
<1> USE DEF KeepsLane, HoldsLane, Saving, Goto, Opt
<1>1. CASE Submit(r) \/ AuthBlocked(r)
  <2>1. Good
    BY <1>0, <1>1, EndLeaves DEF Submit, AuthBlocked
  <2> QED BY <1>0, <2>1, ActsAlone, LaneStep
<1>2. CASE StartBody(r)
  BY <1>2, StartBodyLane
<1>3. CASE SendWrite(r) \/ BodyReturns(r) \/ BodyTimeout(r)
  <2>1. Good
    BY <1>0, <1>3 DEF SendWrite, BodyReturns, BodyTimeout, LeavesLane, InBody
  <2> QED BY <1>0, <2>1, ActsAlone, LaneStep
<1>4. CASE DeadlineExpires(r)
  <2>1. Good
    BY <1>0, <1>4, EndLeaves DEF DeadlineExpires, LeavesLane
  <2> QED BY <1>0, <2>1, ActsAlone, LaneStep
<1>5. CASE LookupClaim(r) \/ LookupReceipt(r) \/ LookupFails(r)
  <2>1. Good
    BY <1>0, <1>5, EndLeaves DEF LookupClaim, LookupReceipt, LookupFails
  <2> QED BY <1>0, <2>1, ActsAlone, LaneStep
<1>6. CASE Claim(r) \/ ClaimFails(r)
  <2>1. Good
    BY <1>0, <1>6, EndLeaves DEF Claim, ClaimFails, Accept
  <2> QED BY <1>0, <2>1, ActsAlone, LaneStep
<1>7. CASE InsertPendingReceipt(r) \/ InsertPendingOperation(r)
  <2>1. Good
    BY <1>0, <1>7, EndLeaves DEF InsertPendingReceipt, InsertPendingOperation, Accept
  <2> QED BY <1>0, <2>1, ActsAlone, LaneStep
<1>8. CASE IntentFails(r) \/ FinalizeClaimed(r) \/ FinalizeFails(r)
  <2>1. Good
    BY <1>0, <1>8, EndLeaves DEF IntentFails, FinalizeClaimed, FinalizeFails, ScheduleRecovery,
         Retry
  <2> QED BY <1>0, <2>1, ActsAlone, LaneStep
<1>9. CASE Fallback(r) \/ FallbackFails(r)
  <2>1. Good
    BY <1>0, <1>9, EndLeaves DEF Fallback, FallbackFails, ScheduleRecovery, Retry
  <2> QED BY <1>0, <2>1, ActsAlone, LaneStep
<1>10. CASE PersistIndeterminate(r) \/ PersistIndeterminateFails(r)
  <2>1. Good
    BY <1>0, <1>10, EndLeaves DEF PersistIndeterminate, PersistIndeterminateFails,
         ScheduleRecovery, Retry
  <2> QED BY <1>0, <2>1, ActsAlone, LaneStep
<1>11. CASE FinalizePartial(r) \/ FinalizeReceipt(r) \/ FinalizeOperation(r)
  <2>1. Good
    BY <1>0, <1>11, EndLeaves DEF FinalizePartial, FinalizeReceipt, FinalizeOperation
  <2> QED BY <1>0, <2>1, ActsAlone, LaneStep
<1>12. CASE GuardRecovers(r) \/ GuardFails(r)
  <2>1. Good
    BY <1>0, <1>12, EndLeaves DEF GuardRecovers, GuardFails, Retry
  <2> QED BY <1>0, <2>1, ActsAlone, LaneStep
<1> QED BY <1>1, <1>2, <1>3, <1>4, <1>5, <1>6, <1>7, <1>8, <1>9, <1>10, <1>11, <1>12
        DEF Act, StoreStep, BodyStep, Timer

\* Steps that move no task leave the lanes alone; a crash frees all of them.
LEMMA NextLanes ==
    ASSUME IndInv, LanesSerialize, [Next]_vars
    PROVE  LanesSerialize'
<1>1. CASE UNCHANGED <<pc, lane>>
  BY <1>1 DEF LanesSerialize, HoldsLane, Opt
<1>2. CASE Crash
  <2>1. \A l \in Lanes, r \in Reqs : lane'[l] # r /\ ~HoldsLane(r)'
    BY <1>2 DEF Crash, HoldsLane, Live, InBody, Saving, IndInv, TypeOK
  <2> QED BY <2>1 DEF LanesSerialize
<1>3. ASSUME NEW r \in Reqs, ProviderStep(r) \/ RecoverReceipt(r) PROVE UNCHANGED <<pc, lane>>
  BY <1>3 DEF ProviderStep, ProviderApplies, ProviderRefuses, RecoverReceipt, tasks
<1>4. ASSUME NEW i \in Ids, LifecycleRecovers(i) \/ PruneExpired(i) \/ RecoverClaim(i)
      PROVE  UNCHANGED <<pc, lane>>
  BY <1>4 DEF LifecycleRecovers, PruneExpired, RecoverClaim, tasks
<1>5. CASE \/ RecoveryFails \/ RecoveryRetries \/ ListClaims \/ ClaimsRecovered \/ ListPending
           \/ SubtractClaims \/ RecoveryEnds \/ Restart
  BY <1>1, <1>5 DEF RecoveryFails, RecoveryRetries, ListClaims, ClaimsRecovered, ListPending,
     SubtractClaims, RecoveryEnds, Restart, tasks
<1>6. CASE UNCHANGED vars
  BY <1>1, <1>6 DEF vars
<1> QED BY <1>1, <1>2, <1>3, <1>4, <1>5, <1>6, ActLanes DEF Next, RecoveryStep, Act, Quiescent

\* Provider writes of one lane never overlap, and no lane is left behind taken.
THEOREM LanesAreSerial == Spec => []LanesSerialize
<1>1. Init => LanesSerialize
  BY DEF Init, LanesSerialize, HoldsLane, Saving
<1>2. IndInv /\ LanesSerialize /\ [Next]_vars => LanesSerialize'
  BY NextLanes
<1> QED BY <1>1, <1>2, Invariance, PTL DEF Spec

--------------------------------------------------------------------------------
(* Claims *)

\* Nobody has answered yet for a request whose task or deadline guard still has to:
\* only the optimistic half answers early.  A failing guard therefore does tell its
\* client of the store error.
Unanswered ==
    \A r \in Reqs : (pc[r] \in Live /\ ~Opt(r)) \/ pc[r] = "guard" => reply[r] = "none"

\* A task that is left with a claim of its own in 'processing' still runs, has a
\* recovery scheduled, or has told its client of a store error.
Accounts(r) ==
    HasId(r) /\ claim'[Mid[r]] = "processing" /\ owner'[Mid[r]] = r =>
        \/ pc'[r] \in Live
        \/ Mid[r] \in lifecycle'
        \/ pc'[r] = "done" /\ reply'[r] = "storeErr"

\* Such a task forgets no claim: those of other requests stay as they were, or are
\* settled.
LEMMA ClaimStep ==
    ASSUME IndInv, NoClaimIsForgotten, NEW r \in Reqs, Advance(r), Owned', Alone(r), Accounts(r)
    PROVE  NoClaimIsForgotten'
<1> SUFFICES ASSUME up, NEW i \in Ids, claim'[i] = "processing"
             PROVE  \/ pc'[owner'[i]] \in Live
                    \/ i \in lifecycle' \cup todo'
                    \/ rpc' \in {"begin", "sleep"} \/ recFailed'
                    \/ pc'[owner'[i]] = "done" /\ reply'[owner'[i]] = "storeErr"
  BY DEF NoClaimIsForgotten, Processing, Alone
<1>1. owner'[i] \in Reqs /\ Mid[owner'[i]] = i
  BY DEF Advance, RowsAgree, RowTypes, Owned
<1>2. CASE owner'[i] = r
  BY <1>1, <1>2 DEF Accounts, HasId
<1>3. CASE owner'[i] # r
  <2>1. owner'[i] = owner[i] /\ claim[i] = "processing"
    BY <1>3 DEF Advance
  <2>2. pc'[owner[i]] = pc[owner[i]] /\ reply'[owner[i]] = reply[owner[i]]
    BY <1>1, <1>3, <2>1 DEF Alone
  <2> QED BY <2>1, <2>2 DEF NoClaimIsForgotten, Processing, Alone
<1> QED BY <1>2, <1>3

\* The last answer of a task that was not answered before.
LEMMA EndTells ==
    ASSUME TypeOK, NEW r \in Reqs, NEW a, NEW s, End(r, a, s)
    PROVE  /\ pc'[r] = "done"
           /\ reply[r] = "none" => reply'[r] = a
           /\ reply[r] # "none" => reply'[r] = reply[r]
BY DEF End, Goto, Answer, TypeOK

\* Who may answer stays open until somebody does.
LEMMA ActUnanswered ==
    ASSUME IndInv, Unanswered, NEW r \in Reqs, Act(r)
    PROVE  Unanswered'
<1> DEFINE Open == (pc'[r] \in Live /\ ~Opt(r)) \/ pc'[r] = "guard" => reply'[r] = "none"
<1>0. /\ TypeOK /\ Alone(r) /\ Control(r) /\ Fresh(r)
      /\ (pc[r] \in Live /\ ~Opt(r)) \/ pc[r] = "guard" => reply[r] = "none"
  BY ActsAlone DEF IndInv, TaskInv, Unanswered
<1>1. CASE pc'[r] = "done"
  BY <1>0, <1>1 DEF Unanswered, Alone, Live, Waiting, InBody, Saving, Opt
<1>2. SUFFICES ASSUME pc'[r] # "done" PROVE Open
  BY <1>0, <1>1 DEF Unanswered, Alone, Opt
<1>3. ASSUME NEW a, NEW s, End(r, a, s) PROVE FALSE
  BY <1>0, <1>2, <1>3, EndTells
<1> USE DEF Goto, TypeOK, Opt, Live, Waiting, InBody, Saving
<1>4. CASE Submit(r) \/ AuthBlocked(r) \/ LookupClaim(r) \/ LookupReceipt(r) \/ LookupFails(r)
  BY <1>0, <1>3, <1>4 DEF Submit, AuthBlocked, LookupClaim, LookupReceipt, LookupFails, Fresh,
       Early
<1>5. CASE BodyStep(r) \/ BodyTimeout(r)
  BY <1>0, <1>5 DEF BodyStep, StartBody, SendWrite, BodyReturns, BodyTimeout
<1>6. CASE DeadlineExpires(r)
  BY <1>0, <1>3, <1>6 DEF DeadlineExpires, UnderDeadline, Fresh, Early, Control
<1>7. CASE Claim(r) \/ ClaimFails(r)
  BY <1>0, <1>3, <1>7 DEF Claim, ClaimFails, Accept
<1>8. CASE InsertPendingReceipt(r) \/ InsertPendingOperation(r)
  BY <1>0, <1>3, <1>8 DEF InsertPendingReceipt, InsertPendingOperation, Accept
<1>9. CASE IntentFails(r) \/ FinalizeClaimed(r) \/ FinalizeFails(r)
  BY <1>0, <1>3, <1>9 DEF IntentFails, FinalizeClaimed, FinalizeFails, ScheduleRecovery, Retry
<1>10. CASE Fallback(r) \/ FallbackFails(r)
  BY <1>0, <1>3, <1>10 DEF Fallback, FallbackFails, ScheduleRecovery, Retry
<1>11. CASE PersistIndeterminate(r) \/ PersistIndeterminateFails(r)
  BY <1>0, <1>3, <1>11 DEF PersistIndeterminate, PersistIndeterminateFails, ScheduleRecovery,
       Retry
<1>12. CASE FinalizePartial(r) \/ FinalizeReceipt(r) \/ FinalizeOperation(r)
  BY <1>0, <1>3, <1>12 DEF FinalizePartial, FinalizeReceipt, FinalizeOperation
<1>13. CASE GuardRecovers(r) \/ GuardFails(r)
  BY <1>0, <1>3, <1>13 DEF GuardRecovers, GuardFails, Retry
<1> QED BY <1>4, <1>5, <1>6, <1>7, <1>8, <1>9, <1>10, <1>11, <1>12, <1>13
        DEF Act, StoreStep, Timer

\* mark_mutation_indeterminate leaves no claim in 'processing'.
LEMMA MarkSettles ==
    ASSUME TypeOK, NEW i \in Ids, NEW n, MarkIndeterminate(i, n)
    PROVE  claim'[i] # "processing"
BY DEF MarkIndeterminate, StillProcessing, TypeOK, rows

\* Every operation of a task accounts for its claim.
LEMMA ActAccounts ==
    ASSUME IndInv, Unanswered, NEW r \in Reqs, Act(r)
    PROVE  Accounts(r)
<1> SUFFICES ASSUME HasId(r), claim'[Mid[r]] = "processing", owner'[Mid[r]] = r,
                    pc'[r] \notin Live
             PROVE  Mid[r] \in lifecycle' \/ (pc'[r] = "done" /\ reply'[r] = "storeErr")
  BY DEF Accounts
<1>0. /\ TypeOK /\ Control(r) /\ Fresh(r) /\ Mid[r] \in Ids
      /\ pc[r] = "guard" => reply[r] = "none"
      /\ pc \in [Reqs -> Live \cup {"idle", "done", "dead"}]
  BY DEF IndInv, TaskInv, Unanswered, HasId, TypeOK
<1>1. ASSUME UNCHANGED rows PROVE pc[r] \notin Early
  BY <1>0, <1>1 DEF Fresh, rows
<1>2. ASSUME NEW n, MarkIndeterminate(Mid[r], n) PROVE FALSE
  BY <1>0, <1>2, MarkSettles
<1>3. ASSUME NEW a, NEW s, End(r, a, s), reply[r] = "none" PROVE pc'[r] = "done" /\ reply'[r] = a
  BY <1>0, <1>3, EndTells
<1> USE DEF Goto, Live, Waiting, InBody, Saving
<1>4. CASE Submit(r) \/ AuthBlocked(r) \/ LookupClaim(r) \/ LookupReceipt(r) \/ LookupFails(r)
  BY <1>0, <1>1, <1>4 DEF Submit, AuthBlocked, LookupClaim, LookupReceipt, LookupFails, Early,
       store
<1>5. CASE BodyStep(r) \/ Timer(r)
  BY <1>0, <1>5 DEF BodyStep, StartBody, SendWrite, BodyReturns, Timer, BodyTimeout,
       DeadlineExpires
<1>6. CASE Claim(r) \/ ClaimFails(r)
  BY <1>0, <1>1, <1>3, <1>6 DEF Claim, ClaimFails, Accept, Fresh, Early
<1>7. CASE IntentFails(r)
  BY <1>7 DEF IntentFails, ScheduleRecovery
<1>8. CASE FinalizeClaimed(r)
  BY <1>0, <1>8 DEF FinalizeClaimed, FinalizeRows, IsExactReplay, rows, Control, Outcomes, TypeOK
<1>9. CASE FinalizeFails(r)
  BY <1>0, <1>9 DEF FinalizeFails, Retry
<1>10. CASE Fallback(r) \/ PersistIndeterminate(r) \/ GuardRecovers(r)
  BY <1>2, <1>10 DEF Fallback, PersistIndeterminate, GuardRecovers
<1>11. CASE FallbackFails(r) \/ PersistIndeterminateFails(r)
  BY <1>11 DEF FallbackFails, PersistIndeterminateFails, Retry, ScheduleRecovery
<1>12. CASE GuardFails(r)
  BY <1>0, <1>3, <1>12 DEF GuardFails, Retry
<1>13. ~ (\/ InsertPendingReceipt(r) \/ InsertPendingOperation(r) \/ FinalizePartial(r)
          \/ FinalizeReceipt(r) \/ FinalizeOperation(r))
  BY <1>0 DEF InsertPendingReceipt, InsertPendingOperation, FinalizePartial, FinalizeReceipt,
       FinalizeOperation, Control
<1> QED BY <1>4, <1>5, <1>6, <1>7, <1>8, <1>9, <1>10, <1>11, <1>12, <1>13
        DEF Act, StoreStep

--------------------------------------------------------------------------------
(* The recovery that runs at the start and is repeated in the background *)

\* The run that lists the claims has all of them; one it cannot settle makes it be
\* repeated; and it ends as done only when it has settled all others.
LEMMA RecoveryForgetsNone ==
    ASSUME IndInv, NoClaimIsForgotten,
           RecoveryStep \/ Restart \/ \E i \in Ids : LifecycleRecovers(i)
    PROVE  NoClaimIsForgotten'
<1> USE DEF NoClaimIsForgotten, Processing, store, rows, tasks, process
<1>1. CASE \/ RecoveryFails \/ RecoveryRetries \/ ListClaims \/ ClaimsRecovered \/ ListPending
           \/ SubtractClaims \/ RecoveryEnds \/ Restart
  <2>1. CASE rpc' \in {"begin", "sleep"}
    BY <2>1
  <2>2. CASE ListClaims
    BY <2>2 DEF ListClaims
  <2>3. CASE RecoveryEnds /\ rpc' \notin {"begin", "sleep"}
    <3>1. ~recFailed /\ rpc \notin {"begin", "sleep"}
      BY <2>3 DEF RecoveryEnds, NextRun
    <3> QED BY <2>3, <3>1 DEF RecoveryEnds
  <2>4. CASE ClaimsRecovered \/ ListPending \/ SubtractClaims
    <3>1. /\ rpc \notin {"begin", "sleep"}
          /\ UNCHANGED <<claim, owner, pc, reply, lifecycle, todo, up>>
      BY <2>4 DEF ClaimsRecovered, ListPending, SubtractClaims
    <3>2. recFailed => recFailed'
      BY <2>4 DEF ClaimsRecovered, ListPending, SubtractClaims
    <3> QED BY <3>1, <3>2
  <2> QED BY <1>1, <2>1, <2>2, <2>3, <2>4 DEF RecoveryFails, RecoveryRetries, Restart
<1>2. ASSUME NEW r \in Reqs, RecoverReceipt(r) PROVE NoClaimIsForgotten'
  BY <1>2 DEF RecoverReceipt
<1>3. ASSUME NEW i \in Ids, RecoverClaim(i) \/ LifecycleRecovers(i) PROVE NoClaimIsForgotten'
  <2>1. Moves(NoReq) /\ UNCHANGED <<pc, reply, rpc, up>>
    BY <1>3, RecoverClaimPreserves, LifecyclePreserves DEF RecoverClaim, LifecycleRecovers, recovery
  <2>2. \A j \in Ids : claim'[j] = "processing" => claim[j] = "processing" /\ owner'[j] = owner[j]
    BY <2>1 DEF Moves, Advance, RowTypes, RowsAgree, IndInv
  <2>3. \/ claim'[i] # "processing" \/ recFailed'
        \/ UNCHANGED <<lifecycle, todo, recFailed>>
    BY <1>3, MarkSettles DEF RecoverClaim, LifecycleRecovers, recovery, IndInv
  <2>4. /\ \A j \in Ids \ {i} : j \in lifecycle \cup todo => j \in lifecycle' \cup todo'
        /\ recFailed => recFailed'
    BY <1>3 DEF RecoverClaim, LifecycleRecovers, recovery
  <2> QED BY <2>1, <2>2, <2>3, <2>4
<1> QED BY <1>1, <1>2, <1>3 DEF RecoveryStep

\* Every step of the system.
LEMMA NextForgetsNone ==
    ASSUME IndInv, Unanswered, NoClaimIsForgotten, [Next]_vars
    PROVE  Unanswered' /\ NoClaimIsForgotten'
<1>1. ASSUME NEW r \in Reqs, Act(r) PROVE Unanswered' /\ NoClaimIsForgotten'
  BY <1>1, ActInd, ActsAlone, ActAccounts, ActUnanswered, ClaimStep DEF IndInv, Moves
<1>2. CASE Crash
  BY <1>2 DEF Crash, Unanswered, NoClaimIsForgotten, IndInv, TypeOK, Live, Waiting, InBody, Saving,
       Opt
<1>3. CASE RecoveryStep \/ Restart \/ \E i \in Ids : LifecycleRecovers(i)
  <2>1. UNCHANGED <<pc, reply>>
    BY <1>3 DEF RecoveryStep, RecoveryFails, RecoveryRetries, ListClaims, ClaimsRecovered,
       ListPending, SubtractClaims, RecoveryEnds, RecoverClaim, RecoverReceipt, Restart,
       LifecycleRecovers, tasks
  <2>2. Unanswered'
    BY <2>1 DEF Unanswered, Opt
  <2> QED BY <1>3, <2>2, RecoveryForgetsNone
<1>4. ASSUME NEW i \in Ids, PruneExpired(i) PROVE Unanswered' /\ NoClaimIsForgotten'
  <2>1. /\ UNCHANGED <<pc, reply, lifecycle, todo, rpc, recFailed, up>>
        /\ \A j \in Ids : claim'[j] = "processing" => claim[j] = "processing" /\ owner'[j] = owner[j]
    BY <1>4 DEF PruneExpired, tasks, recovery, IndInv, TypeOK
  <2> QED BY <2>1 DEF Unanswered, NoClaimIsForgotten, Processing, Opt
<1>5. ASSUME NEW r \in Reqs, ProviderStep(r) PROVE Unanswered' /\ NoClaimIsForgotten'
  BY <1>5 DEF ProviderStep, ProviderApplies, ProviderRefuses, rows, tasks, recovery, process,
     Unanswered, NoClaimIsForgotten, Processing, Opt
<1>6. CASE UNCHANGED vars
  BY <1>6 DEF vars, Unanswered, NoClaimIsForgotten, Processing, Opt
<1> QED BY <1>1, <1>2, <1>3, <1>4, <1>5, <1>6 DEF Next, Act, Quiescent

\* A claim in 'processing' always has somebody who will settle it, or its client was
\* told of a store error; crashes, failed recoveries and their repetition included.
THEOREM ClaimsAreAttended == Spec => []NoClaimIsForgotten
<1>1. Init => Unanswered /\ NoClaimIsForgotten
  BY DEF Init, Unanswered, NoClaimIsForgotten, Processing
<1>2. IndInv /\ Unanswered /\ NoClaimIsForgotten /\ [Next]_vars
         => Unanswered' /\ NoClaimIsForgotten'
  BY NextForgetsNone
<1> QED BY <1>1, <1>2, Invariance, PTL DEF Spec
================================================================================
