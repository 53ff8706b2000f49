--------------------------- MODULE MutationLifecycle ---------------------------
(***************************************************************************)
(* The life of a remote write inside the daemon: durable idempotency claim, *)
(* receipt and operation rows (spotuify-store), the synchronous and the     *)
(* optimistic handler that run the provider call, request deadlines, retry  *)
(* of failed store transactions, crash, restart and the recovery that       *)
(* restarts and late retries run over whatever rows they find.              *)
(*                                                                         *)
(* Every IPC request mints its own ReceiptId and OperationId, so a request  *)
(* names its receipt row and its operation row here.  A dedup row's state   *)
(* column and the response it stores are one value: "absent", "processing", *)
(* or the terminal outcome the response tells ("ok" is state 'completed',   *)
(* the others are state 'failed').                                          *)
(***************************************************************************)
EXTENDS Naturals, FiniteSets

CONSTANTS
    Reqs,          \* IPC requests
    Ids,           \* client-chosen mutation ids
    NoId,          \* the id of a request that carries none
    NoReq,         \* nobody
    Payloads,      \* request bodies, told apart by their fingerprint
    Lanes,         \* mutation lanes (transport, playlist, library, operation)
    Mid,           \* [Reqs -> Ids \cup {NoId}]
    Payload,       \* [Reqs -> Payloads]
    LaneOf,        \* [Payloads -> Lanes]
    Optimistic,    \* payloads served by spawn_optimistic_mutation
    Reconcilable,  \* payloads whose recovery intent names something to re-read
    Creates,       \* PlaylistCreate payloads: may leave a retained artifact
    Tries,         \* length of MUTATION_FINALIZATION_RETRY_DELAYS
    MaxFaults,     \* bound: store errors and unavailable provider topologies
    MaxCrashes     \* bound: daemon crashes

ASSUME ConstantsAssumption ==
    /\ Mid \in [Reqs -> Ids \cup {NoId}]
    /\ Payload \in [Reqs -> Payloads]
    /\ LaneOf \in [Payloads -> Lanes]
    /\ Optimistic \subseteq Payloads
    /\ Reconcilable \subseteq Payloads
    /\ Creates \subseteq Payloads \ Optimistic
    /\ NoId \notin Ids
    /\ NoReq \notin Reqs
    /\ Tries \in Nat \ {0}
    /\ MaxFaults \in Nat
    /\ MaxCrashes \in Nat

VARIABLES
    \* durable rows
    claim,         \* mutation_dedup: state and stored response, per id
    owner,         \* mutation_dedup: receipt_id / operation_id, per id
    receipt,       \* receipts.status, per request
    oper,          \* operations.status, per request
    recon,         \* passes required by the receipt's reconciliation; 0: none
    \* the remote provider
    sent,          \* requests whose provider write left the daemon
    wire,          \* writes the provider has neither applied nor refused yet
    applied,       \* writes the provider applied
    \* one handler task per request
    pc,            \* where the task is
    result,        \* what the mutation body returned
    tries,         \* failed attempts of the current persistence loop
    seen,          \* response column read by lookup_mutation_claim
    lane,          \* holder of each mutation lane
    reply,         \* answer on the socket
    from,          \* receipt the answer is about
    events,        \* MutationFinalized statuses broadcast for the receipt
    \* recovery
    lifecycle,     \* ids with a scheduled lifecycle-recovery task
    rpc,           \* startup recovery task
    todo,          \* its snapshot of processing claims
    pend,          \* its snapshot of pending receipts
    recFailed,     \* it has met a claim it could not recover
    \* the process
    up, serving, faults, crashes,
    forgotten      \* requests whose dedup row expired and was pruned

rows     == <<claim, owner, receipt, oper, recon>>
remote   == <<sent, wire, applied>>
store    == <<rows, remote>>
body     == <<result, seen>>
tasks    == <<pc, tries, lane, reply, from, events, body>>
recovery == <<rpc, todo, pend, recFailed>>
process  == <<up, serving, crashes, forgotten>>
vars     == <<claim, owner, receipt, oper, recon, sent, wire, applied, pc, result,
              tries, seen, lane, reply, from, events, lifecycle, rpc, todo, pend,
              recFailed, up, serving, faults, crashes, forgotten>>

Outcomes  == {"ok", "err", "partial", "retained", "indet"}
ClaimVals == {"absent", "processing"} \cup Outcomes
Waiting   == {"lookup", "lookupReceipt", "claim", "insertOp"}
InBody    == {"lane", "body", "sent"}
Saving    == {"finalize", "fallback", "finOp"}
Live      == Waiting \cup InBody \cup Saving \cup {"indet", "guard"}

TypeOK ==
    /\ claim \in [Ids -> ClaimVals]
    /\ owner \in [Ids -> Reqs \cup {NoReq}]
    /\ receipt \in [Reqs -> {"none", "pending", "confirmed", "failed"}]
    /\ oper \in [Reqs -> {"none", "pending", "succeeded", "failed"}]
    /\ recon \in [Reqs -> 0..2]
    /\ sent \subseteq Reqs /\ wire \subseteq sent /\ applied \subseteq sent
    /\ pc \in [Reqs -> Live \cup {"idle", "done", "dead"}]
    /\ result \in [Reqs -> Outcomes \cup {"none"}]
    /\ tries \in [Reqs -> 0..Tries]
    /\ seen \in [Reqs -> ClaimVals]
    /\ lane \in [Lanes -> Reqs \cup {NoReq}]
    /\ reply \in [Reqs -> Outcomes \cup {"none", "pending", "busy", "noresp", "mismatch",
                                         "auth", "storeErr", "timeout"}]
    /\ from \in [Reqs -> Reqs \cup {NoReq}]
    /\ events \in [Reqs -> SUBSET {"confirmed", "failed"}]
    /\ lifecycle \subseteq Ids
    /\ rpc \in {"off", "begin", "claims", "listPending", "listClaims", "receipts",
                "sleep", "done"}
    /\ todo \subseteq Ids
    /\ pend \subseteq Reqs
    /\ recFailed \in BOOLEAN /\ up \in BOOLEAN /\ serving \in BOOLEAN
    /\ faults \in 0..MaxFaults /\ crashes \in 0..MaxCrashes
    /\ forgotten \subseteq Reqs

Init ==
    /\ claim = [i \in Ids |-> "absent"]
    /\ owner = [i \in Ids |-> NoReq]
    /\ receipt = [r \in Reqs |-> "none"]
    /\ oper = [r \in Reqs |-> "none"]
    /\ recon = [r \in Reqs |-> 0]
    /\ sent = {} /\ wire = {} /\ applied = {}
    /\ pc = [r \in Reqs |-> "idle"]
    /\ result = [r \in Reqs |-> "none"]
    /\ tries = [r \in Reqs |-> 0]
    /\ seen = [r \in Reqs |-> "absent"]
    /\ lane = [l \in Lanes |-> NoReq]
    /\ reply = [r \in Reqs |-> "none"]
    /\ from = [r \in Reqs |-> NoReq]
    /\ events = [r \in Reqs |-> {}]
    /\ lifecycle = {} /\ todo = {} /\ pend = {} /\ forgotten = {}
    /\ rpc = "begin" /\ recFailed = FALSE
    /\ up = TRUE /\ serving = FALSE
    /\ faults = 0 /\ crashes = 0

--------------------------------------------------------------------------------
(* Helpers *)

HasId(r)        == Mid[r] # NoId
Opt(r)          == Payload[r] \in Optimistic
Passes(r, n)    == IF Payload[r] \in Reconcilable THEN n ELSE 0
ReceiptOf(o)    == IF o = "ok" THEN "confirmed" ELSE "failed"
Processing      == {i \in Ids : claim[i] = "processing"}

\* A PlaylistCreate that got as far as the playlist is an operation that can be
\* undone (retain_cleanup_plan), whatever its receipt says.
OperOf(r, o) ==
    IF o \in {"ok", "retained"} \/ (o = "partial" /\ Payload[r] \in Creates)
    THEN "succeeded" ELSE "failed"

StoreOk         == UNCHANGED faults
Fault           == faults < MaxFaults /\ faults' = faults + 1

\* UPDATE ... WHERE status = 'pending': the first write of a row wins.
Terminalize(f, r, v) == [f EXCEPT ![r] = IF @ = "pending" THEN v ELSE @]

Goto(r, l)      == pc' = [pc EXCEPT ![r] = l]
Release(r)      == lane' = [l \in Lanes |-> IF lane[l] = r THEN NoReq ELSE lane[l]]
Announce(r, s)  == events' = [events EXCEPT ![r] = @ \cup {s}]

\* Only a caller still waiting on the socket gets the answer: the background
\* half of an optimistic mutation has already been answered "pending".
Answer(r, a, s) ==
    /\ reply' = [reply EXCEPT ![r] = IF @ = "none" THEN a ELSE @]
    /\ from'  = [from EXCEPT ![r] = IF reply[r] = "none" THEN s ELSE @]

\* The task ends; its lane guard is dropped.
End(r, a, s) == Goto(r, "done") /\ Answer(r, a, s) /\ Release(r)

\* What replaying a claim says, from the response column and the receipt's status.
ReplayAnswer(r, response, status) ==
    CASE status = "pending" -> IF Opt(r) THEN "pending" ELSE "busy"
      [] status # "pending" /\ response = "processing" -> "noresp"
      [] OTHER -> response

--------------------------------------------------------------------------------
(* Store transactions *)

\* The three conditional UPDATEs of finalize_claimed_mutation each hit one row.
Owns(r) ==
    /\ claim[Mid[r]] = "processing" /\ owner[Mid[r]] = r
    /\ receipt[r] = "pending" /\ oper[r] = "pending"

\* Mutant: any terminal row is taken for this finalization's own.
IsExactReplay_AnyTerminal(r) == claim[Mid[r]] \in Outcomes

\* The rows already hold exactly what this finalization wants to write, which is
\* how a retry recognises that an attempt reported as failed had committed.
IsExactReplay(r) ==
    /\ claim[Mid[r]] = result[r] /\ owner[Mid[r]] = r
    /\ receipt[r] = ReceiptOf(result[r]) /\ oper[r] = OperOf(r, result[r])

InsertReconciliation(r, n) ==
    recon' = [recon EXCEPT ![r] = IF Passes(r, n) > @ THEN Passes(r, n) ELSE @]

\* Mutant: the operation row is forgotten.
FinalizeRows_NoOperation(r) ==
    /\ Owns(r)
    /\ claim' = [claim EXCEPT ![Mid[r]] = result[r]]
    /\ receipt' = Terminalize(receipt, r, ReceiptOf(result[r]))
    /\ InsertReconciliation(r, IF result[r] = "partial" THEN 1 ELSE 0)
    /\ UNCHANGED <<oper, owner>>

FinalizeRows(r) ==
    /\ Owns(r)
    /\ claim' = [claim EXCEPT ![Mid[r]] = result[r]]
    /\ receipt' = Terminalize(receipt, r, ReceiptOf(result[r]))
    /\ oper' = Terminalize(oper, r, OperOf(r, result[r]))
    /\ InsertReconciliation(r, IF result[r] = "partial" THEN 1 ELSE 0)
    /\ UNCHANGED owner

\* Mutants: the state guard is dropped, or compares with a receipt's state.
StillProcessing_Dropped(i)    == claim[i] # "absent"
StillProcessing_WrongState(i) == claim[i] = "pending"

\* WHERE mutation_id = ? AND state = 'processing'
StillProcessing(i) == claim[i] = "processing"

\* mark_mutation_indeterminate: terminalize the claim unless somebody already has.
MarkIndeterminate(i, n) ==
    IF StillProcessing(i)
    THEN /\ claim' = [claim EXCEPT ![i] = "indet"]
         /\ receipt' = Terminalize(receipt, owner[i], "failed")
         /\ oper' = Terminalize(oper, owner[i], "failed")
         /\ InsertReconciliation(owner[i], n)
         /\ UNCHANGED owner
    ELSE UNCHANGED rows

\* The durable response mark_mutation_indeterminate returns.
DurableResponse(i) == IF claim[i] \in Outcomes THEN claim[i] ELSE "indet"

\* Mutants: no stability pass; a fallback without the reconstructed intent.
RecoveryPasses_One == 1
FallbackPasses_None == 0

\* Passes demanded when nobody knows whether the provider call was made
\* (require_stability_pass), and when the body did return.
RecoveryPasses == 2
FallbackPasses == 1

\* Mutant: INSERT OR REPLACE of a finished row.
CanInsert_Replace(i) == claim[i] # "processing"

\* INSERT OR IGNORE takes effect only when the id has no row.
CanInsert(i) == claim[i] = "absent"

InsertClaim(r) ==
    /\ CanInsert(Mid[r])
    /\ claim' = [claim EXCEPT ![Mid[r]] = "processing"]
    /\ owner' = [owner EXCEPT ![Mid[r]] = r]
    /\ receipt' = [receipt EXCEPT ![r] = "pending"]
    /\ oper' = [oper EXCEPT ![r] = "pending"]
    /\ UNCHANGED recon

--------------------------------------------------------------------------------
(* A request up to the point where its rows exist *)

\* serve_client_connection hands a frame to guard_ipc_response; a request
\* without an id has nothing to look up.
Submit(r) ==
    /\ up /\ serving /\ pc[r] = "idle"
    /\ Goto(r, IF HasId(r) THEN "lookup" ELSE "claim")
    /\ UNCHANGED <<store, body, tries, lane, reply, from, events, lifecycle, recovery,
                   process, faults>>

\* lookup_mutation_claim, first read: the dedup row.
LookupClaim(r) ==
    /\ pc[r] = "lookup"
    /\ StoreOk
    /\ \/ /\ claim[Mid[r]] = "absent"
          /\ Goto(r, "claim")
          /\ UNCHANGED <<seen, lane, reply, from>>
       \/ /\ claim[Mid[r]] # "absent"
          /\ Payload[owner[Mid[r]]] # Payload[r]
          /\ End(r, "mismatch", NoReq)
          /\ UNCHANGED seen
       \/ /\ claim[Mid[r]] # "absent"
          /\ Payload[owner[Mid[r]]] = Payload[r]
          /\ Goto(r, "lookupReceipt")
          /\ seen' = [seen EXCEPT ![r] = claim[Mid[r]]]
          /\ from' = [from EXCEPT ![r] = owner[Mid[r]]]
          /\ UNCHANGED <<lane, reply>>
    /\ UNCHANGED <<store, result, tries, events, lifecycle, recovery, process>>

\* lookup_mutation_claim, second read: the linked receipt; then the replay.
LookupReceipt(r) ==
    /\ pc[r] = "lookupReceipt"
    /\ StoreOk
    /\ End(r, ReplayAnswer(r, seen[r], receipt[from[r]]), from[r])
    /\ UNCHANGED <<store, body, tries, events, lifecycle, recovery, process>>

LookupFails(r) ==
    /\ pc[r] \in {"lookup", "lookupReceipt"}
    /\ Fault
    /\ End(r, "storeErr", NoReq)
    /\ UNCHANGED <<store, body, tries, events, lifecycle, recovery, process>>

\* reject_if_auth_blocked
AuthBlocked(r) ==
    /\ pc[r] = "claim"
    /\ End(r, "auth", NoReq)
    /\ UNCHANGED <<store, body, tries, events, lifecycle, recovery, process, faults>>

\* The caller of spawn_optimistic_mutation is answered as soon as the rows exist.
Accept(r) ==
    /\ Goto(r, "lane")
    /\ IF Opt(r) THEN Answer(r, "pending", r) ELSE UNCHANGED <<reply, from>>
    /\ UNCHANGED lane

\* claim_mutation: the winner creates all three rows, a loser replays.
Claim(r) ==
    /\ pc[r] = "claim" /\ HasId(r)
    /\ StoreOk
    /\ \/ InsertClaim(r) /\ Accept(r)
       \/ /\ ~CanInsert(Mid[r])
          /\ LET o == owner[Mid[r]] IN
             IF Payload[o] = Payload[r]
             THEN End(r, ReplayAnswer(r, claim[Mid[r]], receipt[o]), o)
             ELSE End(r, "mismatch", NoReq)
          /\ UNCHANGED rows
    /\ UNCHANGED <<remote, body, tries, events, lifecycle, recovery, process>>

\* claim_mutation returns an error, whether or not its commit took effect.
ClaimFails(r) ==
    /\ pc[r] = "claim" /\ HasId(r)
    /\ Fault
    /\ InsertClaim(r) \/ UNCHANGED rows
    /\ End(r, "storeErr", NoReq)
    /\ UNCHANGED <<remote, body, tries, events, lifecycle, recovery, process>>

\* A request without an id writes its receipt and its operation separately.
InsertPendingReceipt(r) ==
    /\ pc[r] = "claim" /\ ~HasId(r)
    /\ \/ /\ StoreOk
          /\ receipt' = [receipt EXCEPT ![r] = "pending"]
          /\ Goto(r, "insertOp")
          /\ UNCHANGED <<lane, reply, from>>
       \/ /\ Fault
          /\ receipt' = [receipt EXCEPT ![r] = "pending"] \/ UNCHANGED receipt
          /\ End(r, "storeErr", NoReq)
    /\ UNCHANGED <<claim, owner, oper, recon, remote, body, tries, events, lifecycle,
                   recovery, process>>

InsertPendingOperation(r) ==
    /\ pc[r] = "insertOp"
    /\ \/ /\ StoreOk
          /\ oper' = [oper EXCEPT ![r] = "pending"]
          /\ Accept(r)
       \/ /\ Fault
          /\ oper' = [oper EXCEPT ![r] = "pending"] \/ UNCHANGED oper
          /\ End(r, "storeErr", NoReq)
    /\ UNCHANGED <<claim, owner, receipt, recon, remote, body, tries, events,
                   lifecycle, recovery, process>>

--------------------------------------------------------------------------------
(* The mutation body and the provider *)

StartBody(r) ==
    /\ pc[r] = "lane"
    /\ lane[LaneOf[Payload[r]]] = NoReq
    /\ lane' = [lane EXCEPT ![LaneOf[Payload[r]]] = r]
    /\ Goto(r, "body")
    /\ UNCHANGED <<store, body, tries, reply, from, events, lifecycle, recovery,
                   process, faults>>

SendWrite(r) ==
    /\ pc[r] = "body"
    /\ sent' = sent \cup {r}
    /\ wire' = wire \cup {r}
    /\ Goto(r, "sent")
    /\ UNCHANGED <<rows, applied, body, tries, lane, reply, from, events, lifecycle,
                   recovery, process, faults>>

\* The provider takes the write, at any time after it was sent: also after the
\* daemon stopped waiting for it, or crashed.
ProviderApplies(r) ==
    /\ r \in wire
    /\ wire' = wire \ {r}
    /\ applied' = applied \cup {r}
    /\ UNCHANGED <<rows, sent, tasks, lifecycle, recovery, process, faults>>

ProviderRefuses(r) ==
    /\ r \in wire
    /\ wire' = wire \ {r}
    /\ UNCHANGED <<rows, sent, applied, tasks, lifecycle, recovery, process, faults>>

\* What the body may report.  A plain error may follow a write that took effect:
\* a network error, or a local step that fails after the provider answered.
BodyResults(r) ==
    {"err"} \cup (IF r \in applied
                  THEN {"ok"} \cup (IF Payload[r] \in Reconcilable THEN {"partial"} ELSE {})
                              \cup (IF Payload[r] \in Creates THEN {"retained"} ELSE {})
                  ELSE {})

\* An optimistic body drops its lane when it returns; record_operation keeps its
\* lane until the rows are final.
BodyReturns(r) ==
    /\ pc[r] \in {"body", "sent"}
    /\ \E o \in BodyResults(r) : result' = [result EXCEPT ![r] = o]
    /\ Goto(r, "finalize")
    /\ IF Opt(r) THEN Release(r) ELSE UNCHANGED lane
    /\ UNCHANGED <<store, tries, seen, reply, from, events, lifecycle, recovery,
                   process, faults>>

\* Mutant: the lane outlives the body that was dropped.
BodyTimeout_KeepsLane(r) ==
    /\ Opt(r) /\ pc[r] \in InBody
    /\ IF HasId(r)
       THEN Goto(r, "indet") /\ UNCHANGED result
       ELSE Goto(r, "finalize") /\ result' = [result EXCEPT ![r] = "err"]
    /\ UNCHANGED <<store, tries, lane, seen, reply, from, events, lifecycle, recovery,
                   process, faults>>

\* run_mutation_body: the 30 s deadline or a panic drops the body future, in the
\* lane queue or in mid-call.  Without an id the outcome is recorded as a failure.
BodyTimeout(r) ==
    /\ Opt(r) /\ pc[r] \in InBody
    /\ Release(r)
    /\ IF HasId(r)
       THEN Goto(r, "indet") /\ UNCHANGED result
       ELSE Goto(r, "finalize") /\ result' = [result EXCEPT ![r] = "err"]
    /\ UNCHANGED <<store, tries, seen, reply, from, events, lifecycle, recovery,
                   process, faults>>

\* Mutant: the deadline does not cover the provider call.
UnderDeadline_NotBody(r) == pc[r] \in (IF Opt(r) THEN Waiting ELSE Waiting \cup Saving)

\* The part of a request that guard_ipc_response bounds with its own deadline.
UnderDeadline(r) == pc[r] \in (IF Opt(r) THEN Waiting ELSE Waiting \cup InBody \cup Saving)

\* guard_ipc_response: deadline or panic drops the handler where it stands.
DeadlineExpires(r) ==
    /\ UnderDeadline(r)
    /\ IF HasId(r)
       THEN Goto(r, "guard") /\ Release(r) /\ UNCHANGED <<reply, from>>
       ELSE End(r, "timeout", NoReq)
    /\ tries' = [tries EXCEPT ![r] = 0]
    /\ UNCHANGED <<store, body, events, lifecycle, recovery, process, faults>>

--------------------------------------------------------------------------------
(* Persisting the outcome *)

\* Mutant: the loop runs past its last delay.
Retry_OffByOne(r, GiveUp) ==
    IF tries[r] <= Tries
    THEN /\ tries' = [tries EXCEPT ![r] = @ + 1]
         /\ UNCHANGED <<pc, lane, reply, from, lifecycle>>
    ELSE /\ tries' = [tries EXCEPT ![r] = 0]
         /\ GiveUp

\* One more failed attempt; after the last one the loop gives up.
Retry(r, GiveUp) ==
    IF tries[r] + 1 < Tries
    THEN /\ tries' = [tries EXCEPT ![r] = @ + 1]
         /\ UNCHANGED <<pc, lane, reply, from, lifecycle>>
    ELSE /\ tries' = [tries EXCEPT ![r] = 0]
         /\ GiveUp

\* Mutant: the error is reported and nothing is scheduled.
ScheduleRecovery_None(r) ==
    /\ UNCHANGED lifecycle
    /\ End(r, "storeErr", NoReq)

\* schedule_processing_mutation_lifecycle_recovery
ScheduleRecovery(r) ==
    /\ lifecycle' = lifecycle \cup {Mid[r]}
    /\ End(r, "storeErr", NoReq)

\* recovery_reconciliation_intent cannot be read before the first attempt.
IntentFails(r) ==
    /\ pc[r] \in {"finalize", "indet"} /\ HasId(r) /\ tries[r] = 0
    /\ Fault
    /\ ScheduleRecovery(r)
    /\ UNCHANGED <<store, body, tries, events, recovery, process>>

\* finalize_claimed_mutation succeeds, or finds its own earlier commit.
FinalizeClaimed(r) ==
    /\ pc[r] = "finalize" /\ HasId(r)
    /\ StoreOk
    /\ FinalizeRows(r) \/ (IsExactReplay(r) /\ UNCHANGED rows)
    /\ Announce(r, ReceiptOf(result[r]))
    /\ End(r, result[r], r)
    /\ tries' = [tries EXCEPT ![r] = 0]
    /\ UNCHANGED <<remote, body, lifecycle, recovery, process>>

\* finalize_claimed_mutation fails: it lost ownership, or the store returned an
\* error for a transaction that did or did not commit.
FinalizeFails(r) ==
    /\ pc[r] = "finalize" /\ HasId(r)
    /\ \/ ~Owns(r) /\ ~IsExactReplay(r) /\ StoreOk /\ UNCHANGED rows
       \/ Fault /\ (FinalizeRows(r) \/ UNCHANGED rows)
    /\ Retry(r, Goto(r, "fallback") /\ UNCHANGED <<lane, reply, from, lifecycle>>)
    /\ UNCHANGED <<remote, body, events, recovery, process>>

\* persist_claimed_mutation_finalization falls back to the durable response, or
\* makes the claim indeterminate; what is durable is what the caller is told.
Fallback(r) ==
    /\ pc[r] = "fallback"
    /\ StoreOk
    /\ MarkIndeterminate(Mid[r], FallbackPasses)
    /\ LET durable == DurableResponse(Mid[r]) IN
       /\ Announce(r, IF durable = result[r] THEN ReceiptOf(result[r]) ELSE "failed")
       /\ End(r, durable, r)
    /\ tries' = [tries EXCEPT ![r] = 0]
    /\ UNCHANGED <<remote, body, lifecycle, recovery, process>>

FallbackFails(r) ==
    /\ pc[r] = "fallback"
    /\ Fault
    /\ MarkIndeterminate(Mid[r], FallbackPasses) \/ UNCHANGED rows
    /\ Retry(r, ScheduleRecovery(r))
    /\ UNCHANGED <<remote, body, events, recovery, process>>

\* The optimistic task after a timeout or a panic of its body.
PersistIndeterminate(r) ==
    /\ pc[r] = "indet"
    /\ StoreOk
    /\ MarkIndeterminate(Mid[r], RecoveryPasses)
    /\ Announce(r, "failed")
    /\ End(r, "indet", r)
    /\ tries' = [tries EXCEPT ![r] = 0]
    /\ UNCHANGED <<remote, body, lifecycle, recovery, process>>

PersistIndeterminateFails(r) ==
    /\ pc[r] = "indet"
    /\ Fault
    /\ MarkIndeterminate(Mid[r], RecoveryPasses) \/ UNCHANGED rows
    /\ Retry(r, ScheduleRecovery(r))
    /\ UNCHANGED <<remote, body, events, recovery, process>>

\* Without an id: a typed partial failure is one transaction that needs both rows
\* pending; anything else finalizes the receipt first and the operation second.
FinalizePartial(r) ==
    /\ pc[r] = "finalize" /\ ~HasId(r) /\ result[r] \in {"partial", "retained"}
    /\ LET Both == receipt[r] = "pending" /\ oper[r] = "pending"
           Write == /\ Both
                    /\ receipt' = Terminalize(receipt, r, "failed")
                    /\ oper' = Terminalize(oper, r, OperOf(r, result[r]))
                    /\ InsertReconciliation(r, IF result[r] = "partial" THEN 1 ELSE 0)
           Skip  == UNCHANGED <<receipt, oper, recon>>
       IN \/ StoreOk /\ Write /\ Announce(r, "failed") /\ End(r, result[r], r)
          \/ StoreOk /\ ~Both /\ Skip /\ UNCHANGED events /\ End(r, "storeErr", NoReq)
          \/ Fault /\ (Write \/ Skip) /\ UNCHANGED events /\ End(r, "storeErr", NoReq)
    /\ UNCHANGED <<claim, owner, remote, body, tries, lifecycle, recovery, process>>

FinalizeReceipt(r) ==
    /\ pc[r] = "finalize" /\ ~HasId(r) /\ result[r] \in {"ok", "err"}
    /\ LET Write == receipt' = Terminalize(receipt, r, ReceiptOf(result[r]))
       IN \/ StoreOk /\ Write /\ Goto(r, "finOp") /\ UNCHANGED <<lane, reply, from>>
          \/ Fault /\ (Write \/ UNCHANGED receipt) /\ End(r, "storeErr", NoReq)
    /\ UNCHANGED <<claim, owner, oper, recon, remote, body, tries, events, lifecycle,
                   recovery, process>>

FinalizeOperation(r) ==
    /\ pc[r] = "finOp"
    /\ LET Write == oper' = Terminalize(oper, r, OperOf(r, result[r]))
       IN \/ StoreOk /\ Write /\ Announce(r, ReceiptOf(result[r])) /\ End(r, result[r], r)
          \/ /\ Fault /\ (Write \/ UNCHANGED oper) /\ UNCHANGED events
             /\ End(r, "storeErr", NoReq)
    /\ UNCHANGED <<claim, owner, receipt, recon, remote, body, tries, lifecycle,
                   recovery, process>>

--------------------------------------------------------------------------------
(* Recovery *)

\* recover_processing_mutation, called by guard_ipc_response for its own id: it
\* acts on whatever claim the id has, also one another request made.
GuardRecovers(r) ==
    /\ pc[r] = "guard"
    /\ StoreOk
    /\ MarkIndeterminate(Mid[r], RecoveryPasses)
    /\ IF claim[Mid[r]] = "absent"
       THEN End(r, "timeout", NoReq)
       ELSE End(r, DurableResponse(Mid[r]), owner[Mid[r]])
    /\ tries' = [tries EXCEPT ![r] = 0]
    /\ UNCHANGED <<remote, body, events, lifecycle, recovery, process>>

\* Nothing is scheduled when this recovery fails: the claim waits for a restart.
GuardFails(r) ==
    /\ pc[r] = "guard"
    /\ Fault
    /\ \/ /\ MarkIndeterminate(Mid[r], RecoveryPasses) \/ UNCHANGED rows
          /\ Retry(r, End(r, "storeErr", NoReq) /\ UNCHANGED lifecycle)
       \/ /\ tries[r] = 0 /\ UNCHANGED rows     \* the claim or its intent is unreadable
          /\ End(r, "storeErr", NoReq)
          /\ UNCHANGED <<tries, lifecycle>>
    /\ UNCHANGED <<remote, body, events, recovery, process>>

\* The background task of schedule_processing_mutation_lifecycle_recovery loops
\* until one pass succeeds.
LifecycleRecovers(i) ==
    /\ i \in lifecycle
    /\ \/ StoreOk /\ MarkIndeterminate(i, RecoveryPasses) /\ lifecycle' = lifecycle \ {i}
       \/ Fault /\ (MarkIndeterminate(i, RecoveryPasses) \/ UNCHANGED rows)
          /\ UNCHANGED lifecycle
    /\ UNCHANGED <<remote, tasks, recovery, process>>

\* recover_provider_mutation_lifecycle_after_startup.  The first run precedes the
\* socket; a failed run is retried in the background of a serving daemon.
RecoveryFails ==
    /\ rpc \in {"begin", "listPending", "listClaims", "receipts"}
    /\ Fault
    /\ rpc' = "sleep" /\ serving' = TRUE
    /\ todo' = {} /\ pend' = {} /\ recFailed' = FALSE
    /\ UNCHANGED <<store, tasks, lifecycle, up, crashes, forgotten>>

RecoveryRetries ==
    /\ rpc = "sleep"
    /\ rpc' = "begin"
    /\ UNCHANGED <<store, tasks, lifecycle, todo, pend, recFailed, process, faults>>

\* processing_mutation_claims: a snapshot, recovered claim by claim.
ListClaims ==
    /\ rpc = "begin"
    /\ todo' = Processing
    /\ rpc' = "claims"
    /\ UNCHANGED <<store, tasks, lifecycle, pend, recFailed, process, faults>>

RecoverClaim(i) ==
    /\ rpc = "claims" /\ i \in todo
    /\ todo' = todo \ {i}
    /\ \/ StoreOk /\ MarkIndeterminate(i, RecoveryPasses) /\ UNCHANGED recFailed
       \/ Fault /\ (MarkIndeterminate(i, RecoveryPasses) \/ UNCHANGED rows)
          /\ recFailed' = TRUE
    /\ UNCHANGED <<remote, tasks, lifecycle, rpc, pend, process>>

ClaimsRecovered ==
    /\ rpc = "claims" /\ todo = {}
    /\ rpc' = "listPending"
    /\ UNCHANGED <<store, tasks, lifecycle, todo, pend, recFailed, process, faults>>

\* recover_pending_receipts reads the pending receipts first and the processing
\* claims second, and leaves the receipts of the latter alone.
ListPending ==
    /\ rpc = "listPending"
    /\ pend' = {r \in Reqs : receipt[r] = "pending"}
    /\ rpc' = "listClaims"
    /\ UNCHANGED <<store, tasks, lifecycle, todo, recFailed, process, faults>>

\* Mutant: receipts owned by a processing claim are recovered too.
SkipProcessing_None(p) == p

SkipProcessing(p) == p \ {owner[i] : i \in Processing}

SubtractClaims ==
    /\ rpc = "listClaims"
    /\ pend' = SkipProcessing(pend)
    /\ rpc' = "receipts"
    /\ UNCHANGED <<store, tasks, lifecycle, todo, recFailed, process, faults>>

\* finalize_receipt leaves a terminal receipt alone; the event is sent regardless.
RecoverReceipt(r) ==
    /\ rpc = "receipts" /\ r \in pend
    /\ receipt' = Terminalize(receipt, r, "failed")
    /\ pend' = pend \ {r}
    /\ Announce(r, "failed")
    /\ UNCHANGED <<claim, owner, oper, recon, remote, pc, body, tries, lane, reply,
                   from, lifecycle, rpc, todo, recFailed, process, faults>>

\* Mutant: claims that could not be recovered are counted and dropped.
NextRun_Done == "done"

\* A run that could not recover some claim is an error, hence retried.
NextRun == IF recFailed THEN "sleep" ELSE "done"

RecoveryEnds ==
    /\ rpc = "receipts" /\ pend = {}
    /\ rpc' = NextRun
    /\ recFailed' = FALSE
    /\ serving' = TRUE
    /\ UNCHANGED <<store, tasks, lifecycle, todo, pend, up, crashes, forgotten, faults>>

--------------------------------------------------------------------------------
(* The process *)

\* Crash, kill or shutdown past the drain timeout: tasks, lanes and schedules are
\* lost; rows and writes already on the wire are not.
Crash ==
    /\ up /\ crashes < MaxCrashes
    /\ up' = FALSE /\ serving' = FALSE /\ crashes' = crashes + 1
    /\ pc' = [r \in Reqs |-> IF pc[r] \in Live THEN "dead" ELSE pc[r]]
    /\ tries' = [r \in Reqs |-> 0]
    /\ lane' = [l \in Lanes |-> NoReq]
    /\ lifecycle' = {} /\ todo' = {} /\ pend' = {} /\ recFailed' = FALSE
    /\ rpc' = "off"
    /\ UNCHANGED <<store, body, reply, from, events, faults, forgotten>>

Restart ==
    /\ ~up
    /\ up' = TRUE
    /\ rpc' = "begin"
    /\ UNCHANGED <<store, tasks, lifecycle, todo, pend, recFailed, serving, crashes,
                   forgotten, faults>>

\* Mutant: prune does not spare 'processing' rows.
Expirable_Any(i) == claim[i] # "absent"

\* DELETE ... WHERE state != 'processing'
Expirable(i) == claim[i] \in Outcomes

\* prune_expired_mutations.  A terminal row expires 24 h after its last update,
\* far beyond every deadline of a task that still works on the id.
PruneExpired(i) ==
    /\ up /\ Expirable(i)
    /\ pc[owner[i]] \notin Live /\ i \notin lifecycle \cup todo
    /\ claim' = [claim EXCEPT ![i] = "absent"]
    /\ owner' = [owner EXCEPT ![i] = NoReq]
    /\ forgotten' = forgotten \cup {owner[i]}
    /\ UNCHANGED <<receipt, oper, recon, remote, tasks, lifecycle, recovery, up,
                   serving, crashes, faults>>

--------------------------------------------------------------------------------

\* Steps of a request's task that finish once the store answers.
StoreStep(r) ==
    \/ LookupClaim(r) \/ LookupReceipt(r) \/ LookupFails(r)
    \/ Claim(r) \/ ClaimFails(r) \/ InsertPendingReceipt(r) \/ InsertPendingOperation(r)
    \/ IntentFails(r) \/ FinalizeClaimed(r) \/ FinalizeFails(r)
    \/ Fallback(r) \/ FallbackFails(r)
    \/ PersistIndeterminate(r) \/ PersistIndeterminateFails(r)
    \/ FinalizePartial(r) \/ FinalizeReceipt(r) \/ FinalizeOperation(r)
    \/ GuardRecovers(r) \/ GuardFails(r)

BodyStep(r) == StartBody(r) \/ SendWrite(r) \/ BodyReturns(r)

Timer(r) == DeadlineExpires(r) \/ BodyTimeout(r)

ProviderStep(r) == ProviderApplies(r) \/ ProviderRefuses(r)

RecoveryStep ==
    \/ RecoveryFails \/ RecoveryRetries \/ ListClaims \/ ClaimsRecovered \/ ListPending
    \/ SubtractClaims \/ RecoveryEnds
    \/ \E i \in Ids : RecoverClaim(i)
    \/ \E r \in Reqs : RecoverReceipt(r)

\* Everything has been submitted and has come to rest.
Quiescent ==
    /\ up /\ rpc = "done" /\ lifecycle = {} /\ wire = {}
    /\ \A r \in Reqs : pc[r] \in {"done", "dead"}
    /\ UNCHANGED vars

Next ==
    \/ \E r \in Reqs : Submit(r) \/ AuthBlocked(r) \/ StoreStep(r) \/ BodyStep(r)
                       \/ Timer(r) \/ ProviderStep(r)
    \/ \E i \in Ids : LifecycleRecovers(i) \/ PruneExpired(i)
    \/ RecoveryStep \/ Crash \/ Restart \/ Quiescent

\* The runtime drives every task and every timer; SQLite answers.  Nothing is
\* assumed of the provider, of a lane's holder, or of clients.
Fairness ==
    /\ \A r \in Reqs : WF_vars(StoreStep(r)) /\ WF_vars(Timer(r))
    /\ \A i \in Ids : WF_vars(LifecycleRecovers(i))
    /\ WF_vars(RecoveryStep) /\ WF_vars(Restart)

Spec == Init /\ [][Next]_vars /\ Fairness

--------------------------------------------------------------------------------
(* Properties *)

\* The dedup row, its receipt and its operation move together: all processing /
\* pending, or all terminal with the same outcome.  finalize_claimed_mutation and
\* finalize_processing_claim are one transaction each, and no other writer of
\* receipts (recover_pending_receipts, retried while requests run) splits them.
RowsAgree ==
    \A i \in Ids :
        /\ claim[i] = "absent" <=> owner[i] = NoReq
        /\ claim[i] = "processing" =>
              receipt[owner[i]] = "pending" /\ oper[owner[i]] = "pending"
        /\ claim[i] \in Outcomes =>
              /\ receipt[owner[i]] = ReceiptOf(claim[i])
              /\ oper[owner[i]] = OperOf(owner[i], claim[i])

\* A mutation id reaches the provider at most once, however often clients retry it
\* and wherever the daemon crashes, times out or recovers, until the id's row
\* expires: two requests of one id never both send their write.
AtMostOnce ==
    \A r, s \in sent \ forgotten : HasId(r) /\ Mid[r] = Mid[s] => r = s

\* A terminal row is never rewritten: not by a late finalization, not by a
\* recovery that took its snapshot earlier, not by a retry of a committed
\* transaction.  A dedup row may only expire.
TerminalIsFinal ==
    [][/\ \A i \in Ids : claim[i] \in Outcomes => claim'[i] \in {claim[i], "absent"}
       /\ \A r \in Reqs : receipt[r] \in {"confirmed", "failed"} => receipt'[r] = receipt[r]
       /\ \A r \in Reqs : oper[r] \in {"succeeded", "failed"} => oper'[r] = oper[r]]_vars

\* Every definite answer about an id, to whichever request and by whichever path
\* (first run, replay, deadline guard, fallback), tells the durable outcome, so no
\* two of them contradict each other and "ok" is only said of a confirmed receipt.
AnswersTellDurableOutcome ==
    \A r \in Reqs : HasId(r) /\ reply[r] \in Outcomes =>
        /\ reply[r] = "ok" <=> receipt[from[r]] = "confirmed"
        /\ from[r] \notin forgotten => claim[Mid[r]] = reply[r] /\ owner[Mid[r]] = from[r]

\* An outcome the daemon cannot vouch for leaves a durable reconciliation behind
\* in the same transaction, and one whose body never reported (timeout, crash)
\* demands a second, later pass, because its write may still be on the wire.
UncertainIsReconciled ==
    \A i \in Ids : claim[i] \in {"partial", "indet"} /\ Payload[owner[i]] \in Reconcilable =>
        /\ recon[owner[i]] > 0
        /\ claim[i] = "indet" /\ result[owner[i]] = "none" => recon[owner[i]] = 2

\* A claim in 'processing' is never without somebody who will settle it: the task of
\* its request, a scheduled recovery, or a run of the startup recovery that has it on
\* its list, has yet to make the list, or will be repeated.  The exception is a request
\* that was told of a store error (ClaimFails, GuardFails): its claim waits for a restart.
NoClaimIsForgotten ==
    up => \A i \in Processing :
        \/ pc[owner[i]] \in Live
        \/ i \in lifecycle \cup todo
        \/ rpc \in {"begin", "sleep"} \/ recFailed
        \/ pc[owner[i]] = "done" /\ reply[owner[i]] = "storeErr"

\* Where a task has its lane: an optimistic one while its body runs, record_operation
\* until the outcome is in the rows.
HoldsLane(r) == pc[r] \in {"body", "sent"} \/ (~Opt(r) /\ pc[r] \in Saving)

\* A lane belongs to the one task that is at such a place, and to nobody when there is
\* none: provider writes of a lane never overlap, and no way out of a body (result,
\* timeout, deadline, store error, crash) leaves the lane taken.
LanesSerialize ==
    \A l \in Lanes, r \in Reqs : lane[l] = r <=> HoldsLane(r) /\ LaneOf[Payload[r]] = l

\* No request task waits for ever: not for its lane, not for the provider, not for
\* a store that fails a bounded number of times.
TasksEnd == \A r \in Reqs : pc[r] \in Live ~> pc[r] \notin Live

\* While the store answers, every claim becomes terminal, with or without crashes.
\* (A store error can leave a claim to the next restart: GuardFails, ClaimFails.)
ClaimsSettle ==
    \A i \in Ids : claim[i] = "processing" ~> claim[i] # "processing" \/ faults > 0

\* Whatever a crash leaves in 'processing' is settled after the restart, even when
\* the startup recovery fails and is retried behind a serving socket.
CrashedClaimsSettle ==
    \A i \in Ids : ~up /\ claim[i] = "processing" ~> claim[i] # "processing"

\* Refinement: to a client, all of the above is one id that is held by one
\* request, runs once, settles once and is forgotten later.
Keyed == {r \in Reqs : HasId(r)}
Once == INSTANCE MutationOnce
            WITH slot <- claim, holder <- owner, ran <- sent \cap Keyed, spent <- forgotten
ImplementsOnce == Once!OnceSpec

(* What the documentation says and the code does not do; see the violation runs *)

\* MutationFinalized is never broadcast with two different outcomes for a receipt.
FinalizedEventsAgree == \A r \in Reqs : Cardinality(events[r]) <= 1

\* A replay never reports an error for a receipt it read as confirmed.
CompletedIsReplayable ==
    \A r \in Reqs : reply[r] = "noresp" => receipt[from[r]] # "confirmed"
================================================================================
