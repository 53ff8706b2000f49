------------------------- MODULE ProviderReconciliation -------------------------
(***************************************************************************)
(* One provider_reconciliations row and the background tasks that work it    *)
(* off: it re-reads the provider after a write with an uncertain outcome, a   *)
(* fixed number of times with a gap in between.  Every statement of the code  *)
(* is keyed by the reconciliation id, so rows do not interact and one row is  *)
(* the whole story.                                                          *)
(*                                                                          *)
(* Time is the not-before deadline only: the gate closes when a pass is       *)
(* recorded and opens when its deadline has passed.  A backoff sleep is a      *)
(* task that has not moved yet.  A claim token is a UUID: any token that       *)
(* neither the row nor a task holds.                                          *)
(***************************************************************************)
EXTENDS Naturals

CONSTANTS
    Workers,       \* slots for concurrently running tasks (bound)
    Tokens,        \* claim tokens
    NoToken,       \* NULL
    Required,      \* required_passes of the row
    MaxFailures,   \* bound: passes the provider, or the verification, fails
    MaxFaults,     \* bound: store errors
    MaxReplays,    \* bound: client replays of the mutation
    MaxCrashes     \* bound: daemon crashes

ASSUME ReconciliationAssumption ==
    /\ NoToken \notin Tokens
    /\ Required \in Nat \ {0}
    /\ MaxFailures \in Nat /\ MaxFaults \in Nat
    /\ MaxReplays \in Nat /\ MaxCrashes \in Nat

VARIABLES
    \* the row, with its provider_reconciliation_stability row
    status, attempts, token, last, passes, gate,
    \* tasks
    pc,            \* where a task is
    exp,           \* expected_attempts
    tok,           \* its claim token
    listers,       \* spawn_provider_reconciliations_for_receipt tasks
    \* process and bounds
    up, rpc, failures, faults, replays, crashes,
    \* history
    era,           \* not-before deadlines that have passed
    began,         \* era in which the running pass was claimed
    synced         \* eras in which a verified pass began

row     == <<status, attempts, token, last, passes>>
tasks   == <<pc, exp, tok>>
process == <<up, rpc, crashes>>
history == <<era, began, synced>>
vars    == <<status, attempts, token, last, passes, gate, pc, exp, tok, listers, up, rpc,
             failures, faults, replays, crashes, era, began, synced>>

Asleep  == {"claim", "reclaim", "wait"}
Owning  == {"work", "record"}
TypeOK ==
    /\ status \in {"absent", "pending", "running", "completed"}
    /\ attempts \in Nat
    /\ token \in Tokens \cup {NoToken} /\ last \in Tokens \cup {NoToken}
    /\ passes \in 0..Required
    /\ gate \in {"open", "closed"}
    /\ pc \in [Workers -> {"free", "gate", "fail"} \cup Asleep \cup Owning]
    /\ exp \in [Workers -> Nat]
    /\ tok \in [Workers -> Tokens \cup {NoToken}]
    /\ listers \in Nat
    /\ up \in BOOLEAN /\ rpc \in {"off", "resume", "done"}
    /\ failures \in 0..MaxFailures /\ faults \in 0..MaxFaults
    /\ replays \in 0..MaxReplays /\ crashes \in 0..MaxCrashes
    /\ era \in Nat /\ began \in Nat /\ synced \subseteq Nat

Init ==
    /\ status = "absent" /\ attempts = 0 /\ token = NoToken /\ last = NoToken
    /\ passes = 0 /\ gate = "open"
    /\ pc = [w \in Workers |-> "free"]
    /\ exp = [w \in Workers |-> 0]
    /\ tok = [w \in Workers |-> NoToken]
    /\ listers = 0
    /\ up = TRUE /\ rpc = "done"
    /\ failures = 0 /\ faults = 0 /\ replays = 0 /\ crashes = 0
    /\ era = 0 /\ began = 0 /\ synced = {}

--------------------------------------------------------------------------------
(* Tasks *)

StoreOk == UNCHANGED faults
Fault   == faults < MaxFaults /\ faults' = faults + 1

InUse   == {token, last} \cup {tok[v] : v \in Workers}

\* A task in slot w at l, expecting n attempts, with a token of its own.
Spawn(w, l, n) ==
    /\ pc' = [pc EXCEPT ![w] = l]
    /\ exp' = [exp EXCEPT ![w] = n]
    /\ \E t \in Tokens \ InUse : tok' = [tok EXCEPT ![w] = t]

Goto(w, l) ==
    /\ pc' = [pc EXCEPT ![w] = l]
    /\ UNCHANGED <<exp, tok>>

End(w) ==
    /\ pc' = [pc EXCEPT ![w] = "free"]
    /\ exp' = [exp EXCEPT ![w] = 0]
    /\ tok' = [tok EXCEPT ![w] = NoToken]

--------------------------------------------------------------------------------
(* The row *)

\* The row is running under this task's claim.
Mine(w) == status = "running" /\ attempts = exp[w] + 1 /\ token = tok[w]

\* This task's guarded write is already in the row.
Applied(w, s) == status = s /\ attempts = exp[w] + 1 /\ last = tok[w]

\* Mutants: the not-before deadline, or the expected attempts, are not compared.
Claimable_Early(w)  == status = "pending" /\ attempts = exp[w]
Claimable_Stolen(w) == status \in {"pending", "running"} /\ gate = "open"

\* WHERE status = 'pending' AND attempts = ? AND NOT EXISTS (... > now)
Claimable(w) == status = "pending" /\ attempts = exp[w] /\ gate = "open"

ClaimRow(w) ==
    /\ Claimable(w)
    /\ status' = "running" /\ attempts' = attempts + 1
    /\ token' = tok[w] /\ last' = NoToken
    /\ began' = era
    /\ UNCHANGED passes

MorePasses == passes + 1 < Required

\* Mutant: the pass is counted twice.
CountPass_Twice == passes' = passes + 2

\* A row that needs one pass has no stability row to count in.
CountPass == passes' = IF Required > 1 THEN passes + 1 ELSE passes

\* Mutant: the next pass may begin at once.
RecordRow_NoGap(w) ==
    /\ Mine(w)
    /\ status' = IF MorePasses THEN "pending" ELSE "completed"
    /\ CountPass
    /\ token' = NoToken /\ last' = tok[w]
    /\ UNCHANGED <<attempts, gate>>

RecordRow(w) ==
    /\ Mine(w)
    /\ IF MorePasses
       THEN status' = "pending" /\ gate' = "closed"
       ELSE status' = "completed" /\ gate' = "open"
    /\ CountPass
    /\ token' = NoToken /\ last' = tok[w]
    /\ UNCHANGED attempts

ResetRow(w) ==
    /\ Mine(w)
    /\ status' = "pending" /\ token' = NoToken /\ last' = tok[w]
    /\ UNCHANGED <<attempts, passes>>

--------------------------------------------------------------------------------
(* The row is created, listed and replayed *)

\* insert_provider_reconciliation_tx, inside the transaction that terminalizes the
\* mutation.  The caller then spawns a lister, unless it is dropped at its deadline
\* or was told that the transaction failed.
Insert ==
    /\ up /\ status = "absent"
    /\ status' = "pending"
    /\ listers' = listers + 1 \/ UNCHANGED listers
    /\ UNCHANGED <<attempts, token, last, passes, gate, tasks, process, failures, faults,
                   replays, history>>

\* A client replays the mutation, which spawns another lister.
Replay ==
    /\ up /\ status # "absent" /\ replays < MaxReplays
    /\ replays' = replays + 1
    /\ listers' = listers + 1
    /\ UNCHANGED <<row, gate, tasks, process, failures, faults, history>>

\* The listing loop of a lister; it ends with the first listing that succeeds.
List ==
    /\ listers > 0
    /\ listers' = listers - 1
    /\ IF status = "pending"
       THEN \E w \in Workers : pc[w] = "free" /\ Spawn(w, "claim", attempts)
       ELSE UNCHANGED tasks
    /\ UNCHANGED <<row, gate, process, failures, faults, replays, history>>

--------------------------------------------------------------------------------
(* A worker *)

\* claim_provider_reconciliation_if_attempts, or after an error the variant that
\* first looks for a running row under its own token.
Claim(w) ==
    /\ pc[w] \in {"claim", "reclaim"}
    /\ StoreOk
    /\ \/ ClaimRow(w) /\ Goto(w, "work")
       \/ /\ pc[w] = "reclaim" /\ Mine(w)
          /\ Goto(w, "work")
          /\ UNCHANGED <<row, began>>
       \/ /\ ~Claimable(w) /\ ~(pc[w] = "reclaim" /\ Mine(w))
          /\ Goto(w, "gate")
          /\ UNCHANGED <<row, began>>
    /\ UNCHANGED <<gate, listers, process, failures, replays, era, synced>>

\* Mutant: an ambiguous claim is retried as a new task with a new token.
ReclaimTask_Fresh(w) == Spawn(w, "claim", exp[w])

\* schedule_provider_reconciliation_claim_retry keeps the token.
ReclaimTask(w) == Goto(w, "reclaim")

\* The claim reports an error; it committed or not, and the row is then read
\* back or not.
ClaimFails(w) ==
    /\ pc[w] \in {"claim", "reclaim"}
    /\ Fault
    /\ \/ ClaimRow(w) /\ (Goto(w, "work") \/ ReclaimTask(w))
       \/ ReclaimTask(w) /\ UNCHANGED <<row, began>>
    /\ UNCHANGED <<gate, listers, process, failures, replays, era, synced>>

\* The claim was refused: provider_reconciliation_not_before_ms, a second read,
\* tells whether to sleep until the deadline or to leave the row to others.
ReadNotBefore(w) ==
    /\ pc[w] = "gate"
    /\ \/ StoreOk /\ IF status = "pending" /\ attempts = exp[w] /\ gate = "closed"
                     THEN Spawn(w, "wait", exp[w])
                     ELSE End(w)
       \/ Fault /\ ReclaimTask(w)
    /\ UNCHANGED <<row, gate, listers, process, failures, replays, history>>

\* A sleep until the deadline, or for the two seconds of the stability gap.
Wake(w) ==
    /\ pc[w] = "wait" /\ gate = "open"
    /\ Goto(w, "claim")
    /\ UNCHANGED <<row, gate, listers, process, failures, faults, replays, history>>

\* The provider is resolved, cursors are cleared, the target is synced and its
\* resources are verified, all of it under timeouts.
SyncSucceeds(w) ==
    /\ pc[w] = "work"
    /\ Goto(w, "record")
    /\ synced' = synced \cup {began}
    /\ UNCHANGED <<row, gate, listers, process, failures, faults, replays, era, began>>

\* Any of that fails, times out or panics.
SyncFails(w) ==
    /\ pc[w] = "work"
    /\ failures < MaxFailures /\ failures' = failures + 1
    /\ Goto(w, "fail")
    /\ UNCHANGED <<row, gate, listers, process, faults, replays, history>>

\* Mutant: the task that recorded a pass does not come back for the next one.
NextPass_None(w) == End(w)

NextPass(w) == Spawn(w, "wait", exp[w] + 1)

\* record_provider_reconciliation_success: Completed, NeedsAnotherPass or Stale.
Record(w) ==
    /\ pc[w] = "record"
    /\ StoreOk
    /\ \/ RecordRow(w) /\ IF MorePasses THEN NextPass(w) ELSE End(w)
       \/ /\ ~Mine(w)
          /\ IF Applied(w, "pending") THEN NextPass(w) ELSE End(w)
          /\ UNCHANGED <<row, gate>>
    /\ UNCHANGED <<listers, process, failures, replays, history>>

\* The transaction reports an error.  When it committed and the row can be read
\* back the outcome is known after all; otherwise the pass counts as failed.
RecordFails(w) ==
    /\ pc[w] = "record"
    /\ Fault
    /\ \/ RecordRow(w) /\ IF MorePasses THEN NextPass(w) ELSE End(w)
       \/ RecordRow(w) /\ Goto(w, "fail")
       \/ Goto(w, "fail") /\ UNCHANGED <<row, gate>>
    /\ UNCHANGED <<listers, process, failures, replays, history>>

\* Mutant: the retry is scheduled with the attempts the task had expected.
RetryTask_OldAttempts(w) == Spawn(w, "claim", exp[w])

\* schedule_provider_reconciliation_retry
RetryTask(w) == Spawn(w, "claim", exp[w] + 1)

\* fail_provider_reconciliation_if_attempts: the row is pending again and a retry
\* is scheduled, unless the claim is somebody else's by now.
Reset(w) ==
    /\ pc[w] = "fail"
    /\ StoreOk
    /\ \/ ResetRow(w) /\ RetryTask(w)
       \/ /\ ~Mine(w)
          /\ IF Applied(w, "pending") THEN RetryTask(w) ELSE End(w)
          /\ UNCHANGED row
    /\ UNCHANGED <<gate, listers, process, failures, replays, history>>

\* The loops of fail_started_provider_reconciliation and of the reset retry behind
\* it go on until the outcome is known.
ResetFails(w) ==
    /\ pc[w] = "fail"
    /\ Fault
    /\ \/ ResetRow(w) /\ (RetryTask(w) \/ UNCHANGED tasks)
       \/ UNCHANGED <<row, tasks>>
    /\ UNCHANGED <<gate, listers, process, failures, replays, history>>

--------------------------------------------------------------------------------
(* Time and process *)

Elapse ==
    /\ gate = "closed"
    /\ gate' = "open"
    /\ era' = era + 1
    /\ UNCHANGED <<row, tasks, listers, process, failures, faults, replays, began, synced>>

Crash ==
    /\ up /\ crashes < MaxCrashes
    /\ up' = FALSE /\ rpc' = "off" /\ crashes' = crashes + 1
    /\ pc' = [w \in Workers |-> "free"]
    /\ exp' = [w \in Workers |-> 0]
    /\ tok' = [w \in Workers |-> NoToken]
    /\ listers' = 0
    /\ UNCHANGED <<row, gate, failures, faults, replays, history>>

\* Mutant: rows of the dead daemon stay 'running'.
RecoverRunning_None == UNCHANGED <<status, token, last>>

\* recover_running_provider_reconciliations
RecoverRunning ==
    IF status = "running"
    THEN status' = "pending" /\ token' = NoToken /\ last' = NoToken
    ELSE UNCHANGED <<status, token, last>>

\* A restart resets running rows before anything else runs; when that fails the
\* daemon does not start.
Restart ==
    /\ ~up
    /\ \/ StoreOk /\ up' = TRUE /\ rpc' = "resume" /\ RecoverRunning
       \/ Fault /\ (RecoverRunning \/ UNCHANGED <<status, token, last>>)
          /\ UNCHANGED <<up, rpc>>
    /\ UNCHANGED <<attempts, passes, gate, tasks, listers, failures, replays, crashes,
                   history>>

ResumeRow ==
    IF status = "pending"
    THEN \E w \in Workers : pc[w] = "free" /\ Spawn(w, "claim", attempts)
    ELSE UNCHANGED tasks

\* resume_provider_reconciliations, the last part of a lifecycle recovery.  A
\* recovery that fails, here or in another part, is repeated as a whole.
Resume ==
    /\ rpc = "resume"
    /\ \/ StoreOk /\ ResumeRow /\ rpc' = "done"
       \/ Fault /\ (ResumeRow \/ UNCHANGED tasks) /\ UNCHANGED rpc
    /\ UNCHANGED <<row, gate, listers, up, crashes, failures, replays, history>>

--------------------------------------------------------------------------------

StoreStep(w) ==
    \/ Claim(w) \/ ClaimFails(w) \/ ReadNotBefore(w) \/ Record(w) \/ RecordFails(w)
    \/ Reset(w) \/ ResetFails(w)

Sync(w) == SyncSucceeds(w) \/ SyncFails(w)

\* Nothing is left to do for the tasks there are.
Quiescent ==
    /\ up /\ rpc = "done" /\ listers = 0 /\ gate = "open"
    /\ status # "absent"
    /\ \A w \in Workers : pc[w] = "free"
    /\ UNCHANGED vars

Next ==
    \/ Insert \/ Replay \/ List
    \/ \E w \in Workers : StoreStep(w) \/ Wake(w) \/ Sync(w)
    \/ Elapse \/ Crash \/ Restart \/ Resume \/ Quiescent

\* The runtime drives tasks and timers, SQLite answers, and a sync ends within its
\* timeouts.  Clients need not replay.
Fairness ==
    /\ WF_vars(List) /\ WF_vars(Elapse) /\ WF_vars(Restart) /\ WF_vars(Resume)
    /\ \A w \in Workers : WF_vars(StoreStep(w)) /\ WF_vars(Wake(w)) /\ WF_vars(Sync(w))

Spec == Init /\ [][Next]_vars /\ Fairness

--------------------------------------------------------------------------------
(* Properties *)

\* The pending -> running claim keeps the immediate worker, mutation replays,
\* scheduled retries and startup recovery apart: two tasks never sync the row at
\* the same time, also when claims and resets report errors they did not have.
OneSyncAtATime == \A v, w \in Workers : pc[v] = "work" /\ pc[w] = "work" => v = w

\* A row completes only after as many verified passes as it requires, each of them
\* claimed after the not-before deadline set by the one before it.  No error of
\* the recording transaction, retry, crash or second worker makes one pass count
\* twice.
CompletedIsEarned == status = "completed" => 0..(Required - 1) \subseteq synced

\* A task that will still try to claim the row as it stands; the owner of the
\* claim; or a task that has yet to find out that it gave the row back.
Attends(w) ==
    \/ status = "pending" /\ exp[w] = attempts /\ pc[w] \in Asleep
    \/ Mine(w) /\ pc[w] \in Owning \cup {"fail", "reclaim"}
    \/ Applied(w, "pending") /\ pc[w] = "fail"

\* No lost wake-up: a row that has been taken up and is not completed always has a
\* task, or a recovery, that carries it on.  For rows that need one pass this
\* holds with store errors and crashes anywhere; for rows with a stability gap, as
\* long as neither happens (see RestartConverges).
Attended ==
    /\ Required = 1 \/ (faults = 0 /\ crashes = 0)
    /\ up /\ rpc = "done" /\ attempts > 0 /\ status # "completed"
    => \E w \in Workers : Attends(w)

\* A row some task has claimed completes, if the provider stops failing.
ClaimedCompletes == status = "running" ~> status = "completed"

\* A restart takes up what the dead daemon left and completes it.
RestartConverges ==
    ~up /\ status \in {"pending", "running"} ~> status = "completed"

\* Refinement: to the mutation that asked for it the row is a number of passes, one at
\* a time and with a gap between them, whoever claims, loses, repeats or resets them.
\* A pass is verified while the owner of the claim has a sync to record.
Verified == \E w \in Workers : Mine(w) /\ pc[w] = "record"
Phase ==
    CASE status = "absent"    -> "none"
      [] status = "pending"   -> IF gate = "closed" THEN "gap" ELSE "due"
      [] status = "running"   -> IF Verified THEN "verified" ELSE "busy"
      [] status = "completed" -> "done"
\* A row that needs one pass counts it by completing.
Counted == IF status = "completed" THEN Required ELSE passes
Stable == INSTANCE StablePasses WITH Needed <- Required, phase <- Phase, counted <- Counted
ImplementsStablePasses == Stable!PassesSpec
================================================================================
