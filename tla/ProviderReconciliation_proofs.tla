---------------------- MODULE ProviderReconciliation_proofs ----------------------
(***************************************************************************)
(* Proofs about ProviderReconciliation, for every number of workers, passes,  *)
(* failures, store errors, replays and crashes.                              *)
(***************************************************************************)
EXTENDS ProviderReconciliation, TLAPS

--------------------------------------------------------------------------------
(* The inductive invariant *)

\* The row: only a running row has a token; the gate, the number of counted passes
\* and the number of elapsed deadlines go together.
RowInv ==
    /\ status = "running" <=> token # NoToken
    /\ status = "absent" => attempts = 0
    /\ status = "running" => gate = "open" /\ began = era /\ attempts > 0
    /\ gate = "closed" => status = "pending" /\ passes = era + 1 /\ passes < Required
    /\ gate = "open" /\ status # "completed" => passes = era /\ passes < Required
    /\ \A k \in 0..Required : k < passes => k \in synced
    /\ CompletedIsEarned

\* A task's token is its own; only the owner's is in the row, and only a task that
\* has yet to learn of its own write finds its token as the last one.
TokenInv ==
    /\ \A v, w \in Workers : tok[v] = tok[w] /\ tok[v] # NoToken => v = w
    /\ \A w \in Workers :
         /\ pc[w] = "free" <=> tok[w] = NoToken
         /\ tok[w] # NoToken /\ token = tok[w] =>
               Mine(w) /\ pc[w] \in Owning \cup {"fail", "reclaim"}
         /\ tok[w] # NoToken /\ last = tok[w] =>
               pc[w] = "fail" /\ status # "running" /\ attempts = exp[w] + 1

\* A task never expects more attempts than there were, and fewer while the row is
\* running; one that syncs owns the row.
TaskInv ==
    \A w \in Workers :
        /\ status = "absent" => pc[w] = "free"
        /\ exp[w] <= attempts
        /\ status = "running" \/ pc[w] = "fail" => exp[w] < attempts
        /\ pc[w] \in Owning => Mine(w)
        /\ pc[w] = "record" => began \in synced
        /\ pc[w] = "gate" /\ exp[w] = attempts /\ Required = 1 => status # "pending"

\* A daemon that is down has no tasks, and a running row has its owner in one that
\* is up.
ProcessInv ==
    /\ ~up => rpc = "off" /\ listers = 0 /\ \A w \in Workers : pc[w] = "free"
    /\ up /\ status = "running" =>
           \E w \in Workers : Mine(w) /\ pc[w] \in Owning \cup {"fail", "reclaim"}

\* While the gate is closed, somebody sleeps until it opens.
Quiet == faults = 0 /\ crashes = 0
SleeperInv ==
    Quiet /\ gate = "closed" =>
        \E w \in Workers : pc[w] = "wait" /\ exp[w] = attempts

IndInv == TypeOK /\ RowInv /\ TokenInv /\ TaskInv /\ ProcessInv /\ SleeperInv /\ Attended

--------------------------------------------------------------------------------
(* What the task operations do, task by task *)

Labels == {"free", "gate", "fail"} \cup Asleep \cup Owning

TaskTypes ==
    /\ pc \in [Workers -> Labels]
    /\ exp \in [Workers -> Nat]
    /\ tok \in [Workers -> Tokens \cup {NoToken}]

\* Nothing happens to the tasks other than w.
Others(w) ==
    \A v \in Workers \ {w} : pc'[v] = pc[v] /\ exp'[v] = exp[v] /\ tok'[v] = tok[v]

\* Task w moves to l, keeping its token and what it expects.
Kept(w, l) ==
    /\ TaskTypes' /\ Others(w)
    /\ pc'[w] = l /\ exp'[w] = exp[w] /\ tok'[w] = tok[w]

\* Task w starts over at l, expecting n attempts, with a token nobody has.
Fresh(w, l, n) ==
    /\ TaskTypes' /\ Others(w)
    /\ pc'[w] = l /\ exp'[w] = n
    /\ tok'[w] \in Tokens /\ tok'[w] # token /\ tok'[w] # last
    /\ \A v \in Workers : tok'[w] # tok[v]

\* Task w is gone.
Gone(w) ==
    /\ TaskTypes' /\ Others(w)
    /\ pc'[w] = "free" /\ exp'[w] = 0 /\ tok'[w] = NoToken

\* Goto changes one task's place only.
LEMMA GotoKeeps ==
    ASSUME TypeOK, NEW w \in Workers, NEW l \in Labels, Goto(w, l)
    PROVE  Kept(w, l)
BY DEF TypeOK, Goto, Kept, TaskTypes, Others, Labels

\* Spawn's token is new: a UUID that neither the row nor another task has.
LEMMA SpawnIsFresh ==
    ASSUME TypeOK, NEW w \in Workers, NEW l \in Labels, NEW n \in Nat, Spawn(w, l, n)
    PROVE  Fresh(w, l, n)
<1>1. PICK t \in Tokens \ InUse : tok' = [tok EXCEPT ![w] = t]
  BY DEF Spawn
<1>2. t # token /\ t # last /\ \A v \in Workers : t # tok[v]
  BY <1>1 DEF InUse
<1> QED BY <1>1, <1>2 DEF TypeOK, Spawn, Fresh, TaskTypes, Others, Labels

\* End frees the slot.
LEMMA EndIsGone ==
    ASSUME TypeOK, NEW w \in Workers, End(w)
    PROVE  Gone(w)
BY DEF TypeOK, End, Gone, TaskTypes, Others, Labels

\* The owner of the claim is the only task that syncs or records.
LEMMA OneOwner ==
    ASSUME IndInv, NEW w \in Workers, Mine(w)
    PROVE  \A v \in Workers : pc[v] \in Owning => v = w
<1>1. token # NoToken /\ token = tok[w]
  BY DEF IndInv, RowInv, Mine
<1>2. ASSUME NEW v \in Workers, pc[v] \in Owning PROVE tok[v] = tok[w]
  BY <1>1, <1>2 DEF IndInv, TaskInv, Mine
<1> QED BY <1>1, <1>2 DEF IndInv, TokenInv

\* A new row has no tasks and no attempts.
LEMMA InsertInd ==
    ASSUME IndInv, Insert PROVE IndInv'
<1> USE ReconciliationAssumption
<1>1. TypeOK'
  BY DEF IndInv, TypeOK, Insert, tasks, process, history
<1>2. RowInv'
  BY DEF IndInv, RowInv, CompletedIsEarned, Insert, history
<1>3. TokenInv'
  BY DEF IndInv, TokenInv, Mine, Insert, tasks
<1>4. TaskInv'
  BY DEF IndInv, TaskInv, Owning, Insert, tasks
<1>5. ProcessInv'
  BY DEF IndInv, ProcessInv, Insert, process
<1>6. SleeperInv'
  BY DEF IndInv, SleeperInv, Quiet, Insert, tasks, process
<1>7. Attended'
  BY DEF IndInv, Attended, Attends, Applied, Mine, Insert, process
<1> QED BY <1>1, <1>2, <1>3, <1>4, <1>5, <1>6, <1>7 DEF IndInv

\* A replay only adds a lister.
LEMMA ReplayInd ==
    ASSUME IndInv, Replay PROVE IndInv'
<1> USE ReconciliationAssumption
<1>1. TypeOK'
  BY DEF IndInv, TypeOK, Replay, row, tasks, process, history
<1>2. RowInv'
  BY DEF IndInv, RowInv, CompletedIsEarned, Replay, row, history
<1>3. TokenInv'
  BY DEF IndInv, TokenInv, Mine, Replay, row, tasks
<1>4. TaskInv'
  BY DEF IndInv, TaskInv, Mine, Replay, row, tasks, history
<1>5. ProcessInv'
  BY DEF IndInv, ProcessInv, Mine, Replay, row, tasks, process
<1>6. SleeperInv'
  BY DEF IndInv, SleeperInv, Quiet, Replay, row, tasks, process
<1>7. Attended'
  BY DEF IndInv, Attended, Attends, Applied, Mine, Replay, row, tasks, process
<1> QED BY <1>1, <1>2, <1>3, <1>4, <1>5, <1>6, <1>7 DEF IndInv

\* A sleeper that wakes still expects what it expected.
LEMMA WakeInd ==
    ASSUME IndInv, NEW w \in Workers, Wake(w) PROVE IndInv'
<1> USE ReconciliationAssumption
<1>0. Kept(w, "claim")
  BY GotoKeeps DEF IndInv, Wake, Labels, Asleep
<1>1. TypeOK'
  BY <1>0 DEF IndInv, TypeOK, TaskTypes, Labels, Wake, Kept, row, process, history
<1>2. RowInv'
  BY <1>0 DEF IndInv, RowInv, CompletedIsEarned, Wake, row, history
<1>3. TokenInv'
  BY <1>0 DEF IndInv, TokenInv, Mine, Owning, Others, Wake, Kept, row
<1>4. TaskInv'
  BY <1>0 DEF IndInv, TaskInv, Mine, Owning, Others, Wake, Kept, row, history
<1>5. ProcessInv'
  BY <1>0 DEF IndInv, ProcessInv, Mine, Owning, Others, Wake, Kept, row, process
<1>6. SleeperInv'
  BY <1>0 DEF SleeperInv, Wake
<1>7. Attended'
  BY <1>0 DEF IndInv, Attended, Attends, Applied, Mine, Owning, Asleep, Others, Wake,
     Kept, row, process
<1> QED BY <1>1, <1>2, <1>3, <1>4, <1>5, <1>6, <1>7 DEF IndInv

\* A verified pass leaves its mark on the era it began in.
LEMMA SyncSucceedsInd ==
    ASSUME IndInv, NEW w \in Workers, SyncSucceeds(w) PROVE IndInv'
<1> USE ReconciliationAssumption
<1>0. Kept(w, "record")
  BY GotoKeeps DEF IndInv, SyncSucceeds, Labels, Owning
<1>1. TypeOK'
  BY <1>0 DEF IndInv, TypeOK, TaskTypes, Labels, SyncSucceeds, Kept, row, process
<1>2. RowInv'
  BY <1>0 DEF IndInv, RowInv, CompletedIsEarned, SyncSucceeds, row
<1>3. TokenInv'
  BY <1>0 DEF IndInv, TokenInv, Mine, Asleep, Others, TaskTypes, Labels, SyncSucceeds,
     Kept, row
<1>4. TaskInv'
  BY <1>0 DEF IndInv, TaskInv, Mine, Owning, Others, SyncSucceeds, Kept, row
<1>5. ProcessInv'
  BY <1>0 DEF IndInv, ProcessInv, Mine, Owning, Others, SyncSucceeds, Kept, row, process
<1>6. SleeperInv'
  BY <1>0 DEF IndInv, SleeperInv, Quiet, Others, SyncSucceeds, Kept, row, process
<1>7. Attended'
  BY <1>0 DEF IndInv, Attended, Attends, Applied, Mine, Owning, Asleep, Others,
     SyncSucceeds, Kept, row, process
<1> QED BY <1>1, <1>2, <1>3, <1>4, <1>5, <1>6, <1>7 DEF IndInv

\* A failed pass still owns the row until it is reset.
LEMMA SyncFailsInd ==
    ASSUME IndInv, NEW w \in Workers, SyncFails(w) PROVE IndInv'
<1> USE ReconciliationAssumption
<1>0. Kept(w, "fail")
  BY GotoKeeps DEF IndInv, SyncFails, Labels
<1>1. TypeOK'
  BY <1>0 DEF IndInv, TypeOK, TaskTypes, Labels, SyncFails, Kept, row, process, history
<1>2. RowInv'
  BY <1>0 DEF IndInv, RowInv, CompletedIsEarned, SyncFails, row, history
<1>3. TokenInv'
  BY <1>0 DEF IndInv, TokenInv, Mine, Others, SyncFails, Kept, row
<1>4. TaskInv'
  BY <1>0 DEF IndInv, TaskInv, Mine, Owning, Others, SyncFails, Kept, row, history
<1>5. ProcessInv'
  BY <1>0 DEF IndInv, ProcessInv, Mine, Others, SyncFails, Kept, row, process
<1>6. SleeperInv'
  BY <1>0 DEF IndInv, SleeperInv, Quiet, Others, SyncFails, Kept, row, process
<1>7. Attended'
  BY <1>0 DEF IndInv, Attended, Attends, Applied, Mine, Asleep, Others, SyncFails, Kept,
     row, process
<1> QED BY <1>1, <1>2, <1>3, <1>4, <1>5, <1>6, <1>7 DEF IndInv

\* A claim makes the task the owner, finds that it is, or sends it to read the deadline.
LEMMA ClaimInd ==
    ASSUME IndInv, NEW w \in Workers, Claim(w) PROVE IndInv'
<1> USE ReconciliationAssumption
<1>1. CASE ClaimRow(w) /\ Goto(w, "work")
  <2>0. Kept(w, "work")
    BY <1>1, GotoKeeps DEF IndInv, Labels, Owning
  <2>1. TypeOK'
    BY <1>1, <2>0 DEF IndInv, TypeOK, TaskTypes, Labels, Claim, ClaimRow, StoreOk, Kept,
       process
  <2>2. RowInv'
    BY <1>1, <2>0 DEF IndInv, TypeOK, RowInv, TokenInv, CompletedIsEarned, Claim,
       ClaimRow, Claimable
  <2>3. TokenInv'
    BY <1>1, <2>0 DEF IndInv, TokenInv, Mine, Asleep, Others, TaskTypes, Labels, Claim,
       ClaimRow, Claimable, Kept
  <2>4. TaskInv'
    BY <1>1, <2>0 DEF IndInv, TaskInv, Mine, Asleep, Others, TaskTypes, Labels,
       ClaimRow, Claimable, Kept
  <2>5. ProcessInv'
    BY <1>1, <2>0 DEF IndInv, ProcessInv, Mine, Owning, Claim, ClaimRow, Claimable,
       Kept, process
  <2>6. SleeperInv'
    BY <1>1, <2>0 DEF SleeperInv, Claim, ClaimRow, Claimable
  <2>7. Attended'
    BY <1>1, <2>0 DEF IndInv, Attended, Attends, Mine, Owning, ClaimRow, Claimable, Kept
  <2> QED BY <2>1, <2>2, <2>3, <2>4, <2>5, <2>6, <2>7 DEF IndInv
<1>2. CASE pc[w] = "reclaim" /\ Mine(w) /\ Goto(w, "work") /\ UNCHANGED <<row, began>>
  <2>0. Kept(w, "work")
    BY <1>2, GotoKeeps DEF IndInv, Labels, Owning
  <2>1. TypeOK'
    BY <1>2, <2>0 DEF IndInv, TypeOK, TaskTypes, Labels, Claim, StoreOk, Kept, row,
       process
  <2>2. RowInv'
    BY <1>2, <2>0 DEF IndInv, RowInv, CompletedIsEarned, Claim, row
  <2>3. TokenInv'
    BY <1>2, <2>0 DEF IndInv, TokenInv, Mine, Asleep, Others, TaskTypes, Labels, Kept,
       row
  <2>4. TaskInv'
    BY <1>2, <2>0 DEF IndInv, TaskInv, Mine, Others, Claim, Kept, row
  <2>5. ProcessInv'
    BY <1>2, <2>0 DEF IndInv, ProcessInv, Mine, Owning, Claim, Kept, row, process
  <2>6. SleeperInv'
    BY <1>2, <2>0 DEF IndInv, SleeperInv, Quiet, Others, Claim, StoreOk, Kept, row,
       process
  <2>7. Attended'
    BY <1>2, <2>0 DEF Attended, Attends, Mine, Owning, Kept, row
  <2> QED BY <2>1, <2>2, <2>3, <2>4, <2>5, <2>6, <2>7 DEF IndInv
<1>3. CASE /\ ~Claimable(w) /\ ~(pc[w] = "reclaim" /\ Mine(w))
           /\ Goto(w, "gate") /\ UNCHANGED <<row, began>>
  <2>0. Kept(w, "gate")
    BY <1>3, GotoKeeps DEF IndInv, Labels
  <2>1. TypeOK'
    BY <1>3, <2>0 DEF IndInv, TypeOK, TaskTypes, Labels, Claim, StoreOk, Kept, row,
       process
  <2>2. RowInv'
    BY <1>3, <2>0 DEF IndInv, RowInv, CompletedIsEarned, Claim, row
  <2>3. TokenInv'
    BY <1>3, <2>0 DEF IndInv, TokenInv, Mine, Owning, Others, Claim, Kept, row
  <2>4. TaskInv'
    BY <1>3, <2>0 DEF IndInv, TypeOK, RowInv, TaskInv, Mine, Owning, Others, Claim,
       Claimable, Kept, row
  <2>5. ProcessInv'
    BY <1>3, <2>0 DEF IndInv, ProcessInv, Mine, Owning, Others, Claim, Kept, row,
       process
  <2>6. SleeperInv'
    BY <1>3, <2>0 DEF IndInv, SleeperInv, Quiet, Others, Claim, StoreOk, Kept, row,
       process
  <2>7. Attended'
    BY <1>3, <2>0 DEF IndInv, TypeOK, RowInv, SleeperInv, Quiet, Attended, Attends,
       Applied, Mine, Owning, Others, Claim, Claimable, StoreOk, Kept, row, process
  <2> QED BY <2>1, <2>2, <2>3, <2>4, <2>5, <2>6, <2>7 DEF IndInv
<1> QED BY <1>1, <1>2, <1>3 DEF Claim

\* After an ambiguous claim the task keeps its token, so that it can tell its own
\* claim from another.
LEMMA ClaimFailsInd ==
    ASSUME IndInv, NEW w \in Workers, ClaimFails(w) PROVE IndInv'
<1> USE ReconciliationAssumption
<1>1. CASE ClaimRow(w) /\ Goto(w, "work")
  <2>0. Kept(w, "work")
    BY <1>1, GotoKeeps DEF IndInv, Labels, Owning
  <2>1. TypeOK'
    BY <1>1, <2>0 DEF IndInv, TypeOK, TaskTypes, Labels, ClaimFails, ClaimRow, Fault,
       Kept, process
  <2>2. RowInv'
    BY <1>1, <2>0 DEF IndInv, TypeOK, RowInv, TokenInv, CompletedIsEarned, ClaimFails,
       ClaimRow, Claimable
  <2>3. TokenInv'
    BY <1>1, <2>0 DEF IndInv, TokenInv, Mine, Asleep, Others, TaskTypes, Labels,
       ClaimFails, ClaimRow, Claimable, Kept
  <2>4. TaskInv'
    BY <1>1, <2>0 DEF IndInv, TaskInv, Mine, Asleep, Others, TaskTypes, Labels,
       ClaimRow, Claimable, Kept
  <2>5. ProcessInv'
    BY <1>1, <2>0 DEF IndInv, ProcessInv, Mine, Owning, ClaimFails, ClaimRow, Claimable,
       Kept, process
  <2>6. SleeperInv'
    BY <1>1, <2>0 DEF SleeperInv, ClaimFails, ClaimRow, Claimable
  <2>7. Attended'
    BY <1>1, <2>0 DEF IndInv, Attended, Attends, Mine, Owning, ClaimRow, Claimable, Kept
  <2> QED BY <2>1, <2>2, <2>3, <2>4, <2>5, <2>6, <2>7 DEF IndInv
<1>2. CASE ClaimRow(w) /\ ReclaimTask(w)
  <2>0. Kept(w, "reclaim")
    BY <1>2, GotoKeeps DEF IndInv, ReclaimTask, Labels, Asleep
  <2>1. TypeOK'
    BY <1>2, <2>0 DEF IndInv, TypeOK, TaskTypes, Labels, ClaimFails, ClaimRow, Fault,
       Kept, process
  <2>2. RowInv'
    BY <1>2, <2>0 DEF IndInv, TypeOK, RowInv, TokenInv, CompletedIsEarned, ClaimFails,
       ClaimRow, Claimable
  <2>3. TokenInv'
    BY <1>2, <2>0 DEF IndInv, TokenInv, Mine, Others, ClaimFails, ClaimRow, Claimable,
       Kept
  <2>4. TaskInv'
    BY <1>2, <2>0 DEF IndInv, TaskInv, Mine, Asleep, Others, TaskTypes, Labels,
       ClaimRow, Claimable, Kept
  <2>5. ProcessInv'
    BY <1>2, <2>0 DEF IndInv, ProcessInv, Mine, ClaimFails, ClaimRow, Claimable, Kept,
       process
  <2>6. SleeperInv'
    BY <1>2, <2>0 DEF SleeperInv, ClaimFails, ClaimRow, Claimable
  <2>7. Attended'
    BY <1>2, <2>0 DEF IndInv, Attended, Attends, Mine, ClaimRow, Claimable, Kept
  <2> QED BY <2>1, <2>2, <2>3, <2>4, <2>5, <2>6, <2>7 DEF IndInv
<1>3. CASE ReclaimTask(w) /\ UNCHANGED <<row, began>>
  <2>0. Kept(w, "reclaim")
    BY <1>3, GotoKeeps DEF IndInv, ReclaimTask, Labels, Asleep
  <2>1. TypeOK'
    BY <1>3, <2>0 DEF IndInv, TypeOK, TaskTypes, Labels, ClaimFails, Fault, Kept, row,
       process
  <2>2. RowInv'
    BY <1>3, <2>0 DEF IndInv, RowInv, CompletedIsEarned, ClaimFails, row
  <2>3. TokenInv'
    BY <1>3, <2>0 DEF IndInv, TokenInv, Mine, Others, ClaimFails, Kept, row
  <2>4. TaskInv'
    BY <1>3, <2>0 DEF IndInv, TaskInv, Mine, Owning, Others, ClaimFails, Kept, row
  <2>5. ProcessInv'
    BY <1>3, <2>0 DEF IndInv, ProcessInv, Mine, Others, ClaimFails, Kept, row, process
  <2>6. SleeperInv'
    BY <1>3, <2>0 DEF IndInv, TypeOK, SleeperInv, Quiet, ClaimFails, Fault
  <2>7. Attended'
    BY <1>3, <2>0 DEF IndInv, TypeOK, Attended, Attends, Applied, Mine, Asleep, Others,
       ClaimFails, Fault, Kept, row, process
  <2> QED BY <2>1, <2>2, <2>3, <2>4, <2>5, <2>6, <2>7 DEF IndInv
<1> QED BY <1>1, <1>2, <1>3 DEF ClaimFails

\* A task that was refused does not attend the row any more, so it may leave.
LEMMA ReadNotBeforeInd ==
    ASSUME IndInv, NEW w \in Workers, ReadNotBefore(w) PROVE IndInv'
<1> USE ReconciliationAssumption
<1>1. CASE StoreOk /\ Spawn(w, "wait", exp[w])
  <2>0. Fresh(w, "wait", exp[w])
    BY <1>1, SpawnIsFresh DEF IndInv, TypeOK, Labels, Asleep
  <2>1. TypeOK'
    BY <1>1, <2>0 DEF IndInv, TypeOK, TaskTypes, Labels, ReadNotBefore, StoreOk, Fresh,
       row, process, history
  <2>2. RowInv'
    BY <1>1, <2>0 DEF IndInv, RowInv, CompletedIsEarned, ReadNotBefore, row, history
  <2>3. TokenInv'
    BY <1>1, <2>0 DEF IndInv, TokenInv, Mine, Others, ReadNotBefore, Fresh, row
  <2>4. TaskInv'
    BY <1>1, <2>0 DEF IndInv, TaskInv, Mine, Owning, Others, ReadNotBefore, Fresh, row,
       history
  <2>5. ProcessInv'
    BY <1>1, <2>0 DEF IndInv, ProcessInv, Mine, Owning, Others, ReadNotBefore, Fresh,
       row, process
  <2>6. SleeperInv'
    BY <1>1, <2>0 DEF IndInv, SleeperInv, Quiet, Others, ReadNotBefore, StoreOk, Fresh,
       row, process
  <2>7. Attended'
    BY <1>1, <2>0 DEF IndInv, Attended, Attends, Applied, Mine, Owning, Asleep, Others,
       ReadNotBefore, StoreOk, Fresh, row, process
  <2> QED BY <2>1, <2>2, <2>3, <2>4, <2>5, <2>6, <2>7 DEF IndInv
<1>2. CASE StoreOk /\ End(w)
  <2>0. Gone(w)
    BY <1>2, EndIsGone DEF IndInv
  <2>1. TypeOK'
    BY <1>2, <2>0 DEF IndInv, TypeOK, TaskTypes, Labels, ReadNotBefore, StoreOk, Gone,
       row, process, history
  <2>2. RowInv'
    BY <1>2, <2>0 DEF IndInv, RowInv, CompletedIsEarned, ReadNotBefore, row, history
  <2>3. TokenInv'
    BY <1>2, <2>0 DEF IndInv, TokenInv, Mine, Others, ReadNotBefore, Gone, row
  <2>4. TaskInv'
    BY <1>2, <2>0 DEF IndInv, TypeOK, TaskInv, Mine, Owning, Others, ReadNotBefore,
       Gone, row, history
  <2>5. ProcessInv'
    BY <1>2, <2>0 DEF IndInv, ProcessInv, Mine, Owning, Others, ReadNotBefore, Gone,
       row, process
  <2>6. SleeperInv'
    BY <1>2, <2>0 DEF IndInv, SleeperInv, Quiet, Others, ReadNotBefore, StoreOk, Gone,
       row, process
  <2>7. Attended'
    BY <1>2, <2>0 DEF IndInv, Attended, Attends, Applied, Mine, Owning, Asleep, Others,
       ReadNotBefore, StoreOk, Gone, row, process
  <2> QED BY <2>1, <2>2, <2>3, <2>4, <2>5, <2>6, <2>7 DEF IndInv
<1>3. CASE Fault /\ ReclaimTask(w)
  <2>0. Kept(w, "reclaim")
    BY <1>3, GotoKeeps DEF IndInv, ReclaimTask, Labels, Asleep
  <2>1. TypeOK'
    BY <1>3, <2>0 DEF IndInv, TypeOK, TaskTypes, Labels, ReadNotBefore, Fault, Kept,
       row, process, history
  <2>2. RowInv'
    BY <1>3, <2>0 DEF IndInv, RowInv, CompletedIsEarned, ReadNotBefore, row, history
  <2>3. TokenInv'
    BY <1>3, <2>0 DEF IndInv, TokenInv, Mine, Others, ReadNotBefore, Kept, row
  <2>4. TaskInv'
    BY <1>3, <2>0 DEF IndInv, TaskInv, Mine, Owning, Others, ReadNotBefore, Kept, row,
       history
  <2>5. ProcessInv'
    BY <1>3, <2>0 DEF IndInv, ProcessInv, Mine, Others, ReadNotBefore, Kept, row,
       process
  <2>6. SleeperInv'
    BY <1>3, <2>0 DEF IndInv, TypeOK, SleeperInv, Quiet, Fault
  <2>7. Attended'
    BY <1>3, <2>0 DEF IndInv, TypeOK, Attended, Attends, Applied, Mine, Asleep, Others,
       ReadNotBefore, Fault, Kept, row, process
  <2> QED BY <2>1, <2>2, <2>3, <2>4, <2>5, <2>6, <2>7 DEF IndInv
<1> QED BY <1>1, <1>2, <1>3 DEF ReadNotBefore

\* The owner records its pass and stays for the next one.
LEMMA RecordInd ==
    ASSUME IndInv, NEW w \in Workers, Record(w) PROVE IndInv'
<1> USE ReconciliationAssumption
<1>1. CASE RecordRow(w) /\ MorePasses /\ NextPass(w)
  <2>0. Fresh(w, "wait", exp[w] + 1)
    BY <1>1, SpawnIsFresh DEF IndInv, NextPass, TypeOK, Labels, Asleep
  <2>1. TypeOK'
    BY <1>1, <2>0 DEF IndInv, TypeOK, TaskTypes, Labels, Record, RecordRow, CountPass,
       MorePasses, StoreOk, Fresh, process, history
  <2>2. RowInv'
    BY <1>1, <2>0 DEF IndInv, TypeOK, RowInv, CompletedIsEarned, TaskInv, Mine, Record,
       RecordRow, CountPass, MorePasses, history
  <2>3. TokenInv'
    BY <1>1, <2>0 DEF IndInv, TokenInv, Others, RecordRow, Fresh
  <2>4. TaskInv'
    <3>1. \A v \in Workers : pc[v] \in Owning => v = w
      BY <1>1, OneOwner DEF RecordRow
    <3>2. /\ status = "running" /\ attempts = exp[w] + 1 /\ attempts \in Nat
          /\ status' = "pending" /\ attempts' = attempts
      BY <1>1 DEF IndInv, TypeOK, RecordRow, Mine
    <3> QED BY <1>1, <2>0, <3>1, <3>2 DEF IndInv, TaskInv, Owning, Others, Fresh
  <2>5. ProcessInv'
    BY <1>1, <2>0 DEF IndInv, ProcessInv, Record, RecordRow, process
  <2>6. SleeperInv'
    BY <1>1, <2>0 DEF SleeperInv, Mine, RecordRow, Fresh
  <2>7. Attended'
    BY <1>1, <2>0 DEF IndInv, Attended, Attends, Mine, Asleep, RecordRow, Fresh
  <2> QED BY <2>1, <2>2, <2>3, <2>4, <2>5, <2>6, <2>7 DEF IndInv
<1>2. CASE RecordRow(w) /\ ~MorePasses /\ End(w)
  <2>0. Gone(w)
    BY <1>2, EndIsGone DEF IndInv
  <2>1. TypeOK'
    BY <1>2, <2>0 DEF IndInv, TypeOK, TaskTypes, Labels, RowInv, Mine, Record,
       RecordRow, CountPass, StoreOk, Gone, process, history
  <2>2. RowInv'
    BY <1>2, <2>0 DEF IndInv, TypeOK, RowInv, CompletedIsEarned, TaskInv, Mine, Record,
       RecordRow, CountPass, MorePasses, history
  <2>3. TokenInv'
    BY <1>2, <2>0 DEF IndInv, TokenInv, Others, RecordRow, Gone
  <2>4. TaskInv'
    BY <1>2, <2>0 DEF IndInv, RowInv, TokenInv, TaskInv, Mine, Owning, Others,
       TaskTypes, Record, RecordRow, Gone
  <2>5. ProcessInv'
    BY <1>2, <2>0 DEF IndInv, ProcessInv, Record, RecordRow, process
  <2>6. SleeperInv'
    BY <1>2, <2>0 DEF SleeperInv, RecordRow
  <2>7. Attended'
    BY <1>2, <2>0 DEF IndInv, Attended, RecordRow
  <2> QED BY <2>1, <2>2, <2>3, <2>4, <2>5, <2>6, <2>7 DEF IndInv
<1> QED BY <1>1, <1>2 DEF Record, IndInv, TaskInv, Owning

\* Whatever the error hides, the task is back for the next pass or will find its own write.
LEMMA RecordFailsInd ==
    ASSUME IndInv, NEW w \in Workers, RecordFails(w) PROVE IndInv'
<1> USE ReconciliationAssumption
<1>1. CASE RecordRow(w) /\ MorePasses /\ NextPass(w)
  <2>0. Fresh(w, "wait", exp[w] + 1)
    BY <1>1, SpawnIsFresh DEF IndInv, NextPass, TypeOK, Labels, Asleep
  <2>1. TypeOK'
    BY <1>1, <2>0 DEF IndInv, TypeOK, TaskTypes, Labels, RecordFails, RecordRow,
       CountPass, MorePasses, Fault, Fresh, process, history
  <2>2. RowInv'
    BY <1>1, <2>0 DEF IndInv, TypeOK, RowInv, CompletedIsEarned, TaskInv, Mine,
       RecordFails, RecordRow, CountPass, MorePasses, history
  <2>3. TokenInv'
    BY <1>1, <2>0 DEF IndInv, TokenInv, Others, RecordRow, Fresh
  <2>4. TaskInv'
    <3>1. \A v \in Workers : pc[v] \in Owning => v = w
      BY <1>1, OneOwner DEF RecordRow
    <3>2. /\ status = "running" /\ attempts = exp[w] + 1 /\ attempts \in Nat
          /\ status' = "pending" /\ attempts' = attempts
      BY <1>1 DEF IndInv, TypeOK, RecordRow, Mine
    <3> QED BY <1>1, <2>0, <3>1, <3>2 DEF IndInv, TaskInv, Owning, Others, Fresh
  <2>5. ProcessInv'
    BY <1>1, <2>0 DEF IndInv, ProcessInv, RecordFails, RecordRow, process
  <2>6. SleeperInv'
    BY <1>1, <2>0 DEF SleeperInv, Mine, RecordRow, Fresh
  <2>7. Attended'
    BY <1>1, <2>0 DEF IndInv, Attended, Attends, Mine, Asleep, RecordRow, Fresh
  <2> QED BY <2>1, <2>2, <2>3, <2>4, <2>5, <2>6, <2>7 DEF IndInv
<1>2. CASE RecordRow(w) /\ ~MorePasses /\ End(w)
  <2>0. Gone(w)
    BY <1>2, EndIsGone DEF IndInv
  <2>1. TypeOK'
    BY <1>2, <2>0 DEF IndInv, TypeOK, TaskTypes, Labels, RowInv, Mine, RecordFails,
       RecordRow, CountPass, Fault, Gone, process, history
  <2>2. RowInv'
    BY <1>2, <2>0 DEF IndInv, TypeOK, RowInv, CompletedIsEarned, TaskInv, Mine,
       RecordFails, RecordRow, CountPass, MorePasses, history
  <2>3. TokenInv'
    BY <1>2, <2>0 DEF IndInv, TokenInv, Others, RecordRow, Gone
  <2>4. TaskInv'
    BY <1>2, <2>0 DEF IndInv, TypeOK, TokenInv, TaskInv, Mine, Owning, Others,
       RecordRow, Gone
  <2>5. ProcessInv'
    BY <1>2, <2>0 DEF IndInv, ProcessInv, RecordFails, RecordRow, process
  <2>6. SleeperInv'
    BY <1>2, <2>0 DEF SleeperInv, RecordRow
  <2>7. Attended'
    BY <1>2, <2>0 DEF IndInv, Attended, RecordRow
  <2> QED BY <2>1, <2>2, <2>3, <2>4, <2>5, <2>6, <2>7 DEF IndInv
<1>3. CASE RecordRow(w) /\ Goto(w, "fail")
  <2>0. Kept(w, "fail")
    BY <1>3, GotoKeeps DEF IndInv, Labels
  <2>1. TypeOK'
    BY <1>3, <2>0 DEF IndInv, TypeOK, TaskTypes, Labels, RowInv, Mine, RecordFails,
       RecordRow, CountPass, Fault, Kept, process, history
  <2>2. RowInv'
    BY <1>3, <2>0 DEF IndInv, TypeOK, RowInv, CompletedIsEarned, TaskInv, Mine,
       RecordFails, RecordRow, CountPass, MorePasses, history
  <2>3. TokenInv'
    BY <1>3, <2>0 DEF IndInv, TokenInv, Mine, Others, RecordFails, RecordRow, Kept
  <2>4. TaskInv'
    <3>1. \A v \in Workers : pc[v] \in Owning => v = w
      BY <1>3, OneOwner DEF RecordRow
    <3> QED BY <1>3, <2>0, <3>1 DEF IndInv, TaskInv, Mine, Owning, Others,
               RecordFails, RecordRow, Fault, Kept, history
  <2>5. ProcessInv'
    BY <1>3, <2>0 DEF IndInv, ProcessInv, RecordFails, RecordRow, process
  <2>6. SleeperInv'
    BY <1>3, <2>0 DEF IndInv, TypeOK, SleeperInv, Quiet, RecordFails, Fault
  <2>7. Attended'
    BY <1>3, <2>0 DEF IndInv, Attended, Attends, Applied, Mine, RecordRow, Kept
  <2> QED BY <2>1, <2>2, <2>3, <2>4, <2>5, <2>6, <2>7 DEF IndInv
<1>4. CASE Goto(w, "fail") /\ UNCHANGED <<row, gate>>
  <2>0. Kept(w, "fail")
    BY <1>4, GotoKeeps DEF IndInv, Labels
  <2>1. TypeOK'
    BY <1>4, <2>0 DEF IndInv, TypeOK, TaskTypes, Labels, RecordFails, Fault, Kept, row,
       process, history
  <2>2. RowInv'
    BY <1>4, <2>0 DEF IndInv, RowInv, CompletedIsEarned, RecordFails, row, history
  <2>3. TokenInv'
    BY <1>4, <2>0 DEF IndInv, TokenInv, Mine, Others, RecordFails, Kept, row
  <2>4. TaskInv'
    BY <1>4, <2>0 DEF IndInv, TaskInv, Mine, Owning, Others, RecordFails, Kept, row,
       history
  <2>5. ProcessInv'
    BY <1>4, <2>0 DEF IndInv, ProcessInv, Mine, Others, RecordFails, Kept, row, process
  <2>6. SleeperInv'
    BY <1>4, <2>0 DEF IndInv, TypeOK, SleeperInv, Quiet, RecordFails, Fault
  <2>7. Attended'
    BY <1>4, <2>0 DEF IndInv, TaskInv, Attended, Attends, Mine, Owning, RecordFails,
       Kept, row
  <2> QED BY <2>1, <2>2, <2>3, <2>4, <2>5, <2>6, <2>7 DEF IndInv
<1> QED BY <1>1, <1>2, <1>3, <1>4 DEF RecordFails

\* A task that gives the row back schedules its retry with the attempts the row now has.
LEMMA ResetInd ==
    ASSUME IndInv, NEW w \in Workers, Reset(w) PROVE IndInv'
<1> USE ReconciliationAssumption
<1>1. CASE ResetRow(w) /\ RetryTask(w)
  <2>0. Fresh(w, "claim", exp[w] + 1)
    BY <1>1, SpawnIsFresh DEF IndInv, RetryTask, TypeOK, Labels, Asleep
  <2>1. TypeOK'
    BY <1>1, <2>0 DEF IndInv, TypeOK, TaskTypes, Labels, Reset, ResetRow, StoreOk,
       Fresh, process, history
  <2>2. RowInv'
    BY <1>1, <2>0 DEF IndInv, RowInv, CompletedIsEarned, Mine, Reset, ResetRow, history
  <2>3. TokenInv'
    BY <1>1, <2>0 DEF IndInv, TokenInv, Others, ResetRow, Fresh
  <2>4. TaskInv'
    <3>1. \A v \in Workers : pc[v] \in Owning => v = w
      BY <1>1, OneOwner DEF ResetRow
    <3> QED BY <1>1, <2>0, <3>1 DEF IndInv, TaskInv, Mine, Owning, Others, ResetRow,
               Fresh
  <2>5. ProcessInv'
    BY <1>1, <2>0 DEF IndInv, ProcessInv, Reset, ResetRow, process
  <2>6. SleeperInv'
    BY <1>1, <2>0 DEF IndInv, SleeperInv, Quiet, Others, Reset, ResetRow, StoreOk,
       Fresh, process
  <2>7. Attended'
    BY <1>1, <2>0 DEF IndInv, Attended, Attends, Mine, Asleep, ResetRow, Fresh
  <2> QED BY <2>1, <2>2, <2>3, <2>4, <2>5, <2>6, <2>7 DEF IndInv
<1>2. CASE ~Mine(w) /\ Applied(w, "pending") /\ RetryTask(w) /\ UNCHANGED row
  <2>0. Fresh(w, "claim", exp[w] + 1)
    BY <1>2, SpawnIsFresh DEF IndInv, RetryTask, TypeOK, Labels, Asleep
  <2>1. TypeOK'
    BY <1>2, <2>0 DEF IndInv, TypeOK, TaskTypes, Labels, Reset, StoreOk, Fresh, row,
       process, history
  <2>2. RowInv'
    BY <1>2, <2>0 DEF IndInv, RowInv, CompletedIsEarned, Reset, row, history
  <2>3. TokenInv'
    BY <1>2, <2>0 DEF IndInv, TokenInv, Mine, Others, Fresh, row
  <2>4. TaskInv'
    BY <1>2, <2>0 DEF IndInv, TaskInv, Mine, Owning, Others, TaskTypes, Applied, Fresh,
       row
  <2>5. ProcessInv'
    BY <1>2, <2>0 DEF IndInv, ProcessInv, Reset, Applied, row, process
  <2>6. SleeperInv'
    BY <1>2, <2>0 DEF IndInv, SleeperInv, Quiet, Others, Reset, StoreOk, Fresh, row,
       process
  <2>7. Attended'
    BY <1>2, <2>0 DEF Attended, Attends, Applied, Asleep, Fresh, row
  <2> QED BY <2>1, <2>2, <2>3, <2>4, <2>5, <2>6, <2>7 DEF IndInv
<1>3. CASE ~Mine(w) /\ ~Applied(w, "pending") /\ End(w) /\ UNCHANGED row
  <2>0. Gone(w)
    BY <1>3, EndIsGone DEF IndInv
  <2>1. TypeOK'
    BY <1>3, <2>0 DEF IndInv, TypeOK, TaskTypes, Labels, Reset, StoreOk, Gone, row,
       process, history
  <2>2. RowInv'
    BY <1>3, <2>0 DEF IndInv, RowInv, CompletedIsEarned, Reset, row, history
  <2>3. TokenInv'
    BY <1>3, <2>0 DEF IndInv, TokenInv, Mine, Others, Gone, row
  <2>4. TaskInv'
    BY <1>3, <2>0 DEF IndInv, TypeOK, TaskInv, Mine, Owning, Others, Reset, Gone, row,
       history
  <2>5. ProcessInv'
    BY <1>3, <2>0 DEF IndInv, ProcessInv, Mine, Others, Reset, Gone, row, process
  <2>6. SleeperInv'
    BY <1>3, <2>0 DEF IndInv, SleeperInv, Quiet, Others, Reset, StoreOk, Gone, row,
       process
  <2>7. Attended'
    BY <1>3, <2>0 DEF IndInv, Attended, Attends, Applied, Mine, Asleep, Others, Reset,
       StoreOk, Gone, row, process
  <2> QED BY <2>1, <2>2, <2>3, <2>4, <2>5, <2>6, <2>7 DEF IndInv
<1> QED BY <1>1, <1>2, <1>3 DEF Reset

\* A reset that reports an error is repeated by the same task.
LEMMA ResetFailsInd ==
    ASSUME IndInv, NEW w \in Workers, ResetFails(w) PROVE IndInv'
<1> USE ReconciliationAssumption
<1>1. CASE ResetRow(w) /\ RetryTask(w)
  <2>0. Fresh(w, "claim", exp[w] + 1)
    BY <1>1, SpawnIsFresh DEF IndInv, RetryTask, TypeOK, Labels, Asleep
  <2>1. TypeOK'
    BY <1>1, <2>0 DEF IndInv, TypeOK, TaskTypes, Labels, ResetFails, ResetRow, Fault,
       Fresh, process, history
  <2>2. RowInv'
    BY <1>1, <2>0 DEF IndInv, RowInv, CompletedIsEarned, Mine, ResetFails, ResetRow,
       history
  <2>3. TokenInv'
    BY <1>1, <2>0 DEF IndInv, TokenInv, Others, ResetRow, Fresh
  <2>4. TaskInv'
    <3>1. \A v \in Workers : pc[v] \in Owning => v = w
      BY <1>1, OneOwner DEF ResetRow
    <3> QED BY <1>1, <2>0, <3>1 DEF IndInv, TaskInv, Mine, Owning, Others, ResetRow,
               Fresh
  <2>5. ProcessInv'
    BY <1>1, <2>0 DEF IndInv, ProcessInv, ResetFails, ResetRow, process
  <2>6. SleeperInv'
    BY <1>1, <2>0 DEF IndInv, RowInv, SleeperInv, Mine, ResetFails, ResetRow
  <2>7. Attended'
    BY <1>1, <2>0 DEF IndInv, Attended, Attends, Mine, Asleep, ResetRow, Fresh
  <2> QED BY <2>1, <2>2, <2>3, <2>4, <2>5, <2>6, <2>7 DEF IndInv
<1>2. CASE ResetRow(w) /\ UNCHANGED tasks
  <2>1. TypeOK'
    BY <1>2 DEF IndInv, TypeOK, ResetFails, ResetRow, Fault, tasks, process, history
  <2>2. RowInv'
    BY <1>2 DEF IndInv, RowInv, CompletedIsEarned, Mine, ResetFails, ResetRow, history
  <2>3. TokenInv'
    BY <1>2 DEF IndInv, TokenInv, Mine, ResetFails, ResetRow, tasks
  <2>4. TaskInv'
    BY <1>2 DEF IndInv, TokenInv, TaskInv, Mine, Owning, ResetFails, ResetRow, Fault,
       row, tasks, process
  <2>5. ProcessInv'
    BY <1>2 DEF IndInv, ProcessInv, ResetFails, ResetRow, process
  <2>6. SleeperInv'
    BY <1>2 DEF IndInv, RowInv, SleeperInv, Mine, ResetFails, ResetRow
  <2>7. Attended'
    BY <1>2 DEF IndInv, Attended, Attends, Applied, Mine, ResetFails, ResetRow, tasks
  <2> QED BY <2>1, <2>2, <2>3, <2>4, <2>5, <2>6, <2>7 DEF IndInv
<1>3. CASE UNCHANGED <<row, tasks>>
  <2>1. TypeOK'
    BY <1>3 DEF IndInv, TypeOK, ResetFails, Fault, row, tasks, process, history
  <2>2. RowInv'
    BY <1>3 DEF IndInv, RowInv, CompletedIsEarned, ResetFails, row, history
  <2>3. TokenInv'
    BY <1>3 DEF IndInv, TokenInv, Mine, row, tasks
  <2>4. TaskInv'
    BY <1>3 DEF IndInv, TaskInv, Mine, ResetFails, row, tasks, history
  <2>5. ProcessInv'
    BY <1>3 DEF IndInv, ProcessInv, Mine, ResetFails, row, tasks, process
  <2>6. SleeperInv'
    BY <1>3 DEF IndInv, TypeOK, SleeperInv, Quiet, ResetFails, Fault
  <2>7. Attended'
    BY <1>3 DEF IndInv, TypeOK, Attended, Attends, Applied, Mine, ResetFails, Fault,
       row, tasks, process
  <2> QED BY <2>1, <2>2, <2>3, <2>4, <2>5, <2>6, <2>7 DEF IndInv
<1> QED BY <1>1, <1>2, <1>3 DEF ResetFails

\* A lister starts a task for a pending row in a free slot.
LEMMA ListInd ==
    ASSUME IndInv, List PROVE IndInv'
<1> USE ReconciliationAssumption
<1>1. CASE status # "pending" /\ UNCHANGED tasks
  <2>1. TypeOK'
    BY <1>1 DEF IndInv, TypeOK, List, row, tasks, process, history
  <2>2. RowInv'
    BY <1>1 DEF IndInv, RowInv, CompletedIsEarned, List, row, history
  <2>3. TokenInv'
    BY <1>1 DEF IndInv, TokenInv, Mine, List, row, tasks
  <2>4. TaskInv'
    BY <1>1 DEF IndInv, TaskInv, Mine, List, row, tasks, history
  <2>5. ProcessInv'
    BY <1>1 DEF IndInv, ProcessInv, Mine, List, row, tasks, process
  <2>6. SleeperInv'
    BY <1>1 DEF IndInv, SleeperInv, Quiet, List, row, tasks, process
  <2>7. Attended'
    BY <1>1 DEF IndInv, Attended, Attends, Applied, Mine, List, row, tasks, process
  <2> QED BY <2>1, <2>2, <2>3, <2>4, <2>5, <2>6, <2>7 DEF IndInv
<1>2. CASE /\ status = "pending"
           /\ \E w \in Workers : pc[w] = "free" /\ Spawn(w, "claim", attempts)
  <2>w. PICK w \in Workers : pc[w] = "free" /\ Spawn(w, "claim", attempts)
    BY <1>2
  <2>0. Fresh(w, "claim", attempts)
    BY <2>w, SpawnIsFresh DEF IndInv, TypeOK, Labels, Asleep
  <2>1. TypeOK'
    BY <1>2, <2>w, <2>0 DEF IndInv, TypeOK, TaskTypes, Labels, List, Fresh, row,
       process, history
  <2>2. RowInv'
    BY <1>2, <2>w, <2>0 DEF IndInv, RowInv, CompletedIsEarned, List, row, history
  <2>3. TokenInv'
    BY <1>2, <2>w, <2>0 DEF IndInv, TokenInv, Mine, Others, List, Fresh, row
  <2>4. TaskInv'
    BY <1>2, <2>w, <2>0 DEF IndInv, TaskInv, Mine, Owning, Others, TaskTypes, List,
       Fresh, row
  <2>5. ProcessInv'
    BY <1>2, <2>w, <2>0 DEF IndInv, ProcessInv, List, row, process
  <2>6. SleeperInv'
    BY <1>2, <2>w, <2>0 DEF IndInv, SleeperInv, Quiet, Others, List, Fresh, row, process
  <2>7. Attended'
    BY <1>2, <2>w, <2>0 DEF IndInv, Attended, Attends, Asleep, List, Fresh, row
  <2> QED BY <2>1, <2>2, <2>3, <2>4, <2>5, <2>6, <2>7 DEF IndInv
<1> QED BY <1>1, <1>2 DEF List

\* A deadline passes; the sleeper attends the row as before.
LEMMA ElapseInd ==
    ASSUME IndInv, Elapse PROVE IndInv'
<1> USE ReconciliationAssumption
<1>1. TypeOK'
  BY DEF IndInv, TypeOK, Elapse, row, tasks, process
<1>2. RowInv'
  BY DEF IndInv, RowInv, CompletedIsEarned, Elapse, row
<1>3. TokenInv'
  BY DEF IndInv, TokenInv, Mine, Elapse, row, tasks
<1>4. TaskInv'
  BY DEF IndInv, TaskInv, Mine, Elapse, row, tasks
<1>5. ProcessInv'
  BY DEF IndInv, ProcessInv, Mine, Elapse, row, tasks, process
<1>6. SleeperInv'
  BY DEF SleeperInv, Elapse
<1>7. Attended'
  BY DEF IndInv, Attended, Attends, Applied, Mine, Elapse, row, tasks, process
<1> QED BY <1>1, <1>2, <1>3, <1>4, <1>5, <1>6, <1>7 DEF IndInv

\* A crash ends every task.
LEMMA CrashInd ==
    ASSUME IndInv, Crash PROVE IndInv'
<1> USE ReconciliationAssumption
<1>1. TypeOK'
  <2>1. TaskTypes'
    BY DEF Crash, TaskTypes, Labels
  <2>2. up' \in BOOLEAN
    BY DEF Crash
  <2>3. crashes' \in 0..MaxCrashes /\ listers' \in Nat
    BY DEF IndInv, TypeOK, Crash
  <2> QED BY <2>1, <2>2, <2>3 DEF IndInv, TypeOK, TaskTypes, Labels, Crash, row, history
<1>2. RowInv'
  BY DEF IndInv, RowInv, CompletedIsEarned, Crash, row, history
<1>3. TokenInv'
  BY DEF TokenInv, Crash
<1>4. TaskInv'
  BY DEF IndInv, TypeOK, TaskInv, Owning, Crash, row
<1>5. ProcessInv'
  BY DEF IndInv, ProcessInv, Crash
<1>6. SleeperInv'
  BY DEF IndInv, TypeOK, SleeperInv, Quiet, Crash
<1>7. Attended'
  BY DEF IndInv, Attended, Crash
<1> QED BY <1>1, <1>2, <1>3, <1>4, <1>5, <1>6, <1>7 DEF IndInv

\* A restart gives back what the dead daemon was running.
LEMMA RestartInd ==
    ASSUME IndInv, Restart PROVE IndInv'
<1> USE ReconciliationAssumption
<1>1. CASE StoreOk /\ up' = TRUE /\ rpc' = "resume" /\ RecoverRunning
  <2>1. TypeOK'
    BY <1>1 DEF IndInv, TypeOK, Restart, RecoverRunning, StoreOk, tasks, history
  <2>2. RowInv'
    BY <1>1 DEF IndInv, RowInv, CompletedIsEarned, Restart, RecoverRunning, history
  <2>3. TokenInv'
    BY <1>1 DEF IndInv, TokenInv, Mine, Restart, RecoverRunning, tasks
  <2>4. TaskInv'
    BY <1>1 DEF IndInv, TaskInv, Owning, ProcessInv, Restart, RecoverRunning, tasks
  <2>5. ProcessInv'
    BY <1>1 DEF IndInv, ProcessInv, RecoverRunning
  <2>6. SleeperInv'
    BY <1>1 DEF IndInv, SleeperInv, Quiet, Restart, StoreOk, tasks
  <2>7. Attended'
    BY <1>1 DEF IndInv, Attended
  <2> QED BY <2>1, <2>2, <2>3, <2>4, <2>5, <2>6, <2>7 DEF IndInv
<1>2. CASE /\ Fault
           /\ (RecoverRunning \/ UNCHANGED <<status, token, last>>)
           /\ UNCHANGED <<up, rpc>>
  <2>1. TypeOK'
    BY <1>2 DEF IndInv, TypeOK, Restart, RecoverRunning, Fault, tasks, history
  <2>2. RowInv'
    BY <1>2 DEF IndInv, RowInv, CompletedIsEarned, Restart, RecoverRunning, history
  <2>3. TokenInv'
    BY <1>2 DEF IndInv, TokenInv, Mine, Restart, RecoverRunning, tasks
  <2>4. TaskInv'
    BY <1>2 DEF IndInv, TaskInv, Owning, ProcessInv, Restart, RecoverRunning, tasks
  <2>5. ProcessInv'
    BY <1>2 DEF IndInv, ProcessInv, Restart, tasks
  <2>6. SleeperInv'
    BY <1>2 DEF IndInv, TypeOK, SleeperInv, Quiet, Fault
  <2>7. Attended'
    BY <1>2 DEF IndInv, Attended, Restart
  <2> QED BY <2>1, <2>2, <2>3, <2>4, <2>5, <2>6, <2>7 DEF IndInv
<1> QED BY <1>1, <1>2 DEF Restart

\* A recovery that succeeds has started a task for a pending row.
LEMMA ResumeInd ==
    ASSUME IndInv, Resume PROVE IndInv'
<1> USE ReconciliationAssumption
<1>1. CASE StoreOk /\ status # "pending" /\ UNCHANGED tasks /\ rpc' = "done"
  <2>1. TypeOK'
    BY <1>1 DEF IndInv, TypeOK, Resume, StoreOk, row, tasks, history
  <2>2. RowInv'
    BY <1>1 DEF IndInv, RowInv, CompletedIsEarned, Resume, row, history
  <2>3. TokenInv'
    BY <1>1 DEF IndInv, TokenInv, Mine, Resume, row, tasks
  <2>4. TaskInv'
    BY <1>1 DEF IndInv, TaskInv, Mine, Resume, row, tasks, history
  <2>5. ProcessInv'
    BY <1>1 DEF IndInv, ProcessInv, Mine, Resume, row, tasks
  <2>6. SleeperInv'
    BY <1>1 DEF IndInv, SleeperInv, Quiet, Resume, StoreOk, row, tasks
  <2>7. Attended'
    BY <1>1 DEF IndInv, TypeOK, RowInv, ProcessInv, Attended, Attends, Mine, Resume,
       row, tasks
  <2> QED BY <2>1, <2>2, <2>3, <2>4, <2>5, <2>6, <2>7 DEF IndInv
<1>2. CASE Fault /\ UNCHANGED tasks /\ UNCHANGED rpc
  <2>1. TypeOK'
    BY <1>2 DEF IndInv, TypeOK, Resume, Fault, row, tasks, history
  <2>2. RowInv'
    BY <1>2 DEF IndInv, RowInv, CompletedIsEarned, Resume, row, history
  <2>3. TokenInv'
    BY <1>2 DEF IndInv, TokenInv, Mine, Resume, row, tasks
  <2>4. TaskInv'
    BY <1>2 DEF IndInv, TaskInv, Mine, Resume, row, tasks, history
  <2>5. ProcessInv'
    BY <1>2 DEF IndInv, ProcessInv, Mine, Resume, row, tasks
  <2>6. SleeperInv'
    BY <1>2 DEF IndInv, TypeOK, SleeperInv, Quiet, Fault
  <2>7. Attended'
    BY <1>2 DEF Attended, Resume
  <2> QED BY <2>1, <2>2, <2>3, <2>4, <2>5, <2>6, <2>7 DEF IndInv
<1>3. CASE /\ status = "pending" /\ StoreOk /\ rpc' = "done"
           /\ \E w \in Workers : pc[w] = "free" /\ Spawn(w, "claim", attempts)
  <2>w. PICK w \in Workers : pc[w] = "free" /\ Spawn(w, "claim", attempts)
    BY <1>3
  <2>0. Fresh(w, "claim", attempts)
    BY <2>w, SpawnIsFresh DEF IndInv, TypeOK, Labels, Asleep
  <2>1. TypeOK'
    BY <1>3, <2>w, <2>0 DEF IndInv, TypeOK, TaskTypes, Labels, Resume, StoreOk, Fresh,
       row, history
  <2>2. RowInv'
    BY <1>3, <2>w, <2>0 DEF IndInv, RowInv, CompletedIsEarned, Resume, row, history
  <2>3. TokenInv'
    BY <1>3, <2>w, <2>0 DEF IndInv, TokenInv, Mine, Others, Resume, Fresh, row
  <2>4. TaskInv'
    BY <1>3, <2>w, <2>0 DEF IndInv, TaskInv, Mine, Owning, Others, TaskTypes, Resume,
       Fresh, row
  <2>5. ProcessInv'
    BY <1>3, <2>w, <2>0 DEF IndInv, ProcessInv, Resume, row
  <2>6. SleeperInv'
    BY <1>3, <2>w, <2>0 DEF IndInv, SleeperInv, Quiet, Others, Resume, StoreOk, Fresh,
       row
  <2>7. Attended'
    BY <1>3, <2>w, <2>0 DEF Attended, Attends, Asleep, Resume, Fresh, row
  <2> QED BY <2>1, <2>2, <2>3, <2>4, <2>5, <2>6, <2>7 DEF IndInv
<1>4. CASE /\ status = "pending" /\ Fault /\ UNCHANGED rpc
           /\ \E w \in Workers : pc[w] = "free" /\ Spawn(w, "claim", attempts)
  <2>w. PICK w \in Workers : pc[w] = "free" /\ Spawn(w, "claim", attempts)
    BY <1>4
  <2>0. Fresh(w, "claim", attempts)
    BY <2>w, SpawnIsFresh DEF IndInv, TypeOK, Labels, Asleep
  <2>1. TypeOK'
    BY <1>4, <2>w, <2>0 DEF IndInv, TypeOK, TaskTypes, Labels, Resume, Fault, Fresh,
       row, history
  <2>2. RowInv'
    BY <1>4, <2>w, <2>0 DEF IndInv, RowInv, CompletedIsEarned, Resume, row, history
  <2>3. TokenInv'
    BY <1>4, <2>w, <2>0 DEF IndInv, TokenInv, Mine, Others, Resume, Fresh, row
  <2>4. TaskInv'
    BY <1>4, <2>w, <2>0 DEF IndInv, TaskInv, Mine, Owning, Others, TaskTypes, Resume,
       Fresh, row
  <2>5. ProcessInv'
    BY <1>4, <2>w, <2>0 DEF IndInv, ProcessInv, Resume, row
  <2>6. SleeperInv'
    BY <1>4, <2>w, <2>0 DEF IndInv, TypeOK, SleeperInv, Quiet, Fault
  <2>7. Attended'
    BY <1>4, <2>w, <2>0 DEF Attended, Resume
  <2> QED BY <2>1, <2>2, <2>3, <2>4, <2>5, <2>6, <2>7 DEF IndInv
<1> QED BY <1>1, <1>2, <1>3, <1>4 DEF Resume, ResumeRow

\* The initial state satisfies the inductive invariant.
LEMMA InitInd == Init => IndInv
<1> USE ReconciliationAssumption
<1> SUFFICES ASSUME Init PROVE IndInv
  OBVIOUS
<1>1. TypeOK
  BY DEF Init, TypeOK
<1>2. RowInv /\ TokenInv /\ TaskInv /\ ProcessInv /\ SleeperInv /\ Attended
  BY DEF Init, RowInv, CompletedIsEarned, TokenInv, TaskInv, ProcessInv, SleeperInv,
     Attended, Owning, Mine
<1> QED BY <1>1, <1>2 DEF IndInv

\* So does every state a step leads to.
LEMMA NextInd == IndInv /\ [Next]_vars => IndInv'
<1> SUFFICES ASSUME IndInv, [Next]_vars PROVE IndInv'
  OBVIOUS
<1>1. CASE UNCHANGED vars
  BY <1>1 DEF vars, IndInv, TypeOK, RowInv, CompletedIsEarned, TokenInv, TaskInv,
     ProcessInv, SleeperInv, Quiet, Attended, Attends, Applied, Mine
<1>2. ASSUME NEW w \in Workers, StoreStep(w) \/ Wake(w) \/ Sync(w) PROVE IndInv'
  BY <1>2, ClaimInd, ClaimFailsInd, ReadNotBeforeInd, RecordInd, RecordFailsInd,
     ResetInd, ResetFailsInd, WakeInd, SyncSucceedsInd, SyncFailsInd DEF StoreStep, Sync
<1> QED BY <1>1, <1>2, InsertInd, ReplayInd, ListInd, ElapseInd, CrashInd, RestartInd,
           ResumeInd DEF Next, Quiescent

\* The inductive invariant holds throughout.
THEOREM ReconciliationInvariance == Spec => []IndInv
BY InitInd, NextInd, PTL DEF Spec

--------------------------------------------------------------------------------
(* What it gives *)

\* Every variable keeps its type; in particular a row never counts more passes than
\* it requires.
THEOREM ReconciliationTypeCorrect == Spec => []TypeOK
<1>1. IndInv => TypeOK
  BY DEF IndInv
<1> QED BY <1>1, ReconciliationInvariance, PTL

\* The tokens and attempts in the claim's WHERE clause keep every two tasks apart:
\* for any number of workers, replays, ambiguous claims and crashes only one syncs.
THEOREM SyncsExclude == Spec => []OneSyncAtATime
<1>1. IndInv => OneSyncAtATime
  <2> SUFFICES ASSUME IndInv, NEW v \in Workers, NEW w \in Workers,
                      pc[v] = "work", pc[w] = "work"
               PROVE  v = w
    BY DEF OneSyncAtATime
  <2>1. Mine(w)
    BY DEF IndInv, TaskInv, Owning
  <2> QED BY <2>1, OneOwner DEF Owning
<1> QED BY <1>1, ReconciliationInvariance, PTL

\* Whatever number of passes a row requires, it completes only after that many
\* verified passes, each begun after the deadline set by the one before it.
THEOREM CompletionIsEarned == Spec => []CompletedIsEarned
<1>1. IndInv => CompletedIsEarned
  BY DEF IndInv, RowInv
<1> QED BY <1>1, ReconciliationInvariance, PTL

\* No interleaving of tasks loses the row: a row that was taken up and is not
\* completed has a task that carries it on, under store errors and crashes when it
\* needs one pass, without them when it needs several.
THEOREM NeverAbandoned == Spec => []Attended
<1>1. IndInv => Attended
  BY DEF IndInv
<1> QED BY <1>1, ReconciliationInvariance, PTL

--------------------------------------------------------------------------------
(* The refinement of StablePasses *)

AbstractStep == [Stable!PassesNext]_(Stable!passVars)

\* A step that leaves status, gate and count alone is one of a task at most: it
\* verifies, forgets, or is not seen.
LEMMA UnseenStep ==
    ASSUME TypeOK, UNCHANGED <<status, gate, passes>>
    PROVE  AbstractStep
<1>1. Counted' = Counted
  BY DEF Counted
<1>2. CASE status # "running"
  BY <1>1, <1>2 DEF AbstractStep, Stable!passVars, Phase, TypeOK
<1>3. CASE status = "running" /\ (Verified' <=> Verified)
  BY <1>1, <1>3 DEF AbstractStep, Stable!passVars, Phase
<1>4. CASE status = "running" /\ Verified' /\ ~Verified
  BY <1>1, <1>4 DEF AbstractStep, Stable!PassesNext, Stable!Verify, Phase
<1>5. CASE status = "running" /\ ~Verified' /\ Verified
  BY <1>1, <1>5 DEF AbstractStep, Stable!PassesNext, Stable!Forget, Phase
<1> QED BY <1>2, <1>3, <1>4, <1>5

\* A claim begins a pass, and nothing has been verified under its new token yet.
LEMMA ClaimBegins ==
    ASSUME IndInv, NEW w \in Workers, ClaimRow(w), UNCHANGED gate,
           Others(w), tok'[w] = tok[w], pc'[w] \in {"work", "reclaim"}
    PROVE  AbstractStep
<1>1. /\ status = "pending" /\ gate = "open" /\ status' = "running"
      /\ token' = tok[w] /\ UNCHANGED <<gate, passes>>
  BY DEF ClaimRow, Claimable
<1>2. ~Verified'
  <2> SUFFICES ASSUME NEW v \in Workers, pc'[v] = "record" PROVE ~Mine(v)'
    BY DEF Verified
  <2>1. v # w /\ pc[v] = "record"
    BY DEF Others
  <2>2. pc[v] \notin Owning
    BY <1>1 DEF IndInv, TaskInv, Mine
  <2> QED BY <2>1, <2>2 DEF Owning
<1>3. Phase = "due" /\ Phase' = "busy"
  BY <1>1, <1>2 DEF Phase
<1>4. Counted' = Counted
  BY <1>1 DEF Counted
<1> QED BY <1>3, <1>4 DEF AbstractStep, Stable!PassesNext, Stable!Begin

\* The owner records the pass it has verified: the only step that counts.
LEMMA RecordCounts ==
    ASSUME IndInv, NEW w \in Workers, pc[w] = "record", RecordRow(w)
    PROVE  AbstractStep
<1> USE ReconciliationAssumption
<1>1. /\ status = "running" /\ Mine(w)
      /\ IF MorePasses THEN status' = "pending" /\ gate' = "closed"
                       ELSE status' = "completed" /\ gate' = "open"
      /\ CountPass
  BY DEF RecordRow, Mine
<1>2. Phase = "verified" /\ Counted = passes
  BY <1>1 DEF Phase, Counted, Verified
<1>3. passes \in Nat /\ passes < Required /\ Required \in Nat \ {0}
  BY <1>1 DEF IndInv, TypeOK, RowInv
<1>4. /\ Counted' = Counted + 1
      /\ Phase' = IF Counted + 1 < Required THEN "gap" ELSE "done"
  BY <1>1, <1>2, <1>3 DEF MorePasses, CountPass, Counted, Phase
<1> QED BY <1>2, <1>4 DEF AbstractStep, Stable!PassesNext, Stable!Count

\* A reset gives up a pass that nobody has verified: its owner is the one that failed.
LEMMA ResetAbandons ==
    ASSUME IndInv, NEW w \in Workers, pc[w] = "fail", ResetRow(w), UNCHANGED gate
    PROVE  AbstractStep
<1>1. /\ status = "running" /\ Mine(w) /\ status' = "pending" /\ UNCHANGED <<gate, passes>>
      /\ gate = "open"
  BY DEF ResetRow, Mine, IndInv, RowInv
<1>2. ~Verified
  BY <1>1, OneOwner DEF Verified, Owning
<1>3. Phase = "busy" /\ Phase' = "due" /\ Counted' = Counted
  BY <1>1, <1>2 DEF Phase, Counted
<1> QED BY <1>3 DEF AbstractStep, Stable!PassesNext, Stable!Abandon

\* A restart gives up the pass of the daemon that died, which has no tasks any more.
LEMMA RestartAbandons ==
    ASSUME IndInv, Restart
    PROVE  AbstractStep
<1>1. CASE UNCHANGED status
  BY <1>1, UnseenStep DEF Restart, IndInv
<1>2. CASE status = "running" /\ status' = "pending"
  <2>1. ~Verified /\ gate = "open" /\ UNCHANGED <<gate, passes>>
    BY <1>2 DEF Restart, Verified, IndInv, ProcessInv, RowInv
  <2>2. Phase = "busy" /\ Phase' = "due" /\ Counted' = Counted
    BY <1>2, <2>1 DEF Phase, Counted
  <2> QED BY <2>2 DEF AbstractStep, Stable!PassesNext, Stable!Abandon
<1> QED BY <1>1, <1>2 DEF Restart, RecoverRunning

\* Every step of a task.
LEMMA WorkerImplements ==
    ASSUME IndInv, NEW w \in Workers, StoreStep(w) \/ Wake(w) \/ Sync(w)
    PROVE  AbstractStep
<1>0. TypeOK
  BY DEF IndInv
<1>1. CASE Wake(w) \/ Sync(w) \/ ReadNotBefore(w)
  BY <1>0, <1>1, UnseenStep DEF Wake, Sync, SyncSucceeds, SyncFails, ReadNotBefore, row
<1>2. ASSUME NEW l \in {"work", "reclaim"}, ClaimRow(w), Goto(w, l), UNCHANGED gate
      PROVE  AbstractStep
  <2>1. Kept(w, l)
    BY <1>0, <1>2, GotoKeeps DEF Labels, Asleep, Owning
  <2> QED BY <1>2, <2>1, ClaimBegins DEF Kept
<1>3. CASE Claim(w) \/ ClaimFails(w)
  <2>1. UNCHANGED <<status, gate, passes>>
        \/ (ClaimRow(w) /\ UNCHANGED gate /\ \E l \in {"work", "reclaim"} : Goto(w, l))
    BY <1>3 DEF Claim, ClaimFails, ReclaimTask, row
  <2> QED BY <1>0, <1>2, <2>1, UnseenStep
<1>4. CASE Record(w) \/ RecordFails(w)
  <2>1. pc[w] = "record" /\ (RecordRow(w) \/ UNCHANGED <<status, gate, passes>>)
    BY <1>4 DEF Record, RecordFails, row
  <2> QED BY <1>0, <2>1, UnseenStep, RecordCounts
<1>5. CASE Reset(w) \/ ResetFails(w)
  <2>1. /\ pc[w] = "fail" /\ UNCHANGED gate
        /\ ResetRow(w) \/ UNCHANGED <<status, gate, passes>>
    BY <1>5 DEF Reset, ResetFails, row
  <2> QED BY <1>0, <2>1, UnseenStep, ResetAbandons
<1> QED BY <1>1, <1>3, <1>4, <1>5 DEF StoreStep

\* To the mutation that asked for it a reconciliation is a number of verified passes
\* with gaps between them, with any number of tasks, errors, replays and crashes.
THEOREM PassesAreStable == Spec => ImplementsStablePasses
<1>1. Init => Stable!PassesInit
  BY ReconciliationAssumption DEF Init, Stable!PassesInit, Phase, Counted
<1>2. ASSUME IndInv, [Next]_vars PROVE AbstractStep
  <2>0. TypeOK
    BY <1>2 DEF IndInv
  <2>1. CASE Insert
    <3>1. status = "absent" /\ gate = "open" /\ status' = "pending" /\ UNCHANGED <<gate, passes>>
      BY <1>2, <2>1 DEF Insert, IndInv, RowInv, TypeOK
    <3>2. Phase = "none" /\ Phase' = "due" /\ Counted' = Counted
      BY <3>1 DEF Phase, Counted
    <3> QED BY <3>2 DEF AbstractStep, Stable!PassesNext, Stable!Create
  <2>2. CASE Elapse
    <3>1. status = "pending" /\ gate = "closed" /\ gate' = "open" /\ UNCHANGED <<status, passes>>
      BY <1>2, <2>2 DEF Elapse, IndInv, RowInv, row
    <3>2. Phase = "gap" /\ Phase' = "due" /\ Counted' = Counted
      BY <3>1 DEF Phase, Counted
    <3> QED BY <3>2 DEF AbstractStep, Stable!PassesNext, Stable!GapEnds
  <2>3. CASE Replay \/ List \/ Crash \/ Resume \/ UNCHANGED vars
    BY <2>0, <2>3, UnseenStep DEF Replay, List, Crash, Resume, vars, row
  <2> QED BY <1>2, <2>1, <2>2, <2>3, RestartAbandons, WorkerImplements DEF Next, Quiescent
<1>3. IndInv /\ [Next]_vars => [Stable!PassesNext]_(Stable!passVars)
  BY <1>2 DEF AbstractStep
<1> QED BY <1>1, <1>3, ReconciliationInvariance, PTL
        DEF Spec, ImplementsStablePasses, Stable!PassesSpec
================================================================================
