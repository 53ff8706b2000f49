------------------------ MODULE MutationLifecycle_proofs ------------------------
(***************************************************************************)
(* Machine-checked proofs about MutationLifecycle, for every set of requests, *)
(* ids, payloads and lanes, every number of tries and every number of store   *)
(* faults and crashes.                                                        *)
(***************************************************************************)
EXTENDS MutationLifecycle, TLAPS

--------------------------------------------------------------------------------
(* The inductive invariant *)

Early   == {"idle", "lookup", "lookupReceipt", "claim"}
Settled == {"confirmed", "failed"}

\* Answer o about the id of r is what the rows of request f say.
Told(r, o, f) ==
    /\ f \in Reqs /\ Mid[f] = Mid[r]
    /\ receipt[f] = ReceiptOf(o)
    /\ f \notin forgotten => claim[Mid[r]] = o /\ owner[Mid[r]] = f

\* Which control points a request with, and one without, an id can be at, and
\* what its task knows there.
Control(r) ==
    /\ pc[r] \in {"lookup", "lookupReceipt", "guard", "fallback", "indet"} => HasId(r)
    /\ pc[r] \in {"insertOp", "finOp"} => ~HasId(r)
    /\ pc[r] \in Saving => result[r] \in Outcomes \ {"indet"}
    /\ pc[r] \in InBody \cup {"indet"} /\ Opt(r) => reply[r] # "none"
    /\ pc[r] = "indet" => Opt(r)

\* Until its rows exist, a request appears nowhere in the store.
Fresh(r) ==
    /\ pc[r] \in Early => receipt[r] = "none" /\ reply[r] = "none"
    /\ pc[r] \in Early \cup {"insertOp"} => oper[r] = "none"
    /\ pc[r] \in Early /\ HasId(r) => owner[Mid[r]] # r /\ r \notin forgotten
    /\ pc[r] \in Early \cup {"insertOp", "lane", "body"} => r \notin sent

\* From its claim to the end of its task, a request owns the row of its id.  A
\* write that left the daemon belongs to the owner of the row, or to a request
\* whose row has expired.
Held(r) ==
    HasId(r) =>
        /\ pc[r] \in InBody \cup {"finalize", "fallback", "indet"} => owner[Mid[r]] = r
        /\ r \in sent => r \in forgotten \/ owner[Mid[r]] = r

\* What a task has answered, or has read and will answer, is what the rows say.
Answered(r) ==
    /\ HasId(r) /\ reply[r] \in Outcomes => Told(r, reply[r], from[r])
    /\ pc[r] = "lookupReceipt" =>
          /\ from[r] \in Reqs /\ Mid[from[r]] = Mid[r] /\ receipt[from[r]] # "none"
          /\ seen[r] # "absent"
          /\ seen[r] \in Outcomes => Told(r, seen[r], from[r])

TaskInv(r) == Control(r) /\ Fresh(r) /\ Held(r) /\ Answered(r)

\* A dedup row belongs to a request of its id that has not been forgotten.
Owned ==
    \A i \in Ids : owner[i] \in Reqs => Mid[owner[i]] = i /\ owner[i] \notin forgotten

\* Receipt recovery works on receipts that exist, and once it has subtracted the
\* processing claims no receipt it is going to fail belongs to one.
Snapshot ==
    /\ \A r \in pend : receipt[r] # "none"
    /\ rpc = "receipts" =>
          \A r \in pend, i \in Ids : claim[i] = "processing" => owner[i] # r

IndInv == TypeOK /\ RowsAgree /\ Owned /\ Snapshot /\ \A r \in Reqs : TaskInv(r)

\* The parts of TypeOK, split by who writes them.
RowTypes ==
    /\ claim \in [Ids -> ClaimVals]
    /\ owner \in [Ids -> Reqs \cup {NoReq}]
    /\ receipt \in [Reqs -> {"none", "pending", "confirmed", "failed"}]
    /\ oper \in [Reqs -> {"none", "pending", "succeeded", "failed"}]
    /\ recon \in [Reqs -> 0..2]

--------------------------------------------------------------------------------
(* What any step but expiry does to the rows: r may create its own rows, and     *)
(* nothing terminal changes.                                                     *)

\* The transaction that stores an uncertain outcome stores its reconciliation too.
Reconciles(q, o) ==
    Payload[q] \in Reconcilable =>
        recon'[q] > 0 /\ (o = "indet" /\ result[q] = "none" => recon'[q] = 2)

Advance(r) ==
    /\ RowTypes' /\ RowsAgree'
    /\ \A i \in Ids : \/ owner'[i] = owner[i]
                      \/ /\ owner[i] = NoReq /\ owner'[i] = r /\ Mid[r] = i
                         /\ r \notin forgotten /\ receipt[r] = "none"
    /\ \A i \in Ids : claim[i] \in Outcomes => claim'[i] = claim[i]
    /\ \A i \in Ids : claim'[i] = "processing" =>
                          claim[i] = "processing" \/ owner'[i] # owner[i]
    /\ \A q \in Reqs : /\ receipt[q] \in Settled => receipt'[q] = receipt[q]
                       /\ oper[q] \in {"succeeded", "failed"} => oper'[q] = oper[q]
                       /\ receipt[q] # "none" => receipt'[q] # "none"
                       /\ q # r /\ receipt[q] = "none" => receipt'[q] = "none"
                       /\ q # r /\ oper[q] = "none" => oper'[q] = "none"
                       /\ recon'[q] >= recon[q]
    /\ \/ UNCHANGED <<claim, owner>>
       \/ /\ r \in Reqs /\ Mid[r] \in Ids /\ claim[Mid[r]] = "absent" /\ r \notin sent \cup
            forgotten
          /\ claim' = [claim EXCEPT ![Mid[r]] = "processing"]
          /\ owner' = [owner EXCEPT ![Mid[r]] = r]
       \/ \E i \in Ids, o \in Outcomes :
             /\ claim[i] = "processing" /\ claim' = [claim EXCEPT ![i] = o] /\ UNCHANGED owner
             /\ o \in {"partial", "indet"} => Reconciles(owner[i], o)

USE ConstantsAssumption

\* A step that leaves the rows alone advances them trivially.
LEMMA UnchangedAdvances ==
    ASSUME TypeOK, RowsAgree, UNCHANGED rows, NEW r
    PROVE  Advance(r)
BY DEF TypeOK, RowTypes, RowsAgree, Advance, rows, ReceiptOf, OperOf

\* insert_provider_reconciliation_tx keeps the larger number of required passes.
LEMMA ReconciliationTyped ==
    ASSUME recon \in [Reqs -> 0..2], NEW r \in Reqs, NEW n \in 0..2, InsertReconciliation(r, n)
    PROVE  /\ recon' \in [Reqs -> 0..2]
           /\ \A q \in Reqs : recon'[q] >= recon[q]
           /\ Payload[r] \in Reconcilable => recon'[r] >= n
<1>1. Passes(r, n) \in 0..2 /\ (Payload[r] \in Reconcilable => Passes(r, n) = n)
  BY DEF Passes
<1>2. recon' = [recon EXCEPT ![r] = IF Passes(r, n) > recon[r] THEN Passes(r, n) ELSE recon[r]]
  BY DEF InsertReconciliation
<1> HIDE DEF InsertReconciliation
<1> QED BY <1>1, <1>2

\* mark_mutation_indeterminate settles a processing claim and nothing else, and
\* returns the response that is then durable.
LEMMA MarkAdvances ==
    ASSUME TypeOK, RowsAgree, Owned, NEW i \in Ids, NEW n \in 1..2, MarkIndeterminate(i, n), NEW r,
           n = 2 \/ result[owner[i]] # "none"
    PROVE  /\ Advance(r)
           /\ UNCHANGED owner
           /\ claim[i] # "absent" => claim'[i] = DurableResponse(i)
           /\ claim'[i] # "processing"
<1>1. CASE ~StillProcessing(i)
  <2>1. UNCHANGED rows
    BY <1>1 DEF MarkIndeterminate
  <2> QED BY <1>1, <2>1, UnchangedAdvances DEF rows, StillProcessing, DurableResponse, TypeOK,
       ClaimVals
<1>2. CASE StillProcessing(i)
  <2>1. /\ claim[i] = "processing" /\ claim' = [claim EXCEPT ![i] = "indet"]
        /\ receipt' = Terminalize(receipt, owner[i], "failed")
        /\ oper' = Terminalize(oper, owner[i], "failed")
        /\ InsertReconciliation(owner[i], n)
        /\ UNCHANGED owner
    BY <1>2 DEF MarkIndeterminate, StillProcessing
  <2>2. owner[i] \in Reqs /\ receipt[owner[i]] = "pending" /\ oper[owner[i]] = "pending"
    BY <2>1 DEF TypeOK, RowsAgree
  <2>3. RowTypes'
    BY <2>1, <2>2, ReconciliationTyped DEF TypeOK, RowTypes, ClaimVals, Outcomes, Terminalize
  <2>4. \A j \in Ids : j # i => owner[j] # owner[i] \/ owner[j] = NoReq
    BY <2>2 DEF Owned, TypeOK
  <2>5. RowsAgree'
    BY <2>1, <2>2, <2>4 DEF TypeOK, RowsAgree, Terminalize, ReceiptOf, OperOf, Outcomes, ClaimVals
  <2>6. Reconciles(owner[i], "indet") /\ \A q \in Reqs : recon'[q] >= recon[q]
    BY <2>1, <2>2, <2>3, ReconciliationTyped DEF Reconciles, RowTypes, TypeOK
  <2> QED BY <2>1, <2>2, <2>3, <2>5, <2>6 DEF Advance, Terminalize, TypeOK, Settled, Outcomes,
       DurableResponse
<1> QED BY <1>1, <1>2

\* finalize_claimed_mutation settles the claim of its own request with its result.
LEMMA FinalizeAdvances ==
    ASSUME TypeOK, RowsAgree, Owned, NEW r \in Reqs, HasId(r),
           result[r] \in Outcomes \ {"indet"}, FinalizeRows(r)
    PROVE  /\ Advance(r)
           /\ UNCHANGED owner
           /\ claim'[Mid[r]] = result[r] /\ owner[Mid[r]] = r
<1>1. /\ claim[Mid[r]] = "processing" /\ owner[Mid[r]] = r
      /\ receipt[r] = "pending" /\ oper[r] = "pending"
      /\ claim' = [claim EXCEPT ![Mid[r]] = result[r]]
      /\ receipt' = Terminalize(receipt, r, ReceiptOf(result[r]))
      /\ oper' = Terminalize(oper, r, OperOf(r, result[r]))
      /\ InsertReconciliation(r, IF result[r] = "partial" THEN 1 ELSE 0)
      /\ UNCHANGED owner /\ Mid[r] \in Ids
  BY DEF FinalizeRows, Owns, HasId
<1>2. RowTypes'
  BY <1>1, ReconciliationTyped DEF TypeOK, RowTypes, ClaimVals, Outcomes, Terminalize,
       ReceiptOf, OperOf
<1>3. \A j \in Ids : j # Mid[r] => owner[j] # r
  BY <1>1 DEF Owned, TypeOK
<1>4. RowsAgree'
  BY <1>1, <1>3 DEF TypeOK, RowsAgree, Terminalize, ReceiptOf, OperOf, Outcomes, ClaimVals
<1>5. /\ \A q \in Reqs : recon'[q] >= recon[q]
      /\ result[r] = "partial" => Reconciles(r, "partial")
  BY <1>1, <1>2, ReconciliationTyped DEF Reconciles, RowTypes, TypeOK
<1>6. \A q \in Reqs : /\ receipt[q] \in Settled => receipt'[q] = receipt[q]
                      /\ oper[q] \in {"succeeded", "failed"} => oper'[q] = oper[q]
                      /\ receipt[q] # "none" => receipt'[q] # "none"
                      /\ q # r /\ receipt[q] = "none" => receipt'[q] = "none"
                      /\ q # r /\ oper[q] = "none" => oper'[q] = "none"
  BY <1>1 DEF Terminalize, TypeOK, Settled, ReceiptOf
<1>7. /\ claim'[Mid[r]] = result[r]
      /\ \A i \in Ids : claim[i] \in Outcomes => claim'[i] = claim[i]
      /\ \A i \in Ids : claim'[i] = "processing" => claim[i] = "processing"
  BY <1>1 DEF TypeOK, Outcomes
<1>8. \E i \in Ids, o \in Outcomes :
        /\ claim[i] = "processing" /\ claim' = [claim EXCEPT ![i] = o] /\ UNCHANGED owner
        /\ o \in {"partial", "indet"} => Reconciles(owner[i], o)
  <2>1. result[r] \in {"partial", "indet"} => Reconciles(owner[Mid[r]], result[r])
    BY <1>1, <1>5
  <2> QED BY <1>1, <2>1
<1> QED BY <1>1, <1>2, <1>4, <1>5, <1>6, <1>7, <1>8 DEF Advance

\* claim_mutation creates the three rows of a request that had none.
LEMMA InsertAdvances ==
    ASSUME TypeOK, RowsAgree, Owned, NEW r \in Reqs, HasId(r), TaskInv(r), pc[r] = "claim",
         InsertClaim(r)
    PROVE  /\ Advance(r)
           /\ owner'[Mid[r]] = r
<1>1. /\ claim[Mid[r]] = "absent" /\ owner[Mid[r]] = NoReq /\ Mid[r] \in Ids
      /\ claim' = [claim EXCEPT ![Mid[r]] = "processing"]
      /\ owner' = [owner EXCEPT ![Mid[r]] = r]
      /\ receipt' = [receipt EXCEPT ![r] = "pending"]
      /\ oper' = [oper EXCEPT ![r] = "pending"]
      /\ UNCHANGED recon
  BY DEF InsertClaim, CanInsert, HasId, RowsAgree
<1>2. receipt[r] = "none" /\ oper[r] = "none" /\ r \notin sent \cup forgotten
  BY DEF TaskInv, Fresh, Early
<1>3. RowTypes'
  BY <1>1 DEF TypeOK, RowTypes, ClaimVals
<1>4. \A j \in Ids : owner[j] # r
  BY <1>1 DEF Owned, TypeOK
<1>5. RowsAgree'
  BY <1>1, <1>4 DEF TypeOK, RowsAgree, ReceiptOf, OperOf, Outcomes, ClaimVals
<1> QED BY <1>1, <1>2, <1>3, <1>5 DEF Advance, TypeOK, Settled, Outcomes

\* The same of the whole step: only SendWrite sends, nothing is forgotten, and a
\* reported result stays reported.
Moves(r) ==
    /\ Advance(r) /\ UNCHANGED forgotten
    /\ UNCHANGED sent \/ (r \in Reqs /\ SendWrite(r))
    /\ \A q \in Reqs : result'[q] = "none" => result[q] = "none"

--------------------------------------------------------------------------------
(* A step of one task leaves every other task's invariant alone *)

\* Nothing that only task s writes changes.
Idle(s) ==
    /\ pc'[s] = pc[s] /\ result'[s] = result[s] /\ seen'[s] = seen[s]
    /\ reply'[s] = reply[s] /\ from'[s] = from[s]
    /\ s \in sent' <=> s \in sent

\* What the rows told about an id they still tell after the step.
LEMMA TellingAdvances ==
    ASSUME TypeOK, NEW r, Advance(r), UNCHANGED forgotten,
           NEW s \in Reqs, HasId(s), NEW o \in Outcomes, NEW f, Told(s, o, f)
    PROVE  Told(s, o, f)'
<1>1. f \in Reqs /\ Mid[f] = Mid[s] /\ receipt'[f] = ReceiptOf(o)
  BY DEF Told, Advance, ReceiptOf, Settled
<1>2. CASE f \in forgotten
  BY <1>1, <1>2 DEF Told
<1>3. CASE f \notin forgotten
  <2>1. Mid[s] \in Ids /\ claim[Mid[s]] = o /\ owner[Mid[s]] = f /\ f # NoReq
    BY <1>1, <1>3 DEF Told, HasId
  <2> QED BY <1>1, <2>1 DEF Told, Advance
<1> QED BY <1>2, <1>3

\* A step of r, or of nobody, keeps the invariant of every other task.
LEMMA OtherTask ==
    ASSUME IndInv, NEW r, Advance(r), UNCHANGED forgotten,
           NEW s \in Reqs, s # r, Idle(s)
    PROVE  TaskInv(s)'
<1> USE DEF IndInv
<1>1. TaskInv(s)
  OBVIOUS
<1>2. Control(s)'
  BY <1>1 DEF TaskInv, Control, Idle, HasId, Opt
<1>3. Fresh(s)'
  BY <1>1 DEF TaskInv, Fresh, Idle, Advance, HasId, TypeOK
<1>4. Held(s)'
  BY <1>1 DEF TaskInv, Held, Idle, Advance, HasId, TypeOK
<1>5. Answered(s)'
  <2>1. HasId(s) /\ reply'[s] \in Outcomes => Told(s, reply[s], from[s])'
    BY <1>1, TellingAdvances DEF TaskInv, Answered, Idle
  <2>2. ASSUME pc'[s] = "lookupReceipt"
        PROVE  /\ from'[s] \in Reqs /\ Mid[from'[s]] = Mid[s] /\ receipt'[from'[s]] # "none"
               /\ seen'[s] # "absent"
               /\ seen'[s] \in Outcomes => Told(s, seen[s], from[s])'
    BY <1>1, <2>2, TellingAdvances DEF TaskInv, Answered, Control, Idle, Advance
  <2> QED BY <2>1, <2>2 DEF Answered
<1> QED BY <1>2, <1>3, <1>4, <1>5 DEF TaskInv

\* Ownership and the recovery snapshot survive every step that leaves recovery alone:
\* a request that creates its rows now cannot be in a snapshot taken earlier.
LEMMA SharedParts ==
    ASSUME IndInv, NEW r, Advance(r), UNCHANGED <<forgotten, pend, rpc>>
    PROVE  Owned' /\ Snapshot'
<1> USE DEF IndInv
<1>1. Owned'
  BY DEF Owned, Advance, TypeOK
<1>2. \A q \in pend : q \in Reqs /\ receipt'[q] # "none"
  BY DEF Snapshot, Advance, TypeOK
<1>3. ASSUME rpc = "receipts", NEW q \in pend, NEW i \in Ids, claim'[i] = "processing"
      PROVE  owner'[i] # q
  <2>1. CASE owner'[i] = owner[i]
    BY <1>3, <2>1 DEF Snapshot, Advance
  <2>2. CASE owner'[i] # owner[i]
    BY <1>3, <2>2 DEF Snapshot, Advance
  <2> QED BY <2>1, <2>2
<1> QED BY <1>1, <1>2, <1>3 DEF Snapshot

\* A task's step is checked for its own task only.
LEMMA TaskStep ==
    ASSUME IndInv, NEW r \in Reqs, Advance(r), UNCHANGED <<forgotten, pend, rpc>>,
           \A s \in Reqs \ {r} : Idle(s),
           TypeOK', TaskInv(r)'
    PROVE  IndInv'
<1>1. \A s \in Reqs : TaskInv(s)'
  BY OtherTask
<1>2. RowsAgree'
  BY DEF Advance
<1> QED BY <1>1, <1>2, SharedParts DEF IndInv

\* The last step of a task: what it tells its caller must be true.
LEMMA TaskEnds ==
    ASSUME IndInv, NEW r \in Reqs, NEW a, NEW f, Advance(r), UNCHANGED <<forgotten, sent>>,
           End(r, a, f),
           reply[r] = "none" /\ HasId(r) /\ a \in Outcomes => Told(r, a, f)'
    PROVE  TaskInv(r)'
<1> USE DEF IndInv
<1>1. /\ pc'[r] = "done"
      /\ reply'[r] = IF reply[r] = "none" THEN a ELSE reply[r]
      /\ from'[r] = IF reply[r] = "none" THEN f ELSE from[r]
  BY DEF End, Goto, Answer, TypeOK
<1>2. Control(r)' /\ Fresh(r)'
  BY <1>1 DEF Control, Fresh, Early, Saving, InBody
<1>3. Held(r)'
  BY <1>1 DEF TaskInv, Held, InBody, Advance, HasId, TypeOK
<1>4. Answered(r)'
  <2>1. CASE reply[r] = "none"
    BY <1>1, <2>1 DEF Answered, Told
  <2>2. CASE reply[r] # "none"
    BY <1>1, <2>2, TellingAdvances DEF TaskInv, Answered
  <2> QED BY <2>1, <2>2
<1> QED BY <1>2, <1>3, <1>4 DEF TaskInv

\* A task that ends with the durable outcome of its id tells the truth.
LEMMA GuardTells ==
    ASSUME IndInv, NEW r \in Reqs, NEW d, NEW o, Advance(r), UNCHANGED <<forgotten, sent>>,
           End(r, d, o), o \in Reqs, Mid[o] = Mid[r], receipt'[o] = ReceiptOf(d),
           claim'[Mid[r]] = d, owner'[Mid[r]] = o
    PROVE  TaskInv(r)'
<1>1. (reply[r] = "none" /\ HasId(r) /\ d \in Outcomes) => Told(r, d, o)'
  BY DEF Told, ReceiptOf
<1> QED BY <1>1, TaskEnds

Replies == Outcomes \cup {"none", "pending", "busy", "noresp", "mismatch", "auth", "storeErr",
                           "timeout"}

\* The types after the last step of a task.
LEMMA EndTyped ==
    ASSUME TypeOK, RowTypes', NEW r \in Reqs, NEW a \in Replies, NEW f \in Reqs \cup {NoReq},
           End(r, a, f), UNCHANGED <<remote, body, recovery, process>>,
           faults' \in 0..MaxFaults, tries' \in [Reqs -> 0..Tries],
           events' \in [Reqs -> SUBSET {"confirmed", "failed"}], lifecycle' \subseteq Ids
    PROVE  TypeOK'
<1>1. pc' \in [Reqs -> Live \cup {"idle", "done", "dead"}] /\ lane' \in [Lanes -> Reqs \cup {NoReq}]
  BY DEF TypeOK, End, Goto, Release
<1>2. reply' \in [Reqs -> Replies] /\ from' \in [Reqs -> Reqs \cup {NoReq}]
  BY DEF TypeOK, End, Answer, Replies
<1> QED BY <1>1, <1>2 DEF TypeOK, RowTypes, Replies, remote, body, recovery, process

\* The types after a task is accepted and moves on to its lane.
LEMMA AcceptTyped ==
    ASSUME TypeOK, RowTypes', NEW r \in Reqs, Accept(r), faults' \in 0..MaxFaults,
           UNCHANGED <<remote, body, tries, events, lifecycle, recovery, process>>
    PROVE  TypeOK'
<1>1. pc' \in [Reqs -> Live \cup {"idle", "done", "dead"}] /\ UNCHANGED lane
  BY DEF TypeOK, Accept, Goto, Live, InBody
<1>2. reply' \in [Reqs -> Replies] /\ from' \in [Reqs -> Reqs \cup {NoReq}]
  BY DEF TypeOK, Accept, Answer, Replies
<1> QED BY <1>1, <1>2 DEF TypeOK, RowTypes, Replies, remote, body, recovery, process

\* The types after a failed attempt of a persistence loop, retried or given up.
LEMMA RetryTyped ==
    ASSUME TypeOK, RowTypes', NEW r \in Reqs, Mid[r] \in Ids, Retry(r, ScheduleRecovery(r)),
           UNCHANGED <<remote, body, events, recovery, process>>, faults' \in 0..MaxFaults
    PROVE  TypeOK'
<1>1. tries' \in [Reqs -> 0..Tries] /\ lifecycle' \subseteq Ids
  BY DEF TypeOK, Retry, ScheduleRecovery
<1>2. CASE UNCHANGED <<pc, lane, reply, from>>
  BY <1>1, <1>2 DEF TypeOK, RowTypes, remote, body, recovery, process
<1>3. CASE End(r, "storeErr", NoReq)
  <2>1. "storeErr" \in Replies /\ events' \in [Reqs -> SUBSET {"confirmed", "failed"}]
    BY DEF Replies, TypeOK
  <2> QED BY <1>1, <1>3, <2>1, EndTyped
<1> QED BY <1>2, <1>3 DEF Retry, ScheduleRecovery

--------------------------------------------------------------------------------
(* One lemma per operation of a task *)

\* A request enters the daemon.
LEMMA SubmitPreserves ==
    ASSUME IndInv, NEW r \in Reqs, Submit(r)
    PROVE  IndInv' /\ Moves(r)
<1> USE DEF IndInv, Submit, store, rows, remote, body, recovery, process
<1>1. Advance(r)
  BY UnchangedAdvances
<1>2. \A s \in Reqs \ {r} : Idle(s)
  BY DEF Idle, TypeOK, Goto
<1>3. TypeOK'
  BY <1>1 DEF Advance, RowTypes, TypeOK, Control, TaskInv, Outcomes, ClaimVals, Waiting, InBody,
       Saving, Live, Goto, HasId
<1>4. TaskInv(r)'
  BY <1>1 DEF TaskInv, Control, Fresh, Held, Answered, Early, TypeOK, Advance, HasId, Opt,
       Outcomes, ClaimVals, Waiting, InBody, Saving, Live, Goto, Told
<1>5. Moves(r)
  BY <1>1 DEF Moves, TypeOK
<1> QED BY <1>1, <1>2, <1>3, <1>4, <1>5, TaskStep

\* The read of the dedup row or of the receipt fails.
LEMMA LookupFailsPreserves ==
    ASSUME IndInv, NEW r \in Reqs, LookupFails(r)
    PROVE  IndInv' /\ Moves(r)
<1> USE DEF IndInv, LookupFails, store, rows, remote, body, recovery, process
<1>1. Advance(r)
  BY UnchangedAdvances
<1>2. \A s \in Reqs \ {r} : Idle(s)
  BY DEF Idle, TypeOK, End, Goto, Answer, Release
<1>3. TypeOK'
  BY <1>1 DEF Advance, RowTypes, TypeOK, Control, TaskInv, Outcomes, ClaimVals, Waiting, InBody,
       Saving, Live, End, Goto, Answer, Release, Fault
<1>4. TaskInv(r)'
  BY <1>1, TaskEnds DEF Outcomes
<1>5. Moves(r)
  BY <1>1 DEF Moves, TypeOK
<1> QED BY <1>1, <1>2, <1>3, <1>4, <1>5, TaskStep

\* The request is rejected before it has rows.
LEMMA AuthBlockedPreserves ==
    ASSUME IndInv, NEW r \in Reqs, AuthBlocked(r)
    PROVE  IndInv' /\ Moves(r)
<1> USE DEF IndInv, AuthBlocked, store, rows, remote, body, recovery, process
<1>1. Advance(r)
  BY UnchangedAdvances
<1>2. \A s \in Reqs \ {r} : Idle(s)
  BY DEF Idle, TypeOK, End, Goto, Answer, Release
<1>3. TypeOK'
  BY <1>1 DEF Advance, RowTypes, TypeOK, Control, TaskInv, Outcomes, ClaimVals, Waiting, InBody,
       Saving, Live, End, Goto, Answer, Release
<1>4. TaskInv(r)'
  BY <1>1, TaskEnds DEF Outcomes
<1>5. Moves(r)
  BY <1>1 DEF Moves, TypeOK
<1> QED BY <1>1, <1>2, <1>3, <1>4, <1>5, TaskStep

\* The task gets its lane.
LEMMA StartBodyPreserves ==
    ASSUME IndInv, NEW r \in Reqs, StartBody(r)
    PROVE  IndInv' /\ Moves(r)
<1> USE DEF IndInv, StartBody, store, rows, remote, body, recovery, process
<1>1. Advance(r)
  BY UnchangedAdvances
<1>2. \A s \in Reqs \ {r} : Idle(s)
  BY DEF Idle, TypeOK, Goto
<1>3. TypeOK'
  BY <1>1 DEF Advance, RowTypes, TypeOK, Control, TaskInv, Outcomes, ClaimVals, Waiting, InBody,
       Saving, Live, Goto
<1>4. TaskInv(r)'
  BY <1>1 DEF TaskInv, Control, Fresh, Held, Answered, Early, TypeOK, Advance, HasId, Opt,
       Outcomes, ClaimVals, Waiting, InBody, Saving, Live, Goto, Told
<1>5. Moves(r)
  BY <1>1 DEF Moves, TypeOK
<1> QED BY <1>1, <1>2, <1>3, <1>4, <1>5, TaskStep

\* The provider write leaves the daemon: only the owner of the id gets here.
LEMMA SendWritePreserves ==
    ASSUME IndInv, NEW r \in Reqs, SendWrite(r)
    PROVE  IndInv' /\ Moves(r)
<1> USE DEF IndInv, SendWrite, store, rows, remote, body, recovery, process
<1>1. Advance(r)
  BY UnchangedAdvances
<1>2. \A s \in Reqs \ {r} : Idle(s)
  BY DEF Idle, TypeOK, Goto
<1>3. TypeOK'
  BY <1>1 DEF Advance, RowTypes, TypeOK, Control, TaskInv, Outcomes, ClaimVals, Waiting, InBody,
       Saving, Live, Goto
<1>4. TaskInv(r)'
  BY <1>1 DEF TaskInv, Control, Fresh, Held, Answered, Early, TypeOK, Advance, HasId, Opt,
       Outcomes, ClaimVals, Waiting, InBody, Saving, Live, Goto, Told
<1>5. Moves(r)
  BY <1>1 DEF Moves, TypeOK
<1> QED BY <1>1, <1>2, <1>3, <1>4, <1>5, TaskStep

\* The mutation body reports.
LEMMA BodyReturnsPreserves ==
    ASSUME IndInv, NEW r \in Reqs, BodyReturns(r)
    PROVE  IndInv' /\ Moves(r)
<1> USE DEF IndInv, BodyReturns, store, rows, remote, body, recovery, process
<1>1. Advance(r)
  BY UnchangedAdvances
<1>2. \A s \in Reqs \ {r} : Idle(s)
  BY DEF Idle, TypeOK, Goto, Release
<1>3. TypeOK'
  BY <1>1 DEF Advance, RowTypes, TypeOK, Control, TaskInv, Outcomes, ClaimVals, Waiting, InBody,
       Saving, Live, Goto, Release, BodyResults
<1>4. TaskInv(r)'
  BY <1>1 DEF TaskInv, Control, Fresh, Held, Answered, Early, TypeOK, Advance, HasId, Opt,
       Outcomes, ClaimVals, Waiting, InBody, Saving, Live, Goto, Told, BodyResults
<1>5. Moves(r)
  <2>1. PICK o \in BodyResults(r) : result' = [result EXCEPT ![r] = o]
    OBVIOUS
  <2>2. o # "none"
    BY DEF BodyResults
  <2>3. \A q \in Reqs : result'[q] = "none" => result[q] = "none"
    BY <2>1, <2>2 DEF TypeOK
  <2> QED BY <1>1, <2>3 DEF Moves
<1> QED BY <1>1, <1>2, <1>3, <1>4, <1>5, TaskStep

\* The optimistic body is dropped at its deadline.
LEMMA BodyTimeoutPreserves ==
    ASSUME IndInv, NEW r \in Reqs, BodyTimeout(r)
    PROVE  IndInv' /\ Moves(r)
<1> USE DEF IndInv, BodyTimeout, store, rows, remote, body, recovery, process
<1>1. Advance(r)
  BY UnchangedAdvances
<1>2. \A s \in Reqs \ {r} : Idle(s)
  BY DEF Idle, TypeOK, Goto, Release
<1>3. TypeOK'
  BY <1>1 DEF Advance, RowTypes, TypeOK, Control, TaskInv, Outcomes, ClaimVals, Waiting, InBody,
       Saving, Live, Goto, Release
<1>4. TaskInv(r)'
  BY <1>1 DEF TaskInv, Control, Fresh, Held, Answered, Early, TypeOK, Advance, HasId, Opt,
       Outcomes, ClaimVals, Waiting, InBody, Saving, Live, Goto, Told
<1>5. Moves(r)
  BY <1>1 DEF Moves, TypeOK
<1> QED BY <1>1, <1>2, <1>3, <1>4, <1>5, TaskStep

\* The first read of lookup_mutation_claim.
LEMMA LookupClaimPreserves ==
    ASSUME IndInv, NEW r \in Reqs, LookupClaim(r)
    PROVE  IndInv' /\ Moves(r)
<1> USE DEF IndInv, LookupClaim, store, rows, remote, body, recovery, process
<1>1. Advance(r)
  BY UnchangedAdvances
<1>2. \A s \in Reqs \ {r} : Idle(s)
  BY DEF Idle, TypeOK, End, Goto, Answer, Release, StoreOk
<1>3. TypeOK'
  <2>1. RowTypes' /\ Mid[r] \in Ids
    BY <1>1 DEF Advance, TaskInv, Control, HasId
  <2> QED BY <2>1 DEF RowTypes, TypeOK, Outcomes, ClaimVals, Waiting, Live, End, Goto, Answer,
       Release, StoreOk
<1>4. TaskInv(r)'
  <2>1. HasId(r) /\ Mid[r] \in Ids
    BY DEF TaskInv, Control, HasId
  <2>2. CASE claim[Mid[r]] = "absent"
    BY <1>1, <2>2 DEF TaskInv, Control, Fresh, Held, Answered, Early, TypeOK, HasId, Goto, Told,
         InBody, Saving
  <2>3. CASE claim[Mid[r]] # "absent" /\ Payload[owner[Mid[r]]] # Payload[r]
    BY <1>1, <2>3, TaskEnds DEF Outcomes
  <2>4. CASE claim[Mid[r]] # "absent" /\ Payload[owner[Mid[r]]] = Payload[r]
    <3>1. /\ pc'[r] = "lookupReceipt" /\ seen'[r] = claim[Mid[r]]
          /\ from'[r] = owner[Mid[r]] /\ reply'[r] = reply[r] /\ pc[r] = "lookup"
      BY <2>4 DEF TypeOK, Goto
    <3>2. /\ owner[Mid[r]] \in Reqs /\ receipt[owner[Mid[r]]] # "none"
          /\ Mid[owner[Mid[r]]] = Mid[r]
          /\ claim[Mid[r]] \in Outcomes => Told(r, claim[Mid[r]], owner[Mid[r]])
      BY <2>1, <2>4 DEF TypeOK, RowsAgree, Owned, Told, ClaimVals, ReceiptOf
    <3>3. Answered(r)'
      BY <2>1, <2>4, <3>1, <3>2 DEF Answered, Told, TaskInv, Fresh, Early, Outcomes, ReceiptOf
    <3> QED BY <2>1, <3>1, <3>3 DEF TaskInv, Control, Fresh, Held, Early, TypeOK, HasId, InBody,
         Saving
  <2> QED BY <2>2, <2>3, <2>4
<1>5. Moves(r)
  BY <1>1 DEF Moves, TypeOK
<1> QED BY <1>1, <1>2, <1>3, <1>4, <1>5, TaskStep

\* The second read of lookup_mutation_claim and the replay: the response read
\* before is still the durable one.
LEMMA LookupReceiptPreserves ==
    ASSUME IndInv, NEW r \in Reqs, LookupReceipt(r)
    PROVE  IndInv' /\ Moves(r)
<1> USE DEF IndInv, LookupReceipt, store, rows, remote, body, recovery, process
<1>1. Advance(r)
  BY UnchangedAdvances
<1>2. \A s \in Reqs \ {r} : Idle(s)
  BY DEF Idle, TypeOK, End, Goto, Answer, Release, StoreOk
<1>3. TypeOK'
  <2>1. ReplayAnswer(r, seen[r], receipt[from[r]]) \in Outcomes \cup {"pending", "busy", "noresp"}
    BY DEF ReplayAnswer, TaskInv, Answered, TypeOK, ClaimVals, Outcomes
  <2> QED BY <1>1, <2>1 DEF Advance, RowTypes, TypeOK, Outcomes, Live, End, Goto, Answer,
       Release, StoreOk
<1>4. TaskInv(r)'
  <2>1. ReplayAnswer(r, seen[r], receipt[from[r]]) \in Outcomes
           => ReplayAnswer(r, seen[r], receipt[from[r]]) = seen[r]
    BY DEF ReplayAnswer, Outcomes
  <2>2. seen[r] \in Outcomes => Told(r, seen[r], from[r])
    BY DEF TaskInv, Answered
  <2> QED BY <1>1, <2>1, <2>2, TellingAdvances, TaskEnds DEF Told
<1>5. Moves(r)
  BY <1>1 DEF Moves, TypeOK
<1> QED BY <1>1, <1>2, <1>3, <1>4, <1>5, TaskStep

\* claim_mutation: the winner gets its rows, a loser tells what the rows say.
LEMMA ClaimPreserves ==
    ASSUME IndInv, NEW r \in Reqs, Claim(r)
    PROVE  IndInv' /\ Moves(r)
<1> USE DEF IndInv, Claim, store, rows, remote, body, recovery, process
<1>1. Advance(r)
  <2>1. CASE InsertClaim(r)
    BY <2>1, InsertAdvances
  <2>2. CASE UNCHANGED rows
    BY <2>2, UnchangedAdvances
  <2> QED BY <2>1, <2>2
<1>2. \A s \in Reqs \ {r} : Idle(s)
  BY DEF Idle, TypeOK, End, Goto, Answer, Release, StoreOk, Accept
<1>3. TypeOK'
  <2>0. Mid[r] \in Ids
    BY DEF HasId
  <2>3. RowTypes' /\ faults' \in 0..MaxFaults
    BY <1>1 DEF Advance, TypeOK, StoreOk
  <2>4. UNCHANGED <<remote, body, tries, events, lifecycle, recovery, process>>
    OBVIOUS
  <2>1. CASE InsertClaim(r) /\ Accept(r)
    BY <2>1, <2>3, <2>4, AcceptTyped
  <2>2. CASE ~CanInsert(Mid[r]) /\ UNCHANGED rows
    <3>1. owner[Mid[r]] \in Reqs
      BY <2>0, <2>2 DEF CanInsert, RowsAgree, TypeOK
    <3>2. ReplayAnswer(r, claim[Mid[r]], receipt[owner[Mid[r]]]) \in Outcomes \cup {"pending",
         "busy", "noresp"}
      BY <2>0, <2>2, <3>1 DEF CanInsert, ReplayAnswer, TypeOK, ClaimVals
    <3>3. \/ End(r, ReplayAnswer(r, claim[Mid[r]], receipt[owner[Mid[r]]]), owner[Mid[r]])
          \/ End(r, "mismatch", NoReq)
      BY <2>2 DEF InsertClaim
    <3>4. /\ ReplayAnswer(r, claim[Mid[r]], receipt[owner[Mid[r]]]) \in Replies
          /\ "mismatch" \in Replies
      BY <3>2 DEF Replies
    <3>5. /\ tries' \in [Reqs -> 0..Tries] /\ lifecycle' \subseteq Ids
          /\ events' \in [Reqs -> SUBSET {"confirmed", "failed"}]
      BY <2>4 DEF TypeOK
    <3> HIDE DEF Claim, remote, body, recovery, process
    <3> QED BY <2>3, <2>4, <3>1, <3>3, <3>4, <3>5, EndTyped
  <2> QED BY <2>1, <2>2 DEF InsertClaim, CanInsert
<1>4. TaskInv(r)'
  <2>0. Mid[r] \in Ids
    BY DEF HasId
  <2>1. CASE InsertClaim(r) /\ Accept(r)
    <3>1. owner'[Mid[r]] = r /\ pc'[r] = "lane"
      BY <2>1, InsertAdvances DEF Accept, Goto, TypeOK
    <3>2. reply'[r] # "none" \/ ~Opt(r)
      BY <2>1 DEF Accept, Answer, TypeOK
    <3>3. reply'[r] \notin Outcomes
      BY <2>1 DEF Accept, Answer, TypeOK, TaskInv, Fresh, Early, Outcomes
    <3> QED BY <2>0, <3>1, <3>2, <3>3 DEF TaskInv, Control, Fresh, Held, Answered, Early, HasId,
         Opt, InBody, Saving
  <2>2. CASE ~CanInsert(Mid[r]) /\ UNCHANGED rows
    <3>1. DEFINE o == owner[Mid[r]]
    <3>2. o \in Reqs /\ Mid[o] = Mid[r] /\ (claim[Mid[r]] \in Outcomes => Told(r, claim[Mid[r]], o))
      BY <2>0, <2>2 DEF CanInsert, RowsAgree, TypeOK, Owned, Told
    <3>3. claim[Mid[r]] \in Outcomes => Told(r, claim[Mid[r]], o)'
      BY <2>2, <3>2 DEF Told
    <3>4. ReplayAnswer(r, claim[Mid[r]], receipt[o]) \in Outcomes
             => ReplayAnswer(r, claim[Mid[r]], receipt[o]) = claim[Mid[r]]
      BY DEF ReplayAnswer, Outcomes
    <3>5. CASE Payload[o] = Payload[r]
      BY <1>1, <2>2, <3>3, <3>4, <3>5, TaskEnds DEF CanInsert, InsertClaim
    <3>6. CASE Payload[o] # Payload[r]
      BY <1>1, <2>2, <3>6, TaskEnds DEF CanInsert, InsertClaim, Outcomes
    <3> QED BY <3>5, <3>6
  <2> QED BY <2>1, <2>2 DEF InsertClaim, CanInsert
<1>5. Moves(r)
  BY <1>1 DEF Moves, TypeOK
<1> QED BY <1>1, <1>2, <1>3, <1>4, <1>5, TaskStep

\* claim_mutation reports an error, committed or not.
LEMMA ClaimFailsPreserves ==
    ASSUME IndInv, NEW r \in Reqs, ClaimFails(r)
    PROVE  IndInv' /\ Moves(r)
<1> USE DEF IndInv, ClaimFails, store, rows, remote, body, recovery, process
<1>1. Advance(r)
  BY InsertAdvances, UnchangedAdvances
<1>2. \A s \in Reqs \ {r} : Idle(s)
  BY DEF Idle, TypeOK, End, Goto, Answer, Release
<1>3. TypeOK'
  <2>1. RowTypes'
    BY <1>1 DEF Advance
  <2>2. faults' \in 0..MaxFaults
    BY DEF Fault, TypeOK
  <2>3. End(r, "storeErr", NoReq) /\ UNCHANGED <<remote, body, tries, events, lifecycle,
       recovery, process>>
    OBVIOUS
  <2> HIDE DEF ClaimFails
  <2> QED BY <2>1, <2>2, <2>3 DEF RowTypes, TypeOK, Outcomes, Live, End, Goto, Answer, Release
<1>4. TaskInv(r)'
  BY <1>1, TaskEnds DEF Outcomes
<1>5. Moves(r)
  BY <1>1 DEF Moves, TypeOK
<1> QED BY <1>1, <1>2, <1>3, <1>4, <1>5, TaskStep

\* The receipt of a request without an id.
LEMMA InsertPendingReceiptPreserves ==
    ASSUME IndInv, NEW r \in Reqs, InsertPendingReceipt(r)
    PROVE  IndInv' /\ Moves(r)
<1> USE DEF IndInv, InsertPendingReceipt, store, rows, remote, body, recovery, process
<1>1. Advance(r)
  <2>1. receipt[r] = "none" /\ oper[r] = "none" /\ \A i \in Ids : owner[i] # r
    BY DEF TaskInv, Fresh, Early, Owned, HasId
  <2>2. CASE receipt' = [receipt EXCEPT ![r] = "pending"]
    BY <2>1, <2>2 DEF Advance, RowTypes, RowsAgree, TypeOK, Settled, ReceiptOf, OperOf
  <2>3. CASE UNCHANGED receipt
    BY <2>3, UnchangedAdvances
  <2> QED BY <2>2, <2>3
<1>2. \A s \in Reqs \ {r} : Idle(s)
  BY DEF Idle, TypeOK, End, Goto, Answer, Release, StoreOk, Fault
<1>3. TypeOK'
  BY <1>1 DEF Advance, RowTypes, TypeOK, Control, TaskInv, Outcomes, ClaimVals, Waiting, InBody,
       Saving, Live, End, Goto, Answer, Release, Fault, StoreOk
<1>4. TaskInv(r)'
  <2>1. CASE pc'[r] = "insertOp"
    BY <1>1, <2>1 DEF TaskInv, Control, Fresh, Held, Answered, Early, TypeOK, HasId, InBody,
         Saving, Outcomes, Goto, End, Answer
  <2>2. CASE End(r, "storeErr", NoReq)
    BY <1>1, <2>2, TaskEnds DEF Outcomes
  <2> QED BY <2>1, <2>2 DEF Goto, TypeOK
<1>5. Moves(r)
  BY <1>1 DEF Moves, TypeOK
<1> QED BY <1>1, <1>2, <1>3, <1>4, <1>5, TaskStep

\* The operation of a request without an id.
LEMMA InsertPendingOperationPreserves ==
    ASSUME IndInv, NEW r \in Reqs, InsertPendingOperation(r)
    PROVE  IndInv' /\ Moves(r)
<1> USE DEF IndInv, InsertPendingOperation, store, rows, remote, body, recovery, process
<1>1. Advance(r)
  <2>1. oper[r] = "none" /\ \A i \in Ids : owner[i] # r
    BY DEF TaskInv, Fresh, Control, Owned, HasId
  <2>2. CASE oper' = [oper EXCEPT ![r] = "pending"]
    BY <2>1, <2>2 DEF Advance, RowTypes, RowsAgree, TypeOK, Settled, ReceiptOf, OperOf
  <2>3. CASE UNCHANGED oper
    BY <2>3, UnchangedAdvances
  <2> QED BY <2>2, <2>3
<1>2. \A s \in Reqs \ {r} : Idle(s)
  BY DEF Idle, TypeOK, End, Goto, Answer, Release, StoreOk, Fault, Accept
<1>3. TypeOK'
  <2>1. RowTypes' /\ faults' \in 0..MaxFaults /\ "storeErr" \in Replies
    BY <1>1 DEF Advance, TypeOK, Fault, StoreOk, Replies
  <2>2. /\ Accept(r) \/ End(r, "storeErr", NoReq)
        /\ UNCHANGED <<remote, body, tries, events, lifecycle, recovery, process>>
    OBVIOUS
  <2>3. /\ tries' \in [Reqs -> 0..Tries] /\ lifecycle' \subseteq Ids
        /\ events' \in [Reqs -> SUBSET {"confirmed", "failed"}]
    BY <2>2 DEF TypeOK
  <2> HIDE DEF InsertPendingOperation, remote, body, recovery, process
  <2> QED BY <2>1, <2>2, <2>3, AcceptTyped, EndTyped
<1>4. TaskInv(r)'
  <2>1. CASE Accept(r)
    BY <1>1, <2>1 DEF TaskInv, Control, Fresh, Held, Answered, Early, TypeOK, HasId, InBody,
         Saving, Outcomes, Accept, Goto, Answer, Opt
  <2>2. CASE End(r, "storeErr", NoReq)
    BY <1>1, <2>2, TaskEnds DEF Outcomes
  <2> QED BY <2>1, <2>2
<1>5. Moves(r)
  BY <1>1 DEF Moves, TypeOK
<1> QED BY <1>1, <1>2, <1>3, <1>4, <1>5, TaskStep

\* guard_ipc_response drops the handler.
LEMMA DeadlineExpiresPreserves ==
    ASSUME IndInv, NEW r \in Reqs, DeadlineExpires(r)
    PROVE  IndInv' /\ Moves(r)
<1> USE DEF IndInv, DeadlineExpires, store, rows, remote, body, recovery, process
<1>1. Advance(r)
  BY UnchangedAdvances
<1>2. \A s \in Reqs \ {r} : Idle(s)
  BY DEF Idle, TypeOK, End, Goto, Answer, Release
<1>3. TypeOK'
  BY <1>1 DEF Advance, RowTypes, TypeOK, Control, TaskInv, Outcomes, ClaimVals, Waiting, InBody,
       Saving, Live, End, Goto, Answer, Release
<1>4. TaskInv(r)'
  <2>1. CASE ~HasId(r)
    BY <1>1, <2>1, TaskEnds DEF Outcomes
  <2>2. CASE HasId(r)
    <3>1. /\ pc'[r] = "guard" /\ reply'[r] = reply[r] /\ from'[r] = from[r]
      BY <2>2 DEF Goto, TypeOK
    <3> QED BY <1>1, <2>2, <3>1, TellingAdvances DEF TaskInv, Control, Fresh, Held, Answered,
         Early, TypeOK, InBody, Saving
  <2> QED BY <2>1, <2>2
<1>5. Moves(r)
  BY <1>1 DEF Moves, TypeOK
<1> QED BY <1>1, <1>2, <1>3, <1>4, <1>5, TaskStep

\* The recovery intent cannot be read.
LEMMA IntentFailsPreserves ==
    ASSUME IndInv, NEW r \in Reqs, IntentFails(r)
    PROVE  IndInv' /\ Moves(r)
<1> USE DEF IndInv, IntentFails, store, rows, remote, body, recovery, process
<1>1. Advance(r)
  BY UnchangedAdvances
<1>2. \A s \in Reqs \ {r} : Idle(s)
  BY DEF Idle, TypeOK, End, Goto, Answer, Release, ScheduleRecovery
<1>3. TypeOK'
  BY <1>1 DEF Advance, RowTypes, TypeOK, Control, TaskInv, Outcomes, ClaimVals, Waiting, InBody,
       Saving, Live, End, Goto, Answer, Release, Fault, ScheduleRecovery, HasId
<1>4. TaskInv(r)'
  BY <1>1, TaskEnds DEF Outcomes, ScheduleRecovery
<1>5. Moves(r)
  BY <1>1 DEF Moves, TypeOK
<1> QED BY <1>1, <1>2, <1>3, <1>4, <1>5, TaskStep

\* finalize_claimed_mutation succeeds: the caller is told what is durable.
LEMMA FinalizeClaimedPreserves ==
    ASSUME IndInv, NEW r \in Reqs, FinalizeClaimed(r)
    PROVE  IndInv' /\ Moves(r)
<1> USE DEF IndInv, FinalizeClaimed, store, rows, remote, body, recovery, process
<1>1. Advance(r)
  <2>1. result[r] \in Outcomes \ {"indet"}
    BY DEF TaskInv, Control, Saving
  <2> QED BY <2>1, FinalizeAdvances, UnchangedAdvances
<1>2. \A s \in Reqs \ {r} : Idle(s)
  BY DEF Idle, TypeOK, End, Goto, Answer, Release
<1>3. TypeOK'
  <2>1. RowTypes'
    BY <1>1 DEF Advance
  <2>2. /\ StoreOk /\ Announce(r, ReceiptOf(result[r])) /\ End(r, result[r], r)
        /\ tries' = [tries EXCEPT ![r] = 0] /\ pc[r] = "finalize"
        /\ UNCHANGED <<remote, body, lifecycle, recovery, process>>
    OBVIOUS
  <2>3. result[r] \in Outcomes \/ pc[r] \notin Saving
    BY DEF TaskInv, Control
  <2> HIDE DEF FinalizeClaimed
  <2> QED BY <2>1, <2>2, <2>3 DEF RowTypes, TypeOK, Outcomes, Live, Saving, End, Goto, Answer,
       Release, StoreOk, Announce, ReceiptOf
<1>4. TaskInv(r)'
  <2>1. result[r] \in Outcomes \ {"indet"} /\ Mid[r] \in Ids
    BY DEF TaskInv, Control, Saving, HasId
  <2>2. claim'[Mid[r]] = result[r] /\ owner'[Mid[r]] = r
    BY <2>1, FinalizeAdvances DEF IsExactReplay
  <2>3. Told(r, result[r], r)'
    BY <1>1, <2>1, <2>2 DEF Told, Advance, RowsAgree
  <2> QED BY <1>1, <2>3, TaskEnds
<1>5. Moves(r)
  BY <1>1 DEF Moves, TypeOK
<1> QED BY <1>1, <1>2, <1>3, <1>4, <1>5, TaskStep

\* finalize_claimed_mutation fails and is retried, or gives way to the fallback.
LEMMA FinalizeFailsPreserves ==
    ASSUME IndInv, NEW r \in Reqs, FinalizeFails(r)
    PROVE  IndInv' /\ Moves(r)
<1> USE DEF IndInv, FinalizeFails, store, rows, remote, body, recovery, process
<1>1. Advance(r)
  <2>1. result[r] \in Outcomes \ {"indet"}
    BY DEF TaskInv, Control, Saving
  <2> QED BY <2>1, FinalizeAdvances, UnchangedAdvances
<1>2. \A s \in Reqs \ {r} : Idle(s)
  BY DEF Idle, TypeOK, Retry, Goto
<1>3. TypeOK'
  <2>1. RowTypes'
    BY <1>1 DEF Advance
  <2>2. /\ faults' \in 0..MaxFaults
        /\ Retry(r, Goto(r, "fallback") /\ UNCHANGED <<lane, reply, from, lifecycle>>)
        /\ UNCHANGED <<remote, body, events, recovery, process>>
    BY DEF TypeOK, StoreOk, Fault
  <2>3. result[r] \in Outcomes \/ pc[r] \notin Saving
    BY DEF TaskInv, Control
  <2> HIDE DEF FinalizeFails
  <2> QED BY <2>1, <2>2, <2>3 DEF RowTypes, TypeOK, Outcomes, Live, Saving, Retry, Goto
<1>4. TaskInv(r)'
  <2>1. /\ pc'[r] \in {"finalize", "fallback"} /\ pc[r] = "finalize" /\ HasId(r)
        /\ reply'[r] = reply[r] /\ from'[r] = from[r] /\ result' = result
    BY DEF Retry, Goto, TypeOK
  <2> QED BY <1>1, <2>1, TellingAdvances DEF TaskInv, Control, Fresh, Held, Answered, Early,
       TypeOK, InBody, Saving, Advance, HasId
<1>5. Moves(r)
  BY <1>1 DEF Moves, TypeOK
<1> QED BY <1>1, <1>2, <1>3, <1>4, <1>5, TaskStep

\* The fallback tells the durable response, whoever wrote it.
LEMMA FallbackPreserves ==
    ASSUME IndInv, NEW r \in Reqs, Fallback(r)
    PROVE  IndInv' /\ Moves(r)
<1> USE DEF IndInv, Fallback, store, rows, remote, body, recovery, process
<1>1. Advance(r)
  <2>1. HasId(r) /\ Mid[r] \in Ids /\ FallbackPasses = 1
    BY DEF TaskInv, Control, HasId, FallbackPasses
  <2>2. owner[Mid[r]] = r /\ result[r] # "none"
    BY <2>1 DEF TaskInv, Held, Control, Saving, Outcomes
  <2> QED BY <2>1, <2>2, MarkAdvances, UnchangedAdvances
<1>2. \A s \in Reqs \ {r} : Idle(s)
  BY DEF Idle, TypeOK, End, Goto, Answer, Release
<1>3. TypeOK'
  <2>0. HasId(r) /\ Mid[r] \in Ids
    BY DEF TaskInv, Control, HasId
  <2>1. RowTypes' /\ ReceiptOf(result[r]) \in {"confirmed", "failed"}
    BY <1>1 DEF Advance, ReceiptOf
  <2>2. DurableResponse(Mid[r]) \in Outcomes
    BY DEF DurableResponse, Outcomes
  <2>3. /\ StoreOk /\ End(r, DurableResponse(Mid[r]), r)
        /\ Announce(r, IF DurableResponse(Mid[r]) = result[r] THEN ReceiptOf(result[r]) ELSE
             "failed")
        /\ tries' = [tries EXCEPT ![r] = 0]
        /\ UNCHANGED <<remote, body, lifecycle, recovery, process>>
    OBVIOUS
  <2> HIDE DEF Fallback
  <2> QED BY <2>1, <2>2, <2>3 DEF RowTypes, TypeOK, Live, End, Goto, Answer, Release, StoreOk,
       Announce
<1>4. TaskInv(r)'
  <2>0. HasId(r) /\ Mid[r] \in Ids
    BY DEF TaskInv, Control, HasId
  <2>1. owner[Mid[r]] = r /\ claim[Mid[r]] # "absent" /\ result[r] # "none"
    BY <2>0 DEF TaskInv, Held, RowsAgree, Control, Saving, Outcomes
  <2>2. claim'[Mid[r]] = DurableResponse(Mid[r]) /\ owner'[Mid[r]] = r
    BY <2>0, <2>1, MarkAdvances DEF FallbackPasses
  <2>3. DurableResponse(Mid[r]) \in Outcomes
    BY DEF DurableResponse, Outcomes
  <2>4. receipt'[r] = ReceiptOf(DurableResponse(Mid[r]))
    BY <1>1, <2>0, <2>2, <2>3 DEF Advance, RowsAgree, ReceiptOf
  <2>5. End(r, DurableResponse(Mid[r]), r) /\ UNCHANGED <<forgotten, sent>>
    OBVIOUS
  <2> DEFINE d == DurableResponse(Mid[r])
  <2>6. End(r, d, r) /\ receipt'[r] = ReceiptOf(d) /\ claim'[Mid[r]] = d /\ owner'[Mid[r]] = r
    BY <2>2, <2>4, <2>5
  <2> HIDE DEF d, Fallback
  <2> QED BY <1>1, <2>5, <2>6, GuardTells
<1>5. Moves(r)
  BY <1>1 DEF Moves, TypeOK
<1> QED BY <1>1, <1>2, <1>3, <1>4, <1>5, TaskStep

\* The fallback fails and is retried, or lifecycle recovery is scheduled.
LEMMA FallbackFailsPreserves ==
    ASSUME IndInv, NEW r \in Reqs, FallbackFails(r)
    PROVE  IndInv' /\ Moves(r)
<1> USE DEF IndInv, FallbackFails, store, rows, remote, body, recovery, process
<1>1. Advance(r)
  <2>1. HasId(r) /\ Mid[r] \in Ids /\ FallbackPasses = 1
    BY DEF TaskInv, Control, HasId, FallbackPasses
  <2>2. owner[Mid[r]] = r /\ result[r] # "none"
    BY <2>1 DEF TaskInv, Held, Control, Saving, Outcomes
  <2> QED BY <2>1, <2>2, MarkAdvances, UnchangedAdvances
<1>2. \A s \in Reqs \ {r} : Idle(s)
  BY DEF Idle, TypeOK, End, Goto, Answer, Release, Retry, ScheduleRecovery
<1>3. TypeOK'
  <2>1. RowTypes' /\ faults' \in 0..MaxFaults /\ Mid[r] \in Ids
    BY <1>1 DEF Advance, TypeOK, Fault, TaskInv, Control, HasId
  <2>2. Retry(r, ScheduleRecovery(r)) /\ UNCHANGED <<remote, body, events, recovery, process>>
    OBVIOUS
  <2> QED BY <2>1, <2>2, RetryTyped
<1>4. TaskInv(r)'
  <2>1. CASE End(r, "storeErr", NoReq)
    BY <1>1, <2>1, TaskEnds DEF Outcomes
  <2>2. CASE UNCHANGED <<pc, reply, from>>
    BY <1>1, <2>2, TellingAdvances DEF TaskInv, Control, Fresh, Held, Answered, Early, TypeOK,
         InBody, Saving, Advance, HasId, Opt
  <2> QED BY <2>1, <2>2 DEF Retry, ScheduleRecovery
<1>5. Moves(r)
  BY <1>1 DEF Moves, TypeOK
<1> QED BY <1>1, <1>2, <1>3, <1>4, <1>5, TaskStep

\* A timed-out optimistic task records an indeterminate outcome.
LEMMA PersistIndeterminatePreserves ==
    ASSUME IndInv, NEW r \in Reqs, PersistIndeterminate(r)
    PROVE  IndInv' /\ Moves(r)
<1> USE DEF IndInv, PersistIndeterminate, store, rows, remote, body, recovery, process
<1>1. Advance(r)
  <2>1. HasId(r) /\ Mid[r] \in Ids /\ RecoveryPasses = 2
    BY DEF TaskInv, Control, HasId, RecoveryPasses
  <2> QED BY <2>1, MarkAdvances, UnchangedAdvances
<1>2. \A s \in Reqs \ {r} : Idle(s)
  BY DEF Idle, TypeOK, End, Goto, Answer, Release
<1>3. TypeOK'
  <2>1. RowTypes'
    BY <1>1 DEF Advance
  <2>2. /\ StoreOk /\ Announce(r, "failed") /\ End(r, "indet", r)
        /\ tries' = [tries EXCEPT ![r] = 0]
        /\ UNCHANGED <<remote, body, lifecycle, recovery, process>>
    OBVIOUS
  <2>3. result[r] \in Outcomes \/ pc[r] \notin Saving
    BY DEF TaskInv, Control
  <2> HIDE DEF PersistIndeterminate
  <2> QED BY <2>1, <2>2, <2>3 DEF RowTypes, TypeOK, Outcomes, Live, Saving, End, Goto, Answer,
       Release, StoreOk, Announce
<1>4. TaskInv(r)'
  <2>1. reply[r] # "none"
    BY DEF TaskInv, Control
  <2> QED BY <1>1, <2>1, TaskEnds
<1>5. Moves(r)
  BY <1>1 DEF Moves, TypeOK
<1> QED BY <1>1, <1>2, <1>3, <1>4, <1>5, TaskStep

\* The same, when the store fails.
LEMMA PersistIndeterminateFailsPreserves ==
    ASSUME IndInv, NEW r \in Reqs, PersistIndeterminateFails(r)
    PROVE  IndInv' /\ Moves(r)
<1> USE DEF IndInv, PersistIndeterminateFails, store, rows, remote, body, recovery, process
<1>1. Advance(r)
  <2>1. HasId(r) /\ Mid[r] \in Ids /\ RecoveryPasses = 2
    BY DEF TaskInv, Control, HasId, RecoveryPasses
  <2> QED BY <2>1, MarkAdvances, UnchangedAdvances
<1>2. \A s \in Reqs \ {r} : Idle(s)
  BY DEF Idle, TypeOK, End, Goto, Answer, Release, Retry, ScheduleRecovery
<1>3. TypeOK'
  <2>1. RowTypes' /\ faults' \in 0..MaxFaults /\ Mid[r] \in Ids
    BY <1>1 DEF Advance, TypeOK, Fault, TaskInv, Control, HasId
  <2>2. Retry(r, ScheduleRecovery(r)) /\ UNCHANGED <<remote, body, events, recovery, process>>
    OBVIOUS
  <2> QED BY <2>1, <2>2, RetryTyped
<1>4. TaskInv(r)'
  <2>1. CASE End(r, "storeErr", NoReq)
    BY <1>1, <2>1, TaskEnds DEF Outcomes
  <2>2. CASE UNCHANGED <<pc, reply, from>>
    BY <1>1, <2>2, TellingAdvances DEF TaskInv, Control, Fresh, Held, Answered, Early, TypeOK,
         InBody, Saving, Advance, HasId, Opt
  <2> QED BY <2>1, <2>2 DEF Retry, ScheduleRecovery
<1>5. Moves(r)
  BY <1>1 DEF Moves, TypeOK
<1> QED BY <1>1, <1>2, <1>3, <1>4, <1>5, TaskStep

\* The deadline guard settles the claim of the id and tells its outcome, also
\* when the claim is another request's.
LEMMA GuardRecoversPreserves ==
    ASSUME IndInv, NEW r \in Reqs, GuardRecovers(r)
    PROVE  IndInv' /\ Moves(r)
<1> USE DEF IndInv, GuardRecovers, store, rows, remote, body, recovery, process
<1>1. Advance(r)
  <2>1. HasId(r) /\ Mid[r] \in Ids /\ RecoveryPasses = 2
    BY DEF TaskInv, Control, HasId, RecoveryPasses
  <2> QED BY <2>1, MarkAdvances, UnchangedAdvances
<1>2. \A s \in Reqs \ {r} : Idle(s)
  BY DEF Idle, TypeOK, End, Goto, Answer, Release
<1>3. TypeOK'
  <2>0. HasId(r) /\ Mid[r] \in Ids
    BY DEF TaskInv, Control, HasId
  <2>1. RowTypes'
    BY <1>1 DEF Advance
  <2>2. DurableResponse(Mid[r]) \in Outcomes /\ owner[Mid[r]] \in Reqs \cup {NoReq}
    BY <2>0 DEF DurableResponse, Outcomes, TypeOK
  <2>3. /\ StoreOk /\ (End(r, DurableResponse(Mid[r]), owner[Mid[r]]) \/ End(r, "timeout", NoReq))
        /\ tries' = [tries EXCEPT ![r] = 0]
        /\ UNCHANGED <<remote, body, events, lifecycle, recovery, process>>
    OBVIOUS
  <2> HIDE DEF GuardRecovers
  <2> QED BY <2>1, <2>2, <2>3 DEF RowTypes, TypeOK, Live, End, Goto, Answer, Release, StoreOk
<1>4. TaskInv(r)'
  <2>0. HasId(r) /\ Mid[r] \in Ids
    BY DEF TaskInv, Control, HasId
  <2>1. CASE claim[Mid[r]] = "absent"
    BY <1>1, <2>1, TaskEnds DEF Outcomes
  <2>2. CASE claim[Mid[r]] # "absent"
    <3> DEFINE d == DurableResponse(Mid[r])
               o == owner[Mid[r]]
    <3>1. o \in Reqs /\ Mid[o] = Mid[r]
      BY <2>0, <2>2 DEF RowsAgree, Owned, TypeOK
    <3>2. claim'[Mid[r]] = d /\ owner'[Mid[r]] = o /\ d \in Outcomes /\ RowsAgree'
      BY <1>1, <2>0, <2>2, MarkAdvances DEF RecoveryPasses, Advance, DurableResponse, Outcomes
    <3>3. receipt'[o] = ReceiptOf(d)
      BY <2>0, <3>2 DEF RowsAgree, ReceiptOf
    <3>4. End(r, d, o) /\ UNCHANGED <<forgotten, sent>>
      BY <2>2
    <3>5. /\ o \in Reqs /\ Mid[o] = Mid[r] /\ receipt'[o] = ReceiptOf(d)
          /\ claim'[Mid[r]] = d /\ owner'[Mid[r]] = o
      BY <3>1, <3>2, <3>3
    <3> HIDE DEF d, o, GuardRecovers
    <3> QED BY <1>1, <3>4, <3>5, GuardTells
  <2> QED BY <2>1, <2>2
<1>5. Moves(r)
  BY <1>1 DEF Moves, TypeOK
<1> QED BY <1>1, <1>2, <1>3, <1>4, <1>5, TaskStep

\* The deadline guard cannot settle the claim.
LEMMA GuardFailsPreserves ==
    ASSUME IndInv, NEW r \in Reqs, GuardFails(r)
    PROVE  IndInv' /\ Moves(r)
<1> USE DEF IndInv, GuardFails, store, rows, remote, body, recovery, process
<1>1. Advance(r)
  <2>1. HasId(r) /\ Mid[r] \in Ids /\ RecoveryPasses = 2
    BY DEF TaskInv, Control, HasId, RecoveryPasses
  <2> QED BY <2>1, MarkAdvances, UnchangedAdvances
<1>2. \A s \in Reqs \ {r} : Idle(s)
  BY DEF Idle, TypeOK, End, Goto, Answer, Release, Retry
<1>3. TypeOK'
  <2>0. HasId(r) /\ Mid[r] \in Ids
    BY DEF TaskInv, Control, HasId
  <2>1. RowTypes' /\ faults' \in 0..MaxFaults
    BY <1>1 DEF Advance, Fault, TypeOK
  <2>2. /\ \/ Retry(r, End(r, "storeErr", NoReq) /\ UNCHANGED lifecycle)
           \/ End(r, "storeErr", NoReq) /\ UNCHANGED <<tries, lifecycle>>
        /\ UNCHANGED <<remote, body, events, recovery, process>>
    OBVIOUS
  <2>3. /\ tries' \in [Reqs -> 0..Tries] /\ lifecycle' \subseteq Ids
        /\ events' \in [Reqs -> SUBSET {"confirmed", "failed"}] /\ "storeErr" \in Replies
    BY <2>2 DEF TypeOK, Retry, Replies
  <2>4. UNCHANGED <<pc, lane, reply, from>> \/ End(r, "storeErr", NoReq)
    BY <2>2 DEF Retry
  <2> HIDE DEF GuardFails
  <2>5. CASE UNCHANGED <<pc, lane, reply, from>>
    BY <2>1, <2>2, <2>3, <2>5 DEF RowTypes, TypeOK
  <2> HIDE DEF remote, body, recovery, process
  <2>6. CASE End(r, "storeErr", NoReq)
    BY <2>1, <2>2, <2>3, <2>6, EndTyped
  <2> QED BY <2>4, <2>5, <2>6
<1>4. TaskInv(r)'
  <2>1. CASE End(r, "storeErr", NoReq)
    BY <1>1, <2>1, TaskEnds DEF Outcomes
  <2>2. CASE UNCHANGED <<pc, reply, from>>
    BY <1>1, <2>2, TellingAdvances DEF TaskInv, Control, Fresh, Held, Answered, Early, TypeOK,
         InBody, Saving, Advance, HasId, Opt
  <2> QED BY <2>1, <2>2 DEF Retry
<1>5. Moves(r)
  BY <1>1 DEF Moves, TypeOK
<1> QED BY <1>1, <1>2, <1>3, <1>4, <1>5, TaskStep

\* A partial failure of a request without an id.
LEMMA FinalizePartialPreserves ==
    ASSUME IndInv, NEW r \in Reqs, FinalizePartial(r)
    PROVE  IndInv' /\ Moves(r)
<1> USE DEF IndInv, FinalizePartial, store, rows, remote, body, recovery, process
<1>1. Advance(r)
  <2>1. \A i \in Ids : owner[i] # r
    BY DEF TaskInv, Control, Owned, HasId
  <2>2. UNCHANGED <<claim, owner>>
    OBVIOUS
  <2>3. \/ /\ receipt' = Terminalize(receipt, r, "failed")
           /\ oper' = Terminalize(oper, r, OperOf(r, result[r]))
           /\ InsertReconciliation(r, IF result[r] = "partial" THEN 1 ELSE 0)
        \/ UNCHANGED rows
    OBVIOUS
  <2>4. CASE UNCHANGED rows
    BY <2>4, UnchangedAdvances
  <2>5. CASE /\ receipt' = Terminalize(receipt, r, "failed")
             /\ oper' = Terminalize(oper, r, OperOf(r, result[r]))
             /\ InsertReconciliation(r, IF result[r] = "partial" THEN 1 ELSE 0)
    <3>1. OperOf(r, result[r]) \in {"succeeded", "failed"}
      BY DEF OperOf
    <3>2. receipt' \in [Reqs -> {"none", "pending", "confirmed", "failed"}]
      BY <2>5 DEF TypeOK, Terminalize
    <3>3. oper' \in [Reqs -> {"none", "pending", "succeeded", "failed"}]
      BY <2>5, <3>1 DEF TypeOK, Terminalize
    <3>4. recon' \in [Reqs -> 0..2] /\ \A q \in Reqs : recon'[q] >= recon[q]
      BY <2>5, ReconciliationTyped DEF TypeOK
    <3>5. RowTypes'
      BY <2>2, <3>2, <3>3, <3>4 DEF RowTypes, TypeOK
    <3>6. \A q \in Reqs \ {r} : receipt'[q] = receipt[q] /\ oper'[q] = oper[q]
      BY <2>5 DEF Terminalize, TypeOK
    <3>7. \A q \in Reqs : /\ receipt[q] # "pending" => receipt'[q] = receipt[q]
                          /\ oper[q] # "pending" => oper'[q] = oper[q]
                          /\ receipt[q] = "pending" => receipt'[q] # "none"
      BY <2>5 DEF Terminalize, TypeOK
    <3>8. \A i \in Ids : owner[i] \in Reqs \ {r} \/ owner[i] = NoReq
      BY <2>1 DEF TypeOK
    <3>9. TypeOK /\ RowsAgree
      OBVIOUS
    <3> HIDE DEF FinalizePartial, IndInv
    <3>10. \A i \in Ids : claim[i] \in ClaimVals /\ (claim[i] = "absent" <=> owner[i] = NoReq)
      BY <3>9 DEF TypeOK, RowsAgree
    <3>11. \A i \in Ids : claim[i] # "absent" =>
              receipt'[owner[i]] = receipt[owner[i]] /\ oper'[owner[i]] = oper[owner[i]]
      BY <3>6, <3>8, <3>10
    <3>12. RowsAgree'
      BY <2>2, <3>9, <3>11 DEF RowsAgree, Outcomes
    <3> QED BY <2>2, <3>4, <3>5, <3>6, <3>7, <3>12 DEF Advance, Settled
  <2> QED BY <2>3, <2>4, <2>5
<1>2. \A s \in Reqs \ {r} : Idle(s)
  BY DEF Idle, TypeOK, End, Goto, Answer, Release
<1>3. TypeOK'
  <2>1. RowTypes' /\ faults' \in 0..MaxFaults /\ UNCHANGED <<tries, lifecycle>>
    BY <1>1 DEF Advance, TypeOK, Fault, StoreOk
  <2>2. events' \in [Reqs -> SUBSET {"confirmed", "failed"}]
    BY DEF TypeOK, Announce
  <2>3. End(r, result[r], r) \/ End(r, "storeErr", NoReq)
    OBVIOUS
  <2>4. result[r] \in Replies /\ "storeErr" \in Replies
    BY DEF Replies, Outcomes
  <2>5. tries' \in [Reqs -> 0..Tries] /\ lifecycle' \subseteq Ids
    BY <2>1 DEF TypeOK
  <2>6. UNCHANGED <<remote, body, recovery, process>>
    OBVIOUS
  <2> QED BY <2>1, <2>2, <2>3, <2>4, <2>5, <2>6, EndTyped
<1>4. TaskInv(r)'
  BY <1>1, TaskEnds DEF Outcomes
<1>5. Moves(r)
  BY <1>1 DEF Moves, TypeOK
<1> QED BY <1>1, <1>2, <1>3, <1>4, <1>5, TaskStep

\* The receipt of a request without an id.
LEMMA FinalizeReceiptPreserves ==
    ASSUME IndInv, NEW r \in Reqs, FinalizeReceipt(r)
    PROVE  IndInv' /\ Moves(r)
<1> USE DEF IndInv, FinalizeReceipt, store, rows, remote, body, recovery, process
<1>1. Advance(r)
  <2>1. \A i \in Ids : owner[i] # r
    BY DEF TaskInv, Control, Owned, HasId
  <2> QED BY <2>1, ReconciliationTyped DEF Advance, RowTypes, RowsAgree, TypeOK, Settled,
       Terminalize, ReceiptOf, OperOf, Outcomes
<1>2. \A s \in Reqs \ {r} : Idle(s)
  BY DEF Idle, TypeOK, End, Goto, Answer, Release
<1>3. TypeOK'
  <2>1. RowTypes'
    BY <1>1 DEF Advance
  <2>2. /\ faults' \in 0..MaxFaults
        /\ ((Goto(r, "finOp") /\ UNCHANGED <<lane, reply, from>>) \/ End(r, "storeErr", NoReq))
        /\ UNCHANGED <<remote, body, tries, events, lifecycle, recovery, process>>
    BY DEF TypeOK, StoreOk, Fault
  <2>3. result[r] \in Outcomes \/ pc[r] \notin Saving
    BY DEF TaskInv, Control
  <2> HIDE DEF FinalizeReceipt
  <2> QED BY <2>1, <2>2, <2>3 DEF RowTypes, TypeOK, Outcomes, Live, Saving, End, Goto, Answer,
       Release
<1>4. TaskInv(r)'
  <2>1. CASE End(r, "storeErr", NoReq)
    BY <1>1, <2>1, TaskEnds DEF Outcomes
  <2>2. CASE Goto(r, "finOp") /\ UNCHANGED <<lane, reply, from>>
    BY <1>1, <2>2 DEF TaskInv, Control, Fresh, Held, Answered, Early, TypeOK, InBody, Saving,
         Goto, HasId
  <2> QED BY <2>1, <2>2
<1>5. Moves(r)
  BY <1>1 DEF Moves, TypeOK
<1> QED BY <1>1, <1>2, <1>3, <1>4, <1>5, TaskStep

\* The operation of a request without an id.
LEMMA FinalizeOperationPreserves ==
    ASSUME IndInv, NEW r \in Reqs, FinalizeOperation(r)
    PROVE  IndInv' /\ Moves(r)
<1> USE DEF IndInv, FinalizeOperation, store, rows, remote, body, recovery, process
<1>1. Advance(r)
  <2>1. \A i \in Ids : owner[i] # r
    BY DEF TaskInv, Control, Owned, HasId
  <2> QED BY <2>1, ReconciliationTyped DEF Advance, RowTypes, RowsAgree, TypeOK, Settled,
       Terminalize, ReceiptOf, OperOf, Outcomes
<1>2. \A s \in Reqs \ {r} : Idle(s)
  BY DEF Idle, TypeOK, End, Goto, Answer, Release
<1>3. TypeOK'
  <2>1. RowTypes'
    BY <1>1 DEF Advance
  <2>2. /\ faults' \in 0..MaxFaults /\ (Announce(r, ReceiptOf(result[r])) \/ UNCHANGED events)
        /\ (End(r, result[r], r) \/ End(r, "storeErr", NoReq)) /\ pc[r] = "finOp"
        /\ UNCHANGED <<remote, body, tries, lifecycle, recovery, process>>
    BY DEF TypeOK, StoreOk, Fault
  <2>3. result[r] \in Replies /\ "storeErr" \in Replies
    BY DEF TypeOK, Replies
  <2>4. events' \in [Reqs -> SUBSET {"confirmed", "failed"}]
    BY <2>2 DEF TypeOK, Announce, ReceiptOf
  <2>5. tries' \in [Reqs -> 0..Tries] /\ lifecycle' \subseteq Ids
    BY <2>2 DEF TypeOK
  <2> HIDE DEF FinalizeOperation, remote, body, recovery, process
  <2> QED BY <2>1, <2>2, <2>3, <2>4, <2>5, EndTyped
<1>4. TaskInv(r)'
  BY <1>1, TaskEnds DEF TaskInv, Control
<1>5. Moves(r)
  BY <1>1 DEF Moves, TypeOK
<1> QED BY <1>1, <1>2, <1>3, <1>4, <1>5, TaskStep

--------------------------------------------------------------------------------
(* Steps of the provider and of recovery: no task moves *)

\* A step of the provider, of recovery or of nobody is checked for the rows only.
LEMMA QuietStep ==
    ASSUME IndInv, Advance(NoReq), UNCHANGED <<forgotten, sent, pc, result, seen, reply, from>>,
           TypeOK', Snapshot'
    PROVE  IndInv' /\ Moves(NoReq)
<1>1. \A s \in Reqs : Idle(s) /\ s # NoReq
  BY DEF Idle
<1>2. \A s \in Reqs : TaskInv(s)'
  BY <1>1, OtherTask
<1>3. Owned' /\ RowsAgree'
  BY DEF IndInv, Owned, Advance, TypeOK
<1> QED BY <1>2, <1>3 DEF IndInv, Moves

\* The provider applies or refuses a write, at any time.
LEMMA ProviderPreserves ==
    ASSUME IndInv, NEW r \in Reqs, ProviderStep(r)
    PROVE  IndInv' /\ Moves(NoReq)
<1> USE DEF IndInv, ProviderStep, ProviderApplies, ProviderRefuses, rows, tasks, body, recovery,
     process
<1>1. Advance(NoReq)
  BY UnchangedAdvances
<1>2. TypeOK'
  BY <1>1 DEF TypeOK
<1> QED BY <1>1, <1>2, SharedParts, QuietStep

\* A scheduled lifecycle recovery settles a claim.
LEMMA LifecyclePreserves ==
    ASSUME IndInv, NEW i \in Ids, LifecycleRecovers(i)
    PROVE  IndInv' /\ Moves(NoReq)
<1> USE DEF IndInv, LifecycleRecovers, remote, tasks, body, recovery, process
<1>1. Advance(NoReq)
  BY MarkAdvances, UnchangedAdvances DEF RecoveryPasses
<1>2. TypeOK'
  <2>1. RowTypes' /\ faults' \in 0..MaxFaults /\ lifecycle' \subseteq Ids
    BY <1>1 DEF Advance, StoreOk, Fault, TypeOK
  <2>2. UNCHANGED <<remote, tasks, recovery, process>>
    OBVIOUS
  <2> HIDE DEF LifecycleRecovers
  <2> QED BY <2>1, <2>2 DEF RowTypes, TypeOK
<1> QED BY <1>1, <1>2, SharedParts, QuietStep

\* The claims and the control of a recovery pass.
LEMMA RecoverClaimPreserves ==
    ASSUME IndInv, NEW i \in Ids, RecoverClaim(i)
    PROVE  IndInv' /\ Moves(NoReq)
<1> USE DEF IndInv, RecoverClaim, remote, tasks, body, process
<1>1. Advance(NoReq)
  BY MarkAdvances, UnchangedAdvances DEF RecoveryPasses
<1>2. TypeOK'
  <2>1. RowTypes' /\ faults' \in 0..MaxFaults /\ todo' \subseteq Ids
    BY <1>1 DEF Advance, StoreOk, Fault, TypeOK
  <2>2. UNCHANGED <<remote, tasks, lifecycle, rpc, pend, process>>
    OBVIOUS
  <2>3. recFailed' \in BOOLEAN
    BY Zenon DEF TypeOK
  <2> HIDE DEF RecoverClaim
  <2> QED BY <2>1, <2>2, <2>3 DEF RowTypes, TypeOK
<1> QED BY <1>1, <1>2, SharedParts, QuietStep

\* Recovery fails a pending receipt: none that belongs to a processing claim.
LEMMA RecoverReceiptPreserves ==
    ASSUME IndInv, NEW r \in Reqs, RecoverReceipt(r)
    PROVE  IndInv' /\ Moves(NoReq)
<1> USE DEF IndInv, RecoverReceipt, remote, body, process
<1>1. \A i \in Ids : claim[i] = "processing" => owner[i] # r
  BY DEF Snapshot
<1>2. Advance(NoReq)
  BY <1>1 DEF Advance, RowTypes, RowsAgree, TypeOK, Terminalize, Settled, ReceiptOf, OperOf
<1>3. TypeOK'
  BY <1>2 DEF Advance, RowTypes, TypeOK, Announce
<1>4. Snapshot'
  BY <1>2 DEF Snapshot, Advance, TypeOK
<1> QED BY <1>2, <1>3, <1>4, QuietStep

\* Recovery fails a receipt only after subtracting the claims still processing.
LEMMA RecoveryControlPreserves ==
    ASSUME IndInv,
           RecoveryFails \/ RecoveryRetries \/ ListClaims \/ ClaimsRecovered \/ ListPending
              \/ SubtractClaims \/ RecoveryEnds \/ Restart
    PROVE  IndInv' /\ Moves(NoReq)
<1> USE DEF IndInv, store, rows, remote, tasks, body, recovery, process
<1>0. /\ UNCHANGED <<rows, remote, tasks, forgotten, lifecycle>>
      /\ up' \in BOOLEAN /\ serving' \in BOOLEAN /\ crashes' = crashes
  BY DEF RecoveryFails, RecoveryRetries, ListClaims, ClaimsRecovered, ListPending,
         SubtractClaims, RecoveryEnds, Restart, TypeOK
<1>1. Advance(NoReq)
  BY <1>0, UnchangedAdvances
<1>2. TypeOK'
  <2>1. /\ faults' \in 0..MaxFaults /\ todo' \subseteq Ids
        /\ pend' \subseteq Reqs
        /\ rpc' \in {"off", "begin", "claims", "listPending", "listClaims", "receipts",
                     "sleep", "done"}
    BY DEF RecoveryFails, RecoveryRetries, ListClaims, ClaimsRecovered, ListPending,
           SubtractClaims, RecoveryEnds, Restart, TypeOK, Fault, Processing, SkipProcessing, NextRun
  <2>2. recFailed' \in BOOLEAN
    BY Zenon DEF RecoveryFails, RecoveryRetries, ListClaims, ClaimsRecovered, ListPending,
                 SubtractClaims, RecoveryEnds, Restart, TypeOK
  <2> QED BY <1>0, <2>1, <2>2 DEF TypeOK
<1>3. Snapshot'
  <2>1. CASE ListPending
    BY <2>1 DEF Snapshot, ListPending
  <2>2. CASE SubtractClaims
    BY <2>2 DEF Snapshot, SubtractClaims, SkipProcessing, Processing
  <2>3. CASE pend' \subseteq pend /\ rpc' # "receipts"
    BY <1>0, <2>3 DEF Snapshot
  <2>4. RecoveryFails \/ RecoveryRetries \/ ListClaims \/ ClaimsRecovered \/ RecoveryEnds \/ Restart
           => pend' \subseteq pend /\ rpc' # "receipts"
    BY DEF RecoveryFails, RecoveryRetries, ListClaims, ClaimsRecovered, RecoveryEnds, Restart,
         NextRun
  <2> QED BY <2>1, <2>2, <2>3, <2>4
<1> QED BY <1>0, <1>1, <1>2, <1>3, QuietStep

--------------------------------------------------------------------------------
(* The process *)

\* A crash ends every task and keeps every row.
LEMMA CrashPreserves ==
    ASSUME IndInv, Crash
    PROVE  IndInv' /\ Moves(NoReq)
<1> USE DEF IndInv, Crash, store, rows, remote, body
<1>1. TypeOK'
  <2>1. up' \in BOOLEAN /\ serving' \in BOOLEAN /\ recFailed' \in BOOLEAN
    BY Zenon
  <2>2. pc' \in [Reqs -> Live \cup {"idle", "done", "dead"}] /\ tries' \in [Reqs -> 0..Tries]
    BY DEF TypeOK
  <2>3. crashes' \in 0..MaxCrashes /\ lane' \in [Lanes -> Reqs \cup {NoReq}]
    BY DEF TypeOK
  <2> QED BY <2>1, <2>2, <2>3 DEF TypeOK
<1>2. RowsAgree' /\ Owned' /\ Snapshot'
  BY DEF RowsAgree, Owned, Snapshot, ReceiptOf, OperOf
<1>3. ASSUME NEW s \in Reqs
      PROVE  TaskInv(s)'
  <2>0. TaskInv(s)
    OBVIOUS
  <2>1. pc'[s] = "dead" \/ (pc'[s] = pc[s] /\ pc[s] \notin Live)
    OBVIOUS
  <2>2. Control(s)' /\ Fresh(s)' /\ Held(s)'
    BY <2>0, <2>1 DEF TaskInv, Control, Fresh, Held, Early, Saving, InBody, Waiting, Live,
         HasId, Opt
  <2>3. Answered(s)'
    BY <2>0, <2>1 DEF TaskInv, Answered, Told, Waiting, Live, HasId, ReceiptOf
  <2> QED BY <2>2, <2>3 DEF TaskInv
<1>4. Moves(NoReq)
  BY UnchangedAdvances DEF Moves
<1> QED BY <1>1, <1>2, <1>3, <1>4

\* A terminal dedup row expires: its owner is done, and is forgotten.
LEMMA PrunePreserves ==
    ASSUME IndInv, NEW i \in Ids, PruneExpired(i)
    PROVE  IndInv'
<1> USE DEF IndInv, PruneExpired, Expirable, remote, tasks, body, recovery
<1>0. owner[i] \in Reqs /\ Mid[owner[i]] = i /\ claim[i] \in Outcomes
  BY DEF RowsAgree, Owned, TypeOK, Outcomes
<1>1. TypeOK'
  BY <1>0 DEF TypeOK, ClaimVals
<1>2. RowsAgree'
  BY DEF RowsAgree, TypeOK, ReceiptOf, OperOf, Outcomes
<1>3. Owned'
  BY <1>0 DEF Owned, TypeOK
<1>4. Snapshot'
  BY DEF Snapshot, TypeOK
<1>5. ASSUME NEW s \in Reqs
      PROVE  TaskInv(s)'
  <2>1. TaskInv(s)
    OBVIOUS
  <2>2. Control(s)'
    BY <2>1 DEF TaskInv, Control, HasId, Opt
  <2>3. Fresh(s)'
    BY <1>0, <2>1 DEF TaskInv, Fresh, HasId, TypeOK, Early, Live, Waiting
  <2>4. Held(s)'
    BY <1>0, <2>1 DEF TaskInv, Held, HasId, TypeOK, Live, InBody, Saving
  <2>5. \A o, f : HasId(s) /\ Told(s, o, f) =>
                   /\ f \in Reqs /\ Mid[f] = Mid[s] /\ receipt'[f] = ReceiptOf(o)
                   /\ f \notin forgotten' => claim'[Mid[s]] = o /\ owner'[Mid[s]] = f
    BY <1>0 DEF Told, HasId, TypeOK
  <2>6. Answered(s)'
    BY <2>1, <2>5 DEF TaskInv, Control, Answered, Told
  <2> QED BY <2>2, <2>3, <2>4, <2>6 DEF TaskInv
<1> QED BY <1>1, <1>2, <1>3, <1>4, <1>5

--------------------------------------------------------------------------------
(* The inductive invariant holds *)

\* The invariant holds in the initial state.
LEMMA InitInd == Init => IndInv
<1> SUFFICES ASSUME Init PROVE IndInv
  OBVIOUS
<1>1. TypeOK
  <2>1. up \in BOOLEAN /\ serving \in BOOLEAN /\ recFailed \in BOOLEAN
    BY Zenon DEF Init
  <2> QED BY <2>1 DEF Init, TypeOK, ClaimVals
<1>2. RowsAgree /\ Owned /\ Snapshot
  BY DEF Init, RowsAgree, Owned, Snapshot, Outcomes
<1>3. \A r \in Reqs : TaskInv(r)
  BY DEF Init, TaskInv, Control, Fresh, Held, Answered, HasId, InBody, Saving, Outcomes
<1> QED BY <1>1, <1>2, <1>3 DEF IndInv

\* The invariant survives stuttering.
LEMMA StutterInd == IndInv /\ UNCHANGED vars => IndInv' /\ Moves(NoReq)
<1> SUFFICES ASSUME IndInv, UNCHANGED vars PROVE IndInv' /\ Moves(NoReq)
  OBVIOUS
<1> USE DEF IndInv, vars
<1>1. Advance(NoReq)
  BY UnchangedAdvances DEF rows
<1>2. TypeOK'
  BY DEF TypeOK
<1> QED BY <1>1, <1>2, SharedParts, QuietStep

\* What the task of a request does.
Act(r) == Submit(r) \/ AuthBlocked(r) \/ StoreStep(r) \/ BodyStep(r) \/ Timer(r)

\* Every step of a task keeps the invariant and moves no rows but its own.
LEMMA ActInd ==
    ASSUME IndInv, NEW r \in Reqs, Act(r)
    PROVE  IndInv' /\ Moves(r)
BY SubmitPreserves, AuthBlockedPreserves, LookupClaimPreserves, LookupReceiptPreserves,
   LookupFailsPreserves, ClaimPreserves, ClaimFailsPreserves, InsertPendingReceiptPreserves,
   InsertPendingOperationPreserves, IntentFailsPreserves, FinalizeClaimedPreserves,
   FinalizeFailsPreserves, FallbackPreserves, FallbackFailsPreserves,
   PersistIndeterminatePreserves, PersistIndeterminateFailsPreserves, FinalizePartialPreserves,
   FinalizeReceiptPreserves, FinalizeOperationPreserves, GuardRecoversPreserves,
   GuardFailsPreserves, StartBodyPreserves, SendWritePreserves, BodyReturnsPreserves,
   DeadlineExpiresPreserves, BodyTimeoutPreserves
   DEF Act, StoreStep, BodyStep, Timer

\* Every step keeps the invariant; it moves rows forward or forgets one.
LEMMA NextInd ==
    ASSUME IndInv, [Next]_vars
    PROVE  /\ IndInv'
           /\ (\E r \in Reqs \cup {NoReq} : Moves(r)) \/ (\E i \in Ids : PruneExpired(i))
<1>1. ASSUME RecoveryStep PROVE IndInv' /\ Moves(NoReq)
  BY <1>1, RecoveryControlPreserves, RecoverClaimPreserves, RecoverReceiptPreserves
     DEF RecoveryStep
<1>2. CASE UNCHANGED vars
  BY <1>2, StutterInd
<1> QED
  BY <1>1, <1>2, ActInd, ProviderPreserves, LifecyclePreserves, PrunePreserves,
     RecoveryControlPreserves, CrashPreserves DEF Next, Act, Quiescent

\* The inductive invariant holds in every reachable state.
THEOREM Invariance == Spec => []IndInv
BY InitInd, NextInd, PTL DEF Spec

--------------------------------------------------------------------------------
(* What it gives *)

\* Every variable keeps its type: counters stay within their bounds, and nothing
\* is applied or on the wire that was not sent.
THEOREM TypeCorrect == Spec => []TypeOK
<1>1. IndInv => TypeOK
  BY DEF IndInv
<1> QED BY <1>1, Invariance, PTL

\* The dedup row, its receipt and its operation agree in every reachable state:
\* no interleaving of finalizations, guards, recoveries, retries and crashes
\* splits what each store transaction wrote together.
THEOREM RowsAlwaysAgree == Spec => []RowsAgree
<1>1. IndInv => RowsAgree
  BY DEF IndInv
<1> QED BY <1>1, Invariance, PTL

\* A mutation id reaches the provider at most once between two expiries of its
\* row, for any number of clients, retries, timeouts, faults and crashes.
THEOREM WritesAtMostOnce == Spec => []AtMostOnce
<1>1. IndInv => AtMostOnce
  <2> SUFFICES ASSUME IndInv, NEW r \in sent \ forgotten, NEW s \in sent \ forgotten,
                      HasId(r), Mid[r] = Mid[s]
               PROVE  r = s
    BY DEF AtMostOnce
  <2>1. r \in Reqs /\ s \in Reqs /\ HasId(s)
    BY DEF IndInv, TypeOK, HasId
  <2> QED BY <2>1 DEF IndInv, TaskInv, Held
<1> QED BY <1>1, Invariance, PTL

\* Every definite answer, first or replayed, tells the durable outcome of its id.
THEOREM AnswersAreDurable == Spec => []AnswersTellDurableOutcome
<1>1. IndInv => AnswersTellDurableOutcome
  BY DEF IndInv, TaskInv, Answered, Told, AnswersTellDurableOutcome, ReceiptOf
<1> QED BY <1>1, Invariance, PTL

\* Terminal rows never change, except that a dedup row may expire: no late
\* finalization, stale recovery snapshot or retry of a committed transaction
\* rewrites an outcome.
THEOREM TerminalRowsAreFinal == Spec => TerminalIsFinal
<1> DEFINE Final ==
        /\ \A i \in Ids : claim[i] \in Outcomes => claim'[i] \in {claim[i], "absent"}
        /\ \A r \in Reqs : receipt[r] \in {"confirmed", "failed"} => receipt'[r] = receipt[r]
        /\ \A r \in Reqs : oper[r] \in {"succeeded", "failed"} => oper'[r] = oper[r]
<1>1. ASSUME IndInv, [Next]_vars PROVE Final
  <2>1. ASSUME NEW r, Moves(r) PROVE Final
    BY <2>1 DEF Moves, Advance, Settled
  <2>2. ASSUME NEW i \in Ids, PruneExpired(i) PROVE Final
    BY <1>1, <2>2 DEF PruneExpired, IndInv, TypeOK
  <2> QED BY <1>1, <2>1, <2>2, NextInd
<1>2. IndInv /\ [Next]_vars => [Final]_vars
  BY <1>1
<1> QED BY <1>2, Invariance, PTL DEF Spec, TerminalIsFinal

\* An outcome the daemon cannot vouch for always has its durable reconciliation,
\* with a second pass when the mutation body never reported.
THEOREM UncertaintyIsReconciled == Spec => []UncertainIsReconciled
<1>1. Init => UncertainIsReconciled
  BY DEF Init, UncertainIsReconciled
<1>2. ASSUME IndInv, UncertainIsReconciled, [Next]_vars PROVE UncertainIsReconciled'
  <2>1. ASSUME NEW r \in Reqs \cup {NoReq}, Moves(r) PROVE UncertainIsReconciled'
    <3> SUFFICES ASSUME NEW j \in Ids, claim'[j] \in {"partial", "indet"},
                        Payload[owner'[j]] \in Reconcilable
                 PROVE  /\ recon'[owner'[j]] > 0
                        /\ claim'[j] = "indet" /\ result'[owner'[j]] = "none" =>
                             recon'[owner'[j]] = 2
      BY DEF UncertainIsReconciled
    <3>1. /\ owner'[j] \in Reqs /\ recon \in [Reqs -> 0..2] /\ recon' \in [Reqs -> 0..2]
          /\ claim \in [Ids -> ClaimVals] /\ owner \in [Ids -> Reqs \cup {NoReq}]
      BY <1>2, <2>1 DEF IndInv, TypeOK, Moves, Advance, RowTypes, RowsAgree
    <3>2. recon'[owner'[j]] >= recon[owner'[j]]
      BY <2>1, <3>1 DEF Moves, Advance
    <3>3. result'[owner'[j]] = "none" => result[owner'[j]] = "none"
      BY <2>1, <3>1 DEF Moves
    <3>4. CASE claim'[j] = claim[j] /\ owner'[j] = owner[j]
      BY <1>2, <3>1, <3>2, <3>3, <3>4 DEF UncertainIsReconciled
    <3>5. CASE owner'[j] = owner[j] /\ Reconciles(owner[j], claim'[j])
      BY <3>1, <3>3, <3>5 DEF Reconciles
    <3>6. \/ claim'[j] = claim[j] /\ owner'[j] = owner[j]
          \/ owner'[j] = owner[j] /\ Reconciles(owner[j], claim'[j])
      BY <2>1, <3>1 DEF Moves, Advance
    <3> QED BY <3>4, <3>5, <3>6
  <2>2. ASSUME NEW i \in Ids, PruneExpired(i) PROVE UncertainIsReconciled'
    BY <1>2, <2>2 DEF PruneExpired, UncertainIsReconciled, IndInv, TypeOK, tasks, body
  <2> QED BY <1>2, <2>1, <2>2, NextInd
<1> QED BY <1>1, <1>2, Invariance, PTL DEF Spec

\* Refinement: MutationLifecycle implements MutationOnce.
THEOREM Refinement == Spec => ImplementsOnce
<1>1. Init => Once!OnceInit
  BY DEF Init, Once!OnceInit
<1>2. ASSUME IndInv, [Next]_vars PROVE [Once!OnceNext]_(Once!onceVars)
  <2> USE <1>2 DEF Once!onceVars, Once!OnceNext, Keyed
  <2>1. ASSUME NEW r \in Reqs, SendWrite(r) PROVE [Once!OnceNext]_(Once!onceVars)
    <3>1. CASE HasId(r)
      <4>1. Mid[r] \in Ids /\ owner[Mid[r]] = r /\ r \notin sent
        BY <2>1, <3>1 DEF IndInv, TaskInv, Held, Fresh, SendWrite, InBody, HasId
      <4>2. Once!Run(r)
        BY <2>1, <3>1, <4>1 DEF Once!Run, SendWrite, rows, process
      <4> QED BY <4>2
    <3>2. CASE ~HasId(r)
      BY <2>1, <3>2 DEF SendWrite, rows, process
    <3> QED BY <3>1, <3>2
  <2>2. ASSUME NEW r \in Reqs \cup {NoReq}, Advance(r), UNCHANGED <<sent, forgotten>>
        PROVE  [Once!OnceNext]_(Once!onceVars)
    <3>1. CASE UNCHANGED <<claim, owner>>
      BY <2>2, <3>1
    <3>2. CASE /\ r \in Reqs /\ Mid[r] \in Ids /\ claim[Mid[r]] = "absent"
               /\ r \notin sent \cup forgotten
               /\ claim' = [claim EXCEPT ![Mid[r]] = "processing"]
               /\ owner' = [owner EXCEPT ![Mid[r]] = r]
      <4>1. Once!Open(r)
        BY <2>2, <3>2 DEF Once!Open
      <4> QED BY <3>2, <4>1
    <3>3. ASSUME NEW i \in Ids, NEW o \in Outcomes, claim[i] = "processing",
                 claim' = [claim EXCEPT ![i] = o], UNCHANGED owner
          PROVE  [Once!OnceNext]_(Once!onceVars)
      <4>1. Once!Settle(i, o)
        BY <2>2, <3>3 DEF Once!Settle
      <4> QED BY <4>1
    <3> QED BY <2>2, <3>1, <3>2, <3>3 DEF Advance
  <2>3. ASSUME NEW i \in Ids, PruneExpired(i) PROVE [Once!OnceNext]_(Once!onceVars)
    <3>1. Once!Forget(i)
      BY <2>3 DEF Once!Forget, PruneExpired, Expirable, remote
    <3> QED BY <3>1
  <2>4. ASSUME NEW r \in Reqs \cup {NoReq}, Moves(r) PROVE [Once!OnceNext]_(Once!onceVars)
    BY <2>1, <2>2, <2>4 DEF Moves
  <2> QED BY <2>3, <2>4, NextInd
<1> QED BY <1>1, <1>2, Invariance, PTL DEF Spec, ImplementsOnce, Once!OnceSpec
================================================================================
