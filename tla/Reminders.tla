------------------------------ MODULE Reminders ------------------------------
(***************************************************************************)
(* The listening reminders of the daemon: the scheduler (reminders.rs) and *)
(* the requests that change what it schedules (handlers/reminders.rs),     *)
(* over the two tables of the store.                                       *)
(*                                                                         *)
(* Time is counted in ticks of the wall clock.  The scheduler sleeps on    *)
(* the monotonic clock, so a suspended machine lets the wall clock run     *)
(* ahead of its sleep.  All recurrences have one period; the sleeps after  *)
(* an empty or a failed query keep their names.                            *)
(***************************************************************************)
EXTENDS Integers, Sequences

CONSTANTS
    Ids,           \* reminders, each created at most once
    NoTime,        \* an empty snoozed_until_ms
    Period,        \* the step of a recurring reminder
    SkipLimit,     \* how many missed occurrences next_occurrence steps over
    IdleSleep,     \* the sleep when nothing is scheduled
    ErrorSleep,    \* the sleep after a failed query
    MaxTime,       \* bound: the wall clock
    MaxActs,       \* bound: what users do with notifications
    MaxFaults,     \* bound: failed queries and writes, requests cut off
    MaxCrashes     \* bound: crashes and restarts

ASSUME ConstantsAssumption ==
    /\ NoTime \notin Int
    /\ Period \in Nat \ {0}
    /\ IdleSleep \in Nat \ {0} /\ ErrorSleep \in Nat \ {0}
    /\ MaxTime \in Nat /\ MaxActs \in Nat /\ MaxFaults \in Nat /\ MaxCrashes \in Nat
    /\ SkipLimit \in Nat

VARIABLES
    now,         \* now_ms()
    reminders,   \* reminder_schedules
    inbox,       \* reminder_notifications, in the order of their insertion
    pc,          \* where the scheduler is
    found,       \* what next_reminder_wake_ms returned
    left,        \* what is left of its sleep
    permit,      \* the stored permit of the wake signal
    passNow,     \* the time fire_due works with
    due,         \* the reminders it still has to fire, as it read them
    current,     \* the one whose notification it has inserted
    snoozed,     \* the notifications it still has to fire again
    waking,      \* requests between their write and wake_scheduler
    playing,     \* notifications whose play or queue request is under way
    used,        \* [acts, faults, crashes] so far, for the bounds
    sleepTo,     \* history: the time the scheduler sleeps to
    blind,       \* history: a query failed, or a wake was cut off, since then
    unsettled,   \* history: notifications whose reminder was not moved on
    cancelled,   \* history: reminders with a committed cancellation
    gone         \* history: those of them when the pass read its list

tables == <<reminders, inbox>>

scheduler == <<pc, found, left, passNow, due, current, snoozed>>

requests == <<waking, playing>>

history == <<sleepTo, blind, unsettled, cancelled, gone>>

vars == <<now, tables, scheduler, permit, requests, used, history>>

-----------------------------------------------------------------------------
\* Values.

Times == 0..MaxTime

\* What the query for the next time returns.
NoAnswer == [kind |-> "none", time |-> 0]

Answers == [kind : {"time"}, time : Nat] \cup {NoAnswer, [kind |-> "failed", time |-> 0]}

Absent == [state |-> "absent", due |-> 0, recurring |-> FALSE]

Due == [id : Ids, due : Nat, recurring : BOOLEAN]

Nothing == [id |-> "none"]

NotificationStates == {"unseen", "seen", "snoozed", "dismissed", "done"}

Notification(d) ==
    [reminder |-> d.id, due |-> d.due, fired |-> passNow, state |-> "unseen",
     until |-> NoTime]

\* due_reminders
DueReminders ==
    {[id |-> r, due |-> reminders[r].due, recurring |-> reminders[r].recurring] :
        r \in {q \in Ids : reminders[q].state = "active" /\ reminders[q].due <= now}}

\* due_snoozed_notifications
DueSnoozed ==
    {n \in DOMAIN inbox : /\ inbox[n].state = "snoozed"
                          /\ inbox[n].until # NoTime
                          /\ inbox[n].until <= passNow}

\* The times next_reminder_wake_ms takes the least of.
WakeTimes ==
    {reminders[r].due : r \in {q \in Ids : reminders[q].state = "active"}} \cup
    ({inbox[n].until : n \in {m \in DOMAIN inbox : inbox[m].state = "snoozed"}} \ {NoTime})

\* Mutant: only one missed occurrence is stepped over.
IsNextOccurrence_OneStep(from, next) == next = from + Period

\* next_occurrence: the loop stops at the first step past now, or at its limit.
IsNextOccurrence(from, next) ==
    \E k \in 1..(SkipLimit + 1) :
        /\ next = from + k * Period
        /\ next > now \/ k = SkipLimit + 1
        /\ \A j \in 1..(k - 1) : from + j * Period <= now

\* No reminder was missed for longer than the loop can step over.
SkipReaches == SkipLimit * Period >= MaxTime

\* initial_next_due
IsInitialDue(anchor, recurring, first) ==
    IF anchor > now \/ ~ recurring THEN first = anchor
    ELSE IsNextOccurrence(anchor, first)

\* The occurrences a step of the bounded clock can lead to.
Occurrences == 0..(MaxTime + (SkipLimit + 1) * Period)

\* A fault is counted, or there is none.
Faulty(fault) ==
    /\ fault => used.faults < MaxFaults
    /\ used' = IF fault THEN [used EXCEPT !.faults = @ + 1] ELSE used

Act ==
    /\ used.acts < MaxActs
    /\ used' = [used EXCEPT !.acts = @ + 1]

-----------------------------------------------------------------------------
\* Requests.

\* ReminderCreate up to its commit.
Create(r, anchor, recurring, first) ==
    /\ reminders[r].state = "absent"
    /\ IsInitialDue(anchor, recurring, first)
    /\ reminders' = [reminders EXCEPT ![r] =
                        [state |-> "active", due |-> first, recurring |-> recurring]]
    /\ waking' = waking + 1
    /\ UNCHANGED <<now, inbox, scheduler, permit, playing, used, history>>

\* ReminderCancel up to its commit, whatever state the reminder is in.
Cancel(r) ==
    /\ reminders[r].state \in {"active", "completed"}
    /\ reminders' = [reminders EXCEPT ![r].state = "cancelled"]
    /\ cancelled' = cancelled \cup {r}
    /\ waking' = waking + 1
    /\ UNCHANGED <<now, inbox, scheduler, permit, playing, used, sleepTo, blind, unsettled, gone>>

SetNotification(n, state, until) ==
    inbox' = [inbox EXCEPT ![n].state = state, ![n].until = until]

\* NotificationAct with Seen or Dismiss.
Mark(n, state) ==
    /\ Act
    /\ state \in {"seen", "dismissed"}
    /\ SetNotification(n, state, NoTime)
    /\ UNCHANGED <<now, reminders, scheduler, permit, requests, history>>

\* NotificationAct with Snooze, up to its commit.
Snooze(n, until) ==
    /\ Act
    /\ SetNotification(n, "snoozed", until)
    /\ waking' = waking + 1
    /\ UNCHANGED <<now, reminders, scheduler, permit, playing, history>>

\* NotificationAct with Play or Queue: the provider is asked, then the
\* notification is done, unless that failed.
PlayBegin(n) ==
    /\ Act
    /\ playing' = playing \cup {n}
    /\ UNCHANGED <<now, tables, scheduler, permit, waking, history>>

PlayEnd(n, ok) ==
    /\ n \in playing
    /\ playing' = playing \ {n}
    /\ IF ok THEN SetNotification(n, "done", NoTime) ELSE UNCHANGED inbox
    /\ UNCHANGED <<now, reminders, scheduler, permit, waking, used, history>>

\* Mutant: a wake that finds nobody waiting is lost.
Notify_Waiters == permit' = (permit \/ pc = "sleeping")

\* notify_one: the permit is stored until the scheduler waits for it.
Notify == permit' = TRUE

\* wake_scheduler, once the write has returned.
WakeScheduler ==
    /\ waking > 0
    /\ waking' = waking - 1
    /\ Notify
    /\ UNCHANGED <<now, tables, scheduler, playing, used, history>>

\* The request's deadline cuts it off after its commit and before the wake.
RequestCutOff ==
    /\ waking > 0
    /\ Faulty(TRUE)
    /\ waking' = waking - 1
    /\ blind' = TRUE
    /\ UNCHANGED <<now, tables, scheduler, permit, playing, sleepTo, unsettled, cancelled,
                   gone>>

-----------------------------------------------------------------------------
\* The scheduler (spawn_reminder_loop).

\* Mutant: an overdue time is not clamped.
SleepFor_Unclamped(answer) ==
    CASE answer.kind = "time" -> answer.time - now
      [] answer.kind = "none" -> IdleSleep
      [] answer.kind = "failed" -> ErrorSleep

\* next_sleep: until the time that was found, and not at all when it has passed; an
\* hour when there is none, a minute when the query failed.
SleepFor(answer) ==
    CASE answer.kind = "time" -> IF answer.time <= now THEN 0 ELSE answer.time - now
      [] answer.kind = "none" -> IdleSleep
      [] answer.kind = "failed" -> ErrorSleep

\* next_reminder_wake_ms reads the tables: the least of the times, or none.
Query(answer) ==
    /\ pc = "query"
    /\ CASE answer.kind = "time" -> /\ answer.time \in WakeTimes
                                    /\ \A other \in WakeTimes : answer.time <= other
         [] answer.kind = "none" -> WakeTimes = {}
         [] answer.kind = "failed" -> TRUE
    /\ Faulty(answer.kind = "failed")
    /\ pc' = "found"
    /\ found' = answer
    /\ blind' = (answer.kind = "failed")
    /\ UNCHANGED <<now, tables, left, permit, passNow, due, current, snoozed, requests, sleepTo,
                   unsettled, cancelled, gone>>

\* The scheduler computes its sleep and waits for its end or the wake signal.
Sleep ==
    /\ pc = "found"
    /\ pc' = "sleeping"
    /\ left' = SleepFor(found)
    /\ sleepTo' = now + left'
    /\ found' = NoAnswer
    /\ UNCHANGED <<now, tables, permit, passNow, due, current, snoozed, requests, used, blind,
                   unsettled, cancelled, gone>>

\* The wake signal ends the sleep: the next one is computed anew.
Woken ==
    /\ pc = "sleeping"
    /\ permit
    /\ permit' = FALSE
    /\ pc' = "query"
    /\ left' = 0
    /\ sleepTo' = 0
    /\ UNCHANGED <<now, tables, found, passNow, due, current, snoozed, requests, used, blind,
                   unsettled, cancelled, gone>>

\* The sleep is over: fire_due reads the time and the list of due reminders.
FireDue(ok) ==
    /\ pc = "sleeping"
    /\ left = 0
    /\ Faulty(~ ok)
    /\ pc' = "fire"
    /\ passNow' = now
    /\ due' = IF ok THEN DueReminders ELSE {}
    /\ sleepTo' = 0
    /\ gone' = cancelled
    /\ UNCHANGED <<now, tables, found, left, permit, current, snoozed, requests, blind, unsettled,
                   cancelled>>

\* Mutant: a reminder whose notification was not written is completed.
FireReminder_Lost(d, ok) ==
    /\ pc = "fire"
    /\ d \in due
    /\ \A e \in due : d.due <= e.due
    /\ Faulty(~ ok)
    /\ due' = due \ {d}
    /\ IF ok
       THEN /\ inbox' = Append(inbox, Notification(d))
            /\ pc' = "settle"
            /\ current' = d
            /\ UNCHANGED reminders
       ELSE /\ reminders' = [reminders EXCEPT ![d.id].state = "completed"]
            /\ UNCHANGED <<inbox, pc, current>>
    /\ UNCHANGED <<now, found, left, permit, passNow, snoozed, requests, history>>

\* fire_reminder up to the event: without a notification the reminder stays due.
FireReminder(d, ok) ==
    /\ pc = "fire"
    /\ d \in due
    /\ \A e \in due : d.due <= e.due
    /\ Faulty(~ ok)
    /\ due' = due \ {d}
    /\ IF ok
       THEN /\ inbox' = Append(inbox, Notification(d))
            /\ pc' = "settle"
            /\ current' = d
       ELSE UNCHANGED <<inbox, pc, current>>
    /\ UNCHANGED <<now, reminders, found, left, permit, passNow, snoozed, requests, history>>

\* Mutant: the row is made active as well.
Advance_Revives(r, next) ==
    reminders' = [reminders EXCEPT ![r].due = next, ![r].state = "active"]

\* advance_reminder
Advance(r, next) == reminders' = [reminders EXCEPT ![r].due = next]

\* complete_reminder
Complete(r) == reminders' = [reminders EXCEPT ![r].state = "completed"]

\* The rest of fire_reminder: the reminder is moved on.
SettleRecurring(next) ==
    /\ pc = "settle"
    /\ current.recurring
    /\ IsNextOccurrence(current.due, next)
    /\ Advance(current.id, next)
    /\ pc' = "fire"
    /\ current' = Nothing
    /\ UNCHANGED <<now, inbox, found, left, permit, passNow, due, snoozed, requests, used, history>>

SettleOnce ==
    /\ pc = "settle"
    /\ ~ current.recurring
    /\ Complete(current.id)
    /\ pc' = "fire"
    /\ current' = Nothing
    /\ UNCHANGED <<now, inbox, found, left, permit, passNow, due, snoozed, requests, used, history>>

\* The write fails, which is only logged.
SettleFails ==
    /\ pc = "settle"
    /\ Faulty(TRUE)
    /\ pc' = "fire"
    /\ current' = Nothing
    /\ unsettled' = unsettled \cup {Len(inbox)}
    /\ UNCHANGED <<now, tables, found, left, permit, passNow, due, snoozed, requests, sleepTo,
                   blind, cancelled, gone>>

\* After the reminders, the list of the snoozed notifications.
FireSnoozed(ok) ==
    /\ pc = "fire"
    /\ due = {}
    /\ Faulty(~ ok)
    /\ pc' = "refire"
    /\ snoozed' = IF ok THEN DueSnoozed ELSE {}
    /\ UNCHANGED <<now, tables, found, left, permit, passNow, due, current, requests, history>>

\* Mutant: the time is cleared but the state is kept.
Unsnooze_KeepsState(n) == SetNotification(n, "snoozed", NoTime)

Unsnooze(n) == SetNotification(n, "unseen", NoTime)

\* refire_snoozed: the event goes out even when the write failed.
RefireSnoozed(n, ok) ==
    /\ pc = "refire"
    /\ n \in snoozed
    /\ Faulty(~ ok)
    /\ snoozed' = snoozed \ {n}
    /\ IF ok THEN Unsnooze(n) ELSE UNCHANGED inbox
    /\ UNCHANGED <<now, reminders, pc, found, left, permit, passNow, due, current, requests, history>>

EndPass ==
    /\ pc = "refire"
    /\ snoozed = {}
    /\ pc' = "query"
    /\ passNow' = 0
    /\ gone' = {}
    /\ UNCHANGED <<now, tables, found, left, permit, due, current, snoozed, requests, used,
                   sleepTo, blind, unsettled, cancelled>>

-----------------------------------------------------------------------------
\* Time and crashes.

\* A tick; at the end of the calendar sleeps still run out.
Tick ==
    /\ now < MaxTime \/ left > 0
    /\ now' = IF now < MaxTime THEN now + 1 ELSE now
    /\ left' = IF left > 0 THEN left - 1 ELSE left
    /\ UNCHANGED <<tables, pc, found, permit, passNow, due, current, snoozed, requests, used,
                   history>>

\* The machine is suspended for a tick: only the wall clock runs.
Suspend ==
    /\ now < MaxTime
    /\ now' = now + 1
    /\ UNCHANGED <<tables, scheduler, permit, requests, used, history>>

\* The daemon crashes or stops, and starts again: only the tables are left.
Crash ==
    /\ used.crashes < MaxCrashes
    /\ used' = [used EXCEPT !.crashes = @ + 1]
    /\ pc' = "query"
    /\ found' = NoAnswer
    /\ left' = 0
    /\ permit' = FALSE
    /\ passNow' = 0
    /\ due' = {}
    /\ current' = Nothing
    /\ snoozed' = {}
    /\ waking' = 0
    /\ playing' = {}
    /\ unsettled' = IF pc = "settle" THEN unsettled \cup {Len(inbox)} ELSE unsettled
    /\ sleepTo' = 0
    /\ blind' = FALSE
    /\ gone' = {}
    /\ UNCHANGED <<now, tables, cancelled>>

Init ==
    /\ now = 0
    /\ reminders = [r \in Ids |-> Absent]
    /\ inbox = <<>>
    /\ pc = "query"
    /\ found = NoAnswer
    /\ left = 0
    /\ permit = FALSE
    /\ passNow = 0
    /\ due = {}
    /\ current = Nothing
    /\ snoozed = {}
    /\ waking = 0
    /\ playing = {}
    /\ used = [acts |-> 0, faults |-> 0, crashes |-> 0]
    /\ sleepTo = 0
    /\ blind = FALSE
    /\ unsettled = {}
    /\ cancelled = {}
    /\ gone = {}

Requests ==
    \/ \E r \in Ids, anchor \in Times, recurring \in BOOLEAN, first \in Occurrences :
           Create(r, anchor, recurring, first)
    \/ \E r \in Ids : Cancel(r)
    \/ \E n \in DOMAIN inbox, state \in NotificationStates : Mark(n, state)
    \/ \E n \in DOMAIN inbox, until \in Times : Snooze(n, until)
    \/ \E n \in DOMAIN inbox : PlayBegin(n)
    \/ \E n \in DOMAIN inbox, ok \in BOOLEAN : PlayEnd(n, ok)
    \/ WakeScheduler
    \/ RequestCutOff

Scheduler ==
    \/ \E time \in WakeTimes : Query([kind |-> "time", time |-> time])
    \/ \E kind \in {"none", "failed"} : Query([kind |-> kind, time |-> 0])
    \/ Sleep
    \/ Woken
    \/ \E ok \in BOOLEAN : FireDue(ok)
    \/ \E d \in due, ok \in BOOLEAN : FireReminder(d, ok)
    \/ \E next \in Occurrences : SettleRecurring(next)
    \/ SettleOnce
    \/ SettleFails
    \/ \E ok \in BOOLEAN : FireSnoozed(ok)
    \/ \E n \in snoozed, ok \in BOOLEAN : RefireSnoozed(n, ok)
    \/ EndPass

Next ==
    \/ Requests
    \/ Scheduler
    \/ Tick
    \/ Suspend
    \/ Crash

Spec == Init /\ [][Next]_vars

\* The scheduler's queries and writes return, and time passes; nothing is assumed
\* about requests, not even that they wake the scheduler.
FairSpec == Spec /\ WF_vars(Scheduler) /\ WF_vars(Tick)

-----------------------------------------------------------------------------
\* Properties.

\* Every variable has its type; a sleep is never negative.
TypeOK ==
    /\ now \in Times
    /\ reminders \in [Ids -> [state : {"absent", "active", "completed", "cancelled"},
                              due : Nat, recurring : BOOLEAN]]
    /\ inbox \in Seq([reminder : Ids, due : Nat, fired : Nat, state : NotificationStates,
                      until : Times \cup {NoTime}])
    /\ pc \in {"query", "found", "sleeping", "fire", "settle", "refire"}
    /\ found \in Answers
    /\ left \in Nat
    /\ permit \in BOOLEAN
    /\ passNow \in Times
    /\ due \subseteq Due
    /\ current \in Due \cup {Nothing}
    /\ snoozed \subseteq DOMAIN inbox
    /\ waking \in Nat
    /\ playing \subseteq DOMAIN inbox
    /\ used \in [acts : Nat, faults : Nat, crashes : Nat]
    /\ sleepTo \in Nat
    /\ blind \in BOOLEAN
    /\ unsettled \subseteq DOMAIN inbox
    /\ cancelled \subseteq Ids
    /\ gone \subseteq Ids

\* A scheduler that sleeps never sleeps past a time that has been asked for: each
\* reminder and each snooze is later than the end of its sleep, or the wake for it
\* is stored or on its way (notify_one keeps a permit while the scheduler fires).
\* A query that failed and a request cut off before its wake are the exceptions.
NoLostWake ==
    (pc = "sleeping" /\ left > 0 /\ ~ permit /\ waking = 0 /\ ~ blind) =>
        \A time \in WakeTimes : sleepTo <= time

\* A firing deals with everything that was due at its time: the next notification
\* of the same reminder is for an occurrence after it, so no occurrence fires
\* twice and missed ones fire once together ("fire once on the first pass").  The
\* exception is a firing whose reminder was not moved on, by a crash or a failed
\* write, before the next.  It needs SkipReaches: an occurrence that next_occurrence
\* gives up on is still in the past.
MissedFireOnce ==
    \A i, j \in DOMAIN inbox :
        (i < j /\ inbox[i].reminder = inbox[j].reminder /\ i \notin unsettled) =>
            inbox[j].due > inbox[i].fired

\* A reminder that was cancelled before a pass read its list does not fire in that
\* pass: no write of the scheduler, which works with rows it read before the
\* cancellation, makes the reminder active again.
CancelHolds ==
    [][inbox' = inbox \/ Len(inbox') = Len(inbox) \/ inbox'[Len(inbox')].reminder \notin gone]_vars

\* Every occurrence that becomes due gets its notification, whatever failed or
\* crashed, unless its reminder is cancelled.
DueFires ==
    \A r \in Ids, d \in Times :
        (reminders[r].state = "active" /\ reminders[r].due = d /\ d <= now) ~>
            \/ \E n \in DOMAIN inbox : inbox[n].reminder = r /\ inbox[n].due = d
            \/ reminders[r].state = "cancelled"

\* A snoozed notification whose time has come does not stay so: it comes back to
\* the inbox, or somebody dealt with it meanwhile.
SnoozedReturns ==
    []<>(\A n \in DOMAIN inbox :
            inbox[n].state = "snoozed" => inbox[n].until # NoTime /\ inbox[n].until > now)
=============================================================================
