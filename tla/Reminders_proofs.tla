-------------------------- MODULE Reminders_proofs --------------------------
(***************************************************************************)
(* Proofs about Reminders, for every number of reminders and               *)
(* notifications, every period, and any number of faults and crashes.      *)
(***************************************************************************)
EXTENDS Reminders, SequenceTheorems, TLAPS

-----------------------------------------------------------------------------
(* The inductive invariant *)

Notifications ==
    [reminder : Ids, due : Nat, fired : Nat, state : NotificationStates,
     until : Times \cup {NoTime}]

\* The parts of the type invariant.
TablesType ==
    /\ now \in Times
    /\ reminders \in [Ids -> [state : {"absent", "active", "completed", "cancelled"},
                              due : Nat, recurring : BOOLEAN]]
    /\ inbox \in Seq(Notifications)

SchedulerType ==
    /\ pc \in {"query", "found", "sleeping", "fire", "settle", "refire"}
    /\ found \in Answers
    /\ left \in Nat
    /\ permit \in BOOLEAN
    /\ passNow \in Times
    /\ due \subseteq Due
    /\ current \in Due \cup {Nothing}

IndexType ==
    /\ snoozed \subseteq DOMAIN inbox
    /\ playing \subseteq DOMAIN inbox
    /\ unsettled \subseteq DOMAIN inbox

UsedType == used \in [acts : Nat, faults : Nat, crashes : Nat]

OtherType ==
    /\ waking \in Nat
    /\ sleepTo \in Nat
    /\ blind \in BOOLEAN
    /\ cancelled \subseteq Ids
    /\ gone \subseteq Ids

\* What the scheduler found, or the end of its sleep, is not later than anything
\* that has been asked for, unless it is about to learn of it.
Unaware == permit \/ waking > 0 \/ blind

WakeInv ==
    /\ (pc = "found" /\ ~ Unaware) =>
          /\ found.kind # "failed"
          /\ found.kind = "time" => \A time \in WakeTimes : found.time <= time
          /\ found.kind = "none" => WakeTimes = {}
    /\ NoLostWake

\* The clock does not run backwards.
ClockInv ==
    /\ passNow <= now
    /\ \A i \in DOMAIN inbox : inbox[i].fired <= now

\* A pass has a reminder in its list once, and no longer when it has fired it; the
\* notification it has inserted is the last one.
PassInv ==
    /\ \A d, e \in due : d.id = e.id => d = e
    /\ \A d \in due : reminders[d.id].state # "absent"
    /\ pc = "settle" =>
          /\ current \in Due
          /\ Len(inbox) > 0 /\ inbox[Len(inbox)].reminder = current.id
          /\ \A d \in due : d.id # current.id

\* A settled firing is before what its reminder is due for now, and before what a
\* pass is still to fire for it.
Settled(i) == i \notin unsettled /\ ~ (pc = "settle" /\ i = Len(inbox))

KnownInv == \A i \in DOMAIN inbox : reminders[inbox[i].reminder].state # "absent"

SettledInv == SkipReaches =>
    \A i \in DOMAIN inbox :
        Settled(i) /\ reminders[inbox[i].reminder].state = "active" =>
            reminders[inbox[i].reminder].due > inbox[i].fired

ListInv == SkipReaches =>
    \A i \in DOMAIN inbox, d \in due :
        i \notin unsettled /\ inbox[i].reminder = d.id => d.due > inbox[i].fired

MissedInv == SkipReaches => MissedFireOnce

\* A cancelled reminder is inactive, and no list read since has it.
CancelInv ==
    /\ \A r \in cancelled : reminders[r].state \in {"cancelled", "completed"}
    /\ \A d \in due : d.id \notin gone

IndInv ==
    /\ TablesType /\ SchedulerType /\ IndexType /\ UsedType /\ OtherType
    /\ WakeInv /\ ClockInv /\ PassInv /\ CancelInv
    /\ MissedInv /\ KnownInv /\ SettledInv /\ ListInv

-----------------------------------------------------------------------------
(* What the operations on the inbox do *)

\* Every notification is still about the firing it was about.
SameFirings ==
    /\ inbox' \in Seq(Notifications)
    /\ DOMAIN inbox' = DOMAIN inbox /\ Len(inbox') = Len(inbox)
    /\ \A i \in DOMAIN inbox :
          /\ inbox'[i].reminder = inbox[i].reminder
          /\ inbox'[i].due = inbox[i].due
          /\ inbox'[i].fired = inbox[i].fired

\* One more notification, which is the last.
OneMore(d) ==
    /\ inbox' \in Seq(Notifications)
    /\ Len(inbox') = Len(inbox) + 1
    /\ \A i \in DOMAIN inbox : i \in DOMAIN inbox' /\ inbox'[i] = inbox[i]
    /\ \A i \in DOMAIN inbox' : i \in DOMAIN inbox \/ i = Len(inbox')
    /\ inbox'[Len(inbox')] = Notification(d)

\* The inbox is a sequence.
LEMMA InboxIndex ==
    ASSUME TablesType
    PROVE  /\ Len(inbox) \in Nat /\ DOMAIN inbox = 1..Len(inbox)
           /\ \A i \in DOMAIN inbox : inbox[i] \in Notifications
BY DEF TablesType

\* set_notification_state changes one notification and no firing.
LEMMA SetNotificationKeeps ==
    ASSUME TablesType, NEW n \in DOMAIN inbox, NEW state \in NotificationStates,
           NEW until \in Times \cup {NoTime}, SetNotification(n, state, until)
    PROVE  /\ SameFirings
           /\ \A i \in DOMAIN inbox : i # n => inbox'[i] = inbox[i]
           /\ inbox'[n].state = state /\ inbox'[n].until = until
<1> DEFINE new == [inbox[n] EXCEPT !.state = state, !.until = until]
<1>1. inbox \in Seq(Notifications) /\ n \in 1..Len(inbox) /\ inbox[n] \in Notifications
  BY InboxIndex DEF TablesType
<1>2. inbox' = [inbox EXCEPT ![n] = new]
  BY <1>1 DEF SetNotification
<1>3. new \in Notifications /\ new.reminder = inbox[n].reminder /\ new.due = inbox[n].due
      /\ new.fired = inbox[n].fired /\ new.state = state /\ new.until = until
  BY <1>1 DEF Notifications
<1> HIDE DEF new
<1>4. inbox' \in Seq(Notifications) /\ Len(inbox') = Len(inbox)
      /\ \A i \in 1..Len(inbox) : inbox'[i] = IF i = n THEN new ELSE inbox[i]
  BY <1>1, <1>2, <1>3, ExceptSeq
<1>5. DOMAIN inbox' = DOMAIN inbox /\ DOMAIN inbox = 1..Len(inbox)
  BY <1>1, <1>2
<1> QED BY <1>1, <1>3, <1>4, <1>5 DEF SameFirings

\* insert_notification adds the newest.
LEMMA InsertAdds ==
    ASSUME TablesType, SchedulerType, NEW d \in Due, inbox' = Append(inbox, Notification(d))
    PROVE  OneMore(d)
<1>1. inbox \in Seq(Notifications) /\ Notification(d) \in Notifications
  BY ConstantsAssumption
  DEF TablesType, SchedulerType, Notifications, Notification, NotificationStates, Due, Times
<1> HIDE DEF Notification
<1>2. inbox' \in Seq(Notifications) /\ Len(inbox') = Len(inbox) + 1
      /\ \A i \in 1..Len(inbox) : inbox'[i] = inbox[i]
      /\ inbox'[Len(inbox) + 1] = Notification(d)
  BY <1>1, AppendProperties
<1>3. DOMAIN inbox = 1..Len(inbox) /\ DOMAIN inbox' = 1..Len(inbox') /\ Len(inbox) \in Nat
  BY <1>1, <1>2
<1> QED BY <1>2, <1>3 DEF OneMore

\* Finding nothing is an answer.
LEMMA NoAnswerType == NoAnswer \in Answers
BY DEF Answers

\* The bounds count.
LEMMA ActCounts == ASSUME UsedType, Act PROVE UsedType'
BY DEF Act, UsedType

\* A fault is counted.
LEMMA FaultCounts == ASSUME UsedType, NEW fault \in BOOLEAN, Faulty(fault) PROVE UsedType'
<1>1. used' = used \/ used' = [used EXCEPT !.faults = used.faults + 1]
  BY DEF Faulty
<1> QED BY <1>1 DEF UsedType

\* A crash is counted.
LEMMA CrashCounts == ASSUME UsedType, Crash PROVE UsedType'
<1>1. used' = [used EXCEPT !.crashes = used.crashes + 1]
  BY DEF Crash
<1> QED BY <1>1 DEF UsedType

\* The occurrence a firing moves its reminder to is in the future, when the limit of
\* the loop reaches beyond the clock.
LEMMA NextIsLater ==
    ASSUME TablesType, SkipReaches, NEW from \in Nat, NEW next \in Nat,
           IsNextOccurrence(from, next)
    PROVE  next > now
<1>1. PICK k \in 1..(SkipLimit + 1) :
          next = from + k * Period /\ (next > now \/ k = SkipLimit + 1)
  BY DEF IsNextOccurrence
<1>2. SkipLimit \in Nat /\ Period \in Nat /\ Period > 0 /\ SkipLimit * Period >= MaxTime
      /\ MaxTime \in Nat
  BY ConstantsAssumption DEF SkipReaches
<1>3. (SkipLimit + 1) * Period = SkipLimit * Period + Period
  BY <1>2
<1>4. now <= MaxTime /\ now \in Nat
  BY <1>2 DEF TablesType, Times
<1>5. CASE k = SkipLimit + 1
  <2>1. next = from + (SkipLimit * Period + Period) /\ SkipLimit * Period \in Nat
    BY <1>1, <1>2, <1>3, <1>5
  <2> QED BY <2>1, <1>2, <1>4
<1> QED BY <1>1, <1>5

-----------------------------------------------------------------------------
(* One lemma per action *)

\* A new reminder has no notifications, and its wake is on its way.
LEMMA CreateInd ==
    ASSUME IndInv, NEW r \in Ids, NEW anchor \in Times, NEW recurring \in BOOLEAN,
           NEW first \in Occurrences, Create(r, anchor, recurring, first)
    PROVE  IndInv'
<1> USE ConstantsAssumption, InboxIndex
<1>a. first \in Nat
  BY DEF Occurrences
<1>1. TablesType'
  BY <1>a DEF IndInv, TablesType, Create, scheduler, history
<1>2. SchedulerType'
  BY <1>a DEF IndInv, SchedulerType, Create, scheduler, history
<1>3. IndexType'
  BY <1>a DEF IndInv, IndexType, Create, scheduler, history
<1>4. UsedType'
  BY <1>a DEF IndInv, UsedType, Create, scheduler, history
<1>5. OtherType'
  BY <1>a DEF IndInv, OtherType, Create, scheduler, history
<1>6. WakeInv'
  BY <1>a DEF IndInv, OtherType, WakeInv, Unaware, NoLostWake, Create, scheduler, history
<1>7. ClockInv'
  BY <1>a DEF IndInv, ClockInv, Create, scheduler, history
<1>8. PassInv'
  BY <1>a DEF IndInv, PassInv, Create, scheduler, history
<1>9. CancelInv'
  BY <1>a DEF IndInv, CancelInv, Create, scheduler, history
<1>10. MissedInv'
  BY <1>a DEF IndInv, MissedInv, MissedFireOnce, Create, scheduler, history
<1>11. KnownInv'
  BY <1>a DEF IndInv, KnownInv, Create, scheduler, history
<1>12. SettledInv'
  BY <1>a DEF IndInv, KnownInv, SettledInv, Settled, Times, Create, scheduler, history
<1>13. ListInv'
  BY <1>a DEF IndInv, ListInv, Create, scheduler, history
<1> QED BY <1>1, <1>2, <1>3, <1>4, <1>5, <1>6, <1>7, <1>8, <1>9, <1>10, <1>11, <1>12, <1>13
        DEF IndInv

\* A cancellation takes a time away.
LEMMA CancelInd ==
    ASSUME IndInv, NEW r \in Ids, Cancel(r)
    PROVE  IndInv'
<1> USE ConstantsAssumption, InboxIndex
<1>a. WakeTimes' \subseteq WakeTimes
  BY DEF WakeTimes, Cancel
<1>1. TablesType'
  BY <1>a DEF IndInv, TablesType, Cancel, scheduler
<1>2. SchedulerType'
  BY <1>a DEF IndInv, SchedulerType, Cancel, scheduler
<1>3. IndexType'
  BY <1>a DEF IndInv, IndexType, Cancel, scheduler
<1>4. UsedType'
  BY <1>a DEF IndInv, UsedType, Cancel, scheduler
<1>5. OtherType'
  BY <1>a DEF IndInv, OtherType, Cancel, scheduler
<1>6. WakeInv'
  BY <1>a DEF IndInv, OtherType, WakeInv, Unaware, NoLostWake, Cancel, scheduler
<1>7. ClockInv'
  BY <1>a DEF IndInv, ClockInv, Cancel, scheduler
<1>8. PassInv'
  BY <1>a DEF IndInv, PassInv, Cancel, scheduler
<1>9. CancelInv'
  BY <1>a DEF IndInv, TablesType, CancelInv, Cancel, scheduler
<1>10. MissedInv'
  BY <1>a DEF IndInv, MissedInv, MissedFireOnce, Cancel, scheduler
<1>11. KnownInv'
  BY <1>a DEF IndInv, KnownInv, Cancel, scheduler
<1>12. SettledInv'
  BY <1>a DEF IndInv, SettledInv, Settled, Cancel, scheduler
<1>13. ListInv'
  BY <1>a DEF IndInv, ListInv, Cancel, scheduler
<1> QED BY <1>1, <1>2, <1>3, <1>4, <1>5, <1>6, <1>7, <1>8, <1>9, <1>10, <1>11, <1>12, <1>13
        DEF IndInv

\* So does a notification that is seen or dismissed.
LEMMA MarkInd ==
    ASSUME IndInv, NEW n \in DOMAIN inbox, NEW state \in NotificationStates, Mark(n, state)
    PROVE  IndInv'
<1> USE ConstantsAssumption, InboxIndex
<1>a. SameFirings /\ (\A i \in DOMAIN inbox : i # n => inbox'[i] = inbox[i])
      /\ inbox'[n].state # "snoozed"
  BY SetNotificationKeeps DEF IndInv, Mark
<1>b. WakeTimes' \subseteq WakeTimes
  BY <1>a DEF SameFirings, WakeTimes, Mark
<1>1. TablesType'
  BY <1>a, <1>b DEF IndInv, TablesType, SameFirings, Mark, scheduler, requests, history
<1>2. SchedulerType'
  BY <1>a, <1>b DEF IndInv, SchedulerType, Mark, scheduler, requests, history
<1>3. IndexType'
  BY <1>a, <1>b DEF IndInv, IndexType, SameFirings, Mark, scheduler, requests, history
<1>4. UsedType'
  BY ActCounts DEF IndInv, Mark
<1>5. OtherType'
  BY <1>a, <1>b DEF IndInv, OtherType, Mark, scheduler, requests, history
<1>6. WakeInv'
  BY <1>a, <1>b DEF IndInv, WakeInv, Unaware, NoLostWake, Mark, scheduler, requests, history
<1>7. ClockInv'
  BY <1>a, <1>b DEF IndInv, ClockInv, SameFirings, Mark, scheduler, requests, history
<1>8. PassInv'
  BY <1>a, <1>b DEF IndInv, PassInv, SameFirings, Mark, scheduler, requests, history
<1>9. CancelInv'
  BY <1>a, <1>b DEF IndInv, CancelInv, Mark, scheduler, requests, history
<1>10. MissedInv'
  BY <1>a, <1>b
  DEF IndInv, MissedInv, MissedFireOnce, ListInv, SameFirings, Mark, scheduler, requests, history
<1>11. KnownInv'
  BY <1>a, <1>b DEF IndInv, KnownInv, SameFirings, Mark, scheduler, requests, history
<1>12. SettledInv'
  BY <1>a, <1>b DEF IndInv, SettledInv, Settled, SameFirings, Mark, scheduler, requests, history
<1>13. ListInv'
  BY <1>a, <1>b DEF IndInv, ListInv, SameFirings, Mark, scheduler, requests, history
<1> QED BY <1>1, <1>2, <1>3, <1>4, <1>5, <1>6, <1>7, <1>8, <1>9, <1>10, <1>11, <1>12, <1>13
        DEF IndInv

\* A snooze adds one, and its wake is on its way.
LEMMA SnoozeInd ==
    ASSUME IndInv, NEW n \in DOMAIN inbox, NEW until \in Times, Snooze(n, until)
    PROVE  IndInv'
<1> USE ConstantsAssumption, InboxIndex
<1>a. SameFirings
  BY SetNotificationKeeps DEF IndInv, Snooze, NotificationStates
<1>1. TablesType'
  BY <1>a DEF IndInv, TablesType, SameFirings, Snooze, scheduler, history
<1>2. SchedulerType'
  BY <1>a DEF IndInv, SchedulerType, Snooze, scheduler, history
<1>3. IndexType'
  BY <1>a DEF IndInv, IndexType, SameFirings, Snooze, scheduler, history
<1>4. UsedType'
  BY ActCounts DEF IndInv, Snooze
<1>5. OtherType'
  BY <1>a DEF IndInv, OtherType, Snooze, scheduler, history
<1>6. WakeInv'
  BY <1>a DEF IndInv, OtherType, WakeInv, Unaware, NoLostWake, Snooze, scheduler, history
<1>7. ClockInv'
  BY <1>a
  DEF IndInv, TablesType, SchedulerType, Times, ClockInv, Notifications, SameFirings,
      Snooze, scheduler, history
<1>8. PassInv'
  BY <1>a DEF IndInv, PassInv, SameFirings, Snooze, scheduler, history
<1>9. CancelInv'
  BY <1>a DEF IndInv, CancelInv, Snooze, scheduler, history
<1>10. MissedInv'
  BY <1>a DEF IndInv, MissedInv, MissedFireOnce, SameFirings, Snooze, scheduler, history
<1>11. KnownInv'
  BY <1>a DEF IndInv, KnownInv, SameFirings, Snooze, scheduler, history
<1>12. SettledInv'
  BY <1>a
  DEF IndInv, TablesType, SchedulerType, ClockInv, PassInv, KnownInv, SettledInv, Settled,
      Due, SameFirings, Times, Snooze, scheduler, history
<1>13. ListInv'
  BY <1>a DEF IndInv, ListInv, SameFirings, Snooze, scheduler, history
<1> QED BY <1>1, <1>2, <1>3, <1>4, <1>5, <1>6, <1>7, <1>8, <1>9, <1>10, <1>11, <1>12, <1>13
        DEF IndInv

\* A play under way changes no table.
LEMMA PlayBeginInd ==
    ASSUME IndInv, NEW n \in DOMAIN inbox, PlayBegin(n)
    PROVE  IndInv'
<1> USE ConstantsAssumption, InboxIndex
<1>a. WakeTimes' = WakeTimes
  BY DEF WakeTimes, PlayBegin, tables
<1>1. TablesType'
  BY <1>a DEF IndInv, TablesType, PlayBegin, tables, scheduler, history
<1>2. SchedulerType'
  BY <1>a DEF IndInv, SchedulerType, PlayBegin, tables, scheduler, history
<1>3. IndexType'
  BY <1>a DEF IndInv, IndexType, PlayBegin, tables, scheduler, history
<1>4. UsedType'
  BY ActCounts DEF IndInv, PlayBegin
<1>5. OtherType'
  BY <1>a DEF IndInv, OtherType, PlayBegin, tables, scheduler, history
<1>6. WakeInv'
  BY <1>a DEF IndInv, WakeInv, Unaware, NoLostWake, PlayBegin, tables, scheduler, history
<1>7. ClockInv'
  BY <1>a DEF IndInv, ClockInv, PlayBegin, tables, scheduler, history
<1>8. PassInv'
  BY <1>a DEF IndInv, PassInv, PlayBegin, tables, scheduler, history
<1>9. CancelInv'
  BY <1>a DEF IndInv, CancelInv, PlayBegin, tables, scheduler, history
<1>10. MissedInv'
  BY <1>a DEF IndInv, MissedInv, MissedFireOnce, PlayBegin, tables, scheduler, history
<1>11. KnownInv'
  BY <1>a DEF IndInv, KnownInv, PlayBegin, tables, scheduler, history
<1>12. SettledInv'
  BY <1>a DEF IndInv, SettledInv, Settled, PlayBegin, tables, scheduler, history
<1>13. ListInv'
  BY <1>a DEF IndInv, ListInv, PlayBegin, tables, scheduler, history
<1> QED BY <1>1, <1>2, <1>3, <1>4, <1>5, <1>6, <1>7, <1>8, <1>9, <1>10, <1>11, <1>12, <1>13
        DEF IndInv

\* A notification that was played is not snoozed.
LEMMA PlayEndInd ==
    ASSUME IndInv, NEW n \in DOMAIN inbox, NEW ok \in BOOLEAN, PlayEnd(n, ok)
    PROVE  IndInv'
<1> USE ConstantsAssumption, InboxIndex
<1>a. SameFirings /\ (\A i \in DOMAIN inbox : inbox'[i] = inbox[i] \/ inbox'[i].state # "snoozed")
  BY SetNotificationKeeps
  DEF IndInv, TablesType, IndexType, SameFirings, PlayEnd, NotificationStates
<1>b. WakeTimes' \subseteq WakeTimes
  BY <1>a DEF SameFirings, WakeTimes, PlayEnd
<1>1. TablesType'
  BY <1>a, <1>b DEF IndInv, TablesType, SameFirings, PlayEnd, scheduler, history
<1>2. SchedulerType'
  BY <1>a, <1>b DEF IndInv, SchedulerType, PlayEnd, scheduler, history
<1>3. IndexType'
  BY <1>a, <1>b DEF IndInv, IndexType, SameFirings, PlayEnd, scheduler, history
<1>4. UsedType'
  BY <1>a, <1>b DEF IndInv, UsedType, PlayEnd, scheduler, history
<1>5. OtherType'
  BY <1>a, <1>b DEF IndInv, OtherType, PlayEnd, scheduler, history
<1>6. WakeInv'
  BY <1>a, <1>b DEF IndInv, WakeInv, Unaware, NoLostWake, PlayEnd, scheduler, history
<1>7. ClockInv'
  BY <1>a, <1>b DEF IndInv, ClockInv, SameFirings, PlayEnd, scheduler, history
<1>8. PassInv'
  BY <1>a, <1>b DEF IndInv, PassInv, SameFirings, PlayEnd, scheduler, history
<1>9. CancelInv'
  BY <1>a, <1>b DEF IndInv, CancelInv, PlayEnd, scheduler, history
<1>10. MissedInv'
  BY <1>a, <1>b DEF IndInv, MissedInv, MissedFireOnce, SameFirings, PlayEnd, scheduler, history
<1>11. KnownInv'
  BY <1>a, <1>b DEF IndInv, KnownInv, SameFirings, PlayEnd, scheduler, history
<1>12. SettledInv'
  BY <1>a, <1>b DEF IndInv, SettledInv, Settled, SameFirings, PlayEnd, scheduler, history
<1>13. ListInv'
  BY <1>a, <1>b DEF IndInv, ListInv, SameFirings, PlayEnd, scheduler, history
<1> QED BY <1>1, <1>2, <1>3, <1>4, <1>5, <1>6, <1>7, <1>8, <1>9, <1>10, <1>11, <1>12, <1>13
        DEF IndInv

\* The wake becomes a stored permit.
LEMMA WakeSchedulerInd ==
    ASSUME IndInv, WakeScheduler
    PROVE  IndInv'
<1> USE ConstantsAssumption, InboxIndex
<1>a. WakeTimes' = WakeTimes
  BY DEF WakeTimes, WakeScheduler, tables
<1>1. TablesType'
  BY <1>a DEF IndInv, TablesType, WakeScheduler, Notify, tables, scheduler, history
<1>2. SchedulerType'
  BY <1>a DEF IndInv, SchedulerType, WakeScheduler, Notify, tables, scheduler, history
<1>3. IndexType'
  BY <1>a DEF IndInv, IndexType, WakeScheduler, Notify, tables, scheduler, history
<1>4. UsedType'
  BY <1>a DEF IndInv, UsedType, WakeScheduler, Notify, tables, scheduler, history
<1>5. OtherType'
  BY <1>a DEF IndInv, OtherType, WakeScheduler, Notify, tables, scheduler, history
<1>6. WakeInv'
  BY <1>a DEF WakeInv, Unaware, NoLostWake, WakeScheduler, Notify, tables, scheduler, history
<1>7. ClockInv'
  BY <1>a DEF IndInv, ClockInv, WakeScheduler, Notify, tables, scheduler, history
<1>8. PassInv'
  BY <1>a DEF IndInv, PassInv, WakeScheduler, Notify, tables, scheduler, history
<1>9. CancelInv'
  BY <1>a DEF IndInv, CancelInv, WakeScheduler, Notify, tables, scheduler, history
<1>10. MissedInv'
  BY <1>a DEF IndInv, MissedInv, MissedFireOnce, WakeScheduler, Notify, tables, scheduler, history
<1>11. KnownInv'
  BY <1>a DEF IndInv, KnownInv, WakeScheduler, Notify, tables, scheduler, history
<1>12. SettledInv'
  BY <1>a DEF IndInv, SettledInv, Settled, WakeScheduler, Notify, tables, scheduler, history
<1>13. ListInv'
  BY <1>a DEF IndInv, ListInv, WakeScheduler, Notify, tables, scheduler, history
<1> QED BY <1>1, <1>2, <1>3, <1>4, <1>5, <1>6, <1>7, <1>8, <1>9, <1>10, <1>11, <1>12, <1>13
        DEF IndInv

\* A wake that is cut off is remembered.
LEMMA RequestCutOffInd ==
    ASSUME IndInv, RequestCutOff
    PROVE  IndInv'
<1> USE ConstantsAssumption, InboxIndex
<1>a. WakeTimes' = WakeTimes
  BY DEF WakeTimes, RequestCutOff, tables
<1>1. TablesType'
  BY <1>a DEF IndInv, TablesType, RequestCutOff, tables, scheduler
<1>2. SchedulerType'
  BY <1>a DEF IndInv, SchedulerType, RequestCutOff, tables, scheduler
<1>3. IndexType'
  BY <1>a DEF IndInv, IndexType, RequestCutOff, tables, scheduler
<1>4. UsedType'
  BY FaultCounts DEF IndInv, RequestCutOff
<1>5. OtherType'
  BY <1>a DEF IndInv, OtherType, RequestCutOff, tables, scheduler
<1>6. WakeInv'
  BY <1>a DEF WakeInv, Unaware, NoLostWake, RequestCutOff, tables, scheduler
<1>7. ClockInv'
  BY <1>a DEF IndInv, ClockInv, RequestCutOff, tables, scheduler
<1>8. PassInv'
  BY <1>a DEF IndInv, PassInv, RequestCutOff, tables, scheduler
<1>9. CancelInv'
  BY <1>a DEF IndInv, CancelInv, RequestCutOff, tables, scheduler
<1>10. MissedInv'
  BY <1>a DEF IndInv, MissedInv, MissedFireOnce, RequestCutOff, tables, scheduler
<1>11. KnownInv'
  BY <1>a DEF IndInv, KnownInv, RequestCutOff, tables, scheduler
<1>12. SettledInv'
  BY <1>a DEF IndInv, SettledInv, Settled, RequestCutOff, tables, scheduler
<1>13. ListInv'
  BY <1>a DEF IndInv, ListInv, RequestCutOff, tables, scheduler
<1> QED BY <1>1, <1>2, <1>3, <1>4, <1>5, <1>6, <1>7, <1>8, <1>9, <1>10, <1>11, <1>12, <1>13
        DEF IndInv

\* A query finds the least of the times.
LEMMA QueryInd ==
    ASSUME IndInv, NEW answer \in Answers, Query(answer)
    PROVE  IndInv'
<1> USE ConstantsAssumption, InboxIndex
<1>a. WakeTimes' = WakeTimes
  BY DEF WakeTimes, Query, tables
<1>1. TablesType'
  BY <1>a DEF IndInv, TablesType, Query, tables, requests
<1>2. SchedulerType'
  BY <1>a DEF IndInv, SchedulerType, Query, tables, requests
<1>3. IndexType'
  BY <1>a DEF IndInv, IndexType, Query, tables, requests
<1>4. UsedType'
  BY FaultCounts DEF IndInv, Query
<1>5. OtherType'
  BY <1>a DEF IndInv, OtherType, Query, tables, requests
<1>6. WakeInv'
  BY <1>a
  DEF IndInv, TablesType, SchedulerType, OtherType, Times, WakeInv, Unaware, NoLostWake,
      Query, tables, requests
<1>7. ClockInv'
  BY <1>a DEF IndInv, ClockInv, Query, tables, requests
<1>8. PassInv'
  BY <1>a DEF IndInv, PassInv, Query, tables, requests
<1>9. CancelInv'
  BY <1>a DEF IndInv, CancelInv, Query, tables, requests
<1>10. MissedInv'
  BY <1>a DEF IndInv, MissedInv, MissedFireOnce, Query, tables, requests
<1>11. KnownInv'
  BY <1>a DEF IndInv, KnownInv, Query, tables, requests
<1>12. SettledInv'
  BY <1>a DEF IndInv, SettledInv, Settled, Query, tables, requests
<1>13. ListInv'
  BY <1>a DEF IndInv, ListInv, Query, tables, requests
<1> QED BY <1>1, <1>2, <1>3, <1>4, <1>5, <1>6, <1>7, <1>8, <1>9, <1>10, <1>11, <1>12, <1>13
        DEF IndInv

\* A sleep ends at the time that was found.
LEMMA SleepInd ==
    ASSUME IndInv, Sleep
    PROVE  IndInv'
<1> USE ConstantsAssumption, InboxIndex
<1>a. left' \in Nat /\ (found.kind = "time" => left' = 0 \/ now + left' = found.time)
  BY DEF IndInv, TablesType, SchedulerType, Answers, NoAnswer, Times, Sleep, SleepFor
<1>b. WakeTimes' = WakeTimes
  BY DEF WakeTimes, Sleep, tables
<1>1. TablesType'
  BY <1>a, <1>b DEF IndInv, TablesType, Sleep, SleepFor, tables, requests
<1>2. SchedulerType'
  BY <1>a, <1>b DEF IndInv, SchedulerType, NoAnswer, Answers, Sleep, SleepFor, tables, requests
<1>3. IndexType'
  BY <1>a, <1>b DEF IndInv, IndexType, Sleep, SleepFor, tables, requests
<1>4. UsedType'
  BY <1>a, <1>b DEF IndInv, UsedType, Sleep, SleepFor, tables, requests
<1>5. OtherType'
  BY <1>a DEF IndInv, TablesType, OtherType, Times, Sleep, requests
<1>6. WakeInv'
  <2> SUFFICES ASSUME left' > 0, ~ Unaware, NEW time \in WakeTimes PROVE sleepTo' <= time
    BY <1>b DEF WakeInv, NoLostWake, Unaware, Sleep, requests
  <2>1. found.kind = "time" /\ found.time <= time
    BY DEF IndInv, SchedulerType, Answers, NoAnswer, WakeInv, Sleep
  <2> QED BY <1>a, <2>1 DEF Sleep
<1>7. ClockInv'
  BY <1>a, <1>b DEF IndInv, ClockInv, Sleep, SleepFor, tables, requests
<1>8. PassInv'
  BY <1>a, <1>b DEF IndInv, PassInv, Sleep, SleepFor, tables, requests
<1>9. CancelInv'
  BY <1>a, <1>b DEF IndInv, CancelInv, Sleep, SleepFor, tables, requests
<1>10. MissedInv'
  BY <1>a, <1>b DEF IndInv, IndexType, MissedInv, MissedFireOnce, Sleep, SleepFor, tables, requests
<1>11. KnownInv'
  BY <1>a, <1>b DEF IndInv, KnownInv, Sleep, SleepFor, tables, requests
<1>12. SettledInv'
  BY <1>a, <1>b DEF IndInv, SettledInv, Settled, Sleep, SleepFor, tables, requests
<1>13. ListInv'
  BY <1>a, <1>b DEF IndInv, ListInv, Sleep, SleepFor, tables, requests
<1> QED BY <1>1, <1>2, <1>3, <1>4, <1>5, <1>6, <1>7, <1>8, <1>9, <1>10, <1>11, <1>12, <1>13
        DEF IndInv

\* A wake leads to a new query.
LEMMA WokenInd ==
    ASSUME IndInv, Woken
    PROVE  IndInv'
<1> USE ConstantsAssumption, InboxIndex
<1>a. WakeTimes' = WakeTimes
  BY DEF WakeTimes, Woken, tables
<1>1. TablesType'
  BY <1>a DEF IndInv, TablesType, Woken, tables, requests
<1>2. SchedulerType'
  BY <1>a
  DEF IndInv, TablesType, SchedulerType, Times, Due, Nothing, NoAnswer, Answers, Woken,
      tables, requests
<1>3. IndexType'
  BY <1>a DEF IndInv, IndexType, Woken, tables, requests
<1>4. UsedType'
  BY <1>a DEF IndInv, UsedType, Woken, tables, requests
<1>5. OtherType'
  BY <1>a DEF IndInv, OtherType, Woken, tables, requests
<1>6. WakeInv'
  BY <1>a DEF WakeInv, NoLostWake, Woken, tables, requests
<1>7. ClockInv'
  BY <1>a DEF IndInv, ClockInv, Woken, tables, requests
<1>8. PassInv'
  BY <1>a DEF IndInv, PassInv, Woken, tables, requests
<1>9. CancelInv'
  BY <1>a DEF IndInv, CancelInv, Woken, tables, requests
<1>10. MissedInv'
  BY <1>a DEF IndInv, MissedInv, MissedFireOnce, Woken, tables, requests
<1>11. KnownInv'
  BY <1>a DEF IndInv, KnownInv, Woken, tables, requests
<1>12. SettledInv'
  BY <1>a DEF IndInv, SettledInv, Settled, Woken, tables, requests
<1>13. ListInv'
  BY <1>a DEF IndInv, ListInv, Woken, tables, requests
<1> QED BY <1>1, <1>2, <1>3, <1>4, <1>5, <1>6, <1>7, <1>8, <1>9, <1>10, <1>11, <1>12, <1>13
        DEF IndInv

\* A pass reads active reminders, which no settled firing has dealt with.
LEMMA FireDueInd ==
    ASSUME IndInv, NEW ok \in BOOLEAN, FireDue(ok)
    PROVE  IndInv'
<1> USE ConstantsAssumption, InboxIndex
<1>a. WakeTimes' = WakeTimes
  BY DEF WakeTimes, FireDue, tables
<1>1. TablesType'
  BY <1>a DEF IndInv, TablesType, FireDue, tables, requests
<1>2. SchedulerType'
  BY <1>a
  DEF IndInv, TablesType, SchedulerType, Due, Nothing, NoAnswer, Answers, DueReminders,
      FireDue, tables, requests
<1>3. IndexType'
  BY <1>a DEF IndInv, IndexType, FireDue, tables, requests
<1>4. UsedType'
  BY FaultCounts DEF IndInv, FireDue
<1>5. OtherType'
  BY <1>a DEF IndInv, OtherType, FireDue, tables, requests
<1>6. WakeInv'
  BY <1>a DEF WakeInv, NoLostWake, FireDue, tables, requests
<1>7. ClockInv'
  BY <1>a DEF IndInv, TablesType, Times, ClockInv, Notifications, FireDue, tables, requests
<1>8. PassInv'
  BY <1>a DEF PassInv, DueReminders, FireDue, tables, requests
<1>9. CancelInv'
  BY <1>a DEF IndInv, CancelInv, DueReminders, FireDue, tables, requests
<1>10. MissedInv'
  BY <1>a DEF IndInv, MissedInv, MissedFireOnce, FireDue, tables, requests
<1>11. KnownInv'
  BY <1>a DEF IndInv, KnownInv, FireDue, tables, requests
<1>12. SettledInv'
  BY <1>a DEF IndInv, SettledInv, Settled, FireDue, tables, requests
<1>13. ListInv'
  BY <1>a DEF IndInv, SettledInv, Settled, ListInv, DueReminders, FireDue, tables, requests
<1> QED BY <1>1, <1>2, <1>3, <1>4, <1>5, <1>6, <1>7, <1>8, <1>9, <1>10, <1>11, <1>12, <1>13
        DEF IndInv

\* A firing adds a notification that is not settled yet.
LEMMA FireReminderInd ==
    ASSUME IndInv, NEW d \in due, NEW ok \in BOOLEAN, FireReminder(d, ok)
    PROVE  IndInv'
<1> USE ConstantsAssumption, InboxIndex
<1>a. d \in Due
  BY DEF IndInv, SchedulerType
<1>b. ok => OneMore(d)
  BY <1>a, InsertAdds DEF IndInv, FireReminder
<1>1. TablesType'
  BY <1>a, <1>b DEF IndInv, TablesType, OneMore, FireReminder, requests, history
<1>2. SchedulerType'
  BY <1>a, <1>b DEF IndInv, SchedulerType, FireReminder, requests, history
<1>3. IndexType'
  BY <1>a, <1>b DEF IndInv, IndexType, FireReminder, requests, history
<1>4. UsedType'
  BY FaultCounts DEF IndInv, FireReminder
<1>5. OtherType'
  BY <1>a, <1>b DEF IndInv, OtherType, FireReminder, requests, history
<1>6. WakeInv'
  BY <1>a, <1>b DEF WakeInv, NoLostWake, FireReminder, requests, history
<1>7. ClockInv'
  <2>1. CASE ok
    <3>1. \A i \in DOMAIN inbox' : inbox'[i].fired <= now
      BY <1>b, <2>1 DEF IndInv, ClockInv, OneMore, Notification
    <3> QED BY <3>1, <2>1 DEF IndInv, ClockInv, FireReminder
  <2>2. CASE ~ ok
    BY <2>2 DEF IndInv, ClockInv, FireReminder
  <2> QED BY <2>1, <2>2
<1>8. PassInv'
  BY <1>a, <1>b DEF IndInv, PassInv, Notification, FireReminder, requests, history
<1>9. CancelInv'
  BY <1>a, <1>b DEF IndInv, CancelInv, FireReminder, requests, history
<1>10. MissedInv'
  BY <1>a, <1>b
  DEF IndInv, MissedInv, MissedFireOnce, ListInv, OneMore, Notification, FireReminder, requests,
      history
<1>11. KnownInv'
  <2>1. CASE ok
    <3>1. \A i \in DOMAIN inbox' : reminders[inbox'[i].reminder].state # "absent"
      BY <1>b, <2>1 DEF IndInv, PassInv, KnownInv, OneMore, Notification
    <3> QED BY <3>1 DEF KnownInv, FireReminder
  <2>2. CASE ~ ok
    BY <2>2 DEF IndInv, KnownInv, FireReminder
  <2> QED BY <2>1, <2>2
<1>12. SettledInv'
  BY <1>a, <1>b
  DEF IndInv, SettledInv, Settled, Due, OneMore, Notification, FireReminder, requests,
      history
<1>13. ListInv'
  BY <1>a, <1>b
  DEF IndInv, PassInv, ListInv, OneMore, Notification, FireReminder, requests, history
<1> QED BY <1>1, <1>2, <1>3, <1>4, <1>5, <1>6, <1>7, <1>8, <1>9, <1>10, <1>11, <1>12, <1>13
        DEF IndInv

\* A recurring reminder is moved past the clock, if the loop gets there, and its firing is settled.
LEMMA SettleRecurringInd ==
    ASSUME IndInv, NEW next \in Occurrences, SettleRecurring(next)
    PROVE  IndInv'
<1> USE ConstantsAssumption, InboxIndex
<1>a. next \in Nat
  BY DEF Occurrences
<1>b. current \in Due
  BY DEF IndInv, PassInv, SettleRecurring
<1>c. SkipReaches => next > now
  BY <1>a, <1>b, NextIsLater DEF IndInv, Due, SettleRecurring
<1>1. TablesType'
  BY <1>a, <1>b, <1>c
  DEF IndInv, TablesType, SchedulerType, Times, Due, SettleRecurring, Advance, requests,
      history
<1>2. SchedulerType'
  BY <1>a, <1>b, <1>c DEF IndInv, SchedulerType, SettleRecurring, Advance, requests, history
<1>3. IndexType'
  BY <1>a, <1>b, <1>c DEF IndInv, IndexType, SettleRecurring, requests, history
<1>4. UsedType'
  BY <1>a, <1>b, <1>c DEF IndInv, UsedType, SettleRecurring, Advance, requests, history
<1>5. OtherType'
  BY <1>a, <1>b, <1>c DEF IndInv, OtherType, SettleRecurring, Advance, requests, history
<1>6. WakeInv'
  BY <1>a, <1>b, <1>c DEF WakeInv, NoLostWake, SettleRecurring, Advance, requests, history
<1>7. ClockInv'
  BY <1>a, <1>b, <1>c DEF IndInv, ClockInv, SettleRecurring, Advance, requests, history
<1>8. PassInv'
  BY <1>a, <1>b, <1>c DEF IndInv, PassInv, SettleRecurring, Advance, requests, history
<1>9. CancelInv'
  BY <1>a, <1>b, <1>c DEF IndInv, CancelInv, SettleRecurring, Advance, requests, history
<1>10. MissedInv'
  BY <1>a, <1>b, <1>c DEF IndInv, MissedInv, MissedFireOnce, SettleRecurring, Advance, requests, history
<1>11. KnownInv'
  BY <1>a, <1>b, <1>c DEF IndInv, KnownInv, SettleRecurring, Advance, requests, history
<1>12. SettledInv'
  <2> SUFFICES ASSUME SkipReaches, NEW i \in DOMAIN inbox, i \notin unsettled,
                      reminders'[inbox[i].reminder].state = "active"
               PROVE  reminders'[inbox[i].reminder].due > inbox[i].fired
    BY DEF SettledInv, Settled, SettleRecurring, history
  <2>1. inbox[i].fired <= now /\ inbox[i].fired \in Nat /\ now \in Nat /\ inbox[i].reminder \in Ids
    BY DEF IndInv, TablesType, ClockInv, Notifications, Times
  <2>2. CASE inbox[i].reminder = current.id
    <3>1. reminders'[inbox[i].reminder].due = next
      BY <2>1, <2>2 DEF IndInv, TablesType, SettleRecurring, Advance
    <3> QED BY <1>a, <1>c, <2>1, <3>1
  <2>3. CASE inbox[i].reminder # current.id
    <3>1. Settled(i)
      BY <2>3 DEF IndInv, PassInv, Settled
    <3>2. reminders'[inbox[i].reminder] = reminders[inbox[i].reminder]
      BY <1>b, <2>1, <2>3 DEF SettleRecurring, Advance
    <3> QED BY <3>1, <3>2 DEF IndInv, SettledInv
  <2> QED BY <2>2, <2>3
<1>13. ListInv'
  BY <1>a, <1>b, <1>c DEF IndInv, ListInv, SettleRecurring, Advance, requests, history
<1> QED BY <1>1, <1>2, <1>3, <1>4, <1>5, <1>6, <1>7, <1>8, <1>9, <1>10, <1>11, <1>12, <1>13
        DEF IndInv

\* Another one is completed.
LEMMA SettleOnceInd ==
    ASSUME IndInv, SettleOnce
    PROVE  IndInv'
<1> USE ConstantsAssumption, InboxIndex
<1>1. TablesType'
  <2>1. UNCHANGED <<now, inbox>> /\ reminders' = [reminders EXCEPT ![current.id].state = "completed"]
    BY DEF SettleOnce, Complete
  <2>2. TablesType
    BY DEF IndInv
  <2> QED BY <2>1, <2>2 DEF TablesType, Times
<1>2. SchedulerType'
  BY DEF IndInv, SchedulerType, SettleOnce, Complete, requests, history
<1>3. IndexType'
  BY DEF IndInv, IndexType, SettleOnce, requests, history
<1>4. UsedType'
  BY DEF IndInv, UsedType, SettleOnce, Complete, requests, history
<1>5. OtherType'
  BY DEF IndInv, OtherType, SettleOnce, Complete, requests, history
<1>6. WakeInv'
  BY DEF WakeInv, NoLostWake, SettleOnce, Complete, requests, history
<1>7. ClockInv'
  BY DEF IndInv, ClockInv, SettleOnce, Complete, requests, history
<1>8. PassInv'
  BY DEF IndInv, PassInv, SettleOnce, Complete, requests, history
<1>9. CancelInv'
  BY DEF IndInv, CancelInv, SettleOnce, Complete, requests, history
<1>10. MissedInv'
  BY DEF IndInv, MissedInv, MissedFireOnce, ListInv, SettleOnce, Complete, requests, history
<1>11. KnownInv'
  BY DEF IndInv, KnownInv, SettleOnce, Complete, requests, history
<1>12. SettledInv'
  <2> SUFFICES ASSUME SkipReaches, NEW i \in DOMAIN inbox, i \notin unsettled,
                      reminders'[inbox[i].reminder].state = "active"
               PROVE  reminders'[inbox[i].reminder].due > inbox[i].fired
    BY DEF SettledInv, Settled, SettleOnce, history
  <2>1. inbox[i].reminder \in Ids /\ current \in Due
    BY DEF IndInv, PassInv, Notifications, SettleOnce
  <2>2. inbox[i].reminder # current.id
    BY <2>1 DEF IndInv, TablesType, SettleOnce, Complete
  <2>3. Settled(i)
    BY <2>2 DEF IndInv, PassInv, Settled
  <2>4. reminders'[inbox[i].reminder] = reminders[inbox[i].reminder]
    BY <2>1, <2>2 DEF SettleOnce, Complete
  <2> QED BY <2>3, <2>4 DEF IndInv, SettledInv
<1>13. ListInv'
  BY DEF IndInv, ListInv, SettleOnce, Complete, requests, history
<1> QED BY <1>1, <1>2, <1>3, <1>4, <1>5, <1>6, <1>7, <1>8, <1>9, <1>10, <1>11, <1>12, <1>13
        DEF IndInv

\* A firing whose reminder was not moved on is remembered.
LEMMA SettleFailsInd ==
    ASSUME IndInv, SettleFails
    PROVE  IndInv'
<1> USE ConstantsAssumption, InboxIndex
<1>a. WakeTimes' = WakeTimes
  BY DEF WakeTimes, SettleFails, tables
<1>1. TablesType'
  BY <1>a DEF IndInv, TablesType, SettleFails, tables, requests
<1>2. SchedulerType'
  BY <1>a DEF IndInv, SchedulerType, SettleFails, tables, requests
<1>3. IndexType'
  BY <1>a DEF IndInv, IndexType, PassInv, SettleFails, tables, requests
<1>4. UsedType'
  BY FaultCounts DEF IndInv, SettleFails
<1>5. OtherType'
  BY <1>a DEF IndInv, OtherType, SettleFails, tables, requests
<1>6. WakeInv'
  BY <1>a DEF WakeInv, NoLostWake, SettleFails, tables, requests
<1>7. ClockInv'
  BY <1>a DEF IndInv, ClockInv, SettleFails, tables, requests
<1>8. PassInv'
  BY <1>a DEF IndInv, PassInv, SettleFails, tables, requests
<1>9. CancelInv'
  BY <1>a DEF IndInv, CancelInv, SettleFails, tables, requests
<1>10. MissedInv'
  BY <1>a DEF IndInv, MissedInv, MissedFireOnce, SettleFails, tables, requests
<1>11. KnownInv'
  BY <1>a DEF IndInv, KnownInv, SettleFails, tables, requests
<1>12. SettledInv'
  BY <1>a DEF IndInv, SettledInv, Settled, SettleFails, tables, requests
<1>13. ListInv'
  BY <1>a DEF IndInv, ListInv, SettleFails, tables, requests
<1> QED BY <1>1, <1>2, <1>3, <1>4, <1>5, <1>6, <1>7, <1>8, <1>9, <1>10, <1>11, <1>12, <1>13
        DEF IndInv

\* The list of snoozed notifications changes no table.
LEMMA FireSnoozedInd ==
    ASSUME IndInv, NEW ok \in BOOLEAN, FireSnoozed(ok)
    PROVE  IndInv'
<1> USE ConstantsAssumption, InboxIndex
<1>a. WakeTimes' = WakeTimes
  BY DEF WakeTimes, FireSnoozed, tables
<1>1. TablesType'
  BY <1>a DEF IndInv, TablesType, FireSnoozed, DueSnoozed, tables, requests, history
<1>2. SchedulerType'
  BY <1>a DEF IndInv, SchedulerType, FireSnoozed, DueSnoozed, tables, requests, history
<1>3. IndexType'
  BY <1>a DEF IndInv, IndexType, DueSnoozed, FireSnoozed, tables, requests, history
<1>4. UsedType'
  BY FaultCounts DEF IndInv, FireSnoozed
<1>5. OtherType'
  BY <1>a DEF IndInv, OtherType, FireSnoozed, DueSnoozed, tables, requests, history
<1>6. WakeInv'
  BY <1>a DEF WakeInv, NoLostWake, FireSnoozed, DueSnoozed, tables, requests, history
<1>7. ClockInv'
  BY <1>a DEF IndInv, ClockInv, FireSnoozed, DueSnoozed, tables, requests, history
<1>8. PassInv'
  BY <1>a DEF PassInv, FireSnoozed, DueSnoozed, tables, requests, history
<1>9. CancelInv'
  BY <1>a DEF IndInv, CancelInv, FireSnoozed, DueSnoozed, tables, requests, history
<1>10. MissedInv'
  BY <1>a DEF IndInv, MissedInv, MissedFireOnce, FireSnoozed, DueSnoozed, tables, requests, history
<1>11. KnownInv'
  BY <1>a DEF IndInv, KnownInv, FireSnoozed, DueSnoozed, tables, requests, history
<1>12. SettledInv'
  BY <1>a DEF IndInv, SettledInv, Settled, FireSnoozed, DueSnoozed, tables, requests, history
<1>13. ListInv'
  BY <1>a DEF ListInv, FireSnoozed, DueSnoozed, tables, requests, history
<1> QED BY <1>1, <1>2, <1>3, <1>4, <1>5, <1>6, <1>7, <1>8, <1>9, <1>10, <1>11, <1>12, <1>13
        DEF IndInv

\* A notification that comes back is about the same firing.
LEMMA RefireSnoozedInd ==
    ASSUME IndInv, NEW n \in snoozed, NEW ok \in BOOLEAN, RefireSnoozed(n, ok)
    PROVE  IndInv'
<1> USE ConstantsAssumption, InboxIndex
<1>a. n \in DOMAIN inbox
  BY DEF IndInv, IndexType
<1>b. SameFirings
  BY <1>a, SetNotificationKeeps
  DEF IndInv, TablesType, IndexType, SameFirings, Notifications, RefireSnoozed, Unsnooze,
      NotificationStates
<1>1. TablesType'
  BY <1>a, <1>b DEF IndInv, TablesType, SameFirings, RefireSnoozed, requests, history
<1>2. SchedulerType'
  BY <1>a, <1>b DEF IndInv, SchedulerType, RefireSnoozed, requests, history
<1>3. IndexType'
  BY <1>a, <1>b DEF IndInv, IndexType, SameFirings, RefireSnoozed, requests, history
<1>4. UsedType'
  BY FaultCounts DEF IndInv, RefireSnoozed
<1>5. OtherType'
  BY <1>a, <1>b DEF IndInv, OtherType, RefireSnoozed, requests, history
<1>6. WakeInv'
  BY <1>a, <1>b DEF WakeInv, NoLostWake, RefireSnoozed, requests, history
<1>7. ClockInv'
  BY <1>a, <1>b DEF IndInv, ClockInv, SameFirings, RefireSnoozed, requests, history
<1>8. PassInv'
  BY <1>a, <1>b DEF IndInv, PassInv, RefireSnoozed, requests, history
<1>9. CancelInv'
  BY <1>a, <1>b DEF IndInv, CancelInv, RefireSnoozed, requests, history
<1>10. MissedInv'
  BY <1>a, <1>b DEF IndInv, MissedInv, MissedFireOnce, SameFirings, RefireSnoozed, requests, history
<1>11. KnownInv'
  BY <1>a, <1>b DEF IndInv, KnownInv, SameFirings, RefireSnoozed, requests, history
<1>12. SettledInv'
  BY <1>a, <1>b DEF IndInv, SettledInv, Settled, SameFirings, RefireSnoozed, requests, history
<1>13. ListInv'
  BY <1>a, <1>b DEF IndInv, ListInv, SameFirings, RefireSnoozed, requests, history
<1> QED BY <1>1, <1>2, <1>3, <1>4, <1>5, <1>6, <1>7, <1>8, <1>9, <1>10, <1>11, <1>12, <1>13
        DEF IndInv

\* The end of a pass leads to a new query.
LEMMA EndPassInd ==
    ASSUME IndInv, EndPass
    PROVE  IndInv'
<1> USE ConstantsAssumption, InboxIndex
<1>a. WakeTimes' = WakeTimes
  BY DEF WakeTimes, EndPass, tables
<1>1. TablesType'
  BY <1>a DEF IndInv, TablesType, EndPass, tables, requests
<1>2. SchedulerType'
  BY <1>a DEF IndInv, SchedulerType, Times, NoAnswer, Answers, EndPass, tables, requests
<1>3. IndexType'
  BY <1>a DEF IndInv, IndexType, EndPass, tables, requests
<1>4. UsedType'
  BY <1>a DEF IndInv, UsedType, EndPass, tables, requests
<1>5. OtherType'
  BY <1>a DEF IndInv, OtherType, EndPass, tables, requests
<1>6. WakeInv'
  BY <1>a DEF WakeInv, NoLostWake, EndPass, tables, requests
<1>7. ClockInv'
  BY <1>a DEF IndInv, TablesType, Times, ClockInv, Notifications, EndPass, tables, requests
<1>8. PassInv'
  BY <1>a DEF IndInv, PassInv, EndPass, tables, requests
<1>9. CancelInv'
  BY <1>a DEF IndInv, CancelInv, EndPass, tables, requests
<1>10. MissedInv'
  BY <1>a DEF IndInv, MissedInv, MissedFireOnce, EndPass, tables, requests
<1>11. KnownInv'
  BY <1>a DEF IndInv, KnownInv, EndPass, tables, requests
<1>12. SettledInv'
  BY <1>a DEF IndInv, SettledInv, Settled, EndPass, tables, requests
<1>13. ListInv'
  BY <1>a DEF IndInv, ListInv, EndPass, tables, requests
<1> QED BY <1>1, <1>2, <1>3, <1>4, <1>5, <1>6, <1>7, <1>8, <1>9, <1>10, <1>11, <1>12, <1>13
        DEF IndInv

\* Time passes, for the clock and for the sleep.
LEMMA TickInd ==
    ASSUME IndInv, Tick
    PROVE  IndInv'
<1> USE ConstantsAssumption, InboxIndex
<1>a. WakeTimes' = WakeTimes
  BY DEF WakeTimes, Tick, tables
<1>1. TablesType'
  BY <1>a DEF IndInv, TablesType, Times, Tick, tables, requests, history
<1>2. SchedulerType'
  BY <1>a DEF IndInv, SchedulerType, Tick, tables, requests, history
<1>3. IndexType'
  BY <1>a DEF IndInv, IndexType, Tick, tables, requests, history
<1>4. UsedType'
  BY <1>a DEF IndInv, UsedType, Tick, tables, requests, history
<1>5. OtherType'
  BY <1>a DEF IndInv, OtherType, Tick, tables, requests, history
<1>6. WakeInv'
  BY <1>a DEF IndInv, WakeInv, Unaware, NoLostWake, Tick, tables, requests, history
<1>7. ClockInv'
  BY <1>a
  DEF IndInv, TablesType, SchedulerType, Times, ClockInv, Notifications, Tick, tables,
      requests, history
<1>8. PassInv'
  BY <1>a DEF IndInv, PassInv, Tick, tables, requests, history
<1>9. CancelInv'
  BY <1>a DEF IndInv, CancelInv, Tick, tables, requests, history
<1>10. MissedInv'
  BY <1>a DEF IndInv, MissedInv, MissedFireOnce, Tick, tables, requests, history
<1>11. KnownInv'
  BY <1>a DEF IndInv, KnownInv, Tick, tables, requests, history
<1>12. SettledInv'
  BY <1>a DEF IndInv, SettledInv, Settled, Tick, tables, requests, history
<1>13. ListInv'
  BY <1>a DEF IndInv, ListInv, Tick, tables, requests, history
<1> QED BY <1>1, <1>2, <1>3, <1>4, <1>5, <1>6, <1>7, <1>8, <1>9, <1>10, <1>11, <1>12, <1>13
        DEF IndInv

\* Time passes, for the clock only.
LEMMA SuspendInd ==
    ASSUME IndInv, Suspend
    PROVE  IndInv'
<1> USE ConstantsAssumption, InboxIndex
<1>a. WakeTimes' = WakeTimes
  BY DEF WakeTimes, Suspend, tables
<1>1. TablesType'
  BY <1>a DEF IndInv, TablesType, Times, Suspend, tables, scheduler, requests, history
<1>2. SchedulerType'
  BY <1>a DEF IndInv, SchedulerType, Suspend, tables, scheduler, requests, history
<1>3. IndexType'
  BY <1>a DEF IndInv, IndexType, Suspend, tables, scheduler, requests, history
<1>4. UsedType'
  BY <1>a DEF IndInv, UsedType, Suspend, tables, scheduler, requests, history
<1>5. OtherType'
  BY <1>a DEF IndInv, OtherType, Suspend, tables, scheduler, requests, history
<1>6. WakeInv'
  BY <1>a
  DEF IndInv, WakeInv, Unaware, NoLostWake, Suspend, tables, scheduler, requests, history
<1>7. ClockInv'
  BY <1>a
  DEF IndInv, TablesType, SchedulerType, Times, ClockInv, Notifications, Suspend, tables,
      scheduler, requests, history
<1>8. PassInv'
  BY <1>a DEF IndInv, PassInv, Suspend, tables, scheduler, requests, history
<1>9. CancelInv'
  BY <1>a DEF IndInv, CancelInv, Suspend, tables, scheduler, requests, history
<1>10. MissedInv'
  BY <1>a DEF IndInv, MissedInv, MissedFireOnce, Suspend, tables, scheduler, requests, history
<1>11. KnownInv'
  BY <1>a DEF IndInv, KnownInv, Suspend, tables, scheduler, requests, history
<1>12. SettledInv'
  BY <1>a DEF IndInv, SettledInv, Settled, Suspend, tables, scheduler, requests, history
<1>13. ListInv'
  BY <1>a DEF IndInv, ListInv, Suspend, tables, scheduler, requests, history
<1> QED BY <1>1, <1>2, <1>3, <1>4, <1>5, <1>6, <1>7, <1>8, <1>9, <1>10, <1>11, <1>12, <1>13
        DEF IndInv

\* A crash leaves the tables and a firing that may be unsettled.
LEMMA CrashInd ==
    ASSUME IndInv, Crash
    PROVE  IndInv'
<1> USE ConstantsAssumption, InboxIndex
<1>a. WakeTimes' = WakeTimes
  BY DEF WakeTimes, Crash, tables
<1>1. TablesType'
  BY <1>a DEF IndInv, TablesType, Crash, tables
<1>2. SchedulerType'
  <2>1. found' \in Answers /\ passNow' \in Times
    BY NoAnswerType DEF Times, Crash
  <2>2. pc' = "query" /\ left' \in Nat /\ permit' \in BOOLEAN /\ due' \subseteq Due
        /\ current' \in Due \cup {Nothing}
    BY DEF Crash
  <2> QED BY <2>1, <2>2 DEF SchedulerType
<1>3. IndexType'
  BY <1>a DEF IndInv, IndexType, PassInv, Crash, tables
<1>4. UsedType'
  BY CrashCounts DEF IndInv
<1>5. OtherType'
  BY <1>a DEF IndInv, TablesType, SchedulerType, OtherType, Times, Crash, tables
<1>6. WakeInv'
  BY <1>a DEF WakeInv, NoLostWake, Crash, tables
<1>7. ClockInv'
  BY <1>a DEF IndInv, TablesType, Times, ClockInv, Notifications, Crash, tables
<1>8. PassInv'
  BY <1>a DEF PassInv, Crash, tables
<1>9. CancelInv'
  BY <1>a DEF IndInv, CancelInv, Crash, tables
<1>10. MissedInv'
  BY <1>a DEF IndInv, MissedInv, MissedFireOnce, Crash, tables
<1>11. KnownInv'
  BY <1>a DEF IndInv, KnownInv, Crash, tables
<1>12. SettledInv'
  BY <1>a DEF IndInv, SettledInv, Settled, Crash, tables
<1>13. ListInv'
  BY <1>a DEF ListInv, Crash, tables
<1> QED BY <1>1, <1>2, <1>3, <1>4, <1>5, <1>6, <1>7, <1>8, <1>9, <1>10, <1>11, <1>12, <1>13
        DEF IndInv

-----------------------------------------------------------------------------
(* The invariant and what follows *)

\* The invariant holds at the start.
LEMMA InitInd == Init => IndInv
<1> SUFFICES ASSUME Init PROVE IndInv
  OBVIOUS
<1> USE ConstantsAssumption
<1>1. TablesType
  BY DEF Init, TablesType, Times, Absent
<1>3. SchedulerType
  <2>1. found \in Answers /\ passNow \in Times
    BY NoAnswerType DEF Times, Init
  <2>2. pc = "query" /\ left \in Nat /\ permit \in BOOLEAN /\ due \subseteq Due
        /\ current \in Due \cup {Nothing}
    BY DEF Init
  <2> QED BY <2>1, <2>2 DEF SchedulerType
<1>4. IndexType /\ UsedType /\ OtherType
  BY DEF Init, IndexType, UsedType, OtherType
<1>2. WakeInv /\ ClockInv /\ PassInv /\ CancelInv
      /\ MissedInv /\ KnownInv /\ SettledInv /\ ListInv
  BY DEF Init, WakeInv, NoLostWake, ClockInv, PassInv, MissedInv, MissedFireOnce, KnownInv,
     SettledInv, ListInv, CancelInv
<1> QED BY <1>1, <1>2, <1>3, <1>4 DEF IndInv

\* Every step preserves it.
LEMMA NextInd == IndInv /\ [Next]_vars => IndInv'
<1> SUFFICES ASSUME IndInv, [Next]_vars PROVE IndInv'
  OBVIOUS
<1>1. CASE Requests
  BY <1>1, CreateInd, CancelInd, MarkInd, SnoozeInd, PlayBeginInd, PlayEndInd,
     WakeSchedulerInd, RequestCutOffInd DEF Requests
<1>2. CASE Scheduler
  <2>1. ASSUME NEW time \in WakeTimes, Query([kind |-> "time", time |-> time]) PROVE IndInv'
    <3>1. [kind |-> "time", time |-> time] \in Answers
      BY ConstantsAssumption, InboxIndex
      DEF IndInv, TablesType, Notifications, WakeTimes, Answers, Times
    <3> QED BY <2>1, <3>1, QueryInd
  <2>2. ASSUME NEW kind \in {"none", "failed"}, Query([kind |-> kind, time |-> 0]) PROVE IndInv'
    <3>1. [kind |-> kind, time |-> 0] \in Answers
      BY DEF Answers, NoAnswer
    <3> QED BY <2>2, <3>1, QueryInd
  <2> QED BY <1>2, <2>1, <2>2, SleepInd, WokenInd, FireDueInd, FireReminderInd,
             SettleRecurringInd, SettleOnceInd, SettleFailsInd, FireSnoozedInd,
             RefireSnoozedInd, EndPassInd DEF Scheduler
<1>3. CASE UNCHANGED vars
  <2>1. UNCHANGED WakeTimes
    BY <1>3 DEF vars, tables, WakeTimes
  <2> QED BY <1>3, <2>1 DEF vars, tables, scheduler, requests, history, IndInv, TablesType,
      SchedulerType, IndexType, UsedType, OtherType, WakeInv, Unaware, NoLostWake, ClockInv, PassInv,
      MissedInv, MissedFireOnce, KnownInv, SettledInv, ListInv, Settled, CancelInv
<1> QED BY <1>1, <1>2, <1>3, TickInd, SuspendInd, CrashInd DEF Next

\* The inductive invariant holds throughout.
THEOREM RemindersInvariance == Spec => []IndInv
BY InitInd, NextInd, PTL DEF Spec

\* Every variable keeps its type: a sleep is never negative, and what the scheduler
\* works on exists.
THEOREM RemindersTypeCorrect == Spec => []TypeOK
<1>1. IndInv => TypeOK
  BY DEF IndInv, TypeOK, TablesType, SchedulerType, IndexType, UsedType, OtherType,
         Notifications
<1> QED BY <1>1, RemindersInvariance, PTL

\* However many requests write while the scheduler queries, sleeps or fires, it
\* never sleeps past a time that was asked for.
THEOREM WakesAreKept == Spec => []NoLostWake
<1>1. IndInv => NoLostWake
  BY DEF IndInv, WakeInv
<1> QED BY <1>1, RemindersInvariance, PTL

\* For any number of missed occurrences, crashes and failed writes, a firing that
\* was settled is never repeated and is followed by later occurrences only, as long
\* as no reminder was missed for longer than the loop of next_occurrence steps over.
THEOREM FiringsAreOnce ==
    ASSUME SkipReaches PROVE Spec => []MissedFireOnce
<1>1. IndInv => MissedFireOnce
  BY DEF IndInv, MissedInv
<1> QED BY <1>1, RemindersInvariance, PTL

\* No pass fires a reminder that was cancelled before the pass began.
THEOREM CancellationsHold == Spec => CancelHolds
<1>1. IndInv /\ [Next]_vars =>
        [inbox' = inbox \/ Len(inbox') = Len(inbox) \/ inbox'[Len(inbox')].reminder \notin gone]_vars
  <2> SUFFICES ASSUME IndInv, Next
               PROVE  inbox' = inbox \/ Len(inbox') = Len(inbox)
                      \/ inbox'[Len(inbox')].reminder \notin gone
    OBVIOUS
  <2> DEFINE Goal == inbox' = inbox \/ Len(inbox') = Len(inbox)
                     \/ inbox'[Len(inbox')].reminder \notin gone
  <2>1. ASSUME NEW d \in due, NEW ok \in BOOLEAN, FireReminder(d, ok) PROVE Goal
    <3>1. d \in Due /\ d.id \notin gone
      BY DEF IndInv, SchedulerType, CancelInv
    <3>2. CASE ok
      <4>1. OneMore(d)
        BY <2>1, <3>1, <3>2, InsertAdds DEF IndInv, FireReminder
      <4> QED BY <3>1, <4>1 DEF OneMore, Notification
    <3> QED BY <2>1, <3>2 DEF FireReminder
  <2>2. ASSUME NEW n \in DOMAIN inbox, NEW s \in NotificationStates,
               NEW u \in Times \cup {NoTime}, SetNotification(n, s, u)
        PROVE  Goal
    BY <2>2, SetNotificationKeeps DEF IndInv, SameFirings
  <2>3. ASSUME NEW n \in DOMAIN inbox, NEW s \in NotificationStates, Mark(n, s) PROVE Goal
    BY <2>2, <2>3 DEF Mark
  <2>4. ASSUME NEW n \in DOMAIN inbox, NEW u \in Times, Snooze(n, u) PROVE Goal
    BY <2>2, <2>4 DEF Snooze, NotificationStates
  <2>5. ASSUME NEW n \in DOMAIN inbox, NEW ok \in BOOLEAN, PlayEnd(n, ok) PROVE Goal
    BY <2>2, <2>5 DEF PlayEnd, NotificationStates
  <2>6. ASSUME NEW n \in snoozed, NEW ok \in BOOLEAN, RefireSnoozed(n, ok) PROVE Goal
    <3>1. n \in DOMAIN inbox
      BY DEF IndInv, IndexType
    <3> QED BY <2>2, <2>6, <3>1 DEF RefireSnoozed, Unsnooze, NotificationStates
  <2>7. CASE inbox' = inbox
    BY <2>7
  <2>8. CASE Requests
    BY <2>3, <2>4, <2>5, <2>7, <2>8 DEF Requests, Create, Cancel, PlayBegin, WakeScheduler,
       RequestCutOff, tables
  <2>9. CASE Scheduler
    BY <2>1, <2>6, <2>7, <2>9 DEF Scheduler, Query, Sleep, Woken, FireDue, SettleRecurring,
       SettleOnce, SettleFails, FireSnoozed, EndPass, tables
  <2> QED BY <2>7, <2>8, <2>9 DEF Next, Tick, Suspend, Crash, tables
<1> QED BY <1>1, RemindersInvariance, PTL DEF Spec, CancelHolds
=============================================================================
