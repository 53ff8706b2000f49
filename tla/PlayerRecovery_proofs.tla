----------------------- MODULE PlayerRecovery_proofs -----------------------
(***************************************************************************)
(* Proofs about PlayerRecovery, for every set of tracks, every give-up     *)
(* limit, and any number of commands, transfers, polls, events, lost       *)
(* sessions and manual reconnects.                                         *)
(***************************************************************************)
EXTENDS PlayerRecovery, PlaybackClock_proofs, SequenceTheorems

-----------------------------------------------------------------------------
(* The inductive invariant *)

\* The parts of the type invariant.
WorldType ==
    /\ seq \in Nat
    /\ owns \in BOOLEAN /\ active \in BOOLEAN /\ handoff \in BOOLEAN
    /\ dropSeen \in BOOLEAN
    /\ transfer \in {"none", "own", "other"}
    /\ refused \in [BOOLEAN -> Nat]
    /\ used \in [world : Nat, drops : Nat, manual : Nat]

ClockType == clock \in ClockState

RecoveryType ==
    /\ health \in [failures : Nat, gaveUp : BOOLEAN]
    /\ health.gaveUp => health.failures >= GiveUpAfter
    /\ inFlight \in BOOLEAN
    /\ task \in [pc : {"idle", "sleeping", "waiting"}, seq : Nat, resume : BOOLEAN]
    /\ probe \in {"idle", "asked", "up", "down"}

PlayerType ==
    /\ connected \in BOOLEAN /\ unreported \in BOOLEAN
    /\ queue \in Seq(Jobs)
    /\ job \in Jobs

GhostType ==
    /\ intent \in {"asked", "deactivated", "moved"}
    /\ manualSeq \in Nat

\* What waits has not begun, and what the actor works on is a reconnect.
QueueInv ==
    /\ \A i \in DOMAIN queue : queue[i].pc = "begin" /\ queue[i].kind # "none"
    /\ job.kind # "probe"
    /\ job.kind = "none" => job = NoJob

\* The health loop waits for exactly one question in the queue.
ProbeInv ==
    /\ \A i \in DOMAIN queue : queue[i].kind = "probe" =>
          /\ probe = "asked"
          /\ \A k \in DOMAIN queue : queue[k].kind = "probe" => k = i
    /\ probe = "asked" => \E i \in DOMAIN queue : queue[i].kind = "probe"

\* Nobody captured a counter ahead of the shared one.
CapturedInv ==
    /\ task.pc # "idle" => task.seq <= seq
    /\ job.kind = "auto" => job.seq <= seq
    /\ \A i \in DOMAIN queue : queue[i].kind = "auto" => queue[i].seq <= seq

\* An automatic reconnect that passed its first guard is not older than the last
\* manual one, which cannot register before the actor is done with it.
ManualInv ==
    /\ manualSeq <= seq
    /\ job.kind = "auto" /\ job.pc # "begin" => manualSeq <= job.seq

\* From the hand-off until somebody asks for the device again.  While the transport
\* is ours nothing on the clock is to be resumed; while it is not, the clock may show
\* anything, but whatever was scheduled is older than the hand-off.
HandOffInv == intent = "deactivated" =>
    /\ handoff /\ ~ active /\ ~ dropSeen
    /\ owns => ~ ResumeTarget(clock)
    /\ ~ owns =>
          /\ task.pc # "idle" => task.seq < seq
          /\ job.kind = "auto" => job.seq < seq
          /\ \A i \in DOMAIN queue : queue[i].kind = "auto" => queue[i].seq < seq

FlightInv == OneReconnectAtATime

IndInv ==
    /\ WorldType /\ ClockType /\ RecoveryType /\ PlayerType /\ GhostType
    /\ QueueInv /\ ProbeInv /\ CapturedInv /\ ManualInv /\ HandOffInv /\ FlightInv

-----------------------------------------------------------------------------
(* Commands of the actor and their queue *)

\* Nobody at work, no task and no failures.
LEMMA IdleType ==
    /\ NoJob \in Jobs /\ NoJob.kind = "none" /\ NoJob.pc = "none"
    /\ IdleTask \in [pc : {"idle", "sleeping", "waiting"}, seq : Nat, resume : BOOLEAN]
    /\ IdleTask.pc = "idle"
    /\ Healthy \in [failures : Nat, gaveUp : BOOLEAN] /\ ~ Healthy.gaveUp
BY DEF NoJob, IdleTask, Healthy, Jobs

\* What is sent to the actor is a command that has not begun.
LEMMA JobType ==
    ASSUME NEW kind \in {"auto", "manual", "retry", "probe"}, NEW n \in Nat, NEW r \in BOOLEAN
    PROVE  /\ Job(kind, n, r) \in Jobs
           /\ Job(kind, n, r).kind = kind /\ Job(kind, n, r).pc = "begin"
           /\ Job(kind, n, r).seq = n /\ Job(kind, n, r).awaited
BY DEF Job, Jobs

\* A command that goes on keeps all but its place.
LEMMA ProceedType ==
    ASSUME NEW c \in Jobs, NEW to \in {"shutdown", "register", "resume"}
    PROVE  /\ [c EXCEPT !.pc = to] \in Jobs
           /\ [c EXCEPT !.pc = to].pc = to
           /\ [c EXCEPT !.pc = to].kind = c.kind /\ [c EXCEPT !.pc = to].seq = c.seq
           /\ [c EXCEPT !.pc = to].awaited = c.awaited
BY DEF Jobs

\* The queue after a command was sent: the others keep their places.
LEMMA AppendJob ==
    ASSUME NEW q \in Seq(Jobs), NEW c \in Jobs
    PROVE  /\ Append(q, c) \in Seq(Jobs)
           /\ \E n : /\ n \notin DOMAIN q /\ DOMAIN Append(q, c) = DOMAIN q \cup {n}
                    /\ Append(q, c)[n] = c
                    /\ \A i \in DOMAIN q : Append(q, c)[i] = q[i]
<1>1. /\ Append(q, c) \in Seq(Jobs)
      /\ Len(q) \in Nat /\ DOMAIN q = 1..Len(q)
      /\ DOMAIN Append(q, c) = 1..(Len(q) + 1)
      /\ \A i \in 1..Len(q) : Append(q, c)[i] = q[i]
      /\ Append(q, c)[Len(q) + 1] = c
  BY AppendProperties, LenProperties
<1>2. Len(q) + 1 \notin DOMAIN q /\ DOMAIN Append(q, c) = DOMAIN q \cup {Len(q) + 1}
  BY <1>1
<1> QED BY <1>1, <1>2

\* The queue after its first command was taken: the others move up by one.
LEMMA TailJob ==
    ASSUME NEW q \in Seq(Jobs), q # <<>>
    PROVE  /\ 1 \in DOMAIN q /\ Head(q) = q[1] /\ Head(q) \in Jobs
           /\ Tail(q) \in Seq(Jobs)
           /\ \A i \in DOMAIN Tail(q) :
                 i + 1 \in DOMAIN q /\ i + 1 # 1 /\ Tail(q)[i] = q[i + 1]
           /\ \A i, k \in DOMAIN Tail(q) : i + 1 = k + 1 => i = k
           /\ \A i \in DOMAIN q : i # 1 =>
                 i - 1 \in DOMAIN Tail(q) /\ Tail(q)[i - 1] = q[i]
<1>1. Len(q) \in Nat \ {0} /\ DOMAIN q = 1..Len(q)
  BY EmptySeq, LenProperties
<1>2. Head(q) = q[1] /\ Head(q) \in Jobs
  BY <1>1, ElementOfSeq
<1>3. Tail(q) \in Seq(Jobs) /\ Len(Tail(q)) = Len(q) - 1
  BY HeadTailProperties
<1>4. DOMAIN Tail(q) = 1..(Len(q) - 1)
  BY <1>3, LenProperties
<1>5. \A i \in 1..(Len(q) - 1) : Tail(q)[i] = q[i + 1]
  BY <1>1, HeadTailProperties
<1> QED BY <1>1, <1>2, <1>3, <1>4, <1>5

\* What TaskTimeout makes of the queue.
Abandoned(q) ==
    [i \in DOMAIN q |-> IF q[i].kind = "auto" THEN [q[i] EXCEPT !.awaited = FALSE] ELSE q[i]]

\* The queue after a task stopped waiting: nothing in it is awaited any more.
LEMMA AbandonJob ==
    ASSUME NEW q \in Seq(Jobs)
    PROVE  /\ Abandoned(q) \in Seq(Jobs)
           /\ DOMAIN Abandoned(q) = DOMAIN q
           /\ \A i \in DOMAIN q :
                 /\ Abandoned(q)[i].kind = q[i].kind /\ Abandoned(q)[i].pc = q[i].pc
                 /\ Abandoned(q)[i].seq = q[i].seq
                 /\ ~ Awaited(Abandoned(q)[i])
<1>1. Len(q) \in Nat /\ DOMAIN q = 1..Len(q) /\ \A i \in DOMAIN q : q[i] \in Jobs
  BY LenProperties, ElementOfSeq
<1>2. \A i \in DOMAIN q : Abandoned(q)[i] \in Jobs
  BY <1>1 DEF Jobs, Abandoned
<1>3. Abandoned(q) \in Seq(Jobs)
  BY <1>1, <1>2, IsASeq DEF Abandoned
<1> QED BY <1>1, <1>3 DEF Jobs, Awaited, Abandoned

-----------------------------------------------------------------------------
(* What several actions have in common *)

\* The commands that wait are commands.
LEMMA QueueElements ==
    ASSUME IndInv PROVE \A i \in DOMAIN queue : queue[i] \in Jobs /\ queue[i].seq \in Nat
<1>1. queue \in Seq(Jobs)
  BY DEF IndInv, PlayerType
<1>2. \A i \in DOMAIN queue : queue[i] \in Jobs
  BY <1>1, LenProperties, ElementOfSeq
<1> QED BY <1>2 DEF Jobs

\* Captured counters stay behind when the shared one moves, strictly after a bump.
LEMMA BumpCaptured ==
    ASSUME IndInv, seq' \in {seq, seq + 1}, UNCHANGED <<task, job, queue, manualSeq>>
    PROVE  /\ CapturedInv' /\ ManualInv'
           /\ seq' = seq + 1 =>
                 /\ task'.pc # "idle" => task'.seq < seq'
                 /\ job'.kind = "auto" => job'.seq < seq'
                 /\ \A i \in DOMAIN queue' : queue'[i].kind = "auto" => queue'[i].seq < seq'
<1>1. seq \in Nat /\ task.seq \in Nat /\ job.seq \in Nat /\ manualSeq \in Nat
  BY DEF IndInv, WorldType, RecoveryType, PlayerType, GhostType, Jobs
<1>2. \A i \in DOMAIN queue : queue[i].seq \in Nat
  BY QueueElements
<1> QED BY <1>1, <1>2 DEF IndInv, CapturedInv, ManualInv

\* A step that leaves recovery and its commands alone.
LEMMA FlightFrame ==
    ASSUME IndInv, UNCHANGED <<inFlight, task, queue, job>>
    PROVE  QueueInv' /\ FlightInv' /\ (probe' = probe => ProbeInv')
BY DEF IndInv, QueueInv, ProbeInv, FlightInv, OneReconnectAtATime, Awaited

\* A task that is scheduled captures the counter as it is; while one is in flight
\* nothing changes.
LEMMA ScheduleInd ==
    ASSUME IndInv, NEW resume \in BOOLEAN, Schedule(resume),
           UNCHANGED <<seq, queue, job, manualSeq>>
    PROVE  /\ CapturedInv' /\ ManualInv' /\ FlightInv'
           /\ inFlight' = TRUE
           /\ task' \in [pc : {"idle", "sleeping", "waiting"}, seq : Nat, resume : BOOLEAN]
<1>1. seq \in Nat
  BY DEF IndInv, WorldType
<1>2. /\ inFlight' = TRUE
      /\ task' \in [pc : {"idle", "sleeping", "waiting"}, seq : Nat, resume : BOOLEAN]
  BY <1>1 DEF IndInv, RecoveryType, Schedule
<1>3. CapturedInv' /\ ManualInv'
  BY <1>1 DEF IndInv, CapturedInv, ManualInv, Schedule
<1>4. CASE inFlight
  <2>1. UNCHANGED <<inFlight, task>>
    BY <1>4 DEF IndInv, RecoveryType, Schedule
  <2> QED BY <1>2, <1>3, <2>1, FlightFrame
<1>5. CASE ~ inFlight
  <2>1. /\ task.pc = "idle" /\ ~ Awaited(job)
        /\ \A i \in DOMAIN queue : ~ Awaited(queue[i])
    BY <1>5 DEF IndInv, FlightInv, OneReconnectAtATime
  <2>2. inFlight' = TRUE /\ task'.pc = "sleeping"
    BY <1>5 DEF Schedule
  <2>3. FlightInv'
    BY <2>1, <2>2 DEF FlightInv, OneReconnectAtATime, Awaited
  <2> QED BY <1>2, <1>3, <2>3
<1> QED BY <1>4, <1>5

\* The flag that the clock has a track to resume is a Boolean.
LEMMA ResumeTargetType ==
    ASSUME NEW clk \in ClockState PROVE ResumeTarget(clk) \in BOOLEAN
BY DEF ResumeTarget, ClockState

\* After a hand-off no guard passes: while the transport is ours there is nothing to
\* resume, and otherwise what was captured is older than the hand-off.
LEMMA GuardFails ==
    ASSUME IndInv, intent = "deactivated", NEW n \in Nat, owns \/ n < seq
    PROVE  ~ StillWanted(n)
BY DEF IndInv, WorldType, HandOffInv, StillWanted

\* A clock that shows the same playback has the same track to resume.
LEMMA ResumeTargetShown ==
    ASSUME NEW a, NEW b, Shown(a) = Shown(b) PROVE ResumeTarget(a) = ResumeTarget(b)
BY DEF ResumeTarget, Shown

\* Whoever forgives a give-up clears the count with it.
LEMMA ResetType ==
    ASSUME health \in [failures : Nat, gaveUp : BOOLEAN], ResetGiveUp
    PROVE  health' \in [failures : Nat, gaveUp : BOOLEAN] /\ ~ health'.gaveUp
BY DEF ResetGiveUp

\* A change of the activity flag leaves a health record of the same kind.
LEMMA ActivityType ==
    ASSUME IndInv, NEW nowActive \in BOOLEAN, Activity(nowActive),
           UNCHANGED <<inFlight, task, probe>>
    PROVE  RecoveryType'
<1>1. CASE ResetGiveUp
  BY <1>1, ResetType DEF IndInv, RecoveryType
<1>2. CASE UNCHANGED health
  BY <1>2 DEF IndInv, RecoveryType
<1> QED BY <1>1, <1>2 DEF Activity

-----------------------------------------------------------------------------
(* One lemma per action *)

\* A command for this device ends the hand-off; one for another leaves nothing to
\* resume, and what was scheduled is behind it.
LEMMA CommandInd ==
    ASSUME IndInv, NEW pb \in Somewhere, NEW mine \in BOOLEAN, Command(pb, mine)
    PROVE  IndInv'
<1>1. WorldType'
  BY DEF IndInv, WorldType, WorldStep, Command, world, recovery, player
<1>2. ClockType'
  BY CommandResultType DEF IndInv, ClockType, Command, Somewhere
<1>3. RecoveryType'
  BY DEF IndInv, RecoveryType, Command, recovery, player
<1>4. PlayerType'
  BY DEF IndInv, PlayerType, Command, recovery, player
<1>5. GhostType'
  BY DEF IndInv, GhostType, Command, recovery, player
<1>6. QueueInv'
  BY FlightFrame DEF Command, recovery, player
<1>7. ProbeInv'
  BY FlightFrame DEF Command, recovery, player
<1>8. CapturedInv'
  BY BumpCaptured DEF Command, recovery, player, IndInv, WorldType
<1>9. ManualInv'
  BY BumpCaptured DEF Command, recovery, player, IndInv, WorldType
<1>10. HandOffInv'
  <2> SUFFICES ASSUME intent' = "deactivated" PROVE HandOffInv'
    BY DEF HandOffInv
  <2>1. intent = "deactivated" /\ pb.device = "other" /\ pb.device = clock'.device
    <3>1. intent = "deactivated" /\ ~ (mine /\ pb.device = "own")
      BY DEF Command
    <3>2. pb.device = "own" => mine
      BY DEF Command
    <3>3. pb.device \in {"own", "other"}
      BY DEF Somewhere, Playback, Devices
    <3>4. clock'.device = pb.device
      BY CommandResultType DEF Command, IndInv, ClockType, Somewhere
    <3> QED BY <3>1, <3>2, <3>3, <3>4
  <2>2. ~ ResumeTarget(clock')
    BY <2>1 DEF ResumeTarget
  <2>3. handoff' /\ ~ active' /\ ~ dropSeen' /\ seq' = seq + 1
    BY <2>1 DEF IndInv, HandOffInv, Command
  <2> QED BY <2>2, <2>3, BumpCaptured DEF HandOffInv, Command, recovery, player
<1>11. FlightInv'
  BY FlightFrame DEF Command, recovery, player
<1> QED BY <1>1, <1>2, <1>3, <1>4, <1>5, <1>6, <1>7, <1>8, <1>9, <1>10, <1>11 DEF IndInv

\* A transfer is sent.
LEMMA TransferSendInd ==
    ASSUME IndInv, NEW target \in {"own", "other"}, TransferSend(target)
    PROVE  IndInv'
<1>1. WorldType'
  BY DEF IndInv, WorldType, WorldStep, TransferSend, world, recovery, player, ghosts
<1>2. ClockType'
  BY DEF IndInv, ClockType, TransferSend, recovery, player, ghosts
<1>3. RecoveryType'
  BY DEF IndInv, RecoveryType, TransferSend, recovery, player, ghosts
<1>4. PlayerType'
  BY DEF IndInv, PlayerType, TransferSend, recovery, player, ghosts
<1>5. GhostType'
  BY DEF IndInv, GhostType, TransferSend, recovery, player, ghosts
<1>6. QueueInv'
  BY FlightFrame DEF TransferSend, recovery, player
<1>7. ProbeInv'
  BY FlightFrame DEF TransferSend, recovery, player
<1>8. CapturedInv'
  BY BumpCaptured DEF TransferSend, recovery, player, ghosts, IndInv, WorldType
<1>9. ManualInv'
  BY BumpCaptured DEF TransferSend, recovery, player, ghosts, IndInv, WorldType
<1>10. HandOffInv'
  BY DEF IndInv, HandOffInv, ResumeTarget, TransferSend, recovery, player, ghosts
<1>11. FlightInv'
  BY FlightFrame DEF TransferSend, recovery, player
<1> QED BY <1>1, <1>2, <1>3, <1>4, <1>5, <1>6, <1>7, <1>8, <1>9, <1>10, <1>11 DEF IndInv

\* A transfer ends; it says where playback is asked to be.
LEMMA TransferDoneInd ==
    ASSUME IndInv, NEW pb \in Playback, TransferDone(pb)
    PROVE  IndInv'
<1>1. WorldType'
  BY DEF IndInv, WorldType, TransferDone, world, player, Activity
<1>2. ClockType'
  BY CommandResultType DEF IndInv, ClockType, TransferDone, player
<1>3. RecoveryType'
  <2>1. (transfer = "own") \in BOOLEAN
    OBVIOUS
  <2> QED BY <2>1, ActivityType DEF TransferDone
<1>4. PlayerType'
  BY DEF IndInv, PlayerType, TransferDone, player
<1>5. GhostType'
  BY DEF IndInv, GhostType, TransferDone, player
<1>6. QueueInv'
  BY FlightFrame DEF TransferDone, player
<1>7. ProbeInv'
  BY FlightFrame DEF TransferDone, player
<1>8. CapturedInv'
  BY BumpCaptured DEF TransferDone, player, IndInv, WorldType
<1>9. ManualInv'
  BY BumpCaptured DEF TransferDone, player, IndInv, WorldType
<1>10. HandOffInv'
  BY DEF HandOffInv, TransferDone
<1>11. FlightInv'
  BY FlightFrame DEF TransferDone, player
<1> QED BY <1>1, <1>2, <1>3, <1>4, <1>5, <1>6, <1>7, <1>8, <1>9, <1>10, <1>11 DEF IndInv

\* A poll that does not find our device leaves nothing to resume on it.
LEMMA PollInd ==
    ASSUME IndInv, NEW pb \in Somewhere \cup {NothingPlaying},
           NEW older \in BOOLEAN, NEW confirmed \in BOOLEAN, Poll(pb, older, confirmed)
    PROVE  IndInv'
<1>a. pb \in Playback /\ (pb.device = "own") \in BOOLEAN
  <2>1. NothingPlaying \in Playback
    BY DEF NothingPlaying, Playback, Devices
  <2> QED BY <2>1 DEF Somewhere
<1>1. WorldType'
  <2>1. active' \in BOOLEAN
    <3>1. CASE pb.device = "none"
      BY <3>1 DEF IndInv, WorldType, Poll, Activity
    <3>2. CASE pb.device # "none"
      BY <1>a, <3>2 DEF Poll, Activity
    <3> QED BY <3>1, <3>2
  <2> QED BY <2>1 DEF IndInv, WorldType, WorldStep, Poll
<1>2. ClockType'
  BY <1>a, WebApiPollType, PrepareType DEF IndInv, ClockType, Poll, player
<1>3. RecoveryType'
  <2>1. (IF pb.device = "none" THEN active ELSE pb.device = "own") \in BOOLEAN
    BY <1>a DEF IndInv, WorldType
  <2> QED BY <2>1, ActivityType DEF Poll
<1>4. PlayerType'
  BY DEF IndInv, PlayerType, Poll, player
<1>5. GhostType'
  BY DEF IndInv, GhostType, Poll, player
<1>6. QueueInv'
  BY FlightFrame DEF Poll, player
<1>7. ProbeInv'
  BY FlightFrame DEF Poll, player
<1>8. CapturedInv'
  BY BumpCaptured DEF Poll, player, IndInv, WorldType
<1>9. ManualInv'
  BY BumpCaptured DEF Poll, player, IndInv, WorldType
<1>10. HandOffInv'
  <2> SUFFICES ASSUME intent' = "deactivated" PROVE HandOffInv'
    BY DEF HandOffInv
  <2>1. intent = "deactivated" /\ pb.device # "own"
    BY DEF Poll
  <2>2. pb.device = "other" \/ pb = NothingPlaying
    BY <1>a, <2>1 DEF Playback, Devices, Somewhere
  <2>3. owns /\ owns' /\ ~ ResumeTarget(clock) /\ clock \in ClockState
    BY <2>1 DEF IndInv, HandOffInv, ClockType, Poll
  <2>4. ~ ResumeTarget(clock')
    <3>1. ~ ResumeTarget(ApplyWebApiPoll(clock, pb, older))
      BY <1>a, <2>2, <2>3, PollElsewhere, ResumeTargetShown DEF ResumeTarget
    <3>2. ~ ResumeTarget(PrepareWebApiPoll(clock, pb))
      BY <1>a, <2>3, PrepareShows, ResumeTargetShown
    <3> QED BY <3>1, <3>2 DEF Poll
  <2>5. handoff' /\ ~ active' /\ ~ dropSeen'
    BY <2>1, <2>2 DEF IndInv, HandOffInv, Poll, Activity, NothingPlaying
  <2> QED BY <2>3, <2>4, <2>5 DEF HandOffInv
<1>11. FlightInv'
  BY FlightFrame DEF Poll, player
<1> QED BY <1>1, <1>2, <1>3, <1>4, <1>5, <1>6, <1>7, <1>8, <1>9, <1>10, <1>11 DEF IndInv

\* A session is lost.
LEMMA LoseInd ==
    ASSUME IndInv, NEW reported \in BOOLEAN, Lose(reported)
    PROVE  IndInv'
<1>1. WorldType'
  BY DEF IndInv, WorldType, Lose, world, recovery, ghosts
<1>2. ClockType'
  BY DEF IndInv, ClockType, Lose, world, recovery, ghosts
<1>3. RecoveryType'
  BY DEF IndInv, RecoveryType, Lose, world, recovery, ghosts
<1>4. PlayerType'
  BY DEF IndInv, PlayerType, Lose, world, recovery, ghosts
<1>5. GhostType'
  BY DEF IndInv, GhostType, Lose, world, recovery, ghosts
<1>6. QueueInv'
  BY FlightFrame DEF Lose, recovery
<1>7. ProbeInv'
  BY FlightFrame DEF Lose, recovery
<1>8. CapturedInv'
  BY DEF IndInv, CapturedInv, Lose, world, recovery, ghosts
<1>9. ManualInv'
  BY DEF IndInv, ManualInv, Lose, world, recovery, ghosts
<1>10. HandOffInv'
  BY DEF IndInv, HandOffInv, ResumeTarget, Lose, world, recovery, ghosts
<1>11. FlightInv'
  BY FlightFrame DEF Lose, recovery
<1> QED BY <1>1, <1>2, <1>3, <1>4, <1>5, <1>6, <1>7, <1>8, <1>9, <1>10, <1>11 DEF IndInv

\* An event of the player: a hand-off revokes what was scheduled, and until it is taken
\* back no other event is ours.
LEMMA EventReceiveInd ==
    ASSUME IndInv, NEW kind \in {"started", "paused", "deactivated", "activated", "dropped"},
           NEW track \in Tracks, EventReceive(kind, track)
    PROVE  IndInv'
<1>1. WorldType'
  <2>1. used' \in [world : Nat, drops : Nat, manual : Nat] /\ seq' \in Nat
    BY DEF IndInv, WorldType, WorldStep, EventReceive
  <2>2. handoff' \in BOOLEAN /\ dropSeen' \in BOOLEAN /\ owns' \in BOOLEAN
    BY DEF IndInv, WorldType, EventReceive
  <2>3. active' \in BOOLEAN /\ transfer' = transfer /\ refused' = refused
    BY DEF IndInv, WorldType, EventReceive
  <2> QED BY <2>1, <2>2, <2>3 DEF IndInv, WorldType
<1>2. ClockType'
  <2>1. \A item \in Tracks \cup {NoTrack} : [kind |-> kind, item |-> item] \in PlayerEvent
    BY DEF PlayerEvent, Transitions, LoadKinds, OtherKinds
  <2>2. clock \in ClockState
    BY DEF IndInv, ClockType
  <2> QED BY <2>1, <2>2, PlayerEventType DEF ClockType, EventReceive
<1>3. RecoveryType'
  BY DEF IndInv, RecoveryType, EventReceive, recovery
<1>4. PlayerType'
  BY DEF IndInv, PlayerType, EventReceive, recovery
<1>5. GhostType'
  BY DEF IndInv, GhostType, EventReceive, recovery
<1>6. QueueInv'
  BY FlightFrame DEF EventReceive, recovery
<1>7. ProbeInv'
  BY FlightFrame DEF EventReceive, recovery
<1>8. CapturedInv'
  BY BumpCaptured DEF EventReceive, recovery
<1>9. ManualInv'
  BY BumpCaptured DEF EventReceive, recovery
<1>10. HandOffInv'
  <2> SUFFICES ASSUME intent' = "deactivated" PROVE HandOffInv'
    BY DEF HandOffInv
  <2>1. CASE kind = "deactivated"
    <3>1. handoff' /\ ~ active' /\ ~ dropSeen' /\ seq' = seq + 1
      BY <2>1 DEF EventReceive
    <3>2. owns' => ~ ResumeTarget(clock')
      <4>1. CASE clock.device = "other"
        BY <2>1, <4>1 DEF EventReceive, ResumeTarget
      <4>2. CASE clock.device # "other" /\ owns'
        <5>1. [kind |-> kind, item |-> NoTrack] \in PlayerEvent
          BY DEF PlayerEvent, Transitions, LoadKinds, OtherKinds
        <5>2. clock' = ApplyPlayerEvent(clock, [kind |-> kind, item |-> NoTrack], FALSE)
          BY <2>1, <4>2 DEF EventReceive
        <5> QED BY <2>1, <5>1, <5>2, HandOffStops DEF IndInv, ClockType, ResumeTarget
      <4> QED BY <4>1, <4>2
    <3> QED BY <3>1, <3>2, BumpCaptured DEF HandOffInv, EventReceive, recovery
  <2>2. CASE kind # "deactivated"
    <3>1. intent = "deactivated" /\ kind # "activated"
      BY <2>2 DEF EventReceive
    <3>2. handoff /\ handoff' /\ ~ dropSeen' /\ UNCHANGED <<owns, active, clock, seq>>
      BY <2>2, <3>1 DEF IndInv, HandOffInv, WorldType, EventReceive
    <3>3. UNCHANGED <<task, queue, job>>
      BY DEF EventReceive, recovery
    <3> QED BY <3>1, <3>2, <3>3 DEF IndInv, HandOffInv, ResumeTarget
  <2> QED BY <2>1, <2>2
<1>11. FlightInv'
  BY FlightFrame DEF EventReceive, recovery
<1> QED BY <1>1, <1>2, <1>3, <1>4, <1>5, <1>6, <1>7, <1>8, <1>9, <1>10, <1>11 DEF IndInv

\* A drop schedules a reconnect, and not after a hand-off.
LEMMA DropDecideInd ==
    ASSUME IndInv, DropDecide
    PROVE  IndInv'
<1>a. RecoveryType' /\ CapturedInv' /\ ManualInv' /\ FlightInv'
  <2>1. CASE Schedule(ResumeTarget(clock))
    <3>1. UNCHANGED <<seq, health, probe, queue, job, manualSeq>>
      BY DEF DropDecide, player, ghosts
    <3> QED BY <2>1, <3>1, ScheduleInd, ResumeTargetType DEF IndInv, ClockType, RecoveryType
  <2>2. CASE UNCHANGED <<inFlight, task>>
    BY <2>2, FlightFrame, BumpCaptured DEF IndInv, RecoveryType, DropDecide, player, ghosts
  <2> QED BY <2>1, <2>2 DEF DropDecide
<1>1. WorldType'
  BY DEF IndInv, WorldType, DropDecide, world, player, ghosts
<1>2. ClockType'
  BY DEF IndInv, ClockType, DropDecide, player, ghosts
<1>3. RecoveryType'
  BY <1>a
<1>4. PlayerType'
  BY DEF IndInv, PlayerType, DropDecide, player, ghosts
<1>5. GhostType'
  BY DEF IndInv, GhostType, DropDecide, player, ghosts
<1>6. QueueInv'
  BY DEF IndInv, QueueInv, DropDecide, player, ghosts
<1>7. ProbeInv'
  BY DEF IndInv, ProbeInv, DropDecide, player, ghosts
<1>8. CapturedInv'
  BY <1>a
<1>9. ManualInv'
  BY <1>a
<1>10. HandOffInv'
  BY DEF IndInv, HandOffInv, DropDecide, player, ghosts
<1>11. FlightInv'
  BY <1>a
<1> QED BY <1>1, <1>2, <1>3, <1>4, <1>5, <1>6, <1>7, <1>8, <1>9, <1>10, <1>11 DEF IndInv

\* The health loop asks; there is one question at a time.
LEMMA ProbeAskInd ==
    ASSUME IndInv, ProbeAsk
    PROVE  IndInv'
<1> DEFINE c == Job("probe", 0, FALSE)
<1>a. c \in Jobs /\ c.kind = "probe" /\ c.pc = "begin"
  BY JobType
<1>b. queue \in Seq(Jobs) /\ queue' = Append(queue, c)
  BY DEF IndInv, PlayerType, ProbeAsk
<1> HIDE DEF c
<1>c. /\ queue' \in Seq(Jobs)
      /\ \E n : /\ n \notin DOMAIN queue /\ DOMAIN queue' = DOMAIN queue \cup {n}
               /\ queue'[n] = c
               /\ \A i \in DOMAIN queue : queue'[i] = queue[i]
  BY <1>a, <1>b, AppendJob
<1>d. probe = "idle" /\ probe' = "asked"
      /\ UNCHANGED <<world, task, inFlight, job, ghosts>>
  BY DEF ProbeAsk
<1>1. WorldType'
  BY DEF IndInv, WorldType, ProbeAsk, world, ghosts
<1>2. ClockType'
  BY DEF IndInv, ClockType, ProbeAsk, world, ghosts
<1>3. RecoveryType'
  BY DEF IndInv, RecoveryType, ProbeAsk, world, ghosts
<1>4. PlayerType'
  BY <1>c DEF IndInv, PlayerType, ProbeAsk
<1>5. GhostType'
  BY DEF IndInv, GhostType, ProbeAsk, world, ghosts
<1>6. QueueInv'
  BY <1>a, <1>c, <1>d DEF IndInv, QueueInv
<1>7. ProbeInv'
  BY <1>a, <1>c, <1>d DEF IndInv, ProbeInv
<1>8. CapturedInv'
  BY <1>a, <1>c, <1>d DEF IndInv, CapturedInv, world
<1>9. ManualInv'
  BY DEF IndInv, ManualInv, ProbeAsk, world, ghosts
<1>10. HandOffInv'
  BY <1>a, <1>c, <1>d DEF IndInv, HandOffInv, world, ghosts
<1>11. FlightInv'
  BY <1>a, <1>c, <1>d DEF IndInv, FlightInv, OneReconnectAtATime, Awaited
<1> QED BY <1>1, <1>2, <1>3, <1>4, <1>5, <1>6, <1>7, <1>8, <1>9, <1>10, <1>11 DEF IndInv

\* The health loop counts the answer and schedules a reconnect while the device is
\* wanted, which it is not after a hand-off.
LEMMA ProbeDecideInd ==
    ASSUME IndInv, ProbeDecide
    PROVE  IndInv'
<1>a. /\ health' \in [failures : Nat, gaveUp : BOOLEAN] /\ probe' = "idle"
      /\ health'.gaveUp => health'.failures >= GiveUpAfter
  <2>1. health.failures \in Nat /\ health.failures + 1 \in Nat /\ 0 \in Nat
    BY DEF IndInv, RecoveryType
  <2>2. health.gaveUp => health.failures >= GiveUpAfter
    BY DEF IndInv, RecoveryType
  <2>3. probe' = "idle" /\ health' \in [failures : Nat, gaveUp : BOOLEAN]
    BY <2>1 DEF ProbeDecide
  <2>4. ASSUME health'.gaveUp PROVE health'.failures >= GiveUpAfter
    <3>1. /\ health'.failures = IF health.failures < GiveUpAfter THEN health.failures + 1
                               ELSE health.failures
          /\ health.gaveUp \/ health'.failures >= GiveUpAfter
      BY <2>4 DEF ProbeDecide
    <3> QED BY <2>1, <2>2, <3>1, BoundsAssumption
  <2> QED BY <2>3, <2>4
<1>b. (owns /\ ResumeTarget(clock)) \in BOOLEAN
  OBVIOUS
<1>c. RecoveryType' /\ CapturedInv' /\ ManualInv' /\ FlightInv'
  <2>1. UNCHANGED <<seq, queue, job, manualSeq>>
    BY DEF ProbeDecide, world, player, ghosts
  <2>2. CASE Schedule(owns /\ ResumeTarget(clock))
    BY <1>a, <1>b, <2>1, <2>2, ScheduleInd DEF RecoveryType
  <2>3. CASE UNCHANGED <<inFlight, task>>
    <3>1. CapturedInv' /\ ManualInv' /\ FlightInv'
      BY <2>1, <2>3, FlightFrame, BumpCaptured
    <3> QED BY <1>a, <2>3, <3>1 DEF IndInv, RecoveryType
  <2> QED BY <2>2, <2>3 DEF ProbeDecide
<1>1. WorldType'
  BY DEF IndInv, WorldType, ProbeDecide, world, player, ghosts
<1>2. ClockType'
  BY DEF IndInv, ClockType, ProbeDecide, world, player, ghosts
<1>3. RecoveryType'
  BY <1>c
<1>4. PlayerType'
  BY DEF IndInv, PlayerType, ProbeDecide, world, player, ghosts
<1>5. GhostType'
  BY DEF IndInv, GhostType, ProbeDecide, world, player, ghosts
<1>6. QueueInv'
  BY DEF IndInv, QueueInv, ProbeDecide, world, player, ghosts
<1>7. ProbeInv'
  BY DEF IndInv, ProbeInv, ProbeDecide, world, player, ghosts
<1>8. CapturedInv'
  BY <1>c
<1>9. ManualInv'
  BY <1>c
<1>10. HandOffInv'
  <2>1. intent = "deactivated" => UNCHANGED task
    BY DEF IndInv, HandOffInv, ProbeDecide, ShouldAutoReconnect, WantsDevice
  <2> QED BY <2>1 DEF IndInv, HandOffInv, ProbeDecide, ResumeTarget, world, player, ghosts
<1>11. FlightInv'
  BY <1>c
<1> QED BY <1>1, <1>2, <1>3, <1>4, <1>5, <1>6, <1>7, <1>8, <1>9, <1>10, <1>11 DEF IndInv

\* A stalled player stops the clock, and is recovered only where it is wanted.
LEMMA StallInd ==
    ASSUME IndInv, Stall
    PROVE  IndInv'
<1>a. RecoveryType' /\ CapturedInv' /\ ManualInv' /\ FlightInv'
  <2>1. UNCHANGED <<seq, health, queue, job, probe, manualSeq>>
    BY DEF Stall, player, ghosts
  <2>2. CASE Schedule(ResumeTarget(clock))
    BY <2>1, <2>2, ScheduleInd, ResumeTargetType DEF IndInv, ClockType, RecoveryType
  <2>3. CASE UNCHANGED <<inFlight, task>>
    BY <2>1, <2>3, FlightFrame, BumpCaptured DEF IndInv, RecoveryType
  <2> QED BY <2>2, <2>3 DEF Stall
<1>1. WorldType'
  BY DEF IndInv, WorldType, WorldStep, Stall, world, player, ghosts
<1>2. ClockType'
  BY StalledType DEF IndInv, ClockType, Stall, player, ghosts
<1>3. RecoveryType'
  BY <1>a
<1>4. PlayerType'
  BY DEF IndInv, PlayerType, Stall, player, ghosts
<1>5. GhostType'
  BY DEF IndInv, GhostType, Stall, player, ghosts
<1>6. QueueInv'
  BY DEF IndInv, QueueInv, Stall, player, ghosts
<1>7. ProbeInv'
  BY DEF IndInv, ProbeInv, Stall, player, ghosts
<1>8. CapturedInv'
  BY <1>a
<1>9. ManualInv'
  BY <1>a
<1>10. HandOffInv'
  <2>1. clock \in ClockState /\ owns /\ clock' = MarkAudioStalled(clock)
    BY DEF IndInv, ClockType, Stall
  <2>2. ~ ResumeTarget(clock')
    BY <2>1, StalledType DEF ResumeTarget
  <2>3. intent = "deactivated" => UNCHANGED task
    BY <2>1 DEF IndInv, HandOffInv, Stall
  <2> QED BY <2>1, <2>2, <2>3 DEF IndInv, HandOffInv, Stall, player, ghosts
<1>11. FlightInv'
  BY <1>a
<1> QED BY <1>1, <1>2, <1>3, <1>4, <1>5, <1>6, <1>7, <1>8, <1>9, <1>10, <1>11 DEF IndInv

\* A reconnect that is no longer wanted ends its task; otherwise its command is queued.
LEMMA TaskWakeInd ==
    ASSUME IndInv, TaskWake
    PROVE  IndInv'
<1> DEFINE c == Job("auto", task.seq, task.resume)
<1>a. task.pc = "sleeping" /\ task.seq \in Nat /\ task.resume \in BOOLEAN /\ task.seq <= seq
  BY DEF IndInv, RecoveryType, CapturedInv, TaskWake
<1>b. c \in Jobs /\ c.kind = "auto" /\ c.pc = "begin" /\ c.seq = task.seq /\ c.awaited
  BY <1>a, JobType
<1>c. /\ ~ Awaited(job)
      /\ \A i \in DOMAIN queue : ~ Awaited(queue[i])
  BY <1>a DEF IndInv, FlightInv, OneReconnectAtATime
<1>d. UNCHANGED <<seq, owns, active, handoff, clock, dropSeen, transfer, refused, used, health,
                  probe, connected, unreported, job, intent, manualSeq>>
  BY DEF TaskWake, world, ghosts
<1>e. CASE StillWanted(task.seq)
  <2>1. queue \in Seq(Jobs) /\ queue' = Append(queue, c)
    BY <1>e DEF IndInv, PlayerType, TaskWake
  <2>2. /\ task' = [task EXCEPT !.pc = "waiting"] /\ inFlight' = TRUE
        /\ task' \in [pc : {"idle", "sleeping", "waiting"}, seq : Nat, resume : BOOLEAN]
        /\ task'.pc = "waiting" /\ task'.seq = task.seq
    BY <1>e DEF IndInv, RecoveryType, TaskWake
  <2> HIDE DEF c
  <2>3. /\ queue' \in Seq(Jobs)
      /\ \E n : /\ n \notin DOMAIN queue /\ DOMAIN queue' = DOMAIN queue \cup {n}
               /\ queue'[n] = c
               /\ \A i \in DOMAIN queue : queue'[i] = queue[i]
    BY <1>b, <2>1, AppendJob
  <2>4. WorldType' /\ ClockType' /\ RecoveryType' /\ PlayerType' /\ GhostType'
    BY <1>d, <2>2, <2>3
    DEF IndInv, WorldType, ClockType, RecoveryType, PlayerType, GhostType
  <2>5. QueueInv' /\ ProbeInv'
    BY <1>b, <1>d, <2>3 DEF IndInv, QueueInv, ProbeInv
  <2>6. CapturedInv' /\ ManualInv'
    BY <1>a, <1>b, <1>d, <2>2, <2>3 DEF IndInv, CapturedInv, ManualInv
  <2>7. HandOffInv'
    <3>1. intent # "deactivated"
      BY <1>a, <1>e, GuardFails DEF IndInv, HandOffInv
    <3> QED BY <1>d, <3>1 DEF HandOffInv
  <2>8. FlightInv'
    BY <1>b, <1>c, <1>d, <2>2, <2>3 DEF FlightInv, OneReconnectAtATime, Awaited
  <2> QED BY <2>4, <2>5, <2>6, <2>7, <2>8 DEF IndInv
<1>f. CASE ~ StillWanted(task.seq)
  <2>1. task' = IdleTask /\ inFlight' = FALSE /\ queue' = queue
    BY <1>f DEF TaskWake
  <2>2. WorldType' /\ ClockType' /\ RecoveryType' /\ PlayerType' /\ GhostType'
    <3>1. RecoveryType'
      BY <1>d, <2>1, IdleType DEF IndInv, RecoveryType
    <3> QED BY <1>d, <2>1, <3>1 DEF IndInv, WorldType, ClockType, PlayerType, GhostType
  <2>3. QueueInv' /\ ProbeInv' /\ CapturedInv' /\ ManualInv'
    BY <1>d, <2>1, IdleType DEF IndInv, QueueInv, ProbeInv, CapturedInv, ManualInv
  <2>4. HandOffInv'
    BY <1>d, <2>1, IdleType DEF IndInv, HandOffInv, ResumeTarget
  <2>5. FlightInv'
    BY <1>c, <1>d, <2>1, IdleType DEF FlightInv, OneReconnectAtATime, Awaited
  <2> QED BY <2>2, <2>3, <2>4, <2>5 DEF IndInv
<1> QED BY <1>e, <1>f

\* A task that stops waiting leaves its command with the actor, without a reader.
LEMMA TaskTimeoutInd ==
    ASSUME IndInv, TaskTimeout
    PROVE  IndInv'
<1>a. UNCHANGED <<seq, owns, active, handoff, clock, dropSeen, transfer, refused, used, health,
                  probe, connected, unreported, intent, manualSeq>>
  BY DEF TaskTimeout, world, ghosts
<1>b. task' = IdleTask /\ inFlight' = FALSE
  BY DEF TaskTimeout
<1>c. /\ queue' \in Seq(Jobs)
      /\ DOMAIN queue' = DOMAIN queue
      /\ \A i \in DOMAIN queue :
            /\ queue'[i].kind = queue[i].kind /\ queue'[i].pc = queue[i].pc
            /\ queue'[i].seq = queue[i].seq
            /\ ~ Awaited(queue'[i])
  <2>1. queue \in Seq(Jobs)
    BY DEF IndInv, PlayerType
  <2>2. queue' = Abandoned(queue)
    BY DEF TaskTimeout, Abandoned
  <2> QED BY <2>1, <2>2, AbandonJob
<1>d. /\ job' \in Jobs /\ ~ Awaited(job')
      /\ job'.kind = job.kind /\ job'.pc = job.pc /\ job'.seq = job.seq
      /\ job.kind = "none" => job' = job
  BY DEF IndInv, PlayerType, Jobs, Awaited, TaskTimeout
<1>1. WorldType' /\ ClockType' /\ RecoveryType' /\ PlayerType' /\ GhostType'
  <2>1. RecoveryType'
    BY <1>a, <1>b, IdleType DEF IndInv, RecoveryType
  <2> QED BY <1>a, <1>c, <1>d, <2>1 DEF IndInv, WorldType, ClockType, PlayerType, GhostType
<1>2. QueueInv' /\ ProbeInv'
  BY <1>a, <1>c, <1>d DEF IndInv, QueueInv, ProbeInv
<1>3. CapturedInv' /\ ManualInv'
  BY <1>a, <1>b, <1>c, <1>d, IdleType DEF IndInv, CapturedInv, ManualInv
<1>4. HandOffInv'
  BY <1>a, <1>b, <1>c, <1>d, IdleType DEF IndInv, HandOffInv, ResumeTarget
<1>5. FlightInv'
  BY <1>b, <1>c, <1>d, IdleType DEF FlightInv, OneReconnectAtATime, Awaited
<1> QED BY <1>1, <1>2, <1>3, <1>4, <1>5 DEF IndInv

\* The user's reconnect bumps the counter before its command is queued.
LEMMA ManualReconnectInd ==
    ASSUME IndInv, ManualReconnect
    PROVE  IndInv'
<1> DEFINE c == Job("manual", 0, ResumeTarget(clock))
<1>a. c \in Jobs /\ c.kind = "manual" /\ c.pc = "begin"
  BY JobType, ResumeTargetType DEF IndInv, ClockType
<1>b. queue \in Seq(Jobs) /\ queue' = Append(queue, c)
  BY DEF IndInv, PlayerType, ManualReconnect
<1> HIDE DEF c
<1>c. /\ queue' \in Seq(Jobs)
      /\ \E n : /\ n \notin DOMAIN queue /\ DOMAIN queue' = DOMAIN queue \cup {n}
               /\ queue'[n] = c
               /\ \A i \in DOMAIN queue : queue'[i] = queue[i]
  BY <1>a, <1>b, AppendJob
<1>d. /\ seq' = seq + 1 /\ seq \in Nat /\ ResetGiveUp /\ intent' = "asked"
      /\ UNCHANGED <<owns, active, handoff, clock, dropSeen, transfer, inFlight, task, probe,
                     connected, unreported, job, manualSeq>>
  BY DEF IndInv, WorldType, ManualReconnect
<1>1. WorldType'
  <2>1. used' \in [world : Nat, drops : Nat, manual : Nat] /\ refused' = refused
    BY DEF IndInv, WorldType, ManualReconnect
  <2> QED BY <1>d, <2>1 DEF IndInv, WorldType
<1>2. ClockType' /\ RecoveryType' /\ PlayerType' /\ GhostType'
  BY <1>c, <1>d, ResetType DEF IndInv, ClockType, RecoveryType, PlayerType, GhostType
<1>3. QueueInv' /\ ProbeInv'
  BY <1>a, <1>c, <1>d DEF IndInv, QueueInv, ProbeInv
<1>4. CapturedInv' /\ ManualInv'
  <2>1. task.seq \in Nat /\ job.seq \in Nat /\ manualSeq \in Nat
    BY DEF IndInv, RecoveryType, PlayerType, GhostType, Jobs
  <2> QED BY <1>a, <1>c, <1>d, <2>1, QueueElements DEF IndInv, CapturedInv, ManualInv
<1>5. HandOffInv'
  BY <1>d DEF HandOffInv
<1>6. FlightInv'
  BY <1>a, <1>c, <1>d DEF IndInv, FlightInv, OneReconnectAtATime, Awaited
<1> QED BY <1>1, <1>2, <1>3, <1>4, <1>5, <1>6 DEF IndInv

\* Its second attempt bumps the counter again; without fresh credentials there is none.
LEMMA ManualRetryInd ==
    ASSUME IndInv, NEW resume \in BOOLEAN, NEW refreshed \in BOOLEAN,
           ManualRetry(resume, refreshed)
    PROVE  IndInv'
<1> DEFINE c == Job("retry", 0, resume)
<1>a. c \in Jobs /\ c.kind = "retry" /\ c.pc = "begin"
  BY JobType
<1>b. UNCHANGED <<owns, active, handoff, clock, dropSeen, transfer, health, inFlight, task,
                  probe, connected, unreported, job, used, intent, manualSeq>>
  BY DEF ManualRetry, recovery, ghosts
<1>c. queue \in Seq(Jobs) /\ seq \in Nat
  BY DEF IndInv, PlayerType, WorldType
<1>1. WorldType'
  <2>1. refused' \in [BOOLEAN -> Nat]
    <3>1. refused \in [BOOLEAN -> Nat] /\ refused[resume] - 1 \in Nat
      BY DEF IndInv, WorldType, ManualRetry
    <3> QED BY <3>1 DEF ManualRetry
  <2>2. seq' \in Nat
    BY <1>c DEF ManualRetry
  <2> QED BY <1>b, <2>1, <2>2 DEF IndInv, WorldType
<1>2. CASE refreshed
  <2>1. queue' = Append(queue, c) /\ seq' = seq + 1
    BY <1>2 DEF ManualRetry
  <2> HIDE DEF c
  <2>2. /\ queue' \in Seq(Jobs)
        /\ \E n : /\ n \notin DOMAIN queue /\ DOMAIN queue' = DOMAIN queue \cup {n}
                 /\ queue'[n] = c
                 /\ \A i \in DOMAIN queue : queue'[i] = queue[i]
    BY <1>a, <1>c, <2>1, AppendJob
  <2>3. ClockType' /\ RecoveryType' /\ PlayerType' /\ GhostType'
    BY <1>b, <2>2 DEF IndInv, ClockType, RecoveryType, PlayerType, GhostType
  <2>4. QueueInv' /\ ProbeInv'
    BY <1>a, <1>b, <2>2 DEF IndInv, QueueInv, ProbeInv
  <2>5. task.seq \in Nat /\ job.seq \in Nat /\ manualSeq \in Nat
    BY DEF IndInv, RecoveryType, PlayerType, GhostType, Jobs
  <2>6. CapturedInv' /\ ManualInv'
    BY <1>a, <1>b, <1>c, <2>1, <2>2, <2>5, QueueElements DEF IndInv, CapturedInv, ManualInv
  <2>7. HandOffInv'
    BY <1>a, <1>b, <1>c, <2>1, <2>2, <2>5, QueueElements DEF IndInv, HandOffInv, ResumeTarget
  <2>8. FlightInv'
    BY <1>a, <1>b, <2>2 DEF IndInv, FlightInv, OneReconnectAtATime, Awaited
  <2> QED BY <1>1, <2>3, <2>4, <2>6, <2>7, <2>8 DEF IndInv
<1>3. CASE ~ refreshed
  <2>1. UNCHANGED <<seq, queue>>
    BY <1>3 DEF ManualRetry
  <2>2. ClockType' /\ RecoveryType' /\ PlayerType' /\ GhostType'
    BY <1>b, <2>1 DEF IndInv, ClockType, RecoveryType, PlayerType, GhostType
  <2>3. QueueInv' /\ ProbeInv' /\ FlightInv'
    BY <1>b, <2>1, FlightFrame
  <2>4. CapturedInv' /\ ManualInv' /\ HandOffInv'
    BY <1>b, <2>1 DEF IndInv, CapturedInv, ManualInv, HandOffInv, ResumeTarget
  <2> QED BY <1>1, <2>2, <2>3, <2>4 DEF IndInv
<1> QED BY <1>2, <1>3

\* The actor takes a command, or answers a question.
LEMMA ActorTakeInd ==
    ASSUME IndInv, ActorTake
    PROVE  IndInv'
<1>a. /\ job = NoJob /\ ~ Awaited(job)
      /\ UNCHANGED <<seq, owns, active, handoff, clock, dropSeen, transfer, refused, used, health,
                     inFlight, task, connected, unreported, intent, manualSeq>>
  BY IdleType DEF ActorTake, Awaited, world, ghosts
<1>b. /\ 1 \in DOMAIN queue /\ Head(queue) = queue[1] /\ queue[1] \in Jobs
      /\ queue' \in Seq(Jobs)
      /\ \A i \in DOMAIN queue' :
            i + 1 \in DOMAIN queue /\ i + 1 # 1 /\ queue'[i] = queue[i + 1]
      /\ \A i, k \in DOMAIN queue' : i + 1 = k + 1 => i = k
      /\ \A i \in DOMAIN queue : i # 1 => i - 1 \in DOMAIN queue' /\ queue'[i - 1] = queue[i]
  BY TailJob DEF IndInv, PlayerType, ActorTake
<1>c. CASE queue[1].kind = "probe"
  <2>1. job' = job /\ probe' \in {"up", "down"}
    BY <1>b, <1>c DEF ActorTake
  <2>2. \A i \in DOMAIN queue' : queue'[i].kind # "probe"
    BY <1>b, <1>c DEF IndInv, ProbeInv
  <2>3. WorldType' /\ ClockType' /\ RecoveryType' /\ PlayerType' /\ GhostType'
    <3>1. RecoveryType'
      BY <1>a, <2>1 DEF IndInv, RecoveryType
    <3> QED BY <1>a, <1>b, <2>1, <3>1 DEF IndInv, WorldType, ClockType, PlayerType, GhostType
  <2>4. QueueInv' /\ ProbeInv'
    BY <1>a, <1>b, <2>1, <2>2 DEF IndInv, QueueInv, ProbeInv
  <2>5. CapturedInv' /\ ManualInv'
    BY <1>a, <1>b, <2>1 DEF IndInv, CapturedInv, ManualInv
  <2>6. HandOffInv'
    BY <1>a, <1>b, <2>1 DEF IndInv, HandOffInv, ResumeTarget
  <2>7. FlightInv'
    BY <1>a, <1>b, <1>c, <2>1 DEF IndInv, FlightInv, OneReconnectAtATime, Awaited
  <2> QED BY <2>3, <2>4, <2>5, <2>6, <2>7 DEF IndInv
<1>d. CASE queue[1].kind # "probe"
  <2>1. job' = queue[1] /\ probe' = probe /\ job'.pc = "begin" /\ job'.kind # "none"
    BY <1>b, <1>d DEF IndInv, QueueInv, ActorTake
  <2>3. WorldType' /\ ClockType' /\ RecoveryType' /\ PlayerType' /\ GhostType'
    <3>1. RecoveryType'
      BY <1>a, <2>1 DEF IndInv, RecoveryType
    <3> QED BY <1>a, <1>b, <2>1, <3>1 DEF IndInv, WorldType, ClockType, PlayerType, GhostType
  <2>4. QueueInv' /\ ProbeInv'
    <3>1. QueueInv'
      BY <1>b, <1>d, <2>1 DEF IndInv, QueueInv
    <3>2. probe = "asked" => \E i \in DOMAIN queue' : queue'[i].kind = "probe"
      BY <1>b, <1>d DEF IndInv, ProbeInv
    <3>3. \A i \in DOMAIN queue' : queue'[i].kind = "probe" =>
            probe = "asked" /\ \A k \in DOMAIN queue' : queue'[k].kind = "probe" => k = i
      BY <1>b DEF IndInv, ProbeInv
    <3> QED BY <2>1, <3>1, <3>2, <3>3 DEF ProbeInv
  <2>5. CapturedInv' /\ ManualInv'
    BY <1>a, <1>b, <2>1 DEF IndInv, CapturedInv, ManualInv
  <2>6. HandOffInv'
    BY <1>a, <1>b, <2>1 DEF IndInv, HandOffInv, ResumeTarget
  <2>7. FlightInv'
    BY <1>a, <1>b, <2>1 DEF IndInv, FlightInv, OneReconnectAtATime, Awaited
  <2> QED BY <2>3, <2>4, <2>5, <2>6, <2>7 DEF IndInv
<1> QED BY <1>c, <1>d

\* A command the actor works on goes one step further or is answered.  The task
\* that waits for the answer is idle then, and no other task is touched.
LEMMA ActorMoves ==
    ASSUME IndInv, job.pc # "none", UNCHANGED <<seq, health, probe, queue>>,
           \/ Answer
           \/ \E to \in {"shutdown", "register", "resume"} : Proceed(to)
    PROVE  /\ RecoveryType' /\ QueueInv' /\ ProbeInv' /\ CapturedInv' /\ FlightInv'
           /\ job' \in Jobs
           /\ task' = task \/ task'.pc = "idle"
           /\ job'.kind = "none" \/ (job'.kind = job.kind /\ job'.seq = job.seq)
<1>a. job \in Jobs /\ job.kind # "none"
  BY IdleType DEF IndInv, PlayerType, QueueInv
<1>b. CASE Answer /\ Awaited(job)
  <2>1. job' = NoJob /\ task' = IdleTask /\ inFlight' = FALSE
    BY <1>b DEF Answer, Awaited
  <2>2. \A i \in DOMAIN queue : ~ Awaited(queue[i])
    BY <1>b DEF IndInv, FlightInv, OneReconnectAtATime
  <2>3. RecoveryType' /\ QueueInv' /\ ProbeInv' /\ CapturedInv'
    BY <2>1, IdleType DEF IndInv, RecoveryType, QueueInv, ProbeInv, CapturedInv
  <2>4. FlightInv'
    BY <2>1, <2>2, IdleType DEF FlightInv, OneReconnectAtATime, Awaited
  <2> QED BY <2>1, <2>3, <2>4, IdleType
<1>c. CASE Answer /\ ~ Awaited(job)
  <2>1. job' = NoJob /\ UNCHANGED <<task, inFlight>>
    BY <1>c DEF Answer, Awaited
  <2>2. RecoveryType' /\ QueueInv' /\ ProbeInv' /\ CapturedInv'
    BY <2>1, IdleType DEF IndInv, RecoveryType, QueueInv, ProbeInv, CapturedInv
  <2>3. FlightInv'
    BY <1>c, <2>1, IdleType DEF IndInv, FlightInv, OneReconnectAtATime, Awaited
  <2> QED BY <2>1, <2>2, <2>3, IdleType
<1>d. ASSUME NEW to \in {"shutdown", "register", "resume"}, Proceed(to)
      PROVE  /\ RecoveryType' /\ QueueInv' /\ ProbeInv' /\ CapturedInv' /\ FlightInv'
             /\ job' \in Jobs /\ task' = task
             /\ job'.kind = job.kind /\ job'.seq = job.seq
  <2>1. /\ job' \in Jobs /\ job'.kind = job.kind /\ job'.seq = job.seq
        /\ job'.awaited = job.awaited /\ UNCHANGED <<task, inFlight>>
    BY <1>a, <1>d, ProceedType DEF Proceed
  <2>2. RecoveryType' /\ QueueInv' /\ ProbeInv' /\ CapturedInv'
    BY <1>a, <2>1 DEF IndInv, RecoveryType, QueueInv, ProbeInv, CapturedInv
  <2>3. FlightInv'
    BY <2>1 DEF IndInv, FlightInv, OneReconnectAtATime, Awaited
  <2> QED BY <2>1, <2>2, <2>3
<1> QED BY <1>b, <1>c, <1>d

\* A guarded command passes its first check only with the current counter, which is not
\* behind the last manual reconnect.
LEMMA ActorBeginInd ==
    ASSUME IndInv, ActorBegin
    PROVE  IndInv'
<1>a. job.pc # "none" /\ UNCHANGED <<world, health, probe, queue, unreported, used, intent>>
  BY DEF ActorBegin, ghosts
<1>b. /\ RecoveryType' /\ QueueInv' /\ ProbeInv' /\ CapturedInv' /\ FlightInv'
      /\ job' \in Jobs
      /\ task' = task \/ task'.pc = "idle"
      /\ job'.kind = "none" \/ (job'.kind = job.kind /\ job'.seq = job.seq)
  <2>1. Answer \/ \E to \in {"shutdown", "register", "resume"} : Proceed(to)
    BY DEF ActorBegin
  <2> QED BY <1>a, <2>1, ActorMoves DEF world
<1>c. connected' \in BOOLEAN /\ manualSeq' \in Nat
  BY DEF IndInv, WorldType, PlayerType, GhostType, ActorBegin, ghosts
<1>1. WorldType' /\ ClockType' /\ PlayerType' /\ GhostType'
  BY <1>a, <1>b, <1>c DEF IndInv, WorldType, ClockType, PlayerType, GhostType, world
<1>2. ManualInv'
  <2>1. job.kind = "auto" /\ job' # NoJob => job.seq = seq
    BY DEF ActorBegin, Guard, StillWanted, Answer
  <2>2. manualSeq' = manualSeq /\ seq' = seq
    BY DEF ActorBegin, ghosts, world
  <2> QED BY <1>b, <2>1, <2>2, IdleType DEF IndInv, ManualInv
<1>3. HandOffInv'
  BY <1>a, <1>b DEF IndInv, HandOffInv, ResumeTarget, world
<1> QED BY <1>b, <1>1, <1>2, <1>3 DEF IndInv

\* The old session is shut down.
LEMMA ActorShutdownInd ==
    ASSUME IndInv, NEW ok \in BOOLEAN, ActorShutdown(ok)
    PROVE  IndInv'
<1>a. job.pc # "none" /\ UNCHANGED <<world, health, probe, queue, unreported, used, intent>>
  BY DEF ActorShutdown, ghosts
<1>b. /\ RecoveryType' /\ QueueInv' /\ ProbeInv' /\ CapturedInv' /\ FlightInv'
      /\ job' \in Jobs
      /\ task' = task \/ task'.pc = "idle"
      /\ job'.kind = "none" \/ (job'.kind = job.kind /\ job'.seq = job.seq)
  <2>1. Answer \/ \E to \in {"shutdown", "register", "resume"} : Proceed(to)
    BY DEF ActorShutdown
  <2> QED BY <1>a, <2>1, ActorMoves DEF world
<1>c. connected' \in BOOLEAN /\ manualSeq' \in Nat
  BY DEF IndInv, WorldType, PlayerType, GhostType, ActorShutdown, ghosts
<1>1. WorldType' /\ ClockType' /\ PlayerType' /\ GhostType'
  BY <1>a, <1>b, <1>c DEF IndInv, WorldType, ClockType, PlayerType, GhostType, world
<1>2. ManualInv'
  BY <1>a, <1>b DEF IndInv, ManualInv, ActorShutdown, ghosts, world
<1>3. HandOffInv'
  BY <1>a, <1>b DEF IndInv, HandOffInv, ResumeTarget, world
<1> QED BY <1>b, <1>1, <1>2, <1>3 DEF IndInv

\* A manual reconnect registers while no automatic one is at work.
LEMMA ActorRegisterInd ==
    ASSUME IndInv, NEW outcome \in {"ok", "failed", "rejected"}, ActorRegister(outcome)
    PROVE  IndInv'
<1>a. job.pc # "none" /\ UNCHANGED <<seq, owns, active, handoff, clock, dropSeen, transfer, health,
                                      probe, queue, unreported, intent>>
  BY DEF ActorRegister
<1>b. /\ RecoveryType' /\ QueueInv' /\ ProbeInv' /\ CapturedInv' /\ FlightInv'
      /\ job' \in Jobs
      /\ task' = task \/ task'.pc = "idle"
      /\ job'.kind = "none" \/ (job'.kind = job.kind /\ job'.seq = job.seq)
  <2>1. Answer \/ \E to \in {"shutdown", "register", "resume"} : Proceed(to)
    BY DEF ActorRegister
  <2> QED BY <1>a, <2>1, ActorMoves
<1>c. connected' \in BOOLEAN /\ manualSeq' \in Nat
  BY DEF IndInv, WorldType, PlayerType, GhostType, ActorRegister
<1>1. WorldType' /\ ClockType' /\ PlayerType' /\ GhostType'
  <2>1. refused \in [BOOLEAN -> Nat] /\ job.resume \in BOOLEAN
    BY DEF IndInv, WorldType, PlayerType, Jobs
  <2>2. refused' \in [BOOLEAN -> Nat]
    BY <2>1 DEF ActorRegister
  <2>3. used' \in [world : Nat, drops : Nat, manual : Nat]
    BY DEF IndInv, WorldType, ActorRegister
  <2> QED BY <1>a, <1>b, <1>c, <2>2, <2>3
          DEF IndInv, WorldType, ClockType, PlayerType, GhostType
<1>2. ManualInv'
  <2>1. seq \in Nat /\ manualSeq \in Nat
    BY DEF IndInv, WorldType, GhostType
  <2> QED BY <1>a, <1>b, <2>1 DEF IndInv, ManualInv, ActorRegister
<1>3. HandOffInv'
  BY <1>a, <1>b DEF IndInv, HandOffInv, ResumeTarget
<1> QED BY <1>b, <1>1, <1>2, <1>3 DEF IndInv

\* Playback is resumed.
LEMMA ActorResumeInd ==
    ASSUME IndInv, ActorResume
    PROVE  IndInv'
<1>a. job.pc # "none" /\ UNCHANGED <<world, health, probe, queue, unreported, used, intent>>
  BY DEF ActorResume, ghosts
<1>b. /\ RecoveryType' /\ QueueInv' /\ ProbeInv' /\ CapturedInv' /\ FlightInv'
      /\ job' \in Jobs
      /\ task' = task \/ task'.pc = "idle"
      /\ job'.kind = "none" \/ (job'.kind = job.kind /\ job'.seq = job.seq)
  <2>1. Answer \/ \E to \in {"shutdown", "register", "resume"} : Proceed(to)
    BY DEF ActorResume
  <2> QED BY <1>a, <2>1, ActorMoves DEF world
<1>c. connected' \in BOOLEAN /\ manualSeq' \in Nat
  BY DEF IndInv, WorldType, PlayerType, GhostType, ActorResume, ghosts
<1>1. WorldType' /\ ClockType' /\ PlayerType' /\ GhostType'
  BY <1>a, <1>b, <1>c DEF IndInv, WorldType, ClockType, PlayerType, GhostType, world
<1>2. ManualInv'
  BY <1>a, <1>b DEF IndInv, ManualInv, ActorResume, ghosts, world
<1>3. HandOffInv'
  BY <1>a, <1>b DEF IndInv, HandOffInv, ResumeTarget, world
<1> QED BY <1>b, <1>1, <1>2, <1>3 DEF IndInv

-----------------------------------------------------------------------------
(* The induction *)

\* It holds when the daemon starts.
LEMMA InitInd == Init => IndInv
<1> SUFFICES ASSUME Init PROVE IndInv
  OBVIOUS
<1>1. ClockType
  <2>1. ASSUME NEW t \in Tracks
        PROVE  ApplyPlayerEvent(
                  SeedFromCache(EmptyClock, [item |-> t, device |-> "own", playing |-> FALSE]),
                  [kind |-> "started", item |-> t], FALSE) \in ClockState
    <3>1. [item |-> t, device |-> "own", playing |-> FALSE] \in Playback
      BY DEF Playback, Devices
    <3>2. [kind |-> "started", item |-> t] \in PlayerEvent
      BY DEF PlayerEvent, Transitions, LoadKinds
    <3> QED BY <3>1, <3>2, SeedType, PlayerEventType
  <2>2. EmptyClock \in ClockState
    BY DEF EmptyClock, ClockState, Devices, Sources
  <2> QED BY <2>1, <2>2 DEF Init, ClockType, PlayingHere
<1>2. WorldType /\ RecoveryType /\ GhostType
  BY IdleType DEF Init, WorldType, RecoveryType, GhostType
<1>3. queue = <<>> /\ queue \in Seq(Jobs) /\ DOMAIN queue = {}
  BY EmptySeq DEF Init
<1>4. PlayerType /\ QueueInv /\ ProbeInv
  BY <1>3, IdleType DEF Init, PlayerType, QueueInv, ProbeInv
<1>5. CapturedInv /\ ManualInv /\ HandOffInv
  BY <1>3, IdleType DEF Init, CapturedInv, ManualInv, HandOffInv
<1>6. FlightInv
  BY <1>3, IdleType DEF Init, FlightInv, OneReconnectAtATime, Awaited
<1> QED BY <1>1, <1>2, <1>4, <1>5, <1>6 DEF IndInv

\* It is about the variables only.
LEMMA StutterInd ==
    ASSUME IndInv, UNCHANGED vars PROVE IndInv'
<1>1. WorldType' /\ ClockType' /\ RecoveryType' /\ PlayerType' /\ GhostType'
  BY DEF IndInv, vars, world, recovery, player, ghosts, WorldType, ClockType, RecoveryType,
         PlayerType, GhostType
<1>2. QueueInv' /\ ProbeInv' /\ FlightInv'
  BY FlightFrame DEF vars, recovery, player
<1>3. CapturedInv' /\ ManualInv' /\ HandOffInv'
  BY DEF IndInv, vars, world, recovery, player, ghosts, CapturedInv, ManualInv, HandOffInv,
         ResumeTarget
<1> QED BY <1>1, <1>2, <1>3 DEF IndInv

\* Every step preserves it.
LEMMA NextInd == IndInv /\ [Next]_vars => IndInv'
<1> SUFFICES ASSUME IndInv, [Next]_vars PROVE IndInv'
  OBVIOUS
<1>1. CASE World
  <2>1. Somewhere \subseteq Playback /\ NothingPlaying \in Playback
    BY DEF Somewhere, NothingPlaying, Playback, Devices
  <2> QED BY <1>1, <2>1, CommandInd, TransferSendInd, TransferDoneInd, PollInd, LoseInd,
             EventReceiveInd, StallInd, ManualReconnectInd, ManualRetryInd
          DEF World
<1>2. CASE Actor
  BY <1>2, ActorTakeInd, ActorBeginInd, ActorShutdownInd, ActorRegisterInd, ActorResumeInd
  DEF Actor
<1>3. CASE UNCHANGED vars
  BY <1>3, StutterInd
<1> QED BY <1>1, <1>2, <1>3, DropDecideInd, ProbeAskInd, ProbeDecideInd, TaskWakeInd,
           TaskTimeoutInd
        DEF Next

-----------------------------------------------------------------------------
(* What the specification guarantees *)

\* The inductive invariant holds in every reachable state.
THEOREM RecoveryInvariance == Spec => []IndInv
BY InitInd, NextInd, PTL DEF Spec

\* Every variable keeps its type, for any number of commands, drops and reconnects.
THEOREM RecoveryTypeCorrect == Spec => []TypeOK
<1>1. IndInv => TypeOK
  BY DEF IndInv, WorldType, ClockType, RecoveryType, PlayerType, GhostType, TypeOK
<1> QED BY <1>1, RecoveryInvariance, PTL

\* The in-flight flag, its task and the one command whose answer is awaited belong
\* together, however many abandoned commands the actor still has.
THEOREM ReconnectsAreSingle == Spec => []OneReconnectAtATime
<1>1. IndInv => OneReconnectAtATime
  BY DEF IndInv, FlightInv
<1> QED BY <1>1, RecoveryInvariance, PTL

\* After a hand-off every automatic reconnect there is fails its guard, whether its
\* task sleeps, its command is queued or the actor is at work on it.
HandOffCancels == intent = "deactivated" =>
    /\ task.pc # "idle" => ~ StillWanted(task.seq)
    /\ job.kind = "auto" => ~ StillWanted(job.seq)
    /\ \A i \in DOMAIN queue : queue[i].kind = "auto" => ~ StillWanted(queue[i].seq)

\* AutomaticReconnectGuard::still_wanted is false for all of them until somebody asks
\* for the device again: the relay bumped the counter, took the activity back and
\* stopped the clock (forward_player_events).
THEOREM HandOffsCancelReconnects == Spec => []HandOffCancels
<1>1. IndInv => HandOffCancels
  <2> SUFFICES ASSUME IndInv, intent = "deactivated" PROVE HandOffCancels
    BY DEF HandOffCancels
  <2>1. task.seq \in Nat /\ job.seq \in Nat
    BY DEF IndInv, RecoveryType, PlayerType, Jobs
  <2> QED BY <2>1, GuardFails, QueueElements DEF HandOffCancels, IndInv, HandOffInv
<1> QED BY <1>1, RecoveryInvariance, PTL

\* No automatic reconnect starts playback after a hand-off.
THEOREM HandOffsAreRespected == Spec => HandOffIsRespected
<1>1. ASSUME IndInv, [Next]_vars, AutomaticResume, intent = "deactivated"
      PROVE  FALSE
  <2>1. job.kind = "auto" /\ job.pc # "resume" /\ job'.pc = "resume" /\ job # NoJob
    BY <1>1, IdleType DEF AutomaticResume
  <2>2. job \in Jobs /\ job.seq \in Nat
    BY <1>1 DEF IndInv, PlayerType, Jobs
  <2>3. CASE \E outcome \in {"ok", "failed", "rejected"} : ActorRegister(outcome)
    <3>1. StillWanted(job.seq)
      BY <2>1, <2>3, IdleType DEF ActorRegister, Answer, Guard
    <3> QED BY <1>1, <2>1, <2>2, <3>1, GuardFails DEF IndInv, HandOffInv
  <2>4. CASE ActorTake \/ ActorBegin \/ ActorResume \/ \E ok \in BOOLEAN : ActorShutdown(ok)
    BY <2>1, <2>2, <2>4, IdleType, ProceedType
    DEF ActorTake, ActorBegin, ActorShutdown, ActorResume, Answer, Proceed
  <2>5. CASE TaskTimeout
    BY <2>1, <2>2, <2>5 DEF TaskTimeout, Jobs
  <2>6. CASE World \/ DropDecide \/ ProbeAsk \/ ProbeDecide \/ TaskWake \/ UNCHANGED vars
    <3>1. UNCHANGED job
      BY <2>6
      DEF World, Command, TransferSend, TransferDone, Poll, Lose, EventReceive, Stall,
          ManualReconnect, ManualRetry, DropDecide, ProbeAsk, ProbeDecide, TaskWake, vars, player
    <3> QED BY <2>1, <3>1
  <2> QED BY <1>1, <2>3, <2>4, <2>5, <2>6 DEF Next, Actor
<1>2. IndInv /\ [Next]_vars => [AutomaticResume => intent # "deactivated"]_vars
  BY <1>1
<1> QED BY <1>2, RecoveryInvariance, PTL DEF Spec, HandOffIsRespected

\* What a manual reconnect registered is never shut down by an older automatic one.
THEOREM ManualReconnectsStand == Spec => ManualReconnectStands
<1>1. ASSUME IndInv, [Next]_vars, job.kind = "auto", connected, ~ connected', job' # job
      PROVE  job.seq >= manualSeq
  <2>1. job.seq \in Nat /\ manualSeq \in Nat
    BY <1>1 DEF IndInv, PlayerType, GhostType, Jobs
  <2>2. CASE \/ \E ok \in BOOLEAN : ActorShutdown(ok)
             \/ \E outcome \in {"ok", "failed", "rejected"} : ActorRegister(outcome)
    BY <1>1, <2>1, <2>2 DEF IndInv, ManualInv, ActorShutdown, ActorRegister
  <2>3. CASE World \/ ActorTake \/ ActorBegin \/ ActorResume
    <3>1. connected' = connected \/ job' = job
      BY <2>3
      DEF World, Command, TransferSend, TransferDone, Poll, Lose, EventReceive, Stall,
          ManualReconnect, ManualRetry, ActorTake, ActorBegin, ActorResume, player
    <3> QED BY <1>1, <3>1
  <2>4. CASE DropDecide \/ ProbeAsk \/ ProbeDecide \/ TaskWake \/ TaskTimeout \/ UNCHANGED vars
    <3>1. connected' = connected
      BY <2>4 DEF DropDecide, ProbeAsk, ProbeDecide, TaskWake, TaskTimeout, vars, player
    <3> QED BY <1>1, <3>1
  <2> QED BY <1>1, <2>2, <2>3, <2>4 DEF Next, Actor
<1>2. IndInv /\ [Next]_vars =>
        [(job.kind = "auto" /\ connected /\ ~ connected' /\ job' # job)
           => job.seq >= manualSeq]_vars
  BY <1>1
<1> QED BY <1>2, RecoveryInvariance, PTL DEF Spec, ManualReconnectStands

\* The health loop waits for an answer exactly while one question is in the queue.
ProbesAreServed ==
    /\ probe = "asked" <=> \E i \in DOMAIN queue : queue[i].kind = "probe"
    /\ \A i, k \in DOMAIN queue : queue[i].kind = "probe" /\ queue[k].kind = "probe" => i = k

\* player_is_connected waits without a limit, and never for nothing: its question is
\* in the queue until the actor answers it, and no answer is left over for the next.
THEOREM ProbesAreAnswered == Spec => []ProbesAreServed
<1>1. IndInv => ProbesAreServed
  BY DEF IndInv, ProbeInv, ProbesAreServed
<1> QED BY <1>1, RecoveryInvariance, PTL
=============================================================================
