--------------------------- MODULE PlayerRecovery ---------------------------
(***************************************************************************)
(* How the daemon brings the embedded player's session back, and when it   *)
(* must not (state.rs).                                                    *)
(*                                                                         *)
(* A session can drop with an event, die silently (the health loop finds   *)
(* out) or stay connected without sound (the stall watchdog).  Each may    *)
(* schedule one automatic reconnect: a task that sleeps, checks its guard  *)
(* and sends a command to the player actor, which checks the guard again   *)
(* before each of its three calls.  A reconnect the user asks for has no   *)
(* guard.  Commands, transfers, polls and the player's own events change   *)
(* what the guard reads; they are one step here, PlaybackFreshness has     *)
(* their insides.                                                          *)
(***************************************************************************)
EXTENDS PlaybackClock, Integers, Sequences

CONSTANTS
    GiveUpAfter,   \* PLAYER_RECONNECT_GIVE_UP_AFTER
    MaxWorld,      \* bound: steps of the user, the provider and other devices
    MaxDrops,      \* bound: sessions lost and credentials rejected
    MaxManual      \* bound: reconnects the user asks for

ASSUME BoundsAssumption ==
    /\ GiveUpAfter \in Nat \ {0}
    /\ MaxWorld \in Nat /\ MaxDrops \in Nat /\ MaxManual \in Nat

VARIABLES
    seq,        \* mutation_seq
    owns,       \* embedded_owns_global_transport()
    active,     \* we_are_active
    handoff,    \* inactive_after_handoff of the event relay
    clock,      \* PlaybackClock
    dropSeen,   \* the relay is working on a drop of a session that was ours
    connected,  \* the player's session
    unreported, \* a lost session whose event is still to come
    health,     \* consecutive_failures (capped) and gave_up
    inFlight,   \* reconnect_in_flight
    task,       \* the automatic reconnect task
    queue,      \* commands waiting for the player actor
    job,        \* the command the actor works on
    probe,      \* the health loop
    transfer,   \* a transfer between its bump and its end: its target
    refused,    \* manual reconnects whose credentials were rejected, by "resume"
    used,       \* [world, drops, manual] so far, for the bounds
    intent,     \* history: where playback was last seen or asked to be
    manualSeq   \* history: mutation_seq when a manual reconnect last registered

world == <<seq, owns, active, handoff, clock, dropSeen, transfer, refused>>

recovery == <<health, inFlight, task, probe>>

player == <<connected, unreported, queue, job>>

ghosts == <<intent, manualSeq>>

vars == <<world, recovery, player, used, ghosts>>

-----------------------------------------------------------------------------
\* Values and decisions.

IdleTask == [pc |-> "idle", seq |-> 0, resume |-> FALSE]

NoJob == [kind |-> "none", pc |-> "none", seq |-> 0, resume |-> FALSE, awaited |-> FALSE]

Job(kind, capturedSeq, resume) ==
    [kind |-> kind, pc |-> "begin", seq |-> capturedSeq, resume |-> resume, awaited |-> TRUE]

Jobs == [kind : {"none", "auto", "manual", "retry", "probe"},
         pc : {"none", "begin", "shutdown", "register", "resume"},
         seq : Nat, resume : BOOLEAN, awaited : BOOLEAN]

\* A health record without failures.
Healthy == [failures |-> 0, gaveUp |-> FALSE]

\* resume_target_after_drop: there is a track to resume on our device, or on none.
ResumeTarget(clk) == clk.playing /\ clk.item # NoTrack /\ clk.device # "other"

\* Mutant: a track that waits to be resumed does not count.
WantsDevice_ActiveOnly == owns /\ active

\* we_want_device in probe_player_health: we are the active device, or a track of
\* ours was cut off.
WantsDevice == owns /\ (active \/ ResumeTarget(clock))

\* Mutant: only the device the clock shows is compared.
StillWanted_DeviceOnly(capturedSeq) == clock.device # "other"

\* Mutant: the command counter is not compared.
StillWanted_NoSeq(capturedSeq) ==
    clock.device # "other" /\ (active \/ ResumeTarget(clock))

\* AutomaticReconnectGuard::still_wanted
StillWanted(capturedSeq) ==
    /\ seq = capturedSeq
    /\ clock.device # "other"
    /\ active \/ ResumeTarget(clock)

\* should_auto_reconnect_player; the count is the one before this failure.
ShouldAutoReconnect(up, wanted, failuresBefore) ==
    ~ up /\ wanted /\ ~ inFlight /\ failuresBefore < GiveUpAfter

\* Mutant: a task is started although the flag was already set.
Schedule_Anyway(resume) ==
    /\ inFlight' = TRUE
    /\ task' = [pc |-> "sleeping", seq |-> seq, resume |-> resume]

\* schedule_player_reconnect up to its sleep: one task at a time.
Schedule(resume) ==
    /\ inFlight' = TRUE
    /\ task' = IF inFlight THEN task
               ELSE [pc |-> "sleeping", seq |-> seq, resume |-> resume]

\* Mutant: the count is cleared and the give-up stays.
ResetGiveUp_KeepsFlag == health' = [health EXCEPT !.failures = 0]

\* reset_give_up: the health loop starts again from nothing.
ResetGiveUp == health' = [health EXCEPT !.failures = 0, !.gaveUp = FALSE]

\* set_we_are_active and report_active_device_transition: becoming active forgives
\* a prior give-up.
Activity(nowActive) ==
    /\ active' = nowActive
    /\ IF nowActive /\ ~ active THEN ResetGiveUp ELSE UNCHANGED health

WorldStep ==
    /\ used.world < MaxWorld
    /\ used' = [used EXCEPT !.world = @ + 1]

-----------------------------------------------------------------------------
\* What the user, the provider and other devices do.

Somewhere == {pb \in Playback : pb.item # NoTrack /\ pb.device # "none"}

\* A playback command: its bump, its owner and its playback on the clock.
Command(pb, mine) ==
    /\ WorldStep
    /\ mine \/ pb.device = "other"
    /\ seq' = seq + 1
    /\ owns' = mine
    /\ active' = (active /\ mine)
    /\ clock' = ApplyCommandResult(clock, pb)
    /\ intent' = IF mine /\ pb.device = "own" THEN "asked"
                 ELSE IF intent = "asked" THEN "moved"
                 ELSE intent
    /\ UNCHANGED <<handoff, dropSeen, transfer, refused, recovery, player, manualSeq>>

\* A transfer bumps when it is sent ...
TransferSend(target) ==
    /\ WorldStep
    /\ transfer = "none"
    /\ owns
    /\ seq' = seq + 1
    /\ transfer' = target
    /\ UNCHANGED <<owns, active, handoff, clock, dropSeen, refused, recovery, player, ghosts>>

\* ... and when the provider took it, it sets the activity flag; the playback the
\* provider reads back can still be the one before.
TransferDone(pb) ==
    /\ transfer # "none"
    /\ transfer' = "none"
    /\ Activity(transfer = "own")
    /\ clock' = IF pb = NothingPlaying THEN clock ELSE ApplyCommandResult(clock, pb)
    /\ intent' = IF transfer = "own" THEN "asked" ELSE "moved"
    /\ UNCHANGED <<seq, owns, handoff, dropSeen, refused, inFlight, task, probe, player, used,
                   manualSeq>>

\* A poll that is still current; "older" and "confirmed" as in PlaybackClock.
Poll(pb, older, confirmed) ==
    /\ WorldStep
    /\ owns
    /\ clock' = IF PollIsPrepared(clock, pb, confirmed) THEN ApplyWebApiPoll(clock, pb, older)
                ELSE PrepareWebApiPoll(clock, pb)
    /\ Activity(IF pb.device = "none" THEN active ELSE pb.device = "own")
    /\ intent' = IF pb.device = "own" THEN "asked"
                 ELSE IF pb.device = "other" /\ intent = "asked" THEN "moved"
                 ELSE intent
    /\ UNCHANGED <<seq, owns, handoff, dropSeen, transfer, refused, inFlight, task, probe, player,
                   manualSeq>>

\* The session is lost: with an event to come, or silently.
Lose(reported) ==
    /\ connected
    /\ used.drops < MaxDrops
    /\ used' = [used EXCEPT !.drops = @ + 1]
    /\ connected' = FALSE
    /\ unreported' = reported
    /\ UNCHANGED <<world, recovery, queue, job, ghosts>>

-----------------------------------------------------------------------------
\* The event relay (forward_player_events), as far as recovery depends on it.

\* The part without an await: a hand-off revokes the activity and bumps the
\* counter, a start takes the transport back, and the clock follows.
EventReceive(kind, track) ==
    LET handoffNow == (handoff \/ kind = "deactivated") /\ kind # "activated"
        ownsNow == owns \/ (kind = "started" /\ ~ handoffNow)
        ours == ownsNow /\ (~ handoffNow \/ kind = "deactivated")
        applies == ours /\ ~ (kind = "deactivated" /\ clock.device = "other")
        item == IF kind = "started" THEN track ELSE NoTrack
    IN  /\ ~ dropSeen
        /\ IF kind = "dropped" THEN unreported /\ UNCHANGED used ELSE WorldStep
        /\ unreported' = (unreported /\ kind # "dropped")
        /\ handoff' = handoffNow
        /\ owns' = ownsNow
        /\ seq' = IF kind = "deactivated" \/ ownsNow # owns THEN seq + 1 ELSE seq
        /\ clock' = IF applies THEN ApplyPlayerEvent(clock, [kind |-> kind, item |-> item], FALSE)
                    ELSE clock
        /\ active' = CASE kind = "deactivated" -> FALSE
                       [] kind = "started" /\ ours -> TRUE
                       [] OTHER -> active
        /\ dropSeen' = (ours /\ kind = "dropped")
        /\ intent' = CASE kind = "deactivated" -> "deactivated"
                       [] kind = "activated" -> "asked"
                       [] OTHER -> intent
        /\ UNCHANGED <<transfer, refused, recovery, connected, queue, job, manualSeq>>

\* After the awaits a drop schedules a reconnect when the device is still wanted.
DropDecide ==
    /\ dropSeen
    /\ dropSeen' = FALSE
    /\ IF active \/ ResumeTarget(clock) THEN Schedule(ResumeTarget(clock))
       ELSE UNCHANGED <<inFlight, task>>
    /\ UNCHANGED <<seq, owns, active, handoff, clock, transfer, refused, health, probe, player,
                   used, ghosts>>

-----------------------------------------------------------------------------
\* The health loop (probe_player_health) and the stall watchdog.

\* The question goes through the player actor, behind its other commands.
ProbeAsk ==
    /\ probe = "idle"
    /\ probe' = "asked"
    /\ queue' = Append(queue, Job("probe", 0, FALSE))
    /\ UNCHANGED <<world, health, inFlight, task, connected, unreported, job, used, ghosts>>

ProbeDecide ==
    LET up == probe = "up"
        resume == owns /\ ResumeTarget(clock)
        wanted == WantsDevice
        \* the count is capped: from the limit on every value decides alike
        failures == IF up THEN 0
                    ELSE IF health.failures < GiveUpAfter THEN health.failures + 1
                    ELSE health.failures
        reconnect == ShouldAutoReconnect(up, wanted, health.failures)
    IN  /\ probe \in {"up", "down"}
        /\ probe' = "idle"
        /\ health' = [failures |-> failures,
                      gaveUp |-> /\ ~ up
                                 /\ \/ health.gaveUp
                                    \/ ~ reconnect /\ wanted /\ failures >= GiveUpAfter]
        /\ IF reconnect THEN Schedule(resume) ELSE UNCHANGED <<inFlight, task>>
        /\ UNCHANGED <<world, player, used, ghosts>>

\* handle_audio_stall: the track to resume is noted before the clock is stopped.
Stall ==
    /\ WorldStep
    /\ owns
    /\ clock.playing
    /\ clock' = MarkAudioStalled(clock)
    /\ IF ~ inFlight /\ (active \/ ResumeTarget(clock)) THEN Schedule(ResumeTarget(clock))
       ELSE UNCHANGED <<inFlight, task>>
    /\ UNCHANGED <<seq, owns, active, handoff, dropSeen, transfer, refused, health, probe, player,
                   ghosts>>

-----------------------------------------------------------------------------
\* The automatic reconnect task (schedule_player_reconnect after its sleep).

\* Mutant: the flag stays set when the guard cancels the reconnect.
TaskWake_Leaks ==
    LET go == StillWanted(task.seq)
    IN  /\ task.pc = "sleeping"
        /\ task' = IF go THEN [task EXCEPT !.pc = "waiting"] ELSE IdleTask
        /\ queue' = IF go THEN Append(queue, Job("auto", task.seq, task.resume)) ELSE queue
        /\ UNCHANGED <<world, health, inFlight, probe, connected, unreported, job, used, ghosts>>

\* After the delay: give up and release the flag, or send the command and wait.
TaskWake ==
    LET go == StillWanted(task.seq)
    IN  /\ task.pc = "sleeping"
        /\ task' = IF go THEN [task EXCEPT !.pc = "waiting"] ELSE IdleTask
        /\ inFlight' = go
        /\ queue' = IF go THEN Append(queue, Job("auto", task.seq, task.resume)) ELSE queue
        /\ UNCHANGED <<world, health, probe, connected, unreported, job, used, ghosts>>

\* The task waits ten seconds.  Its command stays with the actor.
TaskTimeout ==
    /\ task.pc = "waiting"
    /\ task' = IdleTask
    /\ inFlight' = FALSE
    /\ queue' = [i \in DOMAIN queue |->
                    IF queue[i].kind = "auto" THEN [queue[i] EXCEPT !.awaited = FALSE]
                    ELSE queue[i]]
    /\ job' = IF job.kind = "auto" THEN [job EXCEPT !.awaited = FALSE] ELSE job
    /\ UNCHANGED <<world, health, probe, connected, unreported, used, ghosts>>

\* reconnect_player: the give-up is forgiven, the counter bumped, the command sent.
ManualReconnect ==
    /\ used.manual < MaxManual
    /\ used' = [used EXCEPT !.manual = @ + 1]
    /\ ResetGiveUp
    /\ seq' = seq + 1
    /\ queue' = Append(queue, Job("manual", 0, ResumeTarget(clock)))
    /\ intent' = "asked"
    /\ UNCHANGED <<owns, active, handoff, clock, dropSeen, transfer, refused, inFlight, task,
                   probe, connected, unreported, job, manualSeq>>

\* recover_player_auth_rejection: with fresh credentials the command is sent once
\* more, behind a bump of its own; otherwise the request fails.
ManualRetry(resume, refreshed) ==
    /\ refused[resume] > 0
    /\ refused' = [refused EXCEPT ![resume] = @ - 1]
    /\ IF refreshed
       THEN seq' = seq + 1 /\ queue' = Append(queue, Job("retry", 0, resume))
       ELSE UNCHANGED <<seq, queue>>
    /\ UNCHANGED <<owns, active, handoff, clock, dropSeen, transfer, recovery, connected,
                   unreported, job, used, ghosts>>

-----------------------------------------------------------------------------
\* The player actor (spawn_player_actor): one command at a time.

\* The guard of an automatic reconnect; other commands have none.
Guard == job.kind = "auto" => StillWanted(job.seq)

\* The answer ends the task that waits for it.
Answer ==
    /\ job' = NoJob
    /\ IF job.kind = "auto" /\ job.awaited
       THEN task' = IdleTask /\ inFlight' = FALSE
       ELSE UNCHANGED <<task, inFlight>>

Proceed(to) ==
    /\ job' = [job EXCEPT !.pc = to]
    /\ UNCHANGED <<task, inFlight>>

\* The next command: an IsConnected is answered at once.
ActorTake ==
    /\ job = NoJob
    /\ queue # <<>>
    /\ queue' = Tail(queue)
    /\ IF Head(queue).kind = "probe"
       THEN /\ probe' = IF connected THEN "up" ELSE "down"
            /\ UNCHANGED job
       ELSE job' = Head(queue) /\ UNCHANGED probe
    /\ UNCHANGED <<world, health, inFlight, task, connected, unreported, used, ghosts>>

ActorBegin ==
    /\ job.pc = "begin"
    /\ IF Guard THEN Proceed("shutdown") ELSE Answer
    /\ UNCHANGED <<world, health, probe, connected, unreported, queue, used, ghosts>>

\* shutdown_for_reconnect returned: its backend gave the session up before it could fail.
ActorShutdown(ok) ==
    /\ job.pc = "shutdown"
    /\ connected' = FALSE
    /\ IF ok /\ Guard THEN Proceed("register") ELSE Answer
    /\ UNCHANGED <<world, health, probe, unreported, queue, used, ghosts>>

\* register_device returned.  Rejected credentials are a failure like any other for
\* the actor; only the request that waits for a manual reconnect tells them apart.
ActorRegister(outcome) ==
    LET ok == outcome = "ok"
        rejected == outcome = "rejected"
    IN  /\ job.pc = "register"
        /\ rejected => job.kind = "manual" /\ used.drops < MaxDrops
        /\ connected' = ok
        /\ IF ok /\ Guard /\ job.resume THEN Proceed("resume") ELSE Answer
        /\ manualSeq' = IF ok /\ job.kind \in {"manual", "retry"} THEN seq ELSE manualSeq
        /\ refused' = IF rejected THEN [refused EXCEPT ![job.resume] = @ + 1] ELSE refused
        /\ used' = IF rejected THEN [used EXCEPT !.drops = @ + 1] ELSE used
        /\ UNCHANGED <<seq, owns, active, handoff, clock, dropSeen, transfer, health, probe,
                       unreported, queue, intent>>

\* resume_after_reconnect returned: the player plays, and its events say so.
ActorResume ==
    /\ job.pc = "resume"
    /\ Answer
    /\ UNCHANGED <<world, health, probe, connected, unreported, queue, used, ghosts>>

-----------------------------------------------------------------------------
\* A track on the embedded device, as its event left the clock.
PlayingHere ==
    {ApplyPlayerEvent(SeedFromCache(EmptyClock, [item |-> t, device |-> "own", playing |-> FALSE]),
                      [kind |-> "started", item |-> t], FALSE) : t \in Tracks}

\* A daemon at rest: nothing is playing, or a track is on our device.
Init ==
    /\ seq = 0
    /\ owns = TRUE
    /\ \/ active = FALSE /\ clock = EmptyClock
       \/ active = TRUE /\ clock \in PlayingHere
    /\ handoff = FALSE
    /\ dropSeen = FALSE
    /\ connected = TRUE
    /\ unreported = FALSE
    /\ health = Healthy
    /\ inFlight = FALSE
    /\ task = IdleTask
    /\ queue = <<>>
    /\ job = NoJob
    /\ probe = "idle"
    /\ transfer = "none"
    /\ refused = [resume \in BOOLEAN |-> 0]
    /\ used = [world |-> 0, drops |-> 0, manual |-> 0]
    /\ intent = "asked"
    /\ manualSeq = 0

World ==
    \/ \E pb \in Somewhere, mine \in BOOLEAN : Command(pb, mine)
    \/ \E target \in {"own", "other"} : TransferSend(target)
    \/ \E pb \in Somewhere \cup {NothingPlaying} : TransferDone(pb)
    \/ \E pb \in Somewhere \cup {NothingPlaying}, older, confirmed \in BOOLEAN :
           Poll(pb, older, confirmed)
    \/ \E reported \in BOOLEAN : Lose(reported)
    \/ \E kind \in {"started", "paused", "deactivated", "activated", "dropped"},
          track \in Tracks : EventReceive(kind, track)
    \/ Stall
    \/ ManualReconnect
    \/ \E resume, refreshed \in BOOLEAN : ManualRetry(resume, refreshed)

Actor ==
    \/ ActorTake
    \/ ActorBegin
    \/ \E ok \in BOOLEAN : ActorShutdown(ok)
    \/ \E outcome \in {"ok", "failed", "rejected"} : ActorRegister(outcome)
    \/ ActorResume

Next ==
    \/ World
    \/ DropDecide
    \/ ProbeAsk
    \/ ProbeDecide
    \/ TaskWake
    \/ TaskTimeout
    \/ Actor

Spec == Init /\ [][Next]_vars

\* The health loop ticks every minute, the task's sleep ends, and the actor's calls
\* return (the backend bounds them); nothing is assumed about the world.
Fairness ==
    /\ WF_vars(DropDecide)
    /\ WF_vars(ProbeAsk)
    /\ WF_vars(ProbeDecide)
    /\ WF_vars(TaskWake)
    /\ WF_vars(TaskTimeout)
    /\ WF_vars(Actor)

FairSpec == Spec /\ Fairness

-----------------------------------------------------------------------------
\* Properties.

\* Every variable has its type, counters are natural numbers, and a give-up stands only
\* with the count that justifies it: reset_give_up takes back both or neither.
TypeOK ==
    /\ seq \in Nat
    /\ owns \in BOOLEAN /\ active \in BOOLEAN /\ handoff \in BOOLEAN
    /\ clock \in ClockState
    /\ dropSeen \in BOOLEAN
    /\ connected \in BOOLEAN /\ unreported \in BOOLEAN
    /\ health \in [failures : Nat, gaveUp : BOOLEAN]
    /\ health.gaveUp => health.failures >= GiveUpAfter
    /\ inFlight \in BOOLEAN
    /\ task \in [pc : {"idle", "sleeping", "waiting"}, seq : Nat, resume : BOOLEAN]
    /\ queue \in Seq(Jobs)
    /\ job \in Jobs
    /\ probe \in {"idle", "asked", "up", "down"}
    /\ transfer \in {"none", "own", "other"}
    /\ refused \in [BOOLEAN -> Nat]
    /\ used \in [world : Nat, drops : Nat, manual : Nat]
    /\ intent \in {"asked", "deactivated", "moved"}
    /\ manualSeq \in Nat

\* The answer to an automatic reconnect that somebody waits for.
Awaited(command) == command.kind = "auto" /\ command.awaited

\* reconnect_in_flight is set exactly while its task exists, and a task that waits
\* has exactly one command with the actor, the one with its own captured counter,
\* although commands of tasks that timed out can still be queued beside it.  So no
\* answer releases the flag of another reconnect, and no task waits for nothing.
OneReconnectAtATime ==
    /\ inFlight <=> task.pc # "idle"
    /\ Awaited(job) => task.pc = "waiting" /\ task.seq = job.seq
    /\ \A i \in DOMAIN queue : Awaited(queue[i]) =>
           /\ task.pc = "waiting" /\ task.seq = queue[i].seq
           /\ ~ Awaited(job)
           /\ \A k \in DOMAIN queue : Awaited(queue[k]) => k = i
    /\ task.pc = "waiting" => Awaited(job) \/ \E i \in DOMAIN queue : Awaited(queue[i])

\* An automatic reconnect goes on to start playback.
AutomaticResume == job.kind = "auto" /\ job.pc # "resume" /\ job'.pc = "resume"

\* After the player said that the session was handed to another device, and until
\* something asks for this one again, no automatic reconnect starts playback here,
\* whichever of the drop, the health loop and the stall watchdog scheduled it and
\* however long it slept or queued (AutomaticReconnectGuard).
HandOffIsRespected == [][AutomaticResume => intent # "deactivated"]_vars

\* A session that a manual reconnect registered is not shut down by an automatic
\* reconnect that was scheduled before (reconnect_player bumps the counter first,
\* "so queued automatic recovery is stale").
ManualReconnectStands ==
    [][(job.kind = "auto" /\ connected /\ ~ connected' /\ job' # job) => job.seq >= manualSeq]_vars

\* reconnect_in_flight is always released: by the guard's refusal, the actor's
\* answer or the ten second limit.  A flag that stays set would keep every later
\* automatic reconnect from being scheduled.
ReconnectSettles == inFlight ~> ~ inFlight

Wanted == owns /\ (active \/ ResumeTarget(clock))

\* While the device is wanted, a lost session comes back, reported by an event or
\* not, or the health loop gives up after its attempts.
Recovers == (~ connected /\ Wanted) ~> (connected \/ health.gaveUp \/ ~ Wanted)
=============================================================================
