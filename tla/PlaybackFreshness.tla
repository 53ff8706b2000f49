------------------------- MODULE PlaybackFreshness -------------------------
(***************************************************************************)
(* The writers of the playback state and what keeps an old snapshot from   *)
(* replacing a newer one.                                                  *)
(*                                                                         *)
(*   - a hot-path command (handlers/playback.rs) bumps mutation_seq, puts  *)
(*     its prediction on the clock, and later, on the transport lane,      *)
(*     executes, takes the transport's ownership and persists its result;  *)
(*   - a poll (sync_playback, spawn_playback_refresh) notes the counters,  *)
(*     reads the provider, and commits on the transport lane: store first, *)
(*     then the clock;                                                     *)
(*   - the relay of player events (forward_player_events) changes the      *)
(*     clock at once, without the lane, and asks the native cache worker   *)
(*     to persist the clock;                                               *)
(*   - the native cache worker (native_playback_cache.rs) persists the     *)
(*     clock's current state on the lane.                                  *)
(*                                                                         *)
(* A step is what runs between two awaits, or between two accesses of      *)
(* shared atomics where the code relies on their order.                    *)
(***************************************************************************)
EXTENDS PlaybackClock, Integers, FiniteSets

CONSTANTS
    Commands,      \* command requests, each sent once
    Polls,         \* poll tasks, each used again and again
    Providers,     \* registered providers with a transport
    Embedded,      \* the one that owns the embedded player; also the default
    HomeOf,        \* the provider whose URI scheme a track has
    Kinds,         \* the command kinds a run looks at
    EventKinds,    \* the player events a run looks at
    Reported,      \* the playbacks with an item a run lets providers report
    MaxEvents,     \* bound: player events and restarts of the daemon
    MaxPolls       \* bound: polls started

\* "shuffle" stands for shuffle and repeat, "direct" for the play of a bookmark or
\* of a notification (BookmarkPlay, NotificationAct), which takes no lane.
AllKinds == {"pause", "resume", "toggle", "play", "next", "previous", "seek",
             "volume", "shuffle", "transfer", "direct"}

PlayKinds == {"play", "direct"}

ASSUME ConstantsAssumption ==
    /\ Embedded \in Providers
    /\ HomeOf \in [Tracks -> Providers]
    /\ Kinds \subseteq AllKinds
    /\ EventKinds \subseteq Transitions \cup OtherKinds
    /\ Reported \subseteq Playback
    /\ MaxEvents \in Nat /\ MaxPolls \in Nat

VARIABLES
    seq,         \* mutation_seq
    owner,       \* active_transport_provider
    active,      \* we_are_active
    handoff,     \* inactive_after_handoff of the event relay
    clock,       \* PlaybackClock
    durable,     \* the latest row of playback_snapshots
    delayed,     \* a row whose writer was cut off and that is still to be inserted
    commands,    \* the tasks of the commands
    polls,       \* the tasks of the polls
    relay,       \* the event the relay is working on
    cache,       \* the native cache worker
    dirty,       \* its watch channel holds an unseen request
    used,        \* [events, polls, restarts] so far, for the bounds
    durableSeq   \* history: the mutation_seq the durable row belongs to

transport == <<owner, active, handoff>>

store == <<durable, durableSeq, delayed>>

native == <<relay, cache, dirty, used>>

vars == <<seq, transport, clock, store, commands, polls, native>>

-----------------------------------------------------------------------------
\* Values.

\* What a provider can report: nothing, or one of its tracks on a device.  Only
\* the owner of the embedded player can report the embedded device.
Reports(p) ==
    {NothingPlaying} \cup
    {pb \in Reported : /\ pb.item # NoTrack
                       /\ HomeOf[pb.item] = p
                       /\ pb.device = "other" \/ (pb.device = "own" /\ p = Embedded)}

NoPlayback == [NothingPlaying EXCEPT !.device = "absent"]

MaybePlayback == Playback \cup {NoPlayback}

NoRow == [pb |-> NoPlayback, seq |-> 0]

\* A command request: its kind, the track of a play, the target of a transfer.
Requests ==
    {r \in [kind : Kinds, item : Tracks \cup {NoTrack}, target : Devices] :
        /\ (r.kind \in PlayKinds) = (r.item # NoTrack)
        /\ (r.kind = "transfer") = (r.target # "none")}

NoRequest == [kind |-> "none", item |-> NoTrack, target |-> "none"]

\* ExpectedPlayback: the items and play states a result may have.
Expectation == [items : SUBSET (Tracks \cup {NoTrack}), playing : SUBSET BOOLEAN]

Anything == [items |-> Tracks \cup {NoTrack}, playing |-> BOOLEAN]

\* "effective" is the kind the transport is asked for: a toggle becomes a pause or
\* a resume; "local" says that the embedded player may carry it; "snap" is the
\* prediction on its way to the clock, or the playback before a transfer.
IdleCommand ==
    [pc |-> "idle", req |-> NoRequest, provider |-> Embedded, effective |-> "none",
     local |-> FALSE, captured |-> 0, applied |-> 0, snap |-> NoPlayback,
     expected |-> Anything, result |-> NoPlayback, healed |-> NoPlayback,
     fast |-> FALSE, watching |-> FALSE]

CommandPCs == {"idle", "routed", "bumped", "predicted", "ready", "executed", "owned",
               "check", "write", "apply", "heal", "done"}

\* A task that ended; a watcher of its fast transport may outlive it.
Ended(cmd) == [IdleCommand EXCEPT !.pc = "done", !.captured = cmd.captured,
                                  !.watching = cmd.watching]

\* "overtaken" is history: something newer happened since the counters were read.
IdlePoll == [pc |-> "idle", seq |-> 0, transition |-> 0, provider |-> Embedded,
             sample |-> NothingPlaying, candidate |-> NothingPlaying,
             overtaken |-> FALSE]

PollPCs == {"idle", "reading", "read", "write", "recheck", "apply"}

IdleRelay == [pc |-> "idle", ev |-> [kind |-> "tick", item |-> NoTrack],
              owns |-> FALSE, foreign |-> FALSE, notify |-> FALSE]

IdleCache == [pc |-> "idle", snap |-> NothingPlaying, seq |-> 0]

-----------------------------------------------------------------------------
\* The transport lane (transport_mutation_lock): who is between its lock and
\* its unlock.

CommandHolds == {"executed", "owned", "check", "write", "apply", "heal"}

PollHolds == {"write", "recheck", "apply"}

UsesLane(cmd) == cmd.req.kind # "direct"

\* Every command of the instance takes the lane.
LaneOnly == "direct" \notin Kinds

LaneFree ==
    /\ \A c \in Commands : commands[c].pc \in CommandHolds => ~ UsesLane(commands[c])
    /\ \A p \in Polls : polls[p].pc \notin PollHolds
    /\ cache.pc # "write"

\* Every poll that has read its counters is overtaken.
Overtake ==
    polls' = [p \in Polls |-> IF polls[p].pc = "idle" THEN polls[p]
                              ELSE [polls[p] EXCEPT !.overtaken = TRUE]]

\* Mutant: the counter is taken down.
Bump_Down == seq' = seq - 1 /\ Overtake

\* bump_mutation_seq
Bump == seq' = seq + 1 /\ Overtake

NoBump == UNCHANGED <<seq, polls>>

\* Mutant: rows are ordered by their insertion, not by the time they carry.
Persist_ByInsertion(pb, revision) ==
    IF PlaybackHasLiveSignal(pb)
    THEN durable' = pb /\ durableSeq' = revision /\ UNCHANGED delayed
    ELSE UNCHANGED store

\* persist_provider_playback stamps a row and inserts it; the latest row by that
\* stamp that is not silent is the one a restart reads, so that a row stamped
\* before it and inserted after it no longer matters.
Persist(pb, revision) ==
    IF PlaybackHasLiveSignal(pb)
    THEN durable' = pb /\ durableSeq' = revision /\ delayed' = NoRow
    ELSE UNCHANGED store

\* set_active_transport_provider without the bump its callers add.
TakeTransport(provider) ==
    /\ owner' = provider
    /\ active' = (active /\ (owner = provider \/ provider = Embedded))

-----------------------------------------------------------------------------
\* Commands.

Audible(snap) == snap.playing /\ snap.device # "none"

\* compute_optimistic_playback: the playback a command predicts from the
\* snapshot it took, or none.  What a "next" shows comes from the cached queue.
Prediction(req, snap, next) ==
    CASE req.kind \in {"pause", "toggle"} /\ snap.playing -> [snap EXCEPT !.playing = FALSE]
      [] req.kind \in {"resume", "toggle"} /\ ~ snap.playing /\ snap.device # "none" ->
            [snap EXCEPT !.playing = TRUE]
      [] req.kind = "play" -> [snap EXCEPT !.item = req.item, !.playing = Audible(snap)]
      [] req.kind = "next" /\ snap.item # NoTrack /\ next # NoTrack ->
            [snap EXCEPT !.item = next, !.playing = Audible(snap)]
      [] req.kind \in {"previous", "seek"} /\ snap.item # NoTrack -> snap
      [] req.kind = "volume" /\ snap.device # "none" -> snap
      [] req.kind = "shuffle" /\ (snap.item # NoTrack \/ snap.device # "none") -> snap
      [] OTHER -> NoPlayback

\* expected_playback_after_command
Expected(req, predicted) ==
    LET known == predicted # NoPlayback
        sameItem == IF known /\ predicted.item # NoTrack THEN {predicted.item}
                    ELSE Tracks \cup {NoTrack}
    IN  CASE req.kind = "pause" -> [items |-> sameItem, playing |-> {FALSE}]
          [] req.kind = "resume" -> [items |-> sameItem, playing |-> {TRUE}]
          [] req.kind = "toggle" /\ known ->
                [items |-> sameItem, playing |-> {predicted.playing}]
          [] req.kind = "play" ->
                [items |-> {req.item},
                 playing |-> IF predicted.playing THEN {TRUE} ELSE BOOLEAN]
          [] req.kind \in {"next", "previous"} /\ known ->
                [Anything EXCEPT !.playing = {predicted.playing}]
          [] req.kind = "seek" /\ known -> [Anything EXCEPT !.items = sameItem]
          [] OTHER -> Anything

\* transport_cmd_for_command_kind, as far as it changes the kind.
Effective(kind, snap) ==
    CASE kind = "toggle" /\ snap.playing -> "pause"
      [] kind = "toggle" /\ ~ snap.playing /\ snap.item # NoTrack -> "resume"
      [] OTHER -> kind

\* local_transport_playback_snapshot: what the embedded path reports.
LocalResult(kind, item, snap) ==
    CASE kind = "pause" -> [snap EXCEPT !.playing = FALSE]
      [] kind = "resume" -> [snap EXCEPT !.playing = TRUE]
      [] kind = "play" -> [snap EXCEPT !.item = item, !.playing = TRUE]
      [] kind \in {"seek", "volume", "shuffle"} -> snap
      [] OTHER -> NoPlayback

\* embedded_transport_allowed: only the load of a track activates the device; any
\* other command needs it to be the active one.  (A load inside a collection needs
\* that too: it is among the cases in which the fast path is skipped.)
EmbeddedAllowed(provider, kind, snap) ==
    /\ provider = Embedded
    /\ kind \notin {"transfer", "toggle", "direct"}
    /\ kind = "play" \/ snap.device = "own"
    /\ kind = "resume" => snap.item # NoTrack

\* PlaybackCommand and DeviceTransfer up to their bump: the command is routed by
\* its URI or to the owner of the transport.
Route(c, req) ==
    LET provider == IF req.kind \in PlayKinds THEN HomeOf[req.item] ELSE owner
        kind == IF provider = Embedded THEN Effective(req.kind, Shown(clock)) ELSE req.kind
    IN  /\ commands[c].pc = "idle"
        /\ commands' = [commands EXCEPT ![c] =
               [IdleCommand EXCEPT
                   !.pc = "routed",
                   !.req = req,
                   !.provider = provider,
                   !.effective = kind,
                   !.local = EmbeddedAllowed(provider, kind, Shown(clock))]]
        /\ UNCHANGED <<seq, transport, clock, store, polls, native>>

\* The bump, whose number the command keeps, and the snapshot that the prediction
\* starts from.  A transfer and a direct play predict nothing.
Dispatch(c, next) ==
    LET cmd == commands[c]
        predicted == Prediction(cmd.req, Shown(clock), next)
    IN  /\ cmd.pc = "routed"
        /\ commands' = [commands EXCEPT ![c] =
               [cmd EXCEPT !.pc = IF cmd.req.kind \in {"transfer", "direct"} THEN "ready"
                                  ELSE "bumped",
                           !.captured = seq + 1,
                           !.applied = seq + 1,
                           !.snap = predicted,
                           !.expected = Expected(cmd.req, predicted)]]
        /\ Bump
        /\ UNCHANGED <<transport, clock, store, native>>

\* After the look-ups of the prediction it goes on the clock, outside the lane.
Predict(c) ==
    LET cmd == commands[c]
    IN  /\ cmd.pc = "bumped"
        /\ commands' = [commands EXCEPT ![c].pc = "predicted", ![c].snap = NoPlayback]
        /\ clock' = IF cmd.snap = NoPlayback THEN clock
                    ELSE ApplyCommandResult(clock, cmd.snap)
        /\ UNCHANGED <<seq, transport, store, polls, native>>

\* apply_fast_transport: the embedded player took the command, or has it and has
\* not answered yet (then a watcher waits for the late answer).
FastTransport(c, late) ==
    LET cmd == commands[c]
    IN  /\ cmd.pc = "predicted"
        /\ cmd.local
        /\ commands' = [commands EXCEPT ![c].pc = "ready",
                                        ![c].result = LocalResult(cmd.effective, cmd.req.item, Shown(clock)),
                                        ![c].fast = TRUE,
                                        ![c].watching = late]
        /\ UNCHANGED <<seq, transport, clock, store, polls, native>>

\* No fast path, or it was not available: the body will execute the command.
SkipFastTransport(c) ==
    /\ commands[c].pc = "predicted"
    /\ commands' = [commands EXCEPT ![c].pc = "ready"]
    /\ UNCHANGED <<seq, transport, clock, store, polls, native>>

\* spawn_fast_transport_ack_watcher: a late failure bumps the counter (and starts
\* a poll, as anything may).
LateAnswer(c, failed) ==
    /\ commands[c].watching
    /\ commands' = [commands EXCEPT ![c].watching = FALSE]
    /\ IF failed THEN Bump ELSE NoBump
    /\ UNCHANGED <<transport, clock, store, native>>

\* The results a body can get: from the fast path the one it has; else what the
\* provider reads back, nothing, or the local snapshot of the embedded path.
Results(cmd) ==
    LET kind == Effective(cmd.effective, Shown(clock))
    IN  IF cmd.fast THEN {cmd.result}
        ELSE Reports(cmd.provider) \cup {NoPlayback} \cup
             {pb \in {LocalResult(kind, cmd.req.item, Shown(clock))} :
                  EmbeddedAllowed(cmd.provider, kind, Shown(clock))}

\* The body, on the lane unless it is a direct play: the command is executed.  An
\* embedded device that is not connected, or that the provider does not find, is
\* reconnected first (reconnect_player), which bumps the counter.
Execute(c, result, reconnects) ==
    LET cmd == commands[c]
    IN  /\ cmd.pc = "ready"
        /\ UsesLane(cmd) => LaneFree
        /\ cmd.req.target = "own" => cmd.provider = Embedded
        /\ reconnects => ~ cmd.fast /\ cmd.provider = Embedded
        /\ commands' = [commands EXCEPT ![c].pc = "executed",
                                        ![c].result = result,
                                        ![c].snap = IF cmd.req.kind = "transfer"
                                                    THEN Shown(clock) ELSE NoPlayback]
        /\ IF reconnects THEN Bump ELSE NoBump
        /\ UNCHANGED <<transport, clock, store, native>>

\* The command failed.  A playback command bumps the counter, so that the polls it
\* starts outrank its own prediction; one that predicted nothing does not.
ExecuteFails(c) ==
    /\ commands[c].pc = "ready"
    /\ ~ commands[c].fast
    /\ UsesLane(commands[c]) => LaneFree
    /\ commands' = [commands EXCEPT ![c] = Ended(@)]
    /\ IF commands[c].req.kind \in {"transfer", "direct"} THEN NoBump ELSE Bump
    /\ UNCHANGED <<transport, clock, store, native>>

\* A playback command makes its provider the owner of the transport; when that
\* changes the owner the command continues under a new sequence number.
SetOwner(c) ==
    LET cmd == commands[c]
    IN  /\ cmd.pc = "executed"
        /\ cmd.req.kind # "transfer"
        /\ TakeTransport(cmd.provider)
        /\ commands' = [commands EXCEPT ![c].pc =
                            IF owner = cmd.provider THEN "check" ELSE "owned"]
        /\ UNCHANGED <<seq, handoff, clock, store, polls, native>>

BumpForOwner(c) ==
    /\ commands[c].pc = "owned"
    /\ commands' = [commands EXCEPT ![c].pc = "check", ![c].applied = seq + 1]
    /\ Bump
    /\ UNCHANGED <<transport, clock, store, native>>

\* A transfer of a playing track whose target did not become active.
Silent(cmd) ==
    /\ cmd.snap.playing
    /\ cmd.snap.item # NoTrack
    /\ cmd.req.target = "other"
    /\ cmd.result.device # "other"

\* A transfer records whether this device stays the target (set_we_are_active),
\* and asserts the track again on a target that is silent.
HandOver(c, reasserted) ==
    LET cmd == commands[c]
    IN  /\ cmd.pc = "executed"
        /\ cmd.req.kind = "transfer"
        /\ reasserted => Silent(cmd)
        /\ active' = (cmd.req.target = "own")
        /\ commands' = [commands EXCEPT ![c].pc = "check",
                            ![c].healed = IF reasserted
                                          THEN [cmd.snap EXCEPT !.device = "other"]
                                          ELSE NoPlayback]
        /\ UNCHANGED <<seq, owner, handoff, clock, store, polls, native>>

\* Where a body goes when it is done with its result.
AfterResult(cmd) ==
    IF cmd.healed # NoPlayback THEN [cmd EXCEPT !.pc = "heal"] ELSE Ended(cmd)

\* persist_command_result: the counter and the expectation are checked once
\* (post_command_playback_matches) ...
CheckResult(c) ==
    LET cmd == commands[c]
        keep == /\ cmd.applied = seq
                /\ cmd.result # NoPlayback
                /\ cmd.result.item \in cmd.expected.items
                /\ cmd.result.playing \in cmd.expected.playing
    IN  /\ cmd.pc = "check"
        /\ commands' = [commands EXCEPT ![c] = IF keep THEN [@ EXCEPT !.pc = "write"]
                                               ELSE AfterResult(@)]
        /\ UNCHANGED <<seq, transport, clock, store, polls, native>>

\* ... then the store is written (cache_playback) ...
WriteResult(c, ok) ==
    LET cmd == commands[c]
    IN  /\ cmd.pc = "write"
        /\ commands' = [commands EXCEPT ![c] = IF ok THEN [@ EXCEPT !.pc = "apply"]
                                               ELSE AfterResult(@)]
        /\ IF ok THEN Persist(cmd.result, cmd.applied) ELSE UNCHANGED store
        /\ UNCHANGED <<seq, transport, clock, polls, native>>

\* ... and the clock follows.
ApplyResult(c) ==
    /\ commands[c].pc = "apply"
    /\ clock' = ApplyCommandResult(clock, commands[c].result)
    /\ commands' = [commands EXCEPT ![c] = AfterResult(@)]
    /\ UNCHANGED <<seq, transport, store, polls, native>>

\* The snapshot of a re-asserted transfer wins over its readback.
Heal(c) ==
    /\ commands[c].pc = "heal"
    /\ clock' = ApplyCommandResult(clock, commands[c].healed)
    /\ commands' = [commands EXCEPT ![c] = Ended(@)]
    /\ UNCHANGED <<seq, transport, store, polls, native>>

\* The task ends at one of its awaits: the request is a replay or was refused, its
\* deadline passed, or the body ran out of time (run_mutation_body).  A row it
\* waits for is stored, lost, or still on its way to the one writing connection.
CutOff(c, row) ==
    LET cmd == commands[c]
    IN  /\ cmd.pc \in {"bumped", "predicted", "ready", "write"}
        /\ row # "lost" => cmd.pc = "write"
        /\ row = "delayed" => delayed = NoRow /\ PlaybackHasLiveSignal(cmd.result)
        /\ commands' = [commands EXCEPT ![c] = Ended(@)]
        /\ CASE row = "stored" -> Persist(cmd.result, cmd.applied)
             [] row = "delayed" -> /\ delayed' = [pb |-> cmd.result, seq |-> cmd.applied]
                                   /\ UNCHANGED <<durable, durableSeq>>
             [] OTHER -> UNCHANGED store
        /\ UNCHANGED <<seq, transport, clock, polls, native>>

\* The row arrives when its writer is long gone and the lane is somebody else's.
DelayedRow ==
    /\ delayed # NoRow
    /\ durable' = delayed.pb
    /\ durableSeq' = delayed.seq
    /\ delayed' = NoRow
    /\ UNCHANGED <<seq, transport, clock, commands, polls, native>>

\* The same while it asserts the track again on a silent target.
CutOffHandOver(c) ==
    /\ commands[c].pc = "executed"
    /\ commands[c].req.kind = "transfer"
    /\ Silent(commands[c])
    /\ active' = FALSE
    /\ commands' = [commands EXCEPT ![c] = Ended(@)]
    /\ UNCHANGED <<seq, owner, handoff, clock, store, polls, native>>

CommandStep(c) ==
    \/ \E req \in Requests : Route(c, req)
    \/ \E next \in Tracks \cup {NoTrack} : Dispatch(c, next)
    \/ Predict(c)
    \/ \E late \in BOOLEAN : FastTransport(c, late)
    \/ SkipFastTransport(c)
    \/ \E failed \in BOOLEAN : LateAnswer(c, failed)
    \/ \E result \in Results(commands[c]), reconnects \in BOOLEAN :
           Execute(c, result, reconnects)
    \/ ExecuteFails(c)
    \/ SetOwner(c)
    \/ BumpForOwner(c)
    \/ \E reasserted \in BOOLEAN : HandOver(c, reasserted)
    \/ CheckResult(c)
    \/ \E ok \in BOOLEAN : WriteResult(c, ok)
    \/ ApplyResult(c)
    \/ Heal(c)
    \/ \E row \in {"stored", "lost", "delayed"} : CutOff(c, row)
    \/ CutOffHandOver(c)

-----------------------------------------------------------------------------
\* Polls.

SetPoll(p, poll) == polls' = [polls EXCEPT ![p] = poll]

\* The counters are read before the provider is asked.
PollStart(p) ==
    /\ polls[p].pc = "idle"
    /\ used.polls < MaxPolls
    /\ used' = [used EXCEPT !.polls = @ + 1]
    /\ SetPoll(p, [IdlePoll EXCEPT !.pc = "reading", !.seq = seq,
                                   !.transition = clock.transition])
    /\ UNCHANGED <<seq, transport, clock, store, commands, relay, cache, dirty>>

\* The provider the poll is for answers, or the read fails and the poll ends.
PollRead(p, provider, sample) ==
    /\ polls[p].pc = "reading"
    /\ SetPoll(p, [polls[p] EXCEPT !.pc = "read", !.provider = provider,
                                   !.sample = sample])
    /\ UNCHANGED <<seq, transport, clock, store, commands, native>>

PollReadFails(p) ==
    /\ polls[p].pc = "reading"
    /\ SetPoll(p, IdlePoll)
    /\ UNCHANGED <<seq, transport, clock, store, commands, native>>

\* Mutant: the command counter is not compared.
MayApplyPlaybackPoll_NoSeq(p) ==
    /\ owner = polls[p].provider
    /\ clock.transition = polls[p].transition

\* may_apply_playback_poll
MayApplyPlaybackPoll(p) ==
    /\ seq = polls[p].seq
    /\ owner = polls[p].provider
    /\ clock.transition = polls[p].transition

\* commit_playback_poll_if_current up to its write: on the lane, the poll is
\* dropped when something newer happened, when its state is older than what our
\* own playing device reported, or when it is an unconfirmed silence.
PollAdmit(p, earlier, confirmed) ==
    LET sample == polls[p].sample
        current == /\ MayApplyPlaybackPoll(p)
                   /\ ~ (/\ owner = Embedded
                         /\ active
                         /\ sample.device = "own"
                         /\ PollPrecedesPlayerTransition(clock, sample, earlier))
    IN  /\ polls[p].pc = "read"
        /\ LaneFree
        /\ clock' = IF current THEN PrepareWebApiPoll(clock, sample) ELSE clock
        /\ SetPoll(p, IF current /\ PollIsPrepared(clock, sample, confirmed)
                      THEN [polls[p] EXCEPT !.pc = "write",
                                            !.candidate = CandidateOf(clock, sample)]
                      ELSE IdlePoll)
        /\ UNCHANGED <<seq, transport, store, commands, native>>

PollWrite(p, ok) ==
    /\ polls[p].pc = "write"
    /\ SetPoll(p, IF ok THEN [polls[p] EXCEPT !.pc = "recheck"] ELSE IdlePoll)
    /\ IF ok THEN Persist(polls[p].candidate, polls[p].seq) ELSE UNCHANGED store
    /\ UNCHANGED <<seq, transport, clock, commands, native>>

PollRecheck(p) ==
    /\ polls[p].pc = "recheck"
    /\ SetPoll(p, IF MayApplyPlaybackPoll(p) THEN [polls[p] EXCEPT !.pc = "apply"]
                  ELSE IdlePoll)
    /\ UNCHANGED <<seq, transport, clock, store, commands, native>>

\* Mutant: native transitions are not compared.
PollIsCurrent_SeqOnly(p) == seq = polls[p].seq

\* apply_playback_poll: the owner, and under the clock's lock both counters, are
\* compared again; there the activity flag follows the device the poll reports.
PollIsCurrent(p) ==
    seq = polls[p].seq /\ clock.transition = polls[p].transition

PollApply(p, older) ==
    LET sample == polls[p].sample
    IN  /\ polls[p].pc = "apply"
        /\ IF owner = polls[p].provider /\ PollIsCurrent(p)
           THEN /\ clock' = ApplyWebApiPoll(clock, sample, older)
                /\ active' = IF sample.device = "none" THEN active
                             ELSE sample.device = "own"
           ELSE UNCHANGED <<clock, active>>
        /\ SetPoll(p, IdlePoll)
        /\ UNCHANGED <<seq, owner, handoff, store, commands, native>>

PollStep(p) ==
    \/ PollStart(p)
    \/ \E provider \in Providers : \E sample \in Reports(provider) :
           PollRead(p, provider, sample)
    \/ PollReadFails(p)
    \/ \E earlier, confirmed \in BOOLEAN : PollAdmit(p, earlier, confirmed)
    \/ \E ok \in BOOLEAN : PollWrite(p, ok)
    \/ PollRecheck(p)
    \/ \E older \in BOOLEAN : PollApply(p, older)

-----------------------------------------------------------------------------
\* The relay of player events (forward_player_events): one event at a time.

Events == {ev \in PlayerEvent : /\ ev.kind \in EventKinds
                                /\ (ev.kind \in LoadKinds) = (ev.item # NoTrack)
                                /\ ev.item # NoTrack => HomeOf[ev.item] = Embedded}

\* Mutant: events queued behind a hand-off count.
EventOwnsTransport_Queued(provider, inactive, ev) == provider = Embedded

\* event_owns_global_transport
EventOwnsTransport(provider, inactive, ev) ==
    provider = Embedded /\ (~ inactive \/ ev.kind = "deactivated")

\* A hand-off revokes the activity at once; an activation ends it.  A start, or a
\* track change while we are active, takes the transport back.  Then the relay
\* decides whether the event is about the playback the clock shows.
EventReceive(ev) ==
    LET handoffNow == (handoff \/ ev.kind = "deactivated") /\ ev.kind # "activated"
        reclaims == /\ ~ handoffNow
                    /\ ev.kind = "started" \/ (ev.kind = "changed" /\ active)
        ownerNow == IF reclaims THEN Embedded ELSE owner
    IN  /\ relay.pc = "idle"
        /\ used.events + used.restarts < MaxEvents
        /\ used' = [used EXCEPT !.events = @ + 1]
        /\ handoff' = handoffNow
        /\ active' = (active /\ ev.kind # "deactivated")
        /\ owner' = ownerNow
        /\ IF ev.kind = "deactivated" \/ ownerNow # owner THEN Bump ELSE NoBump
        /\ relay' = IF ev.kind = "activated" THEN IdleRelay
                    ELSE [IdleRelay EXCEPT
                             !.pc = IF ev.kind = "deactivated" THEN "look" ELSE "apply",
                             !.ev = ev,
                             !.owns = EventOwnsTransport(ownerNow, handoffNow, ev)]
        /\ UNCHANGED <<clock, store, commands, cache, dirty>>

\* The end of a session of ours says nothing about playback on another device.
EventLook ==
    /\ relay.pc = "look"
    /\ relay' = [relay EXCEPT !.pc = "apply", !.foreign = (clock.device = "other")]
    /\ UNCHANGED <<seq, transport, clock, store, commands, polls, cache, dirty, used>>

\* The clock and the activity flag follow, under the clock's lock.
EventApply(drifted) ==
    LET ev == relay.ev
        applies == relay.owns /\ ~ relay.foreign
        moved == applies /\ IsPlaybackTransition(ev)
    IN  /\ relay.pc = "apply"
        /\ relay' = IF relay.owns THEN [relay EXCEPT !.pc = "tail", !.notify = moved]
                    ELSE IdleRelay
        /\ clock' = IF applies THEN ApplyPlayerEvent(clock, ev, drifted) ELSE clock
        /\ active' = IF applies /\ ev.kind \in LoadKinds \cup {"resumed"} THEN TRUE
                     ELSE IF applies /\ ev.kind = "deactivated" THEN FALSE
                     ELSE active
        /\ IF moved THEN Overtake ELSE UNCHANGED polls
        /\ UNCHANGED <<seq, owner, handoff, store, commands, cache, dirty, used>>

\* After the awaits: metadata, the volume of the embedded device, and the request
\* to the native cache worker.
EventTail(enriched) ==
    LET ev == relay.ev
    IN  /\ relay.pc = "tail"
        /\ enriched => ev.kind \in LoadKinds
        /\ clock' = IF enriched THEN EnrichCurrentItem(clock, ev.item)
                    ELSE IF ev.kind = "volume" /\ clock.device # "other"
                    THEN ApplyDeviceVolume(clock) ELSE clock
        /\ dirty' = (dirty \/ relay.notify)
        /\ relay' = IdleRelay
        /\ UNCHANGED <<seq, transport, store, commands, polls, cache, used>>

RelayStep ==
    \/ \E ev \in Events : EventReceive(ev)
    \/ EventLook
    \/ \E drifted \in BOOLEAN : EventApply(drifted)
    \/ \E enriched \in BOOLEAN : EventTail(enriched)

-----------------------------------------------------------------------------
\* The native cache worker (NativePlaybackCache::run).

CacheTake ==
    /\ cache.pc = "idle"
    /\ dirty
    /\ dirty' = FALSE
    /\ cache' = [cache EXCEPT !.pc = "waiting"]
    /\ UNCHANGED <<seq, transport, clock, store, commands, polls, relay, used>>

\* On the lane it takes the clock as it is now, never the event it was woken for;
\* it gives up when another provider owns the transport or the metadata of a
\* stub cannot be read.
CacheSnapshot(readable) ==
    /\ cache.pc = "waiting"
    /\ LaneFree
    /\ cache' = IF owner = Embedded /\ readable
                THEN [pc |-> "write", snap |-> Shown(clock), seq |-> seq]
                ELSE IdleCache
    /\ UNCHANGED <<seq, transport, clock, store, commands, polls, relay, dirty, used>>

CacheWrite(ok) ==
    /\ cache.pc = "write"
    /\ cache' = IdleCache
    /\ IF ok THEN Persist(cache.snap, cache.seq) ELSE UNCHANGED store
    /\ UNCHANGED <<seq, transport, clock, commands, polls, relay, dirty, used>>

CacheStep ==
    \/ CacheTake
    \/ \E readable \in BOOLEAN : CacheSnapshot(readable)
    \/ \E ok \in BOOLEAN : CacheWrite(ok)

-----------------------------------------------------------------------------
\* The daemon stops or crashes and starts again.  Installing the registry makes the
\* default provider the owner (reconcile_active_transport_provider), so that the
\* look at the cached item that follows finds one and returns; the clock is seeded
\* from the store when the row names an item (seed_playback_clock_from_cache).
Restart ==
    /\ used.events + used.restarts < MaxEvents
    /\ used' = [used EXCEPT !.restarts = @ + 1]
    /\ seq' = 0
    /\ owner' = Embedded
    /\ active' = FALSE
    /\ handoff' = FALSE
    /\ clock' = IF durable.item = NoTrack THEN EmptyClock
                ELSE SeedFromCache(EmptyClock, durable)
    /\ commands' = [c \in Commands |-> IF commands[c].pc = "idle" THEN commands[c]
                                       ELSE [IdleCommand EXCEPT !.pc = "done"]]
    /\ polls' = [p \in Polls |-> IdlePoll]
    /\ relay' = IdleRelay
    /\ cache' = IdleCache
    /\ dirty' = FALSE
    /\ durableSeq' = 0
    /\ delayed' = NoRow
    /\ UNCHANGED durable

Init ==
    /\ seq = 0
    /\ owner = Embedded
    /\ active = FALSE
    /\ handoff = FALSE
    /\ clock = EmptyClock
    /\ durable = NothingPlaying
    /\ commands = [c \in Commands |-> IdleCommand]
    /\ polls = [p \in Polls |-> IdlePoll]
    /\ relay = IdleRelay
    /\ cache = IdleCache
    /\ dirty = FALSE
    /\ used = [events |-> 0, polls |-> 0, restarts |-> 0]
    /\ durableSeq = 0
    /\ delayed = NoRow

Next ==
    \/ \E c \in Commands : CommandStep(c)
    \/ \E p \in Polls : PollStep(p)
    \/ RelayStep
    \/ CacheStep
    \/ DelayedRow
    \/ Restart

Spec == Init /\ [][Next]_vars
-----------------------------------------------------------------------------
\* Properties.

\* Every variable has its type; counters are natural numbers.
TypeOK ==
    /\ seq \in Nat
    /\ owner \in Providers
    /\ active \in BOOLEAN
    /\ handoff \in BOOLEAN
    /\ clock \in ClockState
    /\ durable \in Playback
    /\ commands \in
         [Commands -> [pc : CommandPCs, req : Requests \cup {NoRequest},
                       provider : Providers, effective : AllKinds \cup {"none"},
                       local : BOOLEAN, captured : Nat, applied : Nat,
                       snap : MaybePlayback, expected : Expectation,
                       result : MaybePlayback, healed : MaybePlayback,
                       fast : BOOLEAN, watching : BOOLEAN]]
    /\ polls \in [Polls -> [pc : PollPCs, seq : Nat, transition : Nat,
                            provider : Providers, sample : Playback,
                            candidate : Playback, overtaken : BOOLEAN]]
    /\ relay \in [pc : {"idle", "look", "apply", "tail"}, ev : PlayerEvent, owns : BOOLEAN,
                  foreign : BOOLEAN, notify : BOOLEAN]
    /\ cache \in [pc : {"idle", "waiting", "write"}, snap : Playback, seq : Nat]
    /\ dirty \in BOOLEAN
    /\ used \in [events : Nat, polls : Nat, restarts : Nat]
    /\ durableSeq \in Nat
    /\ delayed \in [pb : Playback, seq : Nat] \cup {NoRow}

\* A poll that was in flight when a command was sent, a session of ours ended or
\* the embedded player changed track or play state says what was true before:
\* it changes neither the clock nor the activity flag, however late it applies
\* (PollStart to PollApply against bump_mutation_seq and the transition count).
OvertakenPollIsInert ==
    [][\A p \in Polls :
          (polls[p].overtaken /\ polls[p].pc = "apply" /\ polls'[p].pc = "idle"
             /\ used' = used)
          => UNCHANGED <<clock, active>>]_vars

\* While the daemon runs, the row a restart would read never goes back to an
\* older command epoch: a write that was admitted before a bump but reaches the
\* store after it is followed, never preceded, by the newer command's row
\* (commit_playback_poll_if_current on the transport lane), and a row that arrives
\* after its writer was cut off replaces none that was stored since.  It needs
\* LaneOnly.
DurableNeverGoesBack ==
    [][used'.restarts = used.restarts => durableSeq' >= durableSeq]_vars

\* Between a writer's row and the clock update that goes with it, no other writer
\* gets its row in, nor does a row of a writer that was cut off arrive: what the
\* writer is about to show is what a restart would read.  It needs LaneOnly as well.
CommittedRowStands ==
    /\ \A p \in Polls :
          (/\ polls[p].pc \in {"recheck", "apply"}
           /\ PlaybackHasLiveSignal(polls[p].candidate)) => durable = polls[p].candidate
    /\ \A c \in Commands :
          (/\ commands[c].pc = "apply"
           /\ PlaybackHasLiveSignal(commands[c].result)) => durable = commands[c].result

\* After a hand-off to another device, the events still queued by the embedded
\* player neither take the transport back, nor mark us active, nor put a track on
\* the clock or set it playing, until an activation (inactive_after_handoff).
HandOffHolds ==
    [][(handoff /\ handoff' /\ relay' # relay) =>
          /\ owner' = owner
          /\ active' => active
          /\ clock'.item = clock.item
          /\ clock'.playing => clock.playing]_vars
=============================================================================
