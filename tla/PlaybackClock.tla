---------------------------- MODULE PlaybackClock ----------------------------
(***************************************************************************)
(* The daemon's playback clock (clock.rs): what is playing, where, and     *)
(* which source said so.  The module has no variables: each operator is    *)
(* what one method does to the clock's state under its write lock.         *)
(*                                                                         *)
(* A playback is an item, the device it plays on and whether it plays.     *)
(* The device is told apart only as far as the code does: "own" is the     *)
(* daemon's embedded device, "other" any other device.  Progress, speed,   *)
(* shuffle, repeat and metadata are left out, and the two time comparisons *)
(* (the drift threshold and the confirmation of an empty poll) arrive as   *)
(* parameters: their outcome depends on how long the steps around them     *)
(* take, which nothing bounds.                                             *)
(***************************************************************************)
EXTENDS Naturals

CONSTANTS Tracks, NoTrack

ASSUME NoTrackAssumption == NoTrack \notin Tracks

Devices == {"own", "other", "none"}

Sources == {"event", "command", "poll", "cache", "fallback"}

Playback == [item : Tracks \cup {NoTrack}, device : Devices, playing : BOOLEAN]

\* "empty" is first_empty_web_api_poll_ms being set; "transition" counts the
\* native transitions; player_transition_at_ms is set exactly once it is not 0.
ClockState ==
    [item : Tracks \cup {NoTrack}, device : Devices, playing : BOOLEAN,
     source : Sources, empty : BOOLEAN, transition : Nat]

NothingPlaying == [item |-> NoTrack, device |-> "none", playing |-> FALSE]

EmptyClock ==
    [item |-> NoTrack, device |-> "none", playing |-> FALSE,
     source |-> "fallback", empty |-> FALSE, transition |-> 0]

\* snapshot()
Shown(clk) == [item |-> clk.item, device |-> clk.device, playing |-> clk.playing]

PlaybackHasLiveSignal(pb) == pb.item # NoTrack \/ pb.device # "none" \/ pb.playing

ClockHasLiveSignal(clk) ==
    \/ clk.playing
    \/ clk.device # "none"
    \/ clk.item # NoTrack /\ clk.source # "fallback"

\* seed_from_cache: the clock of a daemon that has just started.
SeedFromCache(clk, pb) ==
    [clk EXCEPT !.item = pb.item, !.device = pb.device, !.playing = pb.playing,
                !.source = "cache", !.empty = FALSE]

(***************************************************************************)
(* Events of the embedded player.  "tick" is a PositionTick, "volume" a    *)
(* VolumeChanged, "dropped" a SessionDisconnected or Failed.               *)
(***************************************************************************)
LoadKinds == {"started", "changed"}

Transitions == LoadKinds \cup {"paused", "resumed", "deactivated", "ended"}

OtherKinds == {"activated", "tick", "volume", "dropped"}

PlayerEvent == [kind : Transitions \cup OtherKinds, item : Tracks \cup {NoTrack}]

IsPlaybackTransition(ev) == ev.kind \in Transitions

\* apply_player_event_with_activity, without the activity flag of its caller.
\* drifted: a tick further than the threshold from the extrapolated position.
ApplyPlayerEvent(clk, ev, drifted) ==
    IF IsPlaybackTransition(ev)
    THEN [clk EXCEPT !.item = IF ev.kind \in LoadKinds THEN ev.item ELSE @,
                     !.playing = ev.kind \in LoadKinds \cup {"resumed"},
                     !.source = "event",
                     !.empty = FALSE,
                     !.transition = @ + 1]
    ELSE IF ev.kind = "tick"
    THEN [clk EXCEPT !.source = IF drifted THEN "event" ELSE @, !.empty = FALSE]
    ELSE clk

\* mark_audio_stalled: progress and play state freeze; no transition is counted.
MarkAudioStalled(clk) ==
    IF clk.playing
    THEN [clk EXCEPT !.playing = FALSE, !.source = "event", !.empty = FALSE]
    ELSE clk

\* enrich_current_item, when it adds metadata to the item it is about.
EnrichCurrentItem(clk, item) ==
    IF clk.item = item THEN [clk EXCEPT !.empty = FALSE] ELSE clk

\* apply_device_volume: the embedded device is seeded when none is known.
ApplyDeviceVolume(clk) ==
    [clk EXCEPT !.device = IF @ = "none" THEN "own" ELSE @, !.empty = FALSE]

\* apply_command_result: for the track the audio pipeline reports itself, its
\* event keeps the play state.
ApplyCommandResult(clk, pb) ==
    LET eventOwnsTrack == clk.item = pb.item /\ clk.source = "event"
    IN  [clk EXCEPT !.item = pb.item,
                    !.device = pb.device,
                    !.playing = IF eventOwnsTrack THEN @ ELSE pb.playing,
                    !.source = IF eventOwnsTrack THEN @ ELSE "command",
                    !.empty = FALSE]

(***************************************************************************)
(* Web API polls.                                                          *)
(***************************************************************************)
SourcePriority ==
    [event |-> 4, command |-> 3, poll |-> 2, cache |-> 1, fallback |-> 0]

\* poll_precedes_player_transition; "earlier" is the comparison of the two
\* timestamps, when both exist.
PollPrecedesPlayerTransition(clk, pb, earlier) ==
    clk.item # pb.item /\ clk.transition > 0 /\ earlier

\* What prepare_web_api_poll returns for persistence: the sample itself, or for
\* an empty sample whose emptiness is confirmed the cleared clock.
CandidateOf(clk, pb) ==
    IF PlaybackHasLiveSignal(pb) THEN pb
    ELSE [item |-> clk.item, device |-> "none", playing |-> FALSE]

\* prepare_web_api_poll lets a sample through: a live one always, an empty one
\* when the clock has something to clear and the silence lasted long enough.
PollIsPrepared(clk, pb, confirmed) ==
    \/ PlaybackHasLiveSignal(pb)
    \/ ClockHasLiveSignal(clk) /\ clk.empty /\ confirmed

\* ... and what it leaves in the clock: only the marker of the first empty poll.
PrepareWebApiPoll(clk, pb) ==
    IF PlaybackHasLiveSignal(pb) THEN clk
    ELSE [clk EXCEPT !.empty = ClockHasLiveSignal(clk)]

\* The silence is confirmed by the time: an apply follows the prepare of the same
\* sample on the same lane (commit_playback_poll_if_current), so that with the marker
\* still set the ten seconds have passed here as they had there.
ApplyEmptyWebApiPoll(clk) ==
    IF ~ ClockHasLiveSignal(clk) THEN [clk EXCEPT !.empty = FALSE]
    ELSE IF ~ clk.empty THEN [clk EXCEPT !.empty = TRUE]
    ELSE [clk EXCEPT !.device = "none",
                     !.playing = FALSE,
                     !.source = IF clk.item # NoTrack THEN "fallback" ELSE "poll",
                     !.empty = FALSE]

\* apply_web_api_poll, once its revision is known to be current.  "older": the
\* clock's own sample is older than the drift threshold.
ApplyWebApiPoll(clk, pb, older) ==
    IF ~ PlaybackHasLiveSignal(pb) THEN ApplyEmptyWebApiPoll(clk)
    ELSE IF /\ clk.item = pb.item
            /\ SourcePriority["poll"] <= SourcePriority[clk.source]
            /\ ~ older
    THEN [clk EXCEPT !.empty = FALSE]
    ELSE [clk EXCEPT !.item = pb.item, !.device = pb.device, !.playing = pb.playing,
                     !.source = "poll", !.empty = FALSE]
=============================================================================
