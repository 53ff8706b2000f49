------------------------ MODULE PlaybackClock_proofs ------------------------
(***************************************************************************)
(* What the operators of PlaybackClock return, for every set of tracks.    *)
(* The proofs about PlaybackFreshness and PlayerRecovery rest on these.    *)
(***************************************************************************)
EXTENDS PlaybackClock, TLAPS

\* What the clock shows is a playback.
LEMMA ShownType == ASSUME NEW clk \in ClockState PROVE Shown(clk) \in Playback
BY DEF Shown, ClockState, Playback

\* A result on the clock leaves the count of transitions alone.
LEMMA CommandResultType ==
    ASSUME NEW clk \in ClockState, NEW pb \in Playback
    PROVE  /\ ApplyCommandResult(clk, pb) \in ClockState
           /\ ApplyCommandResult(clk, pb).transition = clk.transition
           /\ ApplyCommandResult(clk, pb).device = pb.device
BY DEF ApplyCommandResult, ClockState, Playback, Sources

\* Preparing a poll does, too.
LEMMA PrepareType ==
    ASSUME NEW clk \in ClockState, NEW pb \in Playback
    PROVE  /\ PrepareWebApiPoll(clk, pb) \in ClockState
           /\ PrepareWebApiPoll(clk, pb).transition = clk.transition
<1>1. ClockHasLiveSignal(clk) \in BOOLEAN
  BY DEF ClockHasLiveSignal, ClockState
<1> QED BY <1>1 DEF PrepareWebApiPoll, ClockState

\* The candidate of a poll is a playback.
LEMMA CandidateType ==
    ASSUME NEW clk \in ClockState, NEW pb \in Playback
    PROVE  CandidateOf(clk, pb) \in Playback
BY DEF CandidateOf, ClockState, Playback, Devices

\* Applying a poll leaves the count of transitions alone.
LEMMA WebApiPollType ==
    ASSUME NEW clk \in ClockState, NEW pb \in Playback, NEW older \in BOOLEAN
    PROVE  /\ ApplyWebApiPoll(clk, pb, older) \in ClockState
           /\ ApplyWebApiPoll(clk, pb, older).transition = clk.transition
<1>1. ApplyEmptyWebApiPoll(clk) \in ClockState
      /\ ApplyEmptyWebApiPoll(clk).transition = clk.transition
  BY DEF ApplyEmptyWebApiPoll, ClockState, Devices, Sources
<1> QED BY <1>1 DEF ApplyWebApiPoll, ClockState, Playback, Sources

\* A player event counts as a transition, or changes no count.
LEMMA PlayerEventType ==
    ASSUME NEW clk \in ClockState, NEW ev \in PlayerEvent, NEW drifted \in BOOLEAN
    PROVE  /\ ApplyPlayerEvent(clk, ev, drifted) \in ClockState
           /\ ApplyPlayerEvent(clk, ev, drifted).transition =
                 IF IsPlaybackTransition(ev) THEN clk.transition + 1 ELSE clk.transition
<1>1. ev.kind \in Transitions \cup OtherKinds /\ ev.item \in Tracks \cup {NoTrack}
  BY DEF PlayerEvent
<1>2. (ev.kind \in LoadKinds \cup {"resumed"}) \in BOOLEAN
  OBVIOUS
<1>3. clk.transition \in Nat /\ clk.transition + 1 \in Nat /\ clk.device \in Devices
      /\ clk.playing \in BOOLEAN
  BY DEF ClockState
<1>4. CASE ev.kind \in LoadKinds
  BY <1>1, <1>3, <1>4
  DEF ApplyPlayerEvent, IsPlaybackTransition, LoadKinds, Transitions, ClockState, Sources,
      Devices
<1>5. CASE IsPlaybackTransition(ev) /\ ev.kind \notin LoadKinds
  <2>1. ApplyPlayerEvent(clk, ev, drifted) =
           [clk EXCEPT !.playing = (ev.kind \in LoadKinds \cup {"resumed"}), !.source = "event",
                       !.empty = FALSE, !.transition = clk.transition + 1]
    BY <1>5 DEF ApplyPlayerEvent, ClockState
  <2>2. (ev.kind \in LoadKinds \cup {"resumed"}) = TRUE \/ (ev.kind \in LoadKinds \cup {"resumed"}) = FALSE
    OBVIOUS
  <2> QED BY <1>3, <1>5, <2>1, <2>2 DEF ClockState, Sources
<1>6. CASE ~ IsPlaybackTransition(ev)
  BY <1>6 DEF ApplyPlayerEvent, ClockState, Sources
<1> QED BY <1>4, <1>5, <1>6 DEF IsPlaybackTransition, Transitions

\* Metadata and volume leave the count alone.
LEMMA TailType ==
    ASSUME NEW clk \in ClockState, NEW item
    PROVE  /\ EnrichCurrentItem(clk, item) \in ClockState
           /\ EnrichCurrentItem(clk, item).transition = clk.transition
           /\ ApplyDeviceVolume(clk) \in ClockState
           /\ ApplyDeviceVolume(clk).transition = clk.transition
BY DEF EnrichCurrentItem, ApplyDeviceVolume, ClockState, Devices

\* The clock of a new process.
LEMMA SeedType ==
    ASSUME NEW pb \in Playback
    PROVE  EmptyClock \in ClockState /\ SeedFromCache(EmptyClock, pb) \in ClockState
BY DEF EmptyClock, SeedFromCache, ClockState, Playback, Devices, Sources

\* A stalled player leaves a clock that does not play, on the same device.
LEMMA StalledType ==
    ASSUME NEW clk \in ClockState
    PROVE  /\ MarkAudioStalled(clk) \in ClockState
           /\ ~ MarkAudioStalled(clk).playing
           /\ MarkAudioStalled(clk).device = clk.device
BY DEF MarkAudioStalled, ClockState, Sources

\* A hand-off stops the clock.
LEMMA HandOffStops ==
    ASSUME NEW clk \in ClockState, NEW ev \in PlayerEvent, NEW drifted \in BOOLEAN,
           ev.kind = "deactivated"
    PROVE  ~ ApplyPlayerEvent(clk, ev, drifted).playing
BY DEF ApplyPlayerEvent, IsPlaybackTransition, Transitions, LoadKinds, ClockState

\* A poll that does not name our device either leaves item, device and play state as
\* they were, or leaves a clock that shows another device or plays nothing.
LEMMA PollElsewhere ==
    ASSUME NEW clk \in ClockState, NEW pb \in Playback, NEW older \in BOOLEAN,
           pb.device = "other" \/ pb = NothingPlaying
    PROVE  \/ Shown(ApplyWebApiPoll(clk, pb, older)) = Shown(clk)
           \/ ApplyWebApiPoll(clk, pb, older).device = "other"
           \/ ~ ApplyWebApiPoll(clk, pb, older).playing
<1>1. \/ Shown(ApplyEmptyWebApiPoll(clk)) = Shown(clk)
      \/ ~ ApplyEmptyWebApiPoll(clk).playing
  BY DEF ApplyEmptyWebApiPoll, Shown, ClockState
<1>2. CASE pb.device = "other"
  BY <1>2 DEF ApplyWebApiPoll, PlaybackHasLiveSignal, Shown, ClockState
<1>3. CASE pb = NothingPlaying
  BY <1>1, <1>3 DEF ApplyWebApiPoll, PlaybackHasLiveSignal, NothingPlaying
<1> QED BY <1>2, <1>3

\* Preparing a poll only marks or unmarks an empty one.
LEMMA PrepareShows ==
    ASSUME NEW clk \in ClockState, NEW pb \in Playback
    PROVE  Shown(PrepareWebApiPoll(clk, pb)) = Shown(clk)
BY DEF PrepareWebApiPoll, Shown, ClockState
=============================================================================
