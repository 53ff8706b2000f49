----------------------- MODULE PlaybackFreshness_proofs -----------------------
(***************************************************************************)
(* Proofs about PlaybackFreshness, for every set of commands, polls,       *)
(* providers and tracks, and any number of events, polls and restarts.     *)
(***************************************************************************)
EXTENDS PlaybackFreshness, PlaybackClock_proofs, TLAPS

-----------------------------------------------------------------------------
(* The inductive invariant *)

CommandRec ==
    [pc : CommandPCs, req : Requests \cup {NoRequest}, provider : Providers,
     effective : AllKinds \cup {"none"}, local : BOOLEAN, captured : Nat, applied : Nat,
     snap : MaybePlayback, expected : Expectation, result : MaybePlayback,
     healed : MaybePlayback, fast : BOOLEAN, watching : BOOLEAN]

PollRec ==
    [pc : PollPCs, seq : Nat, transition : Nat, provider : Providers, sample : Playback,
     candidate : Playback, overtaken : BOOLEAN]

\* The parts of the type invariant.
SharedType ==
    /\ seq \in Nat
    /\ owner \in Providers
    /\ active \in BOOLEAN
    /\ handoff \in BOOLEAN
    /\ dirty \in BOOLEAN

StoreType ==
    /\ durable \in Playback
    /\ durableSeq \in Nat
    /\ delayed \in [pb : Playback, seq : Nat] \cup {NoRow}

ClockType == clock \in ClockState

CommandsType == commands \in [Commands -> CommandRec]

PollsType == polls \in [Polls -> PollRec]

RelayType ==
    relay \in [pc : {"idle", "look", "apply", "tail"}, ev : PlayerEvent, owns : BOOLEAN,
               foreign : BOOLEAN, notify : BOOLEAN]

CacheType == cache \in [pc : {"idle", "waiting", "write"}, snap : Playback, seq : Nat]

UsedType == used \in [events : Nat, polls : Nat, restarts : Nat]

\* A command that is about to store or show a result has one.
CommandInv ==
    \A c \in Commands :
        /\ commands[c].pc \in {"write", "apply"} => commands[c].result # NoPlayback
        /\ commands[c].pc = "heal" => commands[c].healed # NoPlayback

\* While every command takes it, the transport lane has one holder.
LaneInv == LaneOnly =>
    /\ \A c, d \in Commands :
          commands[c].pc \in CommandHolds /\ commands[d].pc \in CommandHolds => c = d
    /\ \A p, q \in Polls : polls[p].pc \in PollHolds /\ polls[q].pc \in PollHolds => p = q
    /\ \A c \in Commands, p \in Polls :
          ~ (commands[c].pc \in CommandHolds /\ polls[p].pc \in PollHolds)
    /\ cache.pc = "write" =>
          /\ \A c \in Commands : commands[c].pc \notin CommandHolds
          /\ \A p \in Polls : polls[p].pc \notin PollHolds

\* The counters a poll read are behind the shared ones, strictly when something
\* happened since.
PollInv ==
    \A p \in Polls : polls[p].pc # "idle" =>
        /\ polls[p].seq <= seq /\ polls[p].transition <= clock.transition
        /\ polls[p].overtaken =>
              polls[p].seq < seq \/ polls[p].transition < clock.transition

\* No row, stored or on its way, has an epoch after this one.
RowsUpTo(epoch) == durableSeq <= epoch /\ delayed.seq <= epoch

\* Then whoever is about to write the store has an epoch between its rows' and now,
\* and a row on its way is not older than the one it will replace.
DurableInv == LaneOnly =>
    /\ RowsUpTo(seq)
    /\ delayed # NoRow => durableSeq <= delayed.seq
    /\ \A p \in Polls : polls[p].pc = "write" => RowsUpTo(polls[p].seq)
    /\ \A c \in Commands : commands[c].pc = "write" =>
          RowsUpTo(commands[c].applied) /\ commands[c].applied <= seq
    /\ cache.pc = "write" => RowsUpTo(cache.seq) /\ cache.seq <= seq

\* Between a hand-off and an activation the relay works on no event but the
\* hand-off itself.
RelayInv ==
    /\ handoff /\ relay.pc # "idle" /\ relay.owns => relay.ev.kind = "deactivated"
    /\ relay.pc = "tail" => relay.owns

\* The row of a writer that has yet to update the clock was stamped last: no older
\* one is left to arrive.
RowIsLast ==
    /\ \A p \in Polls :
          (/\ polls[p].pc \in {"recheck", "apply"}
           /\ PlaybackHasLiveSignal(polls[p].candidate)) => delayed = NoRow
    /\ \A c \in Commands :
          (/\ commands[c].pc = "apply"
           /\ PlaybackHasLiveSignal(commands[c].result)) => delayed = NoRow

RowInv == LaneOnly => CommittedRowStands /\ RowIsLast

IndInv ==
    /\ SharedType /\ StoreType /\ ClockType /\ CommandsType /\ PollsType
    /\ RelayType /\ CacheType /\ UsedType
    /\ CommandInv /\ LaneInv /\ PollInv /\ DurableInv /\ RelayInv /\ RowInv

-----------------------------------------------------------------------------
(* What the operators return *)

\* "No playback" is not a playback.
LEMMA NoPlaybackType == NoPlayback \notin Playback /\ NoPlayback \in MaybePlayback
                        /\ NoPlayback.playing = FALSE /\ NothingPlaying \in Playback
BY DEF NoPlayback, NothingPlaying, Playback, Devices, MaybePlayback

\* Rows on their way have epochs; the absent one has the first.
LEMMA NoRowType ==
    /\ NoRow.seq = 0
    /\ StoreType => delayed.seq \in Nat
BY DEF NoRow, StoreType

\* A report is a playback.
LEMMA ReportsType ==
    ASSUME NEW provider, NEW pb \in Reports(provider)
    PROVE  pb \in Playback
BY ConstantsAssumption, NoPlaybackType DEF Reports

\* The kind the transport is asked for.
LEMMA EffectiveType ==
    ASSUME NEW kind \in AllKinds \cup {"none"}, NEW snap \in Playback
    PROVE  Effective(kind, snap) \in AllKinds \cup {"none"}
BY DEF Effective, AllKinds

\* Whether the embedded player may carry a command.
LEMMA EmbeddedAllowedType ==
    ASSUME NEW provider, NEW kind, NEW snap
    PROVE  EmbeddedAllowed(provider, kind, snap) \in BOOLEAN
BY DEF EmbeddedAllowed

\* What the embedded path reports.
LEMMA LocalResultType ==
    ASSUME NEW kind, NEW item \in Tracks \cup {NoTrack}, NEW snap \in Playback
    PROVE  LocalResult(kind, item, snap) \in MaybePlayback
BY NoPlaybackType DEF LocalResult, MaybePlayback, Playback

\* What a command predicts.
LEMMA PredictionType ==
    ASSUME NEW req \in Requests \cup {NoRequest}, NEW snap \in Playback,
           NEW next \in Tracks \cup {NoTrack}
    PROVE  Prediction(req, snap, next) \in MaybePlayback
<1>1. Audible(snap) \in BOOLEAN
  BY DEF Audible, Playback
<1>2. [snap EXCEPT !.playing = FALSE] \in Playback /\ [snap EXCEPT !.playing = TRUE] \in Playback
  BY DEF Playback
<1>3. \A item \in Tracks \cup {NoTrack} : [snap EXCEPT !.item = item, !.playing = Audible(snap)] \in Playback
  BY <1>1 DEF Playback
<1>4. req.item \in Tracks \cup {NoTrack}
  BY DEF Requests, NoRequest
<1> QED BY <1>2, <1>3, <1>4, NoPlaybackType DEF Prediction, MaybePlayback

\* What its result may be.
LEMMA ExpectedType ==
    ASSUME NEW req \in Requests \cup {NoRequest}, NEW predicted \in MaybePlayback
    PROVE  Expected(req, predicted) \in Expectation
<1>1. predicted.playing \in BOOLEAN /\ predicted.item \in Tracks \cup {NoTrack}
  BY DEF MaybePlayback, Playback, NoPlayback, NothingPlaying
<1>2. Anything \in Expectation
  BY DEF Anything, Expectation
<1> QED BY <1>1, <1>2 DEF Expected, Expectation, Anything, Requests, NoRequest

\* What a body can get.
LEMMA ResultsType ==
    ASSUME ClockType, NEW cmd \in CommandRec, NEW pb \in Results(cmd)
    PROVE  pb \in MaybePlayback
<1>1. cmd.result \in MaybePlayback /\ cmd.req.item \in Tracks \cup {NoTrack}
  BY DEF CommandRec, Requests, NoRequest
<1>2. Shown(clock) \in Playback
  BY ShownType DEF ClockType
<1> QED BY <1>1, <1>2, ReportsType, LocalResultType, NoPlaybackType DEF Results, MaybePlayback

\* The snapshot of a re-asserted transfer.
LEMMA HealedType ==
    ASSUME NEW snap \in MaybePlayback, snap.playing
    PROVE  [snap EXCEPT !.device = "other"] \in MaybePlayback
BY NoPlaybackType DEF MaybePlayback, Playback, Devices

\* A command that has not been sent.
LEMMA IdleCommandType == IdleCommand \in CommandRec
BY ConstantsAssumption, NoPlaybackType
DEF IdleCommand, CommandRec, CommandPCs, Anything, Expectation

\* A poll that is not running.
LEMMA IdlePollType == IdlePoll \in PollRec /\ IdlePoll.pc = "idle"
BY ConstantsAssumption, NoPlaybackType DEF IdlePoll, PollRec, PollPCs

\* The relay between two events.
LEMMA IdleRelayType ==
    IdleRelay \in [pc : {"idle", "look", "apply", "tail"}, ev : PlayerEvent, owns : BOOLEAN,
                   foreign : BOOLEAN, notify : BOOLEAN]
BY DEF IdleRelay, PlayerEvent, OtherKinds

\* The native cache worker at rest.
LEMMA IdleCacheType ==
    IdleCache \in [pc : {"idle", "waiting", "write"}, snap : Playback, seq : Nat]
BY NoPlaybackType DEF IdleCache

\* A command that ended.
LEMMA EndedType ==
    ASSUME NEW cmd \in CommandRec
    PROVE  Ended(cmd) \in CommandRec /\ Ended(cmd).pc = "done"
BY ConstantsAssumption, NoPlaybackType
DEF Ended, IdleCommand, CommandRec, CommandPCs, Anything, Expectation

\* A body ends after its result, or has a snapshot to show.
LEMMA AfterResultType ==
    ASSUME NEW cmd \in CommandRec
    PROVE  /\ AfterResult(cmd) \in CommandRec
           /\ \/ AfterResult(cmd).pc = "done"
              \/ AfterResult(cmd).pc = "heal" /\ AfterResult(cmd).healed # NoPlayback
BY EndedType DEF AfterResult, CommandRec, CommandPCs

-----------------------------------------------------------------------------
(* What a step does to the tasks *)

OnlyCommand(c) ==
    /\ commands' \in [Commands -> CommandRec]
    /\ \A d \in Commands \ {c} : commands'[d] = commands[d]

Keeps(c) ==
    /\ commands'[c].result = commands[c].result
    /\ commands'[c].healed = commands[c].healed
    /\ commands'[c].applied = commands[c].applied

OnlyPoll(p) ==
    /\ polls' \in [Polls -> PollRec]
    /\ \A q \in Polls \ {p} : polls'[q] = polls[q]

SameCounters(p) ==
    /\ polls'[p].seq = polls[p].seq
    /\ polls'[p].transition = polls[p].transition
    /\ polls'[p].overtaken = polls[p].overtaken

\* Nothing but the history of the polls changes, ...
SamePolls ==
    /\ polls' \in [Polls -> PollRec]
    /\ \A p \in Polls :
          /\ polls'[p].pc = polls[p].pc
          /\ polls'[p].seq = polls[p].seq
          /\ polls'[p].transition = polls[p].transition
          /\ polls'[p].candidate = polls[p].candidate

\* ... and that only with the counter.
SeqStep ==
    \/ seq' = seq /\ polls' = polls
    \/ seq' = seq + 1 /\ SamePolls

\* An update of one command.
LEMMA CommandUpdate ==
    ASSUME CommandsType, NEW c \in Commands, NEW new \in CommandRec,
           commands' = [commands EXCEPT ![c] = new]
    PROVE  OnlyCommand(c) /\ commands'[c] = new
BY DEF CommandsType, OnlyCommand

\* Overtaking the polls changes their history only.
LEMMA OvertakeMarks ==
    ASSUME PollsType, Overtake PROVE SamePolls
BY DEF PollsType, PollRec, Overtake, SamePolls

\* With or without a bump.
LEMMA SeqSteps ==
    ASSUME PollsType, Bump \/ NoBump PROVE SeqStep
BY OvertakeMarks DEF Bump, NoBump, SeqStep

\* Nobody has the lane.
NobodyHolds ==
    /\ \A c \in Commands : commands[c].pc \notin CommandHolds
    /\ \A p \in Polls : polls[p].pc \notin PollHolds
    /\ cache.pc # "write"

\* When every command takes it, the lane is free only if nobody has it.
LEMMA LaneIsFree ==
    ASSUME CommandsType, LaneOnly,
           LaneFree \/ \E c \in Commands : UsesLane(commands[c]) => LaneFree
    PROVE  NobodyHolds
<1>1. \A c \in Commands : UsesLane(commands[c])
  <2> SUFFICES ASSUME NEW c \in Commands PROVE commands[c].req.kind # "direct"
    BY DEF UsesLane
  <2>1. commands[c].req \in Requests \cup {NoRequest}
    BY DEF CommandsType, CommandRec
  <2>2. commands[c].req.kind \in Kinds \/ commands[c].req.kind = "none"
    BY <2>1 DEF Requests, NoRequest
  <2> QED BY <2>2 DEF LaneOnly
<1> QED BY <1>1 DEF LaneFree, NobodyHolds

\* A step that writes no row and lets no command write one keeps the order of the
\* epochs: the counter can only have grown.
LEMMA DurableKept ==
    ASSUME SharedType, StoreType, PollsType, CacheType, DurableInv, NEW c \in Commands,
           OnlyCommand(c), commands'[c].pc # "write", SeqStep, UNCHANGED <<store, cache>>
    PROVE  DurableInv'
<1> SUFFICES ASSUME LaneOnly PROVE DurableInv'
  BY DEF DurableInv
<1>1. durableSeq' = durableSeq /\ delayed' = delayed /\ cache' = cache
  BY DEF store
<1>2. /\ seq \in Nat /\ durableSeq \in Nat /\ delayed.seq \in Nat
      /\ seq' \in Nat /\ seq <= seq'
  BY NoRowType DEF SharedType, StoreType, SeqStep
<1>3. \A p \in Polls : polls'[p].pc = polls[p].pc /\ polls'[p].seq = polls[p].seq
  BY DEF SeqStep, SamePolls
<1>4. \A d \in Commands : commands'[d].pc = "write" => commands'[d] = commands[d]
  BY DEF OnlyCommand
<1>5. RowsUpTo(seq)' /\ (delayed # NoRow => durableSeq <= delayed.seq)'
  BY <1>1, <1>2 DEF DurableInv, RowsUpTo
<1>6. (\A p \in Polls : polls[p].pc = "write" => RowsUpTo(polls[p].seq))'
  BY <1>1, <1>3 DEF DurableInv, RowsUpTo
<1>7. ASSUME NEW d \in Commands, commands'[d].pc = "write"
      PROVE  /\ durableSeq' <= commands'[d].applied
             /\ delayed'.seq <= commands'[d].applied
             /\ commands'[d].applied <= seq'
  <2>1. /\ RowsUpTo(commands[d].applied) /\ commands[d].applied <= seq
        /\ commands'[d].applied = commands[d].applied
    BY <1>4, <1>7 DEF DurableInv
  <2>2. commands'[d].applied \in Nat
    BY DEF OnlyCommand, CommandRec
  <2> QED BY <1>1, <1>2, <2>1, <2>2 DEF RowsUpTo
<1>8. cache'.pc = "write" => /\ durableSeq' <= cache'.seq /\ delayed'.seq <= cache'.seq
                            /\ cache'.seq <= seq'
  <2> SUFFICES ASSUME cache.pc = "write"
               PROVE  durableSeq <= cache.seq /\ delayed.seq <= cache.seq /\ cache.seq <= seq'
    BY <1>1
  <2>1. durableSeq <= cache.seq /\ delayed.seq <= cache.seq /\ cache.seq <= seq
    BY DEF DurableInv, RowsUpTo
  <2>2. seq' = seq \/ seq' = seq + 1
    BY DEF SeqStep
  <2>3. cache.seq \in Nat
    BY DEF CacheType
  <2> QED BY <1>2, <2>1, <2>2, <2>3
<1> QED BY <1>5, <1>6, <1>7, <1>8 DEF DurableInv, RowsUpTo

-----------------------------------------------------------------------------
(* One lemma per action *)

\* A routed command has not done anything.
LEMMA RouteInd ==
    ASSUME IndInv, NEW c \in Commands, NEW req \in Requests, Route(c, req)
    PROVE  IndInv'
<1> USE ConstantsAssumption, NoTrackAssumption, NoRowType
<1>a. Shown(clock) \in Playback
  BY ShownType DEF IndInv, ClockType
<1>b. req.kind \in AllKinds /\ (req.kind \in PlayKinds => req.item \in Tracks)
  BY DEF Requests, PlayKinds
<1>c. Effective(req.kind, Shown(clock)) \in AllKinds \cup {"none"}
  BY <1>a, <1>b, EffectiveType
<1> DEFINE provider == IF req.kind \in PlayKinds THEN HomeOf[req.item] ELSE owner
<1> DEFINE kind == IF provider = Embedded THEN Effective(req.kind, Shown(clock)) ELSE req.kind
<1> DEFINE new == [IdleCommand EXCEPT !.pc = "routed", !.req = req, !.provider = provider,
       !.effective = kind, !.local = EmbeddedAllowed(provider, kind, Shown(clock))]
<1>d. new \in CommandRec
  <2>1. provider \in Providers /\ req \in Requests \cup {NoRequest}
    BY <1>b DEF IndInv, SharedType
  <2>2. kind \in AllKinds \cup {"none"}
    BY <1>b, <1>c
  <2>3. EmbeddedAllowed(provider, kind, Shown(clock)) \in BOOLEAN
    BY EmbeddedAllowedType
  <2> HIDE DEF provider, kind
  <2> QED BY <2>1, <2>2, <2>3, IdleCommandType DEF CommandRec, CommandPCs
<1>e. new.pc = "routed"
  BY DEF IdleCommand
<1>f. commands' = [commands EXCEPT ![c] = new]
  BY DEF IndInv, CommandsType, Route
<1> HIDE DEF new
<1>g. OnlyCommand(c) /\ commands'[c].pc = "routed"
  BY <1>d, <1>e, <1>f, CommandUpdate DEF IndInv
<1>1. SharedType'
  BY <1>a, <1>b, <1>c, <1>d, <1>e, <1>f, <1>g
  DEF IndInv, SharedType, Route, transport, store, native
<1>2. StoreType'
  BY <1>a, <1>b, <1>c, <1>d, <1>e, <1>f, <1>g
  DEF IndInv, StoreType, CacheType, Route, transport, store, native
<1>3. ClockType'
  BY <1>a, <1>b, <1>c, <1>d, <1>e, <1>f, <1>g
  DEF IndInv, ClockType, Route, transport, store, native
<1>4. CommandsType'
  BY <1>a, <1>b, <1>c, <1>d, <1>e, <1>f, <1>g
  DEF IndInv, CommandsType, OnlyCommand, Route, transport, store, native
<1>5. PollsType'
  BY <1>a, <1>b, <1>c, <1>d, <1>e, <1>f, <1>g
  DEF IndInv, PollsType, Route, transport, store, native
<1>6. RelayType'
  BY <1>a, <1>b, <1>c, <1>d, <1>e, <1>f, <1>g
  DEF IndInv, RelayType, Route, transport, store, native
<1>7. CacheType'
  BY <1>a, <1>b, <1>c, <1>d, <1>e, <1>f, <1>g
  DEF IndInv, CacheType, SharedType, Route, transport, store, native
<1>8. UsedType'
  BY <1>a, <1>b, <1>c, <1>d, <1>e, <1>f, <1>g
  DEF IndInv, UsedType, Route, transport, store, native
<1>9. CommandInv'
  BY <1>a, <1>b, <1>c, <1>d, <1>e, <1>f, <1>g
  DEF IndInv, CommandInv, OnlyCommand, Route, transport, store, native
<1>10. LaneInv'
  BY <1>a, <1>b, <1>c, <1>d, <1>e, <1>f, <1>g
  DEF IndInv, LaneInv, CommandHolds, PollHolds, OnlyCommand, Route, transport, store, native
<1>11. PollInv'
  BY <1>a, <1>b, <1>c, <1>d, <1>e, <1>f, <1>g
  DEF IndInv, SharedType, ClockType, ClockState, PollsType, PollRec, PollInv, Route,
      transport, store, native
<1>12. DurableInv'
  BY <1>a, <1>b, <1>c, <1>d, <1>e, <1>f, <1>g
  DEF IndInv, SharedType, StoreType, PollsType, PollRec, CommandsType, CommandRec,
      CacheType, LaneInv, CommandHolds, PollHolds, DurableInv, RowsUpTo, OnlyCommand, Route,
      transport, store, native
<1>13. RelayInv'
  BY <1>a, <1>b, <1>c, <1>d, <1>e, <1>f, <1>g
  DEF IndInv, RelayInv, Route, transport, store, native
<1>14. RowInv'
  BY <1>a, <1>b, <1>c, <1>d, <1>e, <1>f, <1>g
  DEF IndInv, LaneInv, CommandHolds, PollHolds, RowInv, CommittedRowStands, RowIsLast, OnlyCommand,
      Route, transport, store, native
<1> QED BY <1>1, <1>2, <1>3, <1>4, <1>5, <1>6, <1>7, <1>8, <1>9, <1>10, <1>11, <1>12, <1>13,
           <1>14
        DEF IndInv

\* The bump overtakes the polls.
LEMMA DispatchInd ==
    ASSUME IndInv, NEW c \in Commands, NEW next \in Tracks \cup {NoTrack}, Dispatch(c, next)
    PROVE  IndInv'
<1> USE ConstantsAssumption, NoTrackAssumption, NoRowType
<1>a. Shown(clock) \in Playback
  BY ShownType DEF IndInv, ClockType
<1>b. SeqStep
  BY SeqSteps DEF IndInv, Dispatch
<1>c. commands[c] \in CommandRec
  BY DEF IndInv, CommandsType
<1>d. seq + 1 \in Nat
  BY DEF IndInv, SharedType
<1>e. commands[c].req \in Requests \cup {NoRequest}
  BY <1>c DEF CommandRec
<1>f. /\ Prediction(commands[c].req, Shown(clock), next) \in MaybePlayback
      /\ Expected(commands[c].req, Prediction(commands[c].req, Shown(clock), next)) \in Expectation
  BY <1>a, <1>e, PredictionType, ExpectedType
<1> DEFINE new == [commands[c] EXCEPT
       !.pc = IF commands[c].req.kind \in {"transfer", "direct"} THEN "ready" ELSE "bumped",
       !.captured = seq + 1, !.applied = seq + 1,
       !.snap = Prediction(commands[c].req, Shown(clock), next),
       !.expected = Expected(commands[c].req, Prediction(commands[c].req, Shown(clock), next))]
<1>g. new \in CommandRec
  BY <1>c, <1>d, <1>f DEF CommandRec, CommandPCs
<1>h. new.pc \in {"ready", "bumped"}
  BY <1>c DEF CommandRec
<1>i. commands' = [commands EXCEPT ![c] = new]
  BY DEF IndInv, CommandsType, Dispatch
<1> HIDE DEF new
<1>j. OnlyCommand(c) /\ commands'[c].pc \in {"ready", "bumped"}
  BY <1>g, <1>h, <1>i, CommandUpdate DEF IndInv
<1>1. SharedType'
  BY <1>a, <1>b, <1>c, <1>d, <1>e, <1>f, <1>g, <1>h, <1>i, <1>j
  DEF IndInv, SharedType, SeqStep, Dispatch, transport, store, native
<1>2. StoreType'
  BY <1>a, <1>b, <1>c, <1>d, <1>e, <1>f, <1>g, <1>h, <1>i, <1>j
  DEF IndInv, StoreType, CacheType, Dispatch, transport, store, native
<1>3. ClockType'
  BY <1>a, <1>b, <1>c, <1>d, <1>e, <1>f, <1>g, <1>h, <1>i, <1>j
  DEF IndInv, ClockType, Dispatch, transport, store, native
<1>4. CommandsType'
  BY <1>a, <1>b, <1>c, <1>d, <1>e, <1>f, <1>g, <1>h, <1>i, <1>j
  DEF IndInv, CommandsType, OnlyCommand, Dispatch, transport, store, native
<1>5. PollsType'
  BY <1>a, <1>b, <1>c, <1>d, <1>e, <1>f, <1>g, <1>h, <1>i, <1>j
  DEF IndInv, PollsType, SeqStep, SamePolls, Dispatch, transport, store, native
<1>6. RelayType'
  BY <1>a, <1>b, <1>c, <1>d, <1>e, <1>f, <1>g, <1>h, <1>i, <1>j
  DEF IndInv, RelayType, Dispatch, transport, store, native
<1>7. CacheType'
  BY <1>a, <1>b, <1>c, <1>d, <1>e, <1>f, <1>g, <1>h, <1>i, <1>j
  DEF IndInv, CacheType, SharedType, Dispatch, transport, store, native
<1>8. UsedType'
  BY <1>a, <1>b, <1>c, <1>d, <1>e, <1>f, <1>g, <1>h, <1>i, <1>j
  DEF IndInv, UsedType, Dispatch, transport, store, native
<1>9. CommandInv'
  BY <1>a, <1>b, <1>c, <1>d, <1>e, <1>f, <1>g, <1>h, <1>i, <1>j
  DEF IndInv, CommandInv, OnlyCommand, Dispatch, transport, store, native
<1>10. LaneInv'
  BY <1>a, <1>b, <1>c, <1>d, <1>e, <1>f, <1>g, <1>h, <1>i, <1>j
  DEF IndInv, LaneInv, CommandHolds, PollHolds, OnlyCommand, SeqStep, SamePolls, Dispatch,
      transport, store, native
<1>11. PollInv'
  BY <1>a, <1>b, <1>c, <1>d, <1>e, <1>f, <1>g, <1>h, <1>i, <1>j
  DEF IndInv, SharedType, ClockType, ClockState, PollsType, PollRec, PollInv, SeqStep,
      SamePolls, Dispatch, transport, store, native
<1>12. DurableInv'
  <2>1. commands'[c].pc # "write" /\ UNCHANGED <<store, cache>>
    BY <1>j DEF Dispatch, native
  <2> QED BY <1>b, <1>j, <2>1, DurableKept DEF IndInv
<1>13. RelayInv'
  BY <1>a, <1>b, <1>c, <1>d, <1>e, <1>f, <1>g, <1>h, <1>i, <1>j
  DEF IndInv, RelayInv, Dispatch, transport, store, native
<1>14. RowInv'
  BY <1>a, <1>b, <1>c, <1>d, <1>e, <1>f, <1>g, <1>h, <1>i, <1>j
  DEF IndInv, LaneInv, CommandHolds, PollHolds, RowInv, CommittedRowStands, RowIsLast, OnlyCommand,
      SeqStep, SamePolls, Dispatch, transport, store, native
<1> QED BY <1>1, <1>2, <1>3, <1>4, <1>5, <1>6, <1>7, <1>8, <1>9, <1>10, <1>11, <1>12, <1>13,
           <1>14
        DEF IndInv

\* A prediction changes the clock and nothing else.
LEMMA PredictInd ==
    ASSUME IndInv, NEW c \in Commands, Predict(c)
    PROVE  IndInv'
<1> USE ConstantsAssumption, NoTrackAssumption, NoRowType
<1>a. commands[c] \in CommandRec
  BY DEF IndInv, CommandsType
<1>b. clock' \in ClockState /\ clock'.transition = clock.transition
  BY <1>a, CommandResultType, NoPlaybackType
  DEF IndInv, ClockType, CommandRec, MaybePlayback, Predict
<1> DEFINE new == [commands[c] EXCEPT !.pc = "predicted", !.snap = NoPlayback]
<1>c. new \in CommandRec
  BY <1>a, NoPlaybackType DEF CommandRec, CommandPCs
<1>d. new.pc = "predicted" /\ new.result = commands[c].result
      /\ new.healed = commands[c].healed /\ new.applied = commands[c].applied
  BY <1>a DEF CommandRec
<1>e. commands' = [commands EXCEPT ![c] = new]
  BY DEF IndInv, CommandsType, Predict
<1> HIDE DEF new
<1>f. OnlyCommand(c) /\ commands'[c].pc = "predicted" /\ Keeps(c)
  BY <1>c, <1>d, <1>e, CommandUpdate DEF IndInv, Keeps
<1>1. SharedType'
  BY <1>a, <1>b, <1>c, <1>d, <1>e, <1>f
  DEF IndInv, SharedType, Predict, transport, store, native
<1>2. StoreType'
  BY <1>a, <1>b, <1>c, <1>d, <1>e, <1>f
  DEF IndInv, StoreType, CacheType, Predict, transport, store, native
<1>3. ClockType'
  BY <1>a, <1>b, <1>c, <1>d, <1>e, <1>f DEF IndInv, ClockType, Predict, transport, store, native
<1>4. CommandsType'
  BY <1>a, <1>b, <1>c, <1>d, <1>e, <1>f
  DEF IndInv, CommandsType, OnlyCommand, Predict, transport, store, native
<1>5. PollsType'
  BY <1>a, <1>b, <1>c, <1>d, <1>e, <1>f DEF IndInv, PollsType, Predict, transport, store, native
<1>6. RelayType'
  BY <1>a, <1>b, <1>c, <1>d, <1>e, <1>f DEF IndInv, RelayType, Predict, transport, store, native
<1>7. CacheType'
  BY <1>a, <1>b, <1>c, <1>d, <1>e, <1>f
  DEF IndInv, CacheType, SharedType, Predict, transport, store, native
<1>8. UsedType'
  BY <1>a, <1>b, <1>c, <1>d, <1>e, <1>f DEF IndInv, UsedType, Predict, transport, store, native
<1>9. CommandInv'
  BY <1>a, <1>b, <1>c, <1>d, <1>e, <1>f
  DEF IndInv, CommandInv, OnlyCommand, Keeps, Predict, transport, store, native
<1>10. LaneInv'
  BY <1>a, <1>b, <1>c, <1>d, <1>e, <1>f
  DEF IndInv, LaneInv, CommandHolds, PollHolds, OnlyCommand, Predict, transport, store,
      native
<1>11. PollInv'
  BY <1>a, <1>b, <1>c, <1>d, <1>e, <1>f
  DEF IndInv, SharedType, ClockType, ClockState, PollsType, PollRec, PollInv, Predict,
      transport, store, native
<1>12. DurableInv'
  BY <1>a, <1>b, <1>c, <1>d, <1>e, <1>f
  DEF IndInv, SharedType, StoreType, PollsType, PollRec, CommandsType, CommandRec,
      CacheType, LaneInv, CommandHolds, PollHolds, DurableInv, RowsUpTo, OnlyCommand, Keeps, Predict,
      transport, store, native
<1>13. RelayInv'
  BY <1>a, <1>b, <1>c, <1>d, <1>e, <1>f DEF IndInv, RelayInv, Predict, transport, store, native
<1>14. RowInv'
  BY <1>a, <1>b, <1>c, <1>d, <1>e, <1>f
  DEF IndInv, LaneInv, CommandHolds, PollHolds, RowInv, CommittedRowStands, RowIsLast, OnlyCommand,
      Keeps, Predict, transport, store, native
<1> QED BY <1>1, <1>2, <1>3, <1>4, <1>5, <1>6, <1>7, <1>8, <1>9, <1>10, <1>11, <1>12, <1>13,
           <1>14
        DEF IndInv

\* The embedded player has the command.
LEMMA FastTransportInd ==
    ASSUME IndInv, NEW c \in Commands, NEW late \in BOOLEAN, FastTransport(c, late)
    PROVE  IndInv'
<1> USE ConstantsAssumption, NoTrackAssumption, NoRowType
<1>a. Shown(clock) \in Playback
  BY ShownType DEF IndInv, ClockType
<1>b. commands[c] \in CommandRec
  BY DEF IndInv, CommandsType
<1>c. LocalResult(commands[c].effective, commands[c].req.item, Shown(clock)) \in MaybePlayback
  BY <1>a, <1>b, LocalResultType DEF CommandRec, Requests, NoRequest
<1> DEFINE new == [commands[c] EXCEPT !.pc = "ready",
       !.result = LocalResult(commands[c].effective, commands[c].req.item, Shown(clock)),
       !.fast = TRUE, !.watching = late]
<1>d. new \in CommandRec
  BY <1>b, <1>c DEF CommandRec, CommandPCs
<1>e. new.pc = "ready"
  BY <1>b DEF CommandRec
<1>f. commands' = [commands EXCEPT ![c] = new]
  BY DEF IndInv, CommandsType, FastTransport
<1> HIDE DEF new
<1>g. OnlyCommand(c) /\ commands'[c].pc = "ready"
  BY <1>d, <1>e, <1>f, CommandUpdate DEF IndInv
<1>1. SharedType'
  BY <1>a, <1>b, <1>c, <1>d, <1>e, <1>f, <1>g
  DEF IndInv, SharedType, FastTransport, transport, store, native
<1>2. StoreType'
  BY <1>a, <1>b, <1>c, <1>d, <1>e, <1>f, <1>g
  DEF IndInv, StoreType, CacheType, FastTransport, transport, store, native
<1>3. ClockType'
  BY <1>a, <1>b, <1>c, <1>d, <1>e, <1>f, <1>g
  DEF IndInv, ClockType, FastTransport, transport, store, native
<1>4. CommandsType'
  BY <1>a, <1>b, <1>c, <1>d, <1>e, <1>f, <1>g
  DEF IndInv, CommandsType, OnlyCommand, FastTransport, transport, store, native
<1>5. PollsType'
  BY <1>a, <1>b, <1>c, <1>d, <1>e, <1>f, <1>g
  DEF IndInv, PollsType, FastTransport, transport, store, native
<1>6. RelayType'
  BY <1>a, <1>b, <1>c, <1>d, <1>e, <1>f, <1>g
  DEF IndInv, RelayType, FastTransport, transport, store, native
<1>7. CacheType'
  BY <1>a, <1>b, <1>c, <1>d, <1>e, <1>f, <1>g
  DEF IndInv, CacheType, SharedType, FastTransport, transport, store, native
<1>8. UsedType'
  BY <1>a, <1>b, <1>c, <1>d, <1>e, <1>f, <1>g
  DEF IndInv, UsedType, FastTransport, transport, store, native
<1>9. CommandInv'
  BY <1>a, <1>b, <1>c, <1>d, <1>e, <1>f, <1>g
  DEF IndInv, CommandInv, OnlyCommand, FastTransport, transport, store, native
<1>10. LaneInv'
  <2>1. UNCHANGED <<polls, cache>>
    BY DEF FastTransport, native
  <2>2. commands'[c].pc \notin CommandHolds
    BY <1>g DEF CommandHolds
  <2> QED BY <1>g, <2>1, <2>2 DEF IndInv, LaneInv, OnlyCommand
<1>11. PollInv'
  BY <1>a, <1>b, <1>c, <1>d, <1>e, <1>f, <1>g
  DEF IndInv, SharedType, ClockType, ClockState, PollsType, PollRec, PollInv, FastTransport,
      transport, store, native
<1>12. DurableInv'
  BY <1>a, <1>b, <1>c, <1>d, <1>e, <1>f, <1>g
  DEF IndInv, SharedType, StoreType, PollsType, PollRec, CommandsType, CommandRec,
      CacheType, LaneInv, CommandHolds, PollHolds, DurableInv, RowsUpTo, OnlyCommand, FastTransport,
      transport, store, native
<1>13. RelayInv'
  BY <1>a, <1>b, <1>c, <1>d, <1>e, <1>f, <1>g
  DEF IndInv, RelayInv, FastTransport, transport, store, native
<1>14. RowInv'
  <2>1. UNCHANGED <<polls, durable, delayed>>
    BY DEF FastTransport, store
  <2> QED BY <1>g, <2>1 DEF IndInv, RowInv, CommittedRowStands, RowIsLast, OnlyCommand
<1> QED BY <1>1, <1>2, <1>3, <1>4, <1>5, <1>6, <1>7, <1>8, <1>9, <1>10, <1>11, <1>12, <1>13,
           <1>14
        DEF IndInv

\* The body will execute the command.
LEMMA SkipFastTransportInd ==
    ASSUME IndInv, NEW c \in Commands, SkipFastTransport(c)
    PROVE  IndInv'
<1> USE ConstantsAssumption, NoTrackAssumption, NoRowType
<1>a. commands[c] \in CommandRec
  BY DEF IndInv, CommandsType
<1> DEFINE new == [commands[c] EXCEPT !.pc = "ready"]
<1>b. new \in CommandRec
  BY <1>a DEF CommandRec, CommandPCs
<1>c. new.pc = "ready" /\ new.result = commands[c].result /\ new.healed = commands[c].healed
      /\ new.applied = commands[c].applied
  BY <1>a DEF CommandRec
<1>d. commands' = [commands EXCEPT ![c] = new]
  BY DEF IndInv, CommandsType, SkipFastTransport
<1> HIDE DEF new
<1>e. OnlyCommand(c) /\ commands'[c].pc = "ready" /\ Keeps(c)
  BY <1>b, <1>c, <1>d, CommandUpdate DEF IndInv, Keeps
<1>1. SharedType'
  BY <1>a, <1>b, <1>c, <1>d, <1>e
  DEF IndInv, SharedType, SkipFastTransport, transport, store, native
<1>2. StoreType'
  BY <1>a, <1>b, <1>c, <1>d, <1>e
  DEF IndInv, StoreType, CacheType, SkipFastTransport, transport, store, native
<1>3. ClockType'
  BY <1>a, <1>b, <1>c, <1>d, <1>e
  DEF IndInv, ClockType, SkipFastTransport, transport, store, native
<1>4. CommandsType'
  BY <1>a, <1>b, <1>c, <1>d, <1>e
  DEF IndInv, CommandsType, OnlyCommand, SkipFastTransport, transport, store, native
<1>5. PollsType'
  BY <1>a, <1>b, <1>c, <1>d, <1>e
  DEF IndInv, PollsType, SkipFastTransport, transport, store, native
<1>6. RelayType'
  BY <1>a, <1>b, <1>c, <1>d, <1>e
  DEF IndInv, RelayType, SkipFastTransport, transport, store, native
<1>7. CacheType'
  BY <1>a, <1>b, <1>c, <1>d, <1>e
  DEF IndInv, CacheType, SharedType, SkipFastTransport, transport, store, native
<1>8. UsedType'
  BY <1>a, <1>b, <1>c, <1>d, <1>e
  DEF IndInv, UsedType, SkipFastTransport, transport, store, native
<1>9. CommandInv'
  BY <1>a, <1>b, <1>c, <1>d, <1>e
  DEF IndInv, CommandInv, OnlyCommand, Keeps, SkipFastTransport, transport, store, native
<1>10. LaneInv'
  BY <1>a, <1>b, <1>c, <1>d, <1>e
  DEF IndInv, LaneInv, CommandHolds, PollHolds, OnlyCommand, SkipFastTransport, transport,
      store, native
<1>11. PollInv'
  BY <1>a, <1>b, <1>c, <1>d, <1>e
  DEF IndInv, SharedType, ClockType, ClockState, PollsType, PollRec, PollInv,
      SkipFastTransport, transport, store, native
<1>12. DurableInv'
  BY <1>a, <1>b, <1>c, <1>d, <1>e
  DEF IndInv, SharedType, StoreType, PollsType, PollRec, CommandsType, CommandRec,
      CacheType, LaneInv, CommandHolds, PollHolds, DurableInv, RowsUpTo, OnlyCommand, Keeps,
      SkipFastTransport, transport, store, native
<1>13. RelayInv'
  BY <1>a, <1>b, <1>c, <1>d, <1>e
  DEF IndInv, RelayInv, SkipFastTransport, transport, store, native
<1>14. RowInv'
  BY <1>a, <1>b, <1>c, <1>d, <1>e
  DEF IndInv, LaneInv, CommandHolds, PollHolds, RowInv, CommittedRowStands, RowIsLast, OnlyCommand,
      Keeps, SkipFastTransport, transport, store, native
<1> QED BY <1>1, <1>2, <1>3, <1>4, <1>5, <1>6, <1>7, <1>8, <1>9, <1>10, <1>11, <1>12, <1>13,
           <1>14
        DEF IndInv

\* A late failure overtakes the polls.
LEMMA LateAnswerInd ==
    ASSUME IndInv, NEW c \in Commands, NEW failed \in BOOLEAN, LateAnswer(c, failed)
    PROVE  IndInv'
<1> USE ConstantsAssumption, NoTrackAssumption, NoRowType
<1>a. commands[c] \in CommandRec
  BY DEF IndInv, CommandsType
<1>b. SeqStep
  BY SeqSteps DEF IndInv, LateAnswer
<1> DEFINE new == [commands[c] EXCEPT !.watching = FALSE]
<1>c. new \in CommandRec
  BY <1>a DEF CommandRec, CommandPCs
<1>d. new.pc = commands[c].pc /\ new.result = commands[c].result
      /\ new.healed = commands[c].healed /\ new.applied = commands[c].applied
  BY <1>a DEF CommandRec
<1>e. commands' = [commands EXCEPT ![c] = new]
  BY DEF IndInv, CommandsType, LateAnswer
<1> HIDE DEF new
<1>f. OnlyCommand(c) /\ commands'[c].pc = commands[c].pc /\ Keeps(c)
  BY <1>c, <1>d, <1>e, CommandUpdate DEF IndInv, Keeps
<1>1. SharedType'
  BY <1>a, <1>b, <1>c, <1>d, <1>e, <1>f
  DEF IndInv, SharedType, SeqStep, LateAnswer, transport, store, native
<1>2. StoreType'
  BY <1>a, <1>b, <1>c, <1>d, <1>e, <1>f
  DEF IndInv, StoreType, CacheType, LateAnswer, transport, store, native
<1>3. ClockType'
  BY <1>a, <1>b, <1>c, <1>d, <1>e, <1>f
  DEF IndInv, ClockType, LateAnswer, transport, store, native
<1>4. CommandsType'
  BY <1>a, <1>b, <1>c, <1>d, <1>e, <1>f
  DEF IndInv, CommandsType, OnlyCommand, LateAnswer, transport, store, native
<1>5. PollsType'
  BY <1>a, <1>b, <1>c, <1>d, <1>e, <1>f
  DEF IndInv, PollsType, SeqStep, SamePolls, LateAnswer, transport, store, native
<1>6. RelayType'
  BY <1>a, <1>b, <1>c, <1>d, <1>e, <1>f
  DEF IndInv, RelayType, LateAnswer, transport, store, native
<1>7. CacheType'
  BY <1>a, <1>b, <1>c, <1>d, <1>e, <1>f
  DEF IndInv, CacheType, SharedType, LateAnswer, transport, store, native
<1>8. UsedType'
  BY <1>a, <1>b, <1>c, <1>d, <1>e, <1>f
  DEF IndInv, UsedType, LateAnswer, transport, store, native
<1>9. CommandInv'
  BY <1>a, <1>b, <1>c, <1>d, <1>e, <1>f
  DEF IndInv, CommandInv, OnlyCommand, Keeps, LateAnswer, transport, store, native
<1>10. LaneInv'
  BY <1>a, <1>b, <1>c, <1>d, <1>e, <1>f
  DEF IndInv, LaneInv, CommandHolds, PollHolds, OnlyCommand, SeqStep, SamePolls, LateAnswer,
      transport, store, native
<1>11. PollInv'
  BY <1>a, <1>b, <1>c, <1>d, <1>e, <1>f
  DEF IndInv, SharedType, ClockType, ClockState, PollsType, PollRec, PollInv, SeqStep,
      SamePolls, LateAnswer, transport, store, native
<1>12. DurableInv'
  BY <1>a, <1>b, <1>c, <1>d, <1>e, <1>f
  DEF IndInv, SharedType, StoreType, PollsType, PollRec, CommandsType, CommandRec,
      CacheType, LaneInv, CommandHolds, PollHolds, DurableInv, RowsUpTo, OnlyCommand, Keeps, SeqStep,
      SamePolls, LateAnswer, transport, store, native
<1>13. RelayInv'
  BY <1>a, <1>b, <1>c, <1>d, <1>e, <1>f
  DEF IndInv, RelayInv, LateAnswer, transport, store, native
<1>14. RowInv'
  BY <1>a, <1>b, <1>c, <1>d, <1>e, <1>f
  DEF IndInv, LaneInv, CommandHolds, PollHolds, RowInv, CommittedRowStands, RowIsLast, OnlyCommand,
      Keeps, SeqStep, SamePolls, LateAnswer, transport, store, native
<1> QED BY <1>1, <1>2, <1>3, <1>4, <1>5, <1>6, <1>7, <1>8, <1>9, <1>10, <1>11, <1>12, <1>13,
           <1>14
        DEF IndInv

\* The body takes the lane.
LEMMA ExecuteInd ==
    ASSUME IndInv, NEW c \in Commands, NEW result \in Results(commands[c]),
           NEW reconnects \in BOOLEAN, Execute(c, result, reconnects)
    PROVE  IndInv'
<1> USE ConstantsAssumption, NoTrackAssumption, NoRowType
<1>a. Shown(clock) \in Playback
  BY ShownType DEF IndInv, ClockType
<1>b. commands[c] \in CommandRec
  BY DEF IndInv, CommandsType
<1>c. SeqStep
  BY SeqSteps DEF IndInv, Execute
<1>d. result \in MaybePlayback
  BY <1>b, ResultsType DEF IndInv
<1> DEFINE new == [commands[c] EXCEPT !.pc = "executed", !.result = result,
       !.snap = IF commands[c].req.kind = "transfer" THEN Shown(clock) ELSE NoPlayback]
<1>e. new \in CommandRec
  <2> DEFINE snap == IF commands[c].req.kind = "transfer" THEN Shown(clock) ELSE NoPlayback
  <2>1. snap \in MaybePlayback
    BY <1>a, NoPlaybackType DEF MaybePlayback
  <2> HIDE DEF snap
  <2> QED BY <1>b, <1>d, <2>1 DEF CommandRec, CommandPCs, snap
<1>f. new.pc = "executed"
  BY <1>b DEF CommandRec
<1>g. commands' = [commands EXCEPT ![c] = new]
  BY DEF IndInv, CommandsType, Execute
<1> HIDE DEF new
<1>h. OnlyCommand(c) /\ commands'[c].pc = "executed"
  BY <1>e, <1>f, <1>g, CommandUpdate DEF IndInv
<1>i. LaneOnly => NobodyHolds
  BY LaneIsFree DEF IndInv, Execute
<1>1. SharedType'
  BY <1>a, <1>b, <1>c, <1>d, <1>e, <1>f, <1>g, <1>h, <1>i
  DEF IndInv, SharedType, SeqStep, Execute, NobodyHolds, transport, store, native
<1>2. StoreType'
  BY <1>a, <1>b, <1>c, <1>d, <1>e, <1>f, <1>g, <1>h, <1>i
  DEF IndInv, StoreType, CacheType, Execute, NobodyHolds, transport, store, native
<1>3. ClockType'
  BY <1>a, <1>b, <1>c, <1>d, <1>e, <1>f, <1>g, <1>h, <1>i
  DEF IndInv, ClockType, Execute, NobodyHolds, transport, store, native
<1>4. CommandsType'
  BY <1>a, <1>b, <1>c, <1>d, <1>e, <1>f, <1>g, <1>h, <1>i
  DEF IndInv, CommandsType, OnlyCommand, Execute, NobodyHolds, transport, store, native
<1>5. PollsType'
  BY <1>a, <1>b, <1>c, <1>d, <1>e, <1>f, <1>g, <1>h, <1>i
  DEF IndInv, PollsType, SeqStep, SamePolls, Execute, NobodyHolds, transport, store, native
<1>6. RelayType'
  BY <1>a, <1>b, <1>c, <1>d, <1>e, <1>f, <1>g, <1>h, <1>i
  DEF IndInv, RelayType, Execute, NobodyHolds, transport, store, native
<1>7. CacheType'
  BY <1>a, <1>b, <1>c, <1>d, <1>e, <1>f, <1>g, <1>h, <1>i
  DEF IndInv, CacheType, SharedType, Execute, NobodyHolds, transport, store, native
<1>8. UsedType'
  BY <1>a, <1>b, <1>c, <1>d, <1>e, <1>f, <1>g, <1>h, <1>i
  DEF IndInv, UsedType, Execute, NobodyHolds, transport, store, native
<1>9. CommandInv'
  BY <1>a, <1>b, <1>c, <1>d, <1>e, <1>f, <1>g, <1>h, <1>i
  DEF IndInv, CommandInv, OnlyCommand, Execute, NobodyHolds, transport, store, native
<1>10. LaneInv'
  BY <1>a, <1>b, <1>c, <1>d, <1>e, <1>f, <1>g, <1>h, <1>i
  DEF IndInv, LaneInv, CommandHolds, PollHolds, OnlyCommand, SeqStep, SamePolls, Execute,
      NobodyHolds, transport, store, native
<1>11. PollInv'
  BY <1>a, <1>b, <1>c, <1>d, <1>e, <1>f, <1>g, <1>h, <1>i
  DEF IndInv, SharedType, ClockType, ClockState, PollsType, PollRec, PollInv, SeqStep,
      SamePolls, Execute, NobodyHolds, transport, store, native
<1>12. DurableInv'
  <2>1. commands'[c].pc # "write" /\ UNCHANGED <<store, cache>>
    BY <1>h DEF Execute, native
  <2> QED BY <1>c, <1>h, <2>1, DurableKept DEF IndInv
<1>13. RelayInv'
  BY <1>a, <1>b, <1>c, <1>d, <1>e, <1>f, <1>g, <1>h, <1>i
  DEF IndInv, RelayInv, Execute, NobodyHolds, transport, store, native
<1>14. RowInv'
  BY <1>a, <1>b, <1>c, <1>d, <1>e, <1>f, <1>g, <1>h, <1>i
  DEF IndInv, LaneInv, CommandHolds, PollHolds, RowInv, CommittedRowStands, RowIsLast, OnlyCommand,
      SeqStep, SamePolls, Execute, NobodyHolds, transport, store, native
<1> QED BY <1>1, <1>2, <1>3, <1>4, <1>5, <1>6, <1>7, <1>8, <1>9, <1>10, <1>11, <1>12, <1>13,
           <1>14
        DEF IndInv

\* A failure ends the command.
LEMMA ExecuteFailsInd ==
    ASSUME IndInv, NEW c \in Commands, ExecuteFails(c)
    PROVE  IndInv'
<1> USE ConstantsAssumption, NoTrackAssumption, NoRowType
<1>a. commands[c] \in CommandRec
  BY DEF IndInv, CommandsType
<1>b. SeqStep
  BY SeqSteps DEF IndInv, ExecuteFails
<1> DEFINE new == Ended(commands[c])
<1>c. new \in CommandRec
  BY <1>a, EndedType
<1>d. new.pc = "done"
  BY <1>a, EndedType
<1>e. commands' = [commands EXCEPT ![c] = new]
  BY DEF ExecuteFails
<1> HIDE DEF new
<1>f. OnlyCommand(c) /\ commands'[c].pc = "done"
  BY <1>c, <1>d, <1>e, CommandUpdate DEF IndInv
<1>g. LaneOnly => NobodyHolds
  BY LaneIsFree DEF IndInv, ExecuteFails
<1>1. SharedType'
  BY <1>a, <1>b, <1>c, <1>d, <1>e, <1>f, <1>g
  DEF IndInv, SharedType, SeqStep, ExecuteFails, NobodyHolds, transport, store, native
<1>2. StoreType'
  BY <1>a, <1>b, <1>c, <1>d, <1>e, <1>f, <1>g
  DEF IndInv, StoreType, CacheType, ExecuteFails, NobodyHolds, transport, store, native
<1>3. ClockType'
  BY <1>a, <1>b, <1>c, <1>d, <1>e, <1>f, <1>g
  DEF IndInv, ClockType, ExecuteFails, NobodyHolds, transport, store, native
<1>4. CommandsType'
  BY <1>a, <1>b, <1>c, <1>d, <1>e, <1>f, <1>g
  DEF IndInv, CommandsType, OnlyCommand, ExecuteFails, NobodyHolds, transport, store, native
<1>5. PollsType'
  BY <1>a, <1>b, <1>c, <1>d, <1>e, <1>f, <1>g
  DEF IndInv, PollsType, SeqStep, SamePolls, ExecuteFails, NobodyHolds, transport, store,
      native
<1>6. RelayType'
  BY <1>a, <1>b, <1>c, <1>d, <1>e, <1>f, <1>g
  DEF IndInv, RelayType, ExecuteFails, NobodyHolds, transport, store, native
<1>7. CacheType'
  BY <1>a, <1>b, <1>c, <1>d, <1>e, <1>f, <1>g
  DEF IndInv, CacheType, SharedType, ExecuteFails, NobodyHolds, transport, store, native
<1>8. UsedType'
  BY <1>a, <1>b, <1>c, <1>d, <1>e, <1>f, <1>g
  DEF IndInv, UsedType, ExecuteFails, NobodyHolds, transport, store, native
<1>9. CommandInv'
  BY <1>a, <1>b, <1>c, <1>d, <1>e, <1>f, <1>g
  DEF IndInv, CommandInv, OnlyCommand, ExecuteFails, NobodyHolds, transport, store, native
<1>10. LaneInv'
  BY <1>a, <1>b, <1>c, <1>d, <1>e, <1>f, <1>g
  DEF IndInv, LaneInv, CommandHolds, PollHolds, OnlyCommand, SeqStep, SamePolls,
      ExecuteFails, NobodyHolds, transport, store, native
<1>11. PollInv'
  BY <1>a, <1>b, <1>c, <1>d, <1>e, <1>f, <1>g
  DEF IndInv, SharedType, ClockType, ClockState, PollsType, PollRec, PollInv, SeqStep,
      SamePolls, ExecuteFails, NobodyHolds, transport, store, native
<1>12. DurableInv'
  BY <1>a, <1>b, <1>c, <1>d, <1>e, <1>f, <1>g
  DEF IndInv, SharedType, StoreType, PollsType, PollRec, CommandsType, CommandRec,
      CacheType, LaneInv, CommandHolds, PollHolds, DurableInv, RowsUpTo, OnlyCommand, SeqStep,
      SamePolls, ExecuteFails, NobodyHolds, transport, store, native
<1>13. RelayInv'
  BY <1>a, <1>b, <1>c, <1>d, <1>e, <1>f, <1>g
  DEF IndInv, RelayInv, ExecuteFails, NobodyHolds, transport, store, native
<1>14. RowInv'
  BY <1>a, <1>b, <1>c, <1>d, <1>e, <1>f, <1>g
  DEF IndInv, LaneInv, CommandHolds, PollHolds, RowInv, CommittedRowStands, RowIsLast, OnlyCommand,
      SeqStep, SamePolls, ExecuteFails, NobodyHolds, transport, store, native
<1> QED BY <1>1, <1>2, <1>3, <1>4, <1>5, <1>6, <1>7, <1>8, <1>9, <1>10, <1>11, <1>12, <1>13,
           <1>14
        DEF IndInv

\* The command takes the transport.
LEMMA SetOwnerInd ==
    ASSUME IndInv, NEW c \in Commands, SetOwner(c)
    PROVE  IndInv'
<1> USE ConstantsAssumption, NoTrackAssumption, NoRowType
<1>a. commands[c] \in CommandRec
  BY DEF IndInv, CommandsType
<1>b. commands[c].provider \in Providers
  BY <1>a DEF CommandRec
<1> DEFINE new == [commands[c] EXCEPT !.pc = IF owner = commands[c].provider THEN "check" ELSE "owned"]
<1>c. new \in CommandRec
  BY <1>a DEF CommandRec, CommandPCs
<1>d. new.pc \in {"check", "owned"} /\ new.result = commands[c].result
      /\ new.healed = commands[c].healed /\ new.applied = commands[c].applied
  BY <1>a DEF CommandRec
<1>e. commands' = [commands EXCEPT ![c] = new]
  BY DEF IndInv, CommandsType, SetOwner
<1> HIDE DEF new
<1>f. OnlyCommand(c) /\ commands'[c].pc \in {"check", "owned"} /\ Keeps(c)
  BY <1>c, <1>d, <1>e, CommandUpdate DEF IndInv, Keeps
<1>1. SharedType'
  BY <1>a, <1>b, <1>c, <1>d, <1>e, <1>f
  DEF IndInv, SharedType, TakeTransport, SetOwner, store, native
<1>2. StoreType'
  BY <1>a, <1>b, <1>c, <1>d, <1>e, <1>f
  DEF IndInv, StoreType, CacheType, SetOwner, store, native
<1>3. ClockType'
  BY <1>a, <1>b, <1>c, <1>d, <1>e, <1>f DEF IndInv, ClockType, SetOwner, store, native
<1>4. CommandsType'
  BY <1>a, <1>b, <1>c, <1>d, <1>e, <1>f
  DEF IndInv, CommandsType, OnlyCommand, SetOwner, store, native
<1>5. PollsType'
  BY <1>a, <1>b, <1>c, <1>d, <1>e, <1>f DEF IndInv, PollsType, SetOwner, store, native
<1>6. RelayType'
  BY <1>a, <1>b, <1>c, <1>d, <1>e, <1>f DEF IndInv, RelayType, SetOwner, store, native
<1>7. CacheType'
  BY <1>a, <1>b, <1>c, <1>d, <1>e, <1>f
  DEF IndInv, CacheType, SharedType, SetOwner, store, native
<1>8. UsedType'
  BY <1>a, <1>b, <1>c, <1>d, <1>e, <1>f DEF IndInv, UsedType, SetOwner, store, native
<1>9. CommandInv'
  BY <1>a, <1>b, <1>c, <1>d, <1>e, <1>f
  DEF IndInv, CommandInv, OnlyCommand, Keeps, SetOwner, store, native
<1>10. LaneInv'
  BY <1>a, <1>b, <1>c, <1>d, <1>e, <1>f
  DEF IndInv, LaneInv, CommandHolds, PollHolds, OnlyCommand, SetOwner, store, native
<1>11. PollInv'
  BY <1>a, <1>b, <1>c, <1>d, <1>e, <1>f
  DEF IndInv, SharedType, ClockType, ClockState, PollsType, PollRec, PollInv, SetOwner,
      store, native
<1>12. DurableInv'
  BY <1>a, <1>b, <1>c, <1>d, <1>e, <1>f
  DEF IndInv, SharedType, StoreType, PollsType, PollRec, CommandsType, CommandRec,
      CacheType, LaneInv, CommandHolds, PollHolds, DurableInv, RowsUpTo, OnlyCommand, Keeps, SetOwner,
      store, native
<1>13. RelayInv'
  BY <1>a, <1>b, <1>c, <1>d, <1>e, <1>f DEF IndInv, RelayInv, SetOwner, store, native
<1>14. RowInv'
  BY <1>a, <1>b, <1>c, <1>d, <1>e, <1>f
  DEF IndInv, LaneInv, CommandHolds, PollHolds, RowInv, CommittedRowStands, RowIsLast, OnlyCommand,
      Keeps, SetOwner, store, native
<1> QED BY <1>1, <1>2, <1>3, <1>4, <1>5, <1>6, <1>7, <1>8, <1>9, <1>10, <1>11, <1>12, <1>13,
           <1>14
        DEF IndInv

\* It continues under a new number.
LEMMA BumpForOwnerInd ==
    ASSUME IndInv, NEW c \in Commands, BumpForOwner(c)
    PROVE  IndInv'
<1> USE ConstantsAssumption, NoTrackAssumption, NoRowType
<1>a. commands[c] \in CommandRec
  BY DEF IndInv, CommandsType
<1>b. SeqStep
  BY SeqSteps DEF IndInv, BumpForOwner
<1>c. seq + 1 \in Nat
  BY DEF IndInv, SharedType
<1> DEFINE new == [commands[c] EXCEPT !.pc = "check", !.applied = seq + 1]
<1>d. new \in CommandRec
  BY <1>a, <1>c DEF CommandRec, CommandPCs
<1>e. new.pc = "check"
  BY <1>a DEF CommandRec
<1>f. commands' = [commands EXCEPT ![c] = new]
  BY DEF IndInv, CommandsType, BumpForOwner
<1> HIDE DEF new
<1>g. OnlyCommand(c) /\ commands'[c].pc = "check"
  BY <1>d, <1>e, <1>f, CommandUpdate DEF IndInv
<1>1. SharedType'
  BY <1>a, <1>b, <1>c, <1>d, <1>e, <1>f, <1>g
  DEF IndInv, SharedType, SeqStep, BumpForOwner, transport, store, native
<1>2. StoreType'
  BY <1>a, <1>b, <1>c, <1>d, <1>e, <1>f, <1>g
  DEF IndInv, StoreType, CacheType, BumpForOwner, transport, store, native
<1>3. ClockType'
  BY <1>a, <1>b, <1>c, <1>d, <1>e, <1>f, <1>g
  DEF IndInv, ClockType, BumpForOwner, transport, store, native
<1>4. CommandsType'
  BY <1>a, <1>b, <1>c, <1>d, <1>e, <1>f, <1>g
  DEF IndInv, CommandsType, OnlyCommand, BumpForOwner, transport, store, native
<1>5. PollsType'
  BY <1>a, <1>b, <1>c, <1>d, <1>e, <1>f, <1>g
  DEF IndInv, PollsType, SeqStep, SamePolls, BumpForOwner, transport, store, native
<1>6. RelayType'
  BY <1>a, <1>b, <1>c, <1>d, <1>e, <1>f, <1>g
  DEF IndInv, RelayType, BumpForOwner, transport, store, native
<1>7. CacheType'
  BY <1>a, <1>b, <1>c, <1>d, <1>e, <1>f, <1>g
  DEF IndInv, CacheType, SharedType, BumpForOwner, transport, store, native
<1>8. UsedType'
  BY <1>a, <1>b, <1>c, <1>d, <1>e, <1>f, <1>g
  DEF IndInv, UsedType, BumpForOwner, transport, store, native
<1>9. CommandInv'
  BY <1>a, <1>b, <1>c, <1>d, <1>e, <1>f, <1>g
  DEF IndInv, CommandInv, OnlyCommand, BumpForOwner, transport, store, native
<1>10. LaneInv'
  BY <1>a, <1>b, <1>c, <1>d, <1>e, <1>f, <1>g
  DEF IndInv, LaneInv, CommandHolds, PollHolds, OnlyCommand, SeqStep, SamePolls,
      BumpForOwner, transport, store, native
<1>11. PollInv'
  BY <1>a, <1>b, <1>c, <1>d, <1>e, <1>f, <1>g
  DEF IndInv, SharedType, ClockType, ClockState, PollsType, PollRec, PollInv, SeqStep,
      SamePolls, BumpForOwner, transport, store, native
<1>12. DurableInv'
  BY <1>a, <1>b, <1>c, <1>d, <1>e, <1>f, <1>g
  DEF IndInv, SharedType, StoreType, PollsType, PollRec, CommandsType, CommandRec,
      CacheType, LaneInv, CommandHolds, PollHolds, DurableInv, RowsUpTo, OnlyCommand, SeqStep,
      SamePolls, BumpForOwner, transport, store, native
<1>13. RelayInv'
  BY <1>a, <1>b, <1>c, <1>d, <1>e, <1>f, <1>g
  DEF IndInv, RelayInv, BumpForOwner, transport, store, native
<1>14. RowInv'
  BY <1>a, <1>b, <1>c, <1>d, <1>e, <1>f, <1>g
  DEF IndInv, LaneInv, CommandHolds, PollHolds, RowInv, CommittedRowStands, RowIsLast, OnlyCommand,
      SeqStep, SamePolls, BumpForOwner, transport, store, native
<1> QED BY <1>1, <1>2, <1>3, <1>4, <1>5, <1>6, <1>7, <1>8, <1>9, <1>10, <1>11, <1>12, <1>13,
           <1>14
        DEF IndInv

\* A transfer sets the activity flag.
LEMMA HandOverInd ==
    ASSUME IndInv, NEW c \in Commands, NEW reasserted \in BOOLEAN, HandOver(c, reasserted)
    PROVE  IndInv'
<1> USE ConstantsAssumption, NoTrackAssumption, NoRowType
<1>a. commands[c] \in CommandRec
  BY DEF IndInv, CommandsType
<1>b. reasserted => [commands[c].snap EXCEPT !.device = "other"] \in MaybePlayback
  BY <1>a, HealedType DEF CommandRec, HandOver, Silent
<1> DEFINE new == [commands[c] EXCEPT !.pc = "check",
       !.healed = IF reasserted THEN [commands[c].snap EXCEPT !.device = "other"] ELSE NoPlayback]
<1>c. new \in CommandRec
  BY <1>a, <1>b, NoPlaybackType DEF CommandRec, CommandPCs
<1>d. new.pc = "check"
  BY <1>a DEF CommandRec
<1>e. commands' = [commands EXCEPT ![c] = new]
  BY DEF IndInv, CommandsType, HandOver
<1> HIDE DEF new
<1>f. OnlyCommand(c) /\ commands'[c].pc = "check"
  BY <1>c, <1>d, <1>e, CommandUpdate DEF IndInv
<1>1. SharedType'
  BY <1>a, <1>b, <1>c, <1>d, <1>e, <1>f DEF IndInv, SharedType, HandOver, store, native
<1>2. StoreType'
  BY <1>a, <1>b, <1>c, <1>d, <1>e, <1>f
  DEF IndInv, StoreType, CacheType, HandOver, store, native
<1>3. ClockType'
  BY <1>a, <1>b, <1>c, <1>d, <1>e, <1>f DEF IndInv, ClockType, HandOver, store, native
<1>4. CommandsType'
  BY <1>a, <1>b, <1>c, <1>d, <1>e, <1>f
  DEF IndInv, CommandsType, OnlyCommand, HandOver, store, native
<1>5. PollsType'
  BY <1>a, <1>b, <1>c, <1>d, <1>e, <1>f DEF IndInv, PollsType, HandOver, store, native
<1>6. RelayType'
  BY <1>a, <1>b, <1>c, <1>d, <1>e, <1>f DEF IndInv, RelayType, HandOver, store, native
<1>7. CacheType'
  BY <1>a, <1>b, <1>c, <1>d, <1>e, <1>f
  DEF IndInv, CacheType, SharedType, HandOver, store, native
<1>8. UsedType'
  BY <1>a, <1>b, <1>c, <1>d, <1>e, <1>f DEF IndInv, UsedType, HandOver, store, native
<1>9. CommandInv'
  BY <1>a, <1>b, <1>c, <1>d, <1>e, <1>f
  DEF IndInv, CommandInv, OnlyCommand, HandOver, store, native
<1>10. LaneInv'
  BY <1>a, <1>b, <1>c, <1>d, <1>e, <1>f
  DEF IndInv, LaneInv, CommandHolds, PollHolds, OnlyCommand, HandOver, store, native
<1>11. PollInv'
  BY <1>a, <1>b, <1>c, <1>d, <1>e, <1>f
  DEF IndInv, SharedType, ClockType, ClockState, PollsType, PollRec, PollInv, HandOver,
      store, native
<1>12. DurableInv'
  BY <1>a, <1>b, <1>c, <1>d, <1>e, <1>f
  DEF IndInv, SharedType, StoreType, PollsType, PollRec, CommandsType, CommandRec,
      CacheType, LaneInv, CommandHolds, PollHolds, DurableInv, RowsUpTo, OnlyCommand, HandOver, store,
      native
<1>13. RelayInv'
  BY <1>a, <1>b, <1>c, <1>d, <1>e, <1>f DEF IndInv, RelayInv, HandOver, store, native
<1>14. RowInv'
  BY <1>a, <1>b, <1>c, <1>d, <1>e, <1>f
  DEF IndInv, LaneInv, CommandHolds, PollHolds, RowInv, CommittedRowStands, RowIsLast, OnlyCommand,
      HandOver, store, native
<1> QED BY <1>1, <1>2, <1>3, <1>4, <1>5, <1>6, <1>7, <1>8, <1>9, <1>10, <1>11, <1>12, <1>13,
           <1>14
        DEF IndInv

\* A result that is kept is of the current epoch.
LEMMA CheckResultInd ==
    ASSUME IndInv, NEW c \in Commands, CheckResult(c)
    PROVE  IndInv'
<1> USE ConstantsAssumption, NoTrackAssumption, NoRowType
<1>a. commands[c] \in CommandRec
  BY DEF IndInv, CommandsType
<1>b. AfterResult(commands[c]) \in CommandRec
  BY <1>a, AfterResultType
<1>c. [commands[c] EXCEPT !.pc = "write"] \in CommandRec
  BY <1>a DEF CommandRec, CommandPCs
<1>d. OnlyCommand(c)
  BY <1>b, <1>c DEF IndInv, CommandsType, OnlyCommand, CheckResult
<1>e. \/ commands'[c].pc = "write" /\ Keeps(c) /\ commands[c].applied = seq /\ commands[c].result # NoPlayback
      \/ commands'[c].pc = "done"
      \/ commands'[c].pc = "heal" /\ commands'[c].healed # NoPlayback
  BY <1>a, AfterResultType DEF IndInv, CommandsType, CommandRec, Keeps, CheckResult
<1>1. SharedType'
  BY <1>a, <1>b, <1>c, <1>d, <1>e DEF IndInv, SharedType, CheckResult, transport, store, native
<1>2. StoreType'
  BY <1>a, <1>b, <1>c, <1>d, <1>e
  DEF IndInv, StoreType, CacheType, CheckResult, transport, store, native
<1>3. ClockType'
  BY <1>a, <1>b, <1>c, <1>d, <1>e DEF IndInv, ClockType, CheckResult, transport, store, native
<1>4. CommandsType'
  BY <1>a, <1>b, <1>c, <1>d, <1>e
  DEF IndInv, CommandsType, OnlyCommand, CheckResult, transport, store, native
<1>5. PollsType'
  BY <1>a, <1>b, <1>c, <1>d, <1>e DEF IndInv, PollsType, CheckResult, transport, store, native
<1>6. RelayType'
  BY <1>a, <1>b, <1>c, <1>d, <1>e DEF IndInv, RelayType, CheckResult, transport, store, native
<1>7. CacheType'
  BY <1>a, <1>b, <1>c, <1>d, <1>e
  DEF IndInv, CacheType, SharedType, CheckResult, transport, store, native
<1>8. UsedType'
  BY <1>a, <1>b, <1>c, <1>d, <1>e DEF IndInv, UsedType, CheckResult, transport, store, native
<1>9. CommandInv'
  BY <1>a, <1>b, <1>c, <1>d, <1>e
  DEF IndInv, CommandInv, OnlyCommand, Keeps, CheckResult, transport, store, native
<1>10. LaneInv'
  BY <1>a, <1>b, <1>c, <1>d, <1>e
  DEF IndInv, LaneInv, CommandHolds, PollHolds, OnlyCommand, CheckResult, transport, store,
      native
<1>11. PollInv'
  BY <1>a, <1>b, <1>c, <1>d, <1>e
  DEF IndInv, SharedType, ClockType, ClockState, PollsType, PollRec, PollInv, CheckResult,
      transport, store, native
<1>12. DurableInv'
  <2>1. UNCHANGED <<seq, polls, store, cache>>
    BY DEF CheckResult, native
  <2>2. CASE commands'[c].pc # "write"
    BY <1>d, <2>1, <2>2, DurableKept DEF IndInv, SeqStep
  <2>3. CASE commands'[c].pc = "write"
    <3>1. commands'[c].applied = seq /\ seq \in Nat
      BY <1>e, <2>3 DEF Keeps, IndInv, SharedType
    <3>2. \A d \in Commands \ {c} : commands'[d] = commands[d]
      BY <1>d DEF OnlyCommand
    <3> QED BY <2>1, <3>1, <3>2 DEF IndInv, DurableInv, RowsUpTo, store
  <2> QED BY <2>2, <2>3
<1>13. RelayInv'
  BY <1>a, <1>b, <1>c, <1>d, <1>e DEF IndInv, RelayInv, CheckResult, transport, store, native
<1>14. RowInv'
  BY <1>a, <1>b, <1>c, <1>d, <1>e
  DEF IndInv, LaneInv, CommandHolds, PollHolds, RowInv, CommittedRowStands, RowIsLast, OnlyCommand,
      Keeps, CheckResult, transport, store, native
<1> QED BY <1>1, <1>2, <1>3, <1>4, <1>5, <1>6, <1>7, <1>8, <1>9, <1>10, <1>11, <1>12, <1>13,
           <1>14
        DEF IndInv

\* A result that is stored is the row.
LEMMA WriteResultInd ==
    ASSUME IndInv, NEW c \in Commands, NEW ok \in BOOLEAN, WriteResult(c, ok)
    PROVE  IndInv'
<1> USE ConstantsAssumption, NoTrackAssumption, NoRowType
<1>a. commands[c] \in CommandRec
  BY DEF IndInv, CommandsType
<1>b. AfterResult(commands[c]) \in CommandRec
  BY <1>a, AfterResultType
<1>c. [commands[c] EXCEPT !.pc = "apply"] \in CommandRec
  BY <1>a DEF CommandRec, CommandPCs
<1>d. OnlyCommand(c)
  BY <1>b, <1>c DEF IndInv, CommandsType, OnlyCommand, WriteResult
<1>e. \/ ok /\ commands'[c].pc = "apply" /\ Keeps(c)
      \/ ~ ok /\ commands'[c].pc = "done"
      \/ ~ ok /\ commands'[c].pc = "heal" /\ commands'[c].healed # NoPlayback
  BY <1>a, AfterResultType DEF IndInv, CommandsType, CommandRec, Keeps, WriteResult
<1>f. commands[c].result \in Playback /\ commands[c].applied \in Nat
  BY <1>a DEF IndInv, CommandRec, MaybePlayback, CommandInv, WriteResult
<1>1. SharedType'
  BY <1>a, <1>b, <1>c, <1>d, <1>e, <1>f
  DEF IndInv, SharedType, WriteResult, Persist, transport, store, native
<1>2. StoreType'
  BY <1>a, <1>b, <1>c, <1>d, <1>e, <1>f
  DEF IndInv, StoreType, CacheType, WriteResult, Persist, transport, store, native
<1>3. ClockType'
  BY <1>a, <1>b, <1>c, <1>d, <1>e, <1>f
  DEF IndInv, ClockType, WriteResult, Persist, transport, store, native
<1>4. CommandsType'
  BY <1>a, <1>b, <1>c, <1>d, <1>e, <1>f
  DEF IndInv, CommandsType, OnlyCommand, WriteResult, Persist, transport, store, native
<1>5. PollsType'
  BY <1>a, <1>b, <1>c, <1>d, <1>e, <1>f
  DEF IndInv, PollsType, WriteResult, Persist, transport, store, native
<1>6. RelayType'
  BY <1>a, <1>b, <1>c, <1>d, <1>e, <1>f
  DEF IndInv, RelayType, WriteResult, Persist, transport, store, native
<1>7. CacheType'
  BY <1>a, <1>b, <1>c, <1>d, <1>e, <1>f
  DEF IndInv, CacheType, SharedType, WriteResult, Persist, transport, store, native
<1>8. UsedType'
  BY <1>a, <1>b, <1>c, <1>d, <1>e, <1>f
  DEF IndInv, UsedType, WriteResult, Persist, transport, store, native
<1>9. CommandInv'
  BY <1>a, <1>b, <1>c, <1>d, <1>e, <1>f
  DEF IndInv, CommandInv, OnlyCommand, Keeps, WriteResult, Persist, transport, store, native
<1>10. LaneInv'
  BY <1>a, <1>b, <1>c, <1>d, <1>e, <1>f
  DEF IndInv, LaneInv, CommandHolds, PollHolds, OnlyCommand, WriteResult, Persist,
      transport, store, native
<1>11. PollInv'
  BY <1>a, <1>b, <1>c, <1>d, <1>e, <1>f
  DEF IndInv, SharedType, ClockType, ClockState, PollsType, PollRec, PollInv, WriteResult,
      Persist, transport, store, native
<1>12. DurableInv'
  BY <1>a, <1>b, <1>c, <1>d, <1>e, <1>f
  DEF IndInv, SharedType, StoreType, PollsType, PollRec, CommandsType, CommandRec,
      CacheType, LaneInv, CommandHolds, PollHolds, DurableInv, RowsUpTo, OnlyCommand, Keeps,
      WriteResult, Persist, transport, store, native
<1>13. RelayInv'
  BY <1>a, <1>b, <1>c, <1>d, <1>e, <1>f
  DEF IndInv, RelayInv, WriteResult, Persist, transport, store, native
<1>14. RowInv'
  BY <1>a, <1>b, <1>c, <1>d, <1>e, <1>f
  DEF IndInv, LaneInv, CommandHolds, PollHolds, RowInv, CommittedRowStands, RowIsLast, OnlyCommand,
      Keeps, WriteResult, Persist, transport, store, native
<1> QED BY <1>1, <1>2, <1>3, <1>4, <1>5, <1>6, <1>7, <1>8, <1>9, <1>10, <1>11, <1>12, <1>13,
           <1>14
        DEF IndInv

\* The clock follows.
LEMMA ApplyResultInd ==
    ASSUME IndInv, NEW c \in Commands, ApplyResult(c)
    PROVE  IndInv'
<1> USE ConstantsAssumption, NoTrackAssumption, NoRowType
<1>a. commands[c] \in CommandRec
  BY DEF IndInv, CommandsType
<1>b. OnlyCommand(c)
  BY <1>a, AfterResultType, CommandUpdate DEF IndInv, ApplyResult
<1>c. \/ commands'[c].pc = "done"
      \/ commands'[c].pc = "heal" /\ commands'[c].healed # NoPlayback
  BY <1>a, AfterResultType, CommandUpdate DEF IndInv, ApplyResult
<1>d. commands[c].result \in Playback
  BY <1>a DEF IndInv, CommandRec, MaybePlayback, CommandInv, ApplyResult
<1>e. clock' \in ClockState /\ clock'.transition = clock.transition
  BY <1>d, CommandResultType DEF IndInv, ClockType, ApplyResult
<1>1. SharedType'
  BY <1>a, <1>b, <1>c, <1>d, <1>e DEF IndInv, SharedType, ApplyResult, transport, store, native
<1>2. StoreType'
  BY <1>a, <1>b, <1>c, <1>d, <1>e
  DEF IndInv, StoreType, CacheType, ApplyResult, transport, store, native
<1>3. ClockType'
  BY <1>a, <1>b, <1>c, <1>d, <1>e DEF IndInv, ClockType, ApplyResult, transport, store, native
<1>4. CommandsType'
  BY <1>a, <1>b, <1>c, <1>d, <1>e
  DEF IndInv, CommandsType, OnlyCommand, ApplyResult, transport, store, native
<1>5. PollsType'
  BY <1>a, <1>b, <1>c, <1>d, <1>e DEF IndInv, PollsType, ApplyResult, transport, store, native
<1>6. RelayType'
  BY <1>a, <1>b, <1>c, <1>d, <1>e DEF IndInv, RelayType, ApplyResult, transport, store, native
<1>7. CacheType'
  BY <1>a, <1>b, <1>c, <1>d, <1>e
  DEF IndInv, CacheType, SharedType, ApplyResult, transport, store, native
<1>8. UsedType'
  BY <1>a, <1>b, <1>c, <1>d, <1>e DEF IndInv, UsedType, ApplyResult, transport, store, native
<1>9. CommandInv'
  BY <1>a, <1>b, <1>c, <1>d, <1>e
  DEF IndInv, CommandInv, OnlyCommand, ApplyResult, transport, store, native
<1>10. LaneInv'
  BY <1>a, <1>b, <1>c, <1>d, <1>e
  DEF IndInv, LaneInv, CommandHolds, PollHolds, OnlyCommand, ApplyResult, transport, store,
      native
<1>11. PollInv'
  BY <1>a, <1>b, <1>c, <1>d, <1>e
  DEF IndInv, SharedType, ClockType, ClockState, PollsType, PollRec, PollInv, ApplyResult,
      transport, store, native
<1>12. DurableInv'
  BY <1>a, <1>b, <1>c, <1>d, <1>e
  DEF IndInv, SharedType, StoreType, PollsType, PollRec, CommandsType, CommandRec,
      CacheType, LaneInv, CommandHolds, PollHolds, DurableInv, RowsUpTo, OnlyCommand, ApplyResult,
      transport, store, native
<1>13. RelayInv'
  BY <1>a, <1>b, <1>c, <1>d, <1>e DEF IndInv, RelayInv, ApplyResult, transport, store, native
<1>14. RowInv'
  BY <1>a, <1>b, <1>c, <1>d, <1>e
  DEF IndInv, LaneInv, CommandHolds, PollHolds, RowInv, CommittedRowStands, RowIsLast, OnlyCommand,
      ApplyResult, transport, store, native
<1> QED BY <1>1, <1>2, <1>3, <1>4, <1>5, <1>6, <1>7, <1>8, <1>9, <1>10, <1>11, <1>12, <1>13,
           <1>14
        DEF IndInv

\* The snapshot of a re-asserted transfer goes on the clock.
LEMMA HealInd ==
    ASSUME IndInv, NEW c \in Commands, Heal(c)
    PROVE  IndInv'
<1> USE ConstantsAssumption, NoTrackAssumption, NoRowType
<1>a. commands[c] \in CommandRec
  BY DEF IndInv, CommandsType
<1>b. commands[c].healed \in Playback
  BY <1>a DEF IndInv, CommandRec, MaybePlayback, CommandInv, Heal
<1>c. clock' \in ClockState /\ clock'.transition = clock.transition
  BY <1>b, CommandResultType DEF IndInv, ClockType, Heal
<1> DEFINE new == Ended(commands[c])
<1>d. new \in CommandRec
  BY <1>a, EndedType
<1>e. new.pc = "done"
  BY <1>a, EndedType
<1>f. commands' = [commands EXCEPT ![c] = new]
  BY DEF Heal
<1> HIDE DEF new
<1>g. OnlyCommand(c) /\ commands'[c].pc = "done"
  BY <1>d, <1>e, <1>f, CommandUpdate DEF IndInv
<1>1. SharedType'
  BY <1>a, <1>b, <1>c, <1>d, <1>e, <1>f, <1>g
  DEF IndInv, SharedType, Heal, transport, store, native
<1>2. StoreType'
  BY <1>a, <1>b, <1>c, <1>d, <1>e, <1>f, <1>g
  DEF IndInv, StoreType, CacheType, Heal, transport, store, native
<1>3. ClockType'
  BY <1>a, <1>b, <1>c, <1>d, <1>e, <1>f, <1>g
  DEF IndInv, ClockType, Heal, transport, store, native
<1>4. CommandsType'
  BY <1>a, <1>b, <1>c, <1>d, <1>e, <1>f, <1>g
  DEF IndInv, CommandsType, OnlyCommand, Heal, transport, store, native
<1>5. PollsType'
  BY <1>a, <1>b, <1>c, <1>d, <1>e, <1>f, <1>g
  DEF IndInv, PollsType, Heal, transport, store, native
<1>6. RelayType'
  BY <1>a, <1>b, <1>c, <1>d, <1>e, <1>f, <1>g
  DEF IndInv, RelayType, Heal, transport, store, native
<1>7. CacheType'
  BY <1>a, <1>b, <1>c, <1>d, <1>e, <1>f, <1>g
  DEF IndInv, CacheType, SharedType, Heal, transport, store, native
<1>8. UsedType'
  BY <1>a, <1>b, <1>c, <1>d, <1>e, <1>f, <1>g
  DEF IndInv, UsedType, Heal, transport, store, native
<1>9. CommandInv'
  BY <1>a, <1>b, <1>c, <1>d, <1>e, <1>f, <1>g
  DEF IndInv, CommandInv, OnlyCommand, Heal, transport, store, native
<1>10. LaneInv'
  BY <1>a, <1>b, <1>c, <1>d, <1>e, <1>f, <1>g
  DEF IndInv, LaneInv, CommandHolds, PollHolds, OnlyCommand, Heal, transport, store, native
<1>11. PollInv'
  BY <1>a, <1>b, <1>c, <1>d, <1>e, <1>f, <1>g
  DEF IndInv, SharedType, ClockType, ClockState, PollsType, PollRec, PollInv, Heal,
      transport, store, native
<1>12. DurableInv'
  BY <1>a, <1>b, <1>c, <1>d, <1>e, <1>f, <1>g
  DEF IndInv, SharedType, StoreType, PollsType, PollRec, CommandsType, CommandRec,
      CacheType, LaneInv, CommandHolds, PollHolds, DurableInv, RowsUpTo, OnlyCommand, Heal, transport,
      store, native
<1>13. RelayInv'
  BY <1>a, <1>b, <1>c, <1>d, <1>e, <1>f, <1>g
  DEF IndInv, RelayInv, Heal, transport, store, native
<1>14. RowInv'
  BY <1>a, <1>b, <1>c, <1>d, <1>e, <1>f, <1>g
  DEF IndInv, LaneInv, CommandHolds, PollHolds, RowInv, CommittedRowStands, RowIsLast, OnlyCommand,
      Heal, transport, store, native
<1> QED BY <1>1, <1>2, <1>3, <1>4, <1>5, <1>6, <1>7, <1>8, <1>9, <1>10, <1>11, <1>12, <1>13,
           <1>14
        DEF IndInv

\* A command cut off in its write leaves its row or none.
LEMMA CutOffInd ==
    ASSUME IndInv, NEW c \in Commands, NEW row \in {"stored", "lost", "delayed"}, CutOff(c, row)
    PROVE  IndInv'
<1> USE ConstantsAssumption, NoTrackAssumption, NoRowType
<1>a. commands[c] \in CommandRec
  BY DEF IndInv, CommandsType
<1>b. /\ commands[c].applied \in Nat
      /\ commands[c].pc = "write" => commands[c].result \in Playback
  BY <1>a DEF IndInv, CommandRec, MaybePlayback, CommandInv
<1> DEFINE new == Ended(commands[c])
<1>c. new \in CommandRec
  BY <1>a, EndedType
<1>d. new.pc = "done"
  BY <1>a, EndedType
<1>e. commands' = [commands EXCEPT ![c] = new]
  BY DEF CutOff
<1> HIDE DEF new
<1>f. OnlyCommand(c) /\ commands'[c].pc = "done"
  BY <1>c, <1>d, <1>e, CommandUpdate DEF IndInv
<1>1. SharedType'
  BY <1>a, <1>b, <1>c, <1>d, <1>e, <1>f
  DEF IndInv, SharedType, CutOff, Persist, transport, store, native
<1>2. StoreType'
  BY <1>a, <1>b, <1>c, <1>d, <1>e, <1>f
  DEF IndInv, StoreType, CacheType, CutOff, Persist, transport, store, native
<1>3. ClockType'
  BY <1>a, <1>b, <1>c, <1>d, <1>e, <1>f
  DEF IndInv, ClockType, CutOff, Persist, transport, store, native
<1>4. CommandsType'
  BY <1>a, <1>b, <1>c, <1>d, <1>e, <1>f
  DEF IndInv, CommandsType, OnlyCommand, CutOff, Persist, transport, store, native
<1>5. PollsType'
  BY <1>a, <1>b, <1>c, <1>d, <1>e, <1>f
  DEF IndInv, PollsType, CutOff, Persist, transport, store, native
<1>6. RelayType'
  BY <1>a, <1>b, <1>c, <1>d, <1>e, <1>f
  DEF IndInv, RelayType, CutOff, Persist, transport, store, native
<1>7. CacheType'
  BY <1>a, <1>b, <1>c, <1>d, <1>e, <1>f
  DEF IndInv, CacheType, SharedType, CutOff, Persist, transport, store, native
<1>8. UsedType'
  BY <1>a, <1>b, <1>c, <1>d, <1>e, <1>f
  DEF IndInv, UsedType, CutOff, Persist, transport, store, native
<1>9. CommandInv'
  BY <1>a, <1>b, <1>c, <1>d, <1>e, <1>f
  DEF IndInv, CommandInv, OnlyCommand, CutOff, Persist, transport, store, native
<1>10. LaneInv'
  BY <1>a, <1>b, <1>c, <1>d, <1>e, <1>f
  DEF IndInv, LaneInv, CommandHolds, PollHolds, OnlyCommand, CutOff, Persist, transport,
      store, native
<1>11. PollInv'
  BY <1>a, <1>b, <1>c, <1>d, <1>e, <1>f
  DEF IndInv, SharedType, ClockType, ClockState, PollsType, PollRec, PollInv, CutOff,
      Persist, transport, store, native
<1>12. DurableInv'
  BY <1>a, <1>b, <1>c, <1>d, <1>e, <1>f
  DEF IndInv, SharedType, StoreType, PollsType, PollRec, CommandsType, CommandRec,
      CacheType, LaneInv, CommandHolds, PollHolds, DurableInv, RowsUpTo, OnlyCommand, CutOff, Persist,
      transport, store, native
<1>13. RelayInv'
  BY <1>a, <1>b, <1>c, <1>d, <1>e, <1>f
  DEF IndInv, RelayInv, CutOff, Persist, transport, store, native
<1>14. RowInv'
  BY <1>a, <1>b, <1>c, <1>d, <1>e, <1>f
  DEF IndInv, LaneInv, CommandHolds, PollHolds, RowInv, CommittedRowStands, RowIsLast, OnlyCommand,
      CutOff, Persist, transport, store, native
<1> QED BY <1>1, <1>2, <1>3, <1>4, <1>5, <1>6, <1>7, <1>8, <1>9, <1>10, <1>11, <1>12, <1>13,
           <1>14
        DEF IndInv

\* A row that arrives late is the youngest, and nobody has written since.
LEMMA DelayedRowInd ==
    ASSUME IndInv, DelayedRow
    PROVE  IndInv'
<1> USE ConstantsAssumption, NoTrackAssumption, NoRowType
<1>1. SharedType'
  BY DEF IndInv, SharedType, DelayedRow, transport, native
<1>2. StoreType'
  BY DEF IndInv, StoreType, DelayedRow
<1>3. ClockType'
  BY DEF IndInv, ClockType, DelayedRow, transport, native
<1>4. CommandsType'
  BY DEF IndInv, CommandsType, DelayedRow, transport, native
<1>5. PollsType'
  BY DEF IndInv, PollsType, DelayedRow, transport, native
<1>6. RelayType'
  BY DEF IndInv, RelayType, DelayedRow, transport, native
<1>7. CacheType'
  BY DEF IndInv, CacheType, DelayedRow, transport, native
<1>8. UsedType'
  BY DEF IndInv, UsedType, DelayedRow, transport, native
<1>9. CommandInv'
  BY DEF IndInv, CommandInv, DelayedRow, transport, native
<1>10. LaneInv'
  BY DEF IndInv, LaneInv, CommandHolds, PollHolds, DelayedRow, transport, native
<1>11. PollInv'
  BY DEF IndInv, PollInv, SharedType, ClockType, ClockState, PollsType, PollRec, DelayedRow, transport, native
<1>12. DurableInv'
  BY DEF IndInv, DurableInv, RowsUpTo, SharedType, StoreType, PollsType, PollRec,
         CommandsType, CommandRec, CacheType, DelayedRow, transport, native
<1>13. RelayInv'
  BY DEF IndInv, RelayInv, DelayedRow, transport, native
<1>14. RowInv'
  BY DEF IndInv, RowInv, CommittedRowStands, RowIsLast, DelayedRow, transport, native
<1> QED BY <1>1, <1>2, <1>3, <1>4, <1>5, <1>6, <1>7, <1>8, <1>9, <1>10, <1>11, <1>12, <1>13,
           <1>14
        DEF IndInv

\* A transfer that is cut off has revoked the activity.
LEMMA CutOffHandOverInd ==
    ASSUME IndInv, NEW c \in Commands, CutOffHandOver(c)
    PROVE  IndInv'
<1> USE ConstantsAssumption, NoTrackAssumption, NoRowType
<1>a. commands[c] \in CommandRec
  BY DEF IndInv, CommandsType
<1> DEFINE new == Ended(commands[c])
<1>b. new \in CommandRec
  BY <1>a, EndedType
<1>c. new.pc = "done"
  BY <1>a, EndedType
<1>d. commands' = [commands EXCEPT ![c] = new]
  BY DEF CutOffHandOver
<1> HIDE DEF new
<1>e. OnlyCommand(c) /\ commands'[c].pc = "done"
  BY <1>b, <1>c, <1>d, CommandUpdate DEF IndInv
<1>1. SharedType'
  BY <1>a, <1>b, <1>c, <1>d, <1>e DEF IndInv, SharedType, CutOffHandOver, store, native
<1>2. StoreType'
  BY <1>a, <1>b, <1>c, <1>d, <1>e
  DEF IndInv, StoreType, CacheType, CutOffHandOver, store, native
<1>3. ClockType'
  BY <1>a, <1>b, <1>c, <1>d, <1>e DEF IndInv, ClockType, CutOffHandOver, store, native
<1>4. CommandsType'
  BY <1>a, <1>b, <1>c, <1>d, <1>e
  DEF IndInv, CommandsType, OnlyCommand, CutOffHandOver, store, native
<1>5. PollsType'
  BY <1>a, <1>b, <1>c, <1>d, <1>e DEF IndInv, PollsType, CutOffHandOver, store, native
<1>6. RelayType'
  BY <1>a, <1>b, <1>c, <1>d, <1>e DEF IndInv, RelayType, CutOffHandOver, store, native
<1>7. CacheType'
  BY <1>a, <1>b, <1>c, <1>d, <1>e
  DEF IndInv, CacheType, SharedType, CutOffHandOver, store, native
<1>8. UsedType'
  BY <1>a, <1>b, <1>c, <1>d, <1>e DEF IndInv, UsedType, CutOffHandOver, store, native
<1>9. CommandInv'
  BY <1>a, <1>b, <1>c, <1>d, <1>e
  DEF IndInv, CommandInv, OnlyCommand, CutOffHandOver, store, native
<1>10. LaneInv'
  BY <1>a, <1>b, <1>c, <1>d, <1>e
  DEF IndInv, LaneInv, CommandHolds, PollHolds, OnlyCommand, CutOffHandOver, store, native
<1>11. PollInv'
  BY <1>a, <1>b, <1>c, <1>d, <1>e
  DEF IndInv, SharedType, ClockType, ClockState, PollsType, PollRec, PollInv,
      CutOffHandOver, store, native
<1>12. DurableInv'
  BY <1>a, <1>b, <1>c, <1>d, <1>e
  DEF IndInv, SharedType, StoreType, PollsType, PollRec, CommandsType, CommandRec,
      CacheType, LaneInv, CommandHolds, PollHolds, DurableInv, RowsUpTo, OnlyCommand, CutOffHandOver,
      store, native
<1>13. RelayInv'
  BY <1>a, <1>b, <1>c, <1>d, <1>e DEF IndInv, RelayInv, CutOffHandOver, store, native
<1>14. RowInv'
  BY <1>a, <1>b, <1>c, <1>d, <1>e
  DEF IndInv, LaneInv, CommandHolds, PollHolds, RowInv, CommittedRowStands, RowIsLast, OnlyCommand,
      CutOffHandOver, store, native
<1> QED BY <1>1, <1>2, <1>3, <1>4, <1>5, <1>6, <1>7, <1>8, <1>9, <1>10, <1>11, <1>12, <1>13,
           <1>14
        DEF IndInv

\* A poll reads the counters as they are.
LEMMA PollStartInd ==
    ASSUME IndInv, NEW p \in Polls, PollStart(p)
    PROVE  IndInv'
<1> USE ConstantsAssumption, NoTrackAssumption, NoRowType
<1>a. OnlyPoll(p)
  BY IdlePollType
  DEF IndInv, PollsType, PollRec, PollPCs, OnlyPoll, SetPoll, PollStart, SharedType,
      ClockType, ClockState, IdlePoll
<1>b. polls'[p].pc \in {"reading"} /\ polls'[p].seq = seq
      /\ polls'[p].transition = clock.transition /\ ~ polls'[p].overtaken
  BY IdlePollType
  DEF IndInv, PollsType, SetPoll, PollStart, SharedType, ClockType, ClockState, IdlePoll
<1>1. SharedType'
  BY <1>a, <1>b DEF IndInv, SharedType, PollStart, SetPoll, transport, store
<1>2. StoreType'
  BY <1>a, <1>b DEF IndInv, StoreType, CacheType, PollStart, SetPoll, transport, store
<1>3. ClockType'
  BY <1>a, <1>b DEF IndInv, ClockType, PollStart, SetPoll, transport, store
<1>4. CommandsType'
  BY <1>a, <1>b DEF IndInv, CommandsType, PollStart, SetPoll, transport, store
<1>5. PollsType'
  BY <1>a, <1>b DEF IndInv, PollsType, OnlyPoll, PollStart, SetPoll, transport, store
<1>6. RelayType'
  BY <1>a, <1>b DEF IndInv, RelayType, PollStart, SetPoll, transport, store
<1>7. CacheType'
  BY <1>a, <1>b DEF IndInv, CacheType, SharedType, PollStart, SetPoll, transport, store
<1>8. UsedType'
  BY <1>a, <1>b DEF IndInv, UsedType, PollStart, SetPoll, transport, store
<1>9. CommandInv'
  BY <1>a, <1>b DEF IndInv, CommandInv, PollStart, SetPoll, transport, store
<1>10. LaneInv'
  BY <1>a, <1>b
  DEF IndInv, LaneInv, CommandHolds, PollHolds, OnlyPoll, PollStart, SetPoll, transport,
      store
<1>11. PollInv'
  BY <1>a, <1>b
  DEF IndInv, SharedType, ClockType, ClockState, PollsType, PollRec, PollInv, OnlyPoll,
      PollStart, SetPoll, transport, store
<1>12. DurableInv'
  BY <1>a, <1>b
  DEF IndInv, SharedType, StoreType, PollsType, PollRec, CommandsType, CommandRec,
      CacheType, LaneInv, CommandHolds, PollHolds, DurableInv, RowsUpTo, OnlyPoll, PollStart, SetPoll,
      transport, store
<1>13. RelayInv'
  BY <1>a, <1>b DEF IndInv, RelayInv, PollStart, SetPoll, transport, store
<1>14. RowInv'
  BY <1>a, <1>b
  DEF IndInv, LaneInv, CommandHolds, PollHolds, RowInv, CommittedRowStands, RowIsLast, OnlyPoll,
      PollStart, SetPoll, transport, store
<1> QED BY <1>1, <1>2, <1>3, <1>4, <1>5, <1>6, <1>7, <1>8, <1>9, <1>10, <1>11, <1>12, <1>13,
           <1>14
        DEF IndInv

\* What it is told does not change them.
LEMMA PollReadInd ==
    ASSUME IndInv, NEW p \in Polls, NEW provider \in Providers,
           NEW sample \in Reports(provider), PollRead(p, provider, sample)
    PROVE  IndInv'
<1> USE ConstantsAssumption, NoTrackAssumption, NoRowType
<1>a. sample \in Playback
  BY ReportsType
<1>b. OnlyPoll(p)
  BY <1>a DEF IndInv, PollsType, PollRec, PollPCs, OnlyPoll, SetPoll, PollRead
<1>c. polls'[p].pc \in {"read"} /\ SameCounters(p)
  BY <1>a DEF IndInv, PollsType, SetPoll, PollRead, SameCounters
<1>1. SharedType'
  BY <1>a, <1>b, <1>c
  DEF IndInv, SharedType, PollRead, SetPoll, SameCounters, transport, store, native
<1>2. StoreType'
  BY <1>a, <1>b, <1>c
  DEF IndInv, StoreType, CacheType, PollRead, SetPoll, SameCounters, transport, store,
      native
<1>3. ClockType'
  BY <1>a, <1>b, <1>c
  DEF IndInv, ClockType, PollRead, SetPoll, SameCounters, transport, store, native
<1>4. CommandsType'
  BY <1>a, <1>b, <1>c
  DEF IndInv, CommandsType, PollRead, SetPoll, SameCounters, transport, store, native
<1>5. PollsType'
  BY <1>a, <1>b, <1>c
  DEF IndInv, PollsType, OnlyPoll, PollRead, SetPoll, SameCounters, transport, store, native
<1>6. RelayType'
  BY <1>a, <1>b, <1>c
  DEF IndInv, RelayType, PollRead, SetPoll, SameCounters, transport, store, native
<1>7. CacheType'
  BY <1>a, <1>b, <1>c
  DEF IndInv, CacheType, SharedType, PollRead, SetPoll, SameCounters, transport, store,
      native
<1>8. UsedType'
  BY <1>a, <1>b, <1>c
  DEF IndInv, UsedType, PollRead, SetPoll, SameCounters, transport, store, native
<1>9. CommandInv'
  BY <1>a, <1>b, <1>c
  DEF IndInv, CommandInv, PollRead, SetPoll, SameCounters, transport, store, native
<1>10. LaneInv'
  BY <1>a, <1>b, <1>c
  DEF IndInv, LaneInv, CommandHolds, PollHolds, OnlyPoll, PollRead, SetPoll, SameCounters,
      transport, store, native
<1>11. PollInv'
  BY <1>a, <1>b, <1>c
  DEF IndInv, SharedType, ClockType, ClockState, PollsType, PollRec, PollInv, OnlyPoll,
      PollRead, SetPoll, SameCounters, transport, store, native
<1>12. DurableInv'
  BY <1>a, <1>b, <1>c
  DEF IndInv, SharedType, StoreType, PollsType, PollRec, CommandsType, CommandRec,
      CacheType, LaneInv, CommandHolds, PollHolds, DurableInv, RowsUpTo, OnlyPoll, PollRead, SetPoll,
      SameCounters, transport, store, native
<1>13. RelayInv'
  BY <1>a, <1>b, <1>c
  DEF IndInv, RelayInv, PollRead, SetPoll, SameCounters, transport, store, native
<1>14. RowInv'
  BY <1>a, <1>b, <1>c
  DEF IndInv, LaneInv, CommandHolds, PollHolds, RowInv, CommittedRowStands, RowIsLast, OnlyPoll,
      PollRead, SetPoll, SameCounters, transport, store, native
<1> QED BY <1>1, <1>2, <1>3, <1>4, <1>5, <1>6, <1>7, <1>8, <1>9, <1>10, <1>11, <1>12, <1>13,
           <1>14
        DEF IndInv

\* A failed read ends the poll.
LEMMA PollReadFailsInd ==
    ASSUME IndInv, NEW p \in Polls, PollReadFails(p)
    PROVE  IndInv'
<1> USE ConstantsAssumption, NoTrackAssumption, NoRowType
<1>a. OnlyPoll(p)
  BY IdlePollType
  DEF IndInv, PollsType, PollRec, PollPCs, OnlyPoll, SetPoll, PollReadFails, IdlePoll
<1>b. polls'[p].pc \in {"idle"}
  BY IdlePollType DEF IndInv, PollsType, SetPoll, PollReadFails, IdlePoll
<1>1. SharedType'
  BY <1>a, <1>b DEF IndInv, SharedType, PollReadFails, SetPoll, transport, store, native
<1>2. StoreType'
  BY <1>a, <1>b
  DEF IndInv, StoreType, CacheType, PollReadFails, SetPoll, transport, store, native
<1>3. ClockType'
  BY <1>a, <1>b DEF IndInv, ClockType, PollReadFails, SetPoll, transport, store, native
<1>4. CommandsType'
  BY <1>a, <1>b DEF IndInv, CommandsType, PollReadFails, SetPoll, transport, store, native
<1>5. PollsType'
  BY <1>a, <1>b
  DEF IndInv, PollsType, OnlyPoll, PollReadFails, SetPoll, transport, store, native
<1>6. RelayType'
  BY <1>a, <1>b DEF IndInv, RelayType, PollReadFails, SetPoll, transport, store, native
<1>7. CacheType'
  BY <1>a, <1>b
  DEF IndInv, CacheType, SharedType, PollReadFails, SetPoll, transport, store, native
<1>8. UsedType'
  BY <1>a, <1>b DEF IndInv, UsedType, PollReadFails, SetPoll, transport, store, native
<1>9. CommandInv'
  BY <1>a, <1>b DEF IndInv, CommandInv, PollReadFails, SetPoll, transport, store, native
<1>10. LaneInv'
  BY <1>a, <1>b
  DEF IndInv, LaneInv, CommandHolds, PollHolds, OnlyPoll, PollReadFails, SetPoll, transport,
      store, native
<1>11. PollInv'
  BY <1>a, <1>b
  DEF IndInv, SharedType, ClockType, ClockState, PollsType, PollRec, PollInv, OnlyPoll,
      PollReadFails, SetPoll, transport, store, native
<1>12. DurableInv'
  BY <1>a, <1>b
  DEF IndInv, SharedType, StoreType, PollsType, PollRec, CommandsType, CommandRec,
      CacheType, LaneInv, CommandHolds, PollHolds, DurableInv, RowsUpTo, OnlyPoll, PollReadFails,
      SetPoll, transport, store, native
<1>13. RelayInv'
  BY <1>a, <1>b DEF IndInv, RelayInv, PollReadFails, SetPoll, transport, store, native
<1>14. RowInv'
  BY <1>a, <1>b
  DEF IndInv, LaneInv, CommandHolds, PollHolds, RowInv, CommittedRowStands, RowIsLast, OnlyPoll,
      PollReadFails, SetPoll, transport, store, native
<1> QED BY <1>1, <1>2, <1>3, <1>4, <1>5, <1>6, <1>7, <1>8, <1>9, <1>10, <1>11, <1>12, <1>13,
           <1>14
        DEF IndInv

\* A poll that is admitted is of the current epoch.
LEMMA PollAdmitInd ==
    ASSUME IndInv, NEW p \in Polls, NEW earlier \in BOOLEAN,
           NEW confirmed \in BOOLEAN, PollAdmit(p, earlier, confirmed)
    PROVE  IndInv'
<1> USE ConstantsAssumption, NoTrackAssumption, NoRowType
<1>a. polls[p] \in PollRec
  BY DEF IndInv, PollsType
<1>b. CandidateOf(clock, polls[p].sample) \in Playback
  BY <1>a, CandidateType DEF IndInv, ClockType, PollRec
<1>c. [polls[p] EXCEPT !.pc = "write", !.candidate = CandidateOf(clock, polls[p].sample)] \in PollRec
  BY <1>a, <1>b DEF PollRec, PollPCs
<1>d. OnlyPoll(p)
  BY <1>c, IdlePollType DEF IndInv, PollsType, OnlyPoll, SetPoll, PollAdmit
<1>e. \/ polls'[p].pc = "idle"
      \/ polls'[p].pc = "write" /\ SameCounters(p) /\ polls[p].seq = seq
  BY <1>a, IdlePollType
  DEF IndInv, PollsType, PollRec, SetPoll, SameCounters, MayApplyPlaybackPoll, PollAdmit
<1>f. clock' \in ClockState /\ clock'.transition = clock.transition
  BY <1>a, PrepareType DEF IndInv, ClockType, PollRec, PollAdmit
<1>g. LaneOnly => NobodyHolds
  BY LaneIsFree DEF IndInv, PollAdmit
<1>1. SharedType'
  BY <1>a, <1>b, <1>c, <1>d, <1>e, <1>f, <1>g
  DEF IndInv, SharedType, PollAdmit, NobodyHolds, SetPoll, SameCounters, transport, store,
      native
<1>2. StoreType'
  BY <1>a, <1>b, <1>c, <1>d, <1>e, <1>f, <1>g
  DEF IndInv, StoreType, CacheType, PollAdmit, NobodyHolds, SetPoll, SameCounters,
      transport, store, native
<1>3. ClockType'
  BY <1>a, <1>b, <1>c, <1>d, <1>e, <1>f, <1>g
  DEF IndInv, ClockType, PollAdmit, NobodyHolds, SetPoll, SameCounters, transport, store,
      native
<1>4. CommandsType'
  BY <1>a, <1>b, <1>c, <1>d, <1>e, <1>f, <1>g
  DEF IndInv, CommandsType, PollAdmit, NobodyHolds, SetPoll, SameCounters, transport, store,
      native
<1>5. PollsType'
  BY <1>a, <1>b, <1>c, <1>d, <1>e, <1>f, <1>g
  DEF IndInv, PollsType, OnlyPoll, PollAdmit, NobodyHolds, SetPoll, SameCounters, transport,
      store, native
<1>6. RelayType'
  BY <1>a, <1>b, <1>c, <1>d, <1>e, <1>f, <1>g
  DEF IndInv, RelayType, PollAdmit, NobodyHolds, SetPoll, SameCounters, transport, store,
      native
<1>7. CacheType'
  BY <1>a, <1>b, <1>c, <1>d, <1>e, <1>f, <1>g
  DEF IndInv, CacheType, SharedType, PollAdmit, NobodyHolds, SetPoll, SameCounters,
      transport, store, native
<1>8. UsedType'
  BY <1>a, <1>b, <1>c, <1>d, <1>e, <1>f, <1>g
  DEF IndInv, UsedType, PollAdmit, NobodyHolds, SetPoll, SameCounters, transport, store,
      native
<1>9. CommandInv'
  BY <1>a, <1>b, <1>c, <1>d, <1>e, <1>f, <1>g
  DEF IndInv, CommandInv, PollAdmit, NobodyHolds, SetPoll, SameCounters, transport, store,
      native
<1>10. LaneInv'
  BY <1>a, <1>b, <1>c, <1>d, <1>e, <1>f, <1>g
  DEF IndInv, LaneInv, CommandHolds, PollHolds, OnlyPoll, PollAdmit, NobodyHolds, SetPoll,
      SameCounters, transport, store, native
<1>11. PollInv'
  BY <1>a, <1>b, <1>c, <1>d, <1>e, <1>f, <1>g
  DEF IndInv, SharedType, ClockType, ClockState, PollsType, PollRec, PollInv, OnlyPoll,
      PollAdmit, NobodyHolds, SetPoll, SameCounters, transport, store, native
<1>12. DurableInv'
  BY <1>a, <1>b, <1>c, <1>d, <1>e, <1>f, <1>g
  DEF IndInv, SharedType, StoreType, PollsType, PollRec, CommandsType, CommandRec,
      CacheType, LaneInv, CommandHolds, PollHolds, DurableInv, RowsUpTo, OnlyPoll, PollAdmit,
      NobodyHolds, SetPoll, SameCounters, transport, store, native
<1>13. RelayInv'
  BY <1>a, <1>b, <1>c, <1>d, <1>e, <1>f, <1>g
  DEF IndInv, RelayInv, PollAdmit, NobodyHolds, SetPoll, SameCounters, transport, store,
      native
<1>14. RowInv'
  BY <1>a, <1>b, <1>c, <1>d, <1>e, <1>f, <1>g
  DEF IndInv, LaneInv, CommandHolds, PollHolds, RowInv, CommittedRowStands, RowIsLast, OnlyPoll,
      PollAdmit, NobodyHolds, SetPoll, SameCounters, transport, store, native
<1> QED BY <1>1, <1>2, <1>3, <1>4, <1>5, <1>6, <1>7, <1>8, <1>9, <1>10, <1>11, <1>12, <1>13,
           <1>14
        DEF IndInv

\* A poll that is stored is the row.
LEMMA PollWriteInd ==
    ASSUME IndInv, NEW p \in Polls, NEW ok \in BOOLEAN, PollWrite(p, ok)
    PROVE  IndInv'
<1> USE ConstantsAssumption, NoTrackAssumption, NoRowType
<1>a. polls[p] \in PollRec
  BY DEF IndInv, PollsType
<1>b. [polls[p] EXCEPT !.pc = "recheck"] \in PollRec
  BY <1>a DEF PollRec, PollPCs
<1>c. OnlyPoll(p)
  BY <1>b, IdlePollType DEF IndInv, PollsType, OnlyPoll, SetPoll, PollWrite
<1>d. \/ ~ ok /\ polls'[p].pc = "idle"
      \/ ok /\ polls'[p].pc = "recheck" /\ SameCounters(p) /\ polls'[p].candidate = polls[p].candidate
  BY <1>a, IdlePollType DEF IndInv, PollsType, PollRec, SetPoll, SameCounters, PollWrite
<1>e. polls[p].candidate \in Playback /\ polls[p].seq \in Nat
  BY <1>a DEF PollRec
<1>1. SharedType'
  BY <1>a, <1>b, <1>c, <1>d, <1>e
  DEF IndInv, SharedType, PollWrite, Persist, SetPoll, SameCounters, transport, store,
      native
<1>2. StoreType'
  BY <1>a, <1>b, <1>c, <1>d, <1>e
  DEF IndInv, StoreType, CacheType, PollWrite, Persist, SetPoll, SameCounters, transport,
      store, native
<1>3. ClockType'
  BY <1>a, <1>b, <1>c, <1>d, <1>e
  DEF IndInv, ClockType, PollWrite, Persist, SetPoll, SameCounters, transport, store, native
<1>4. CommandsType'
  BY <1>a, <1>b, <1>c, <1>d, <1>e
  DEF IndInv, CommandsType, PollWrite, Persist, SetPoll, SameCounters, transport, store,
      native
<1>5. PollsType'
  BY <1>a, <1>b, <1>c, <1>d, <1>e
  DEF IndInv, PollsType, OnlyPoll, PollWrite, Persist, SetPoll, SameCounters, transport,
      store, native
<1>6. RelayType'
  BY <1>a, <1>b, <1>c, <1>d, <1>e
  DEF IndInv, RelayType, PollWrite, Persist, SetPoll, SameCounters, transport, store, native
<1>7. CacheType'
  BY <1>a, <1>b, <1>c, <1>d, <1>e
  DEF IndInv, CacheType, SharedType, PollWrite, Persist, SetPoll, SameCounters, transport,
      store, native
<1>8. UsedType'
  BY <1>a, <1>b, <1>c, <1>d, <1>e
  DEF IndInv, UsedType, PollWrite, Persist, SetPoll, SameCounters, transport, store, native
<1>9. CommandInv'
  BY <1>a, <1>b, <1>c, <1>d, <1>e
  DEF IndInv, CommandInv, PollWrite, Persist, SetPoll, SameCounters, transport, store,
      native
<1>10. LaneInv'
  BY <1>a, <1>b, <1>c, <1>d, <1>e
  DEF IndInv, LaneInv, CommandHolds, PollHolds, OnlyPoll, PollWrite, Persist, SetPoll,
      SameCounters, transport, store, native
<1>11. PollInv'
  BY <1>a, <1>b, <1>c, <1>d, <1>e
  DEF IndInv, SharedType, ClockType, ClockState, PollsType, PollRec, PollInv, OnlyPoll,
      PollWrite, Persist, SetPoll, SameCounters, transport, store, native
<1>12. DurableInv'
  <2> SUFFICES ASSUME LaneOnly PROVE DurableInv'
    BY DEF DurableInv, RowsUpTo
  <2>1. CASE ~ ok
    BY <2>1, <1>c, <1>d DEF IndInv, DurableInv, RowsUpTo, OnlyPoll, PollWrite, transport, store, native
  <2>2. CASE ok
    <3>1. /\ durableSeq' = durableSeq \/ durableSeq' = polls[p].seq
          /\ durableSeq <= polls[p].seq /\ polls[p].seq <= seq
          /\ \/ delayed' = NoRow
             \/ delayed' = delayed /\ durableSeq' = durableSeq
      BY <2>2 DEF IndInv, DurableInv, RowsUpTo, PollInv, PollWrite, Persist, store
    <3>2. /\ \A q \in Polls : polls'[q].pc # "write"
          /\ \A d \in Commands : commands'[d].pc # "write"
          /\ cache'.pc # "write"
      BY <2>2, <1>c, <1>d
      DEF IndInv, LaneInv, CommandHolds, PollHolds, OnlyPoll, PollWrite, native
    <3>3. seq' = seq /\ seq \in Nat /\ durableSeq \in Nat /\ polls[p].seq \in Nat
      BY <1>e DEF IndInv, SharedType, StoreType, PollWrite
    <3>4. delayed.seq <= seq /\ (delayed # NoRow => durableSeq <= delayed.seq)
      BY DEF IndInv, DurableInv, RowsUpTo
    <3> QED BY <3>1, <3>2, <3>3, <3>4 DEF DurableInv, RowsUpTo
  <2> QED BY <2>1, <2>2
<1>13. RelayInv'
  BY <1>a, <1>b, <1>c, <1>d, <1>e
  DEF IndInv, RelayInv, PollWrite, Persist, SetPoll, SameCounters, transport, store, native
<1>14. RowInv'
  BY <1>a, <1>b, <1>c, <1>d, <1>e
  DEF IndInv, LaneInv, CommandHolds, PollHolds, RowInv, CommittedRowStands, RowIsLast, OnlyPoll,
      PollWrite, Persist, SetPoll, SameCounters, transport, store, native
<1> QED BY <1>1, <1>2, <1>3, <1>4, <1>5, <1>6, <1>7, <1>8, <1>9, <1>10, <1>11, <1>12, <1>13,
           <1>14
        DEF IndInv

\* It goes on only while it is current.
LEMMA PollRecheckInd ==
    ASSUME IndInv, NEW p \in Polls, PollRecheck(p)
    PROVE  IndInv'
<1> USE ConstantsAssumption, NoTrackAssumption, NoRowType
<1>a. polls[p] \in PollRec
  BY DEF IndInv, PollsType
<1>b. [polls[p] EXCEPT !.pc = "apply"] \in PollRec
  BY <1>a DEF PollRec, PollPCs
<1>c. OnlyPoll(p)
  BY <1>b, IdlePollType DEF IndInv, PollsType, OnlyPoll, SetPoll, PollRecheck
<1>d. \/ polls'[p].pc = "idle"
      \/ polls'[p].pc = "apply" /\ SameCounters(p) /\ polls'[p].candidate = polls[p].candidate
  BY <1>a, IdlePollType DEF IndInv, PollsType, PollRec, SetPoll, SameCounters, PollRecheck
<1>1. SharedType'
  BY <1>a, <1>b, <1>c, <1>d
  DEF IndInv, SharedType, PollRecheck, SetPoll, SameCounters, transport, store, native
<1>2. StoreType'
  BY <1>a, <1>b, <1>c, <1>d
  DEF IndInv, StoreType, CacheType, PollRecheck, SetPoll, SameCounters, transport, store,
      native
<1>3. ClockType'
  BY <1>a, <1>b, <1>c, <1>d
  DEF IndInv, ClockType, PollRecheck, SetPoll, SameCounters, transport, store, native
<1>4. CommandsType'
  BY <1>a, <1>b, <1>c, <1>d
  DEF IndInv, CommandsType, PollRecheck, SetPoll, SameCounters, transport, store, native
<1>5. PollsType'
  BY <1>a, <1>b, <1>c, <1>d
  DEF IndInv, PollsType, OnlyPoll, PollRecheck, SetPoll, SameCounters, transport, store,
      native
<1>6. RelayType'
  BY <1>a, <1>b, <1>c, <1>d
  DEF IndInv, RelayType, PollRecheck, SetPoll, SameCounters, transport, store, native
<1>7. CacheType'
  BY <1>a, <1>b, <1>c, <1>d
  DEF IndInv, CacheType, SharedType, PollRecheck, SetPoll, SameCounters, transport, store,
      native
<1>8. UsedType'
  BY <1>a, <1>b, <1>c, <1>d
  DEF IndInv, UsedType, PollRecheck, SetPoll, SameCounters, transport, store, native
<1>9. CommandInv'
  BY <1>a, <1>b, <1>c, <1>d
  DEF IndInv, CommandInv, PollRecheck, SetPoll, SameCounters, transport, store, native
<1>10. LaneInv'
  BY <1>a, <1>b, <1>c, <1>d
  DEF IndInv, LaneInv, CommandHolds, PollHolds, OnlyPoll, PollRecheck, SetPoll,
      SameCounters, transport, store, native
<1>11. PollInv'
  BY <1>a, <1>b, <1>c, <1>d
  DEF IndInv, SharedType, ClockType, ClockState, PollsType, PollRec, PollInv, OnlyPoll,
      PollRecheck, SetPoll, SameCounters, transport, store, native
<1>12. DurableInv'
  BY <1>a, <1>b, <1>c, <1>d
  DEF IndInv, SharedType, StoreType, PollsType, PollRec, CommandsType, CommandRec,
      CacheType, LaneInv, CommandHolds, PollHolds, DurableInv, RowsUpTo, OnlyPoll, PollRecheck,
      SetPoll, SameCounters, transport, store, native
<1>13. RelayInv'
  BY <1>a, <1>b, <1>c, <1>d
  DEF IndInv, RelayInv, PollRecheck, SetPoll, SameCounters, transport, store, native
<1>14. RowInv'
  BY <1>a, <1>b, <1>c, <1>d
  DEF IndInv, LaneInv, CommandHolds, PollHolds, RowInv, CommittedRowStands, RowIsLast, OnlyPoll,
      PollRecheck, SetPoll, SameCounters, transport, store, native
<1> QED BY <1>1, <1>2, <1>3, <1>4, <1>5, <1>6, <1>7, <1>8, <1>9, <1>10, <1>11, <1>12, <1>13,
           <1>14
        DEF IndInv

\* A current poll changes the clock.
LEMMA PollApplyInd ==
    ASSUME IndInv, NEW p \in Polls, NEW older \in BOOLEAN, PollApply(p, older)
    PROVE  IndInv'
<1> USE ConstantsAssumption, NoTrackAssumption, NoRowType
<1>a. OnlyPoll(p)
  BY IdlePollType
  DEF IndInv, PollsType, PollRec, PollPCs, OnlyPoll, SetPoll, PollApply, IdlePoll
<1>b. polls'[p].pc \in {"idle"}
  BY IdlePollType DEF IndInv, PollsType, SetPoll, PollApply, IdlePoll
<1>c. clock' \in ClockState /\ clock'.transition = clock.transition
  BY WebApiPollType DEF IndInv, ClockType, PollsType, PollRec, PollApply
<1>1. SharedType'
  BY <1>a, <1>b, <1>c DEF IndInv, SharedType, PollApply, SetPoll, store, native
<1>2. StoreType'
  BY <1>a, <1>b, <1>c DEF IndInv, StoreType, CacheType, PollApply, SetPoll, store, native
<1>3. ClockType'
  BY <1>a, <1>b, <1>c DEF IndInv, ClockType, PollApply, SetPoll, store, native
<1>4. CommandsType'
  BY <1>a, <1>b, <1>c DEF IndInv, CommandsType, PollApply, SetPoll, store, native
<1>5. PollsType'
  BY <1>a, <1>b, <1>c DEF IndInv, PollsType, OnlyPoll, PollApply, SetPoll, store, native
<1>6. RelayType'
  BY <1>a, <1>b, <1>c DEF IndInv, RelayType, PollApply, SetPoll, store, native
<1>7. CacheType'
  BY <1>a, <1>b, <1>c DEF IndInv, CacheType, SharedType, PollApply, SetPoll, store, native
<1>8. UsedType'
  BY <1>a, <1>b, <1>c DEF IndInv, UsedType, PollApply, SetPoll, store, native
<1>9. CommandInv'
  BY <1>a, <1>b, <1>c DEF IndInv, CommandInv, PollApply, SetPoll, store, native
<1>10. LaneInv'
  BY <1>a, <1>b, <1>c
  DEF IndInv, LaneInv, CommandHolds, PollHolds, OnlyPoll, PollApply, SetPoll, store, native
<1>11. PollInv'
  BY <1>a, <1>b, <1>c
  DEF IndInv, SharedType, ClockType, ClockState, PollsType, PollRec, PollInv, OnlyPoll,
      PollApply, SetPoll, store, native
<1>12. DurableInv'
  BY <1>a, <1>b, <1>c
  DEF IndInv, SharedType, StoreType, PollsType, PollRec, CommandsType, CommandRec,
      CacheType, LaneInv, CommandHolds, PollHolds, DurableInv, RowsUpTo, OnlyPoll, PollApply, SetPoll,
      store, native
<1>13. RelayInv'
  BY <1>a, <1>b, <1>c DEF IndInv, RelayInv, PollApply, SetPoll, store, native
<1>14. RowInv'
  BY <1>a, <1>b, <1>c
  DEF IndInv, LaneInv, CommandHolds, PollHolds, RowInv, CommittedRowStands, RowIsLast, OnlyPoll,
      PollApply, SetPoll, store, native
<1> QED BY <1>1, <1>2, <1>3, <1>4, <1>5, <1>6, <1>7, <1>8, <1>9, <1>10, <1>11, <1>12, <1>13,
           <1>14
        DEF IndInv

\* An event that revokes or takes the transport overtakes the polls.
LEMMA EventReceiveInd ==
    ASSUME IndInv, NEW ev \in Events, EventReceive(ev)
    PROVE  IndInv'
<1> USE ConstantsAssumption, NoTrackAssumption, NoRowType
<1>a. SeqStep
  BY SeqSteps DEF IndInv, EventReceive
<1>b. relay'.pc # "idle" => relay'.ev = ev /\ relay'.owns = EventOwnsTransport(owner', handoff', ev) /\ relay'.pc # "tail"
  BY DEF EventReceive, IdleRelay
<1>1. SharedType'
  BY <1>a, <1>b
  DEF IndInv, SharedType, SeqStep, EventReceive, IdleRelay, Events, PlayerEvent,
      EventOwnsTransport, store
<1>2. StoreType'
  BY <1>a, <1>b
  DEF IndInv, StoreType, CacheType, EventReceive, IdleRelay, Events, PlayerEvent,
      EventOwnsTransport, store
<1>3. ClockType'
  BY <1>a, <1>b
  DEF IndInv, ClockType, EventReceive, IdleRelay, Events, PlayerEvent, EventOwnsTransport,
      store
<1>4. CommandsType'
  BY <1>a, <1>b
  DEF IndInv, CommandsType, EventReceive, IdleRelay, Events, PlayerEvent,
      EventOwnsTransport, store
<1>5. PollsType'
  BY <1>a, <1>b
  DEF IndInv, PollsType, SeqStep, SamePolls, EventReceive, IdleRelay, Events, PlayerEvent,
      EventOwnsTransport, store
<1>6. RelayType'
  <2>1. ev \in PlayerEvent
    BY DEF Events
  <2>2. EventOwnsTransport(owner', handoff', ev) \in BOOLEAN
    BY DEF EventOwnsTransport
  <2> QED BY <2>1, <2>2, IdleRelayType DEF RelayType, EventReceive
<1>7. CacheType'
  BY <1>a, <1>b
  DEF IndInv, CacheType, SharedType, EventReceive, IdleRelay, Events, PlayerEvent,
      EventOwnsTransport, store
<1>8. UsedType'
  BY <1>a, <1>b
  DEF IndInv, UsedType, EventReceive, IdleRelay, Events, PlayerEvent, EventOwnsTransport,
      store
<1>9. CommandInv'
  BY <1>a, <1>b
  DEF IndInv, CommandInv, EventReceive, IdleRelay, Events, PlayerEvent, EventOwnsTransport,
      store
<1>10. LaneInv'
  BY <1>a, <1>b
  DEF IndInv, LaneInv, CommandHolds, PollHolds, SeqStep, SamePolls, EventReceive, IdleRelay,
      Events, PlayerEvent, EventOwnsTransport, store
<1>11. PollInv'
  BY <1>a, <1>b
  DEF IndInv, SharedType, ClockType, ClockState, PollsType, PollRec, PollInv, SeqStep,
      SamePolls, EventReceive, IdleRelay, Events, PlayerEvent, EventOwnsTransport, store
<1>12. DurableInv'
  BY <1>a, <1>b
  DEF IndInv, SharedType, StoreType, PollsType, PollRec, CommandsType, CommandRec,
      CacheType, LaneInv, CommandHolds, PollHolds, DurableInv, RowsUpTo, SeqStep, SamePolls,
      EventReceive, IdleRelay, Events, PlayerEvent, EventOwnsTransport, store
<1>13. RelayInv'
  BY <1>a, <1>b
  DEF IndInv, RelayInv, EventReceive, IdleRelay, Events, PlayerEvent, EventOwnsTransport,
      store
<1>14. RowInv'
  BY <1>a, <1>b
  DEF IndInv, LaneInv, CommandHolds, PollHolds, RowInv, CommittedRowStands, RowIsLast, SeqStep,
      SamePolls, EventReceive, IdleRelay, Events, PlayerEvent, EventOwnsTransport, store
<1> QED BY <1>1, <1>2, <1>3, <1>4, <1>5, <1>6, <1>7, <1>8, <1>9, <1>10, <1>11, <1>12, <1>13,
           <1>14
        DEF IndInv

\* The look at the clock is kept with the event.
LEMMA EventLookInd ==
    ASSUME IndInv, EventLook
    PROVE  IndInv'
<1> USE ConstantsAssumption, NoTrackAssumption, NoRowType
<1>1. SharedType'
  BY DEF IndInv, SharedType, EventLook, transport, store
<1>2. StoreType'
  BY DEF IndInv, StoreType, EventLook, transport, store
<1>3. ClockType'
  BY DEF IndInv, ClockType, EventLook, transport, store
<1>4. CommandsType'
  BY DEF IndInv, CommandsType, EventLook, transport, store
<1>5. PollsType'
  BY DEF IndInv, PollsType, EventLook, transport, store
<1>6. RelayType'
  <2>1. (clock.device = "other") \in BOOLEAN
    OBVIOUS
  <2> QED BY <2>1 DEF IndInv, RelayType, EventLook
<1>7. CacheType'
  BY DEF IndInv, CacheType, EventLook, transport, store
<1>8. UsedType'
  BY DEF IndInv, UsedType, EventLook, transport, store
<1>9. CommandInv'
  BY DEF IndInv, CommandInv, EventLook, transport, store
<1>10. LaneInv'
  BY DEF IndInv, LaneInv, CommandHolds, PollHolds, EventLook, transport, store
<1>11. PollInv'
  BY DEF IndInv, PollInv, SharedType, ClockType, ClockState, PollsType, PollRec, EventLook, transport, store
<1>12. DurableInv'
  BY DEF IndInv, DurableInv, RowsUpTo, SharedType, StoreType, PollsType, PollRec,
         CommandsType, CommandRec, CacheType, EventLook, transport, store
<1>13. RelayInv'
  BY DEF IndInv, RelayInv, EventLook, transport, store
<1>14. RowInv'
  BY DEF IndInv, RowInv, CommittedRowStands, RowIsLast, EventLook, transport, store
<1> QED BY <1>1, <1>2, <1>3, <1>4, <1>5, <1>6, <1>7, <1>8, <1>9, <1>10, <1>11, <1>12, <1>13,
           <1>14
        DEF IndInv

\* A transition of the player overtakes the polls.
LEMMA EventApplyInd ==
    ASSUME IndInv, NEW drifted \in BOOLEAN, EventApply(drifted)
    PROVE  IndInv'
<1> USE ConstantsAssumption, NoTrackAssumption, NoRowType
<1>a. clock' \in ClockState /\ (clock'.transition = clock.transition \/ clock'.transition = clock.transition + 1)
  BY PlayerEventType DEF IndInv, ClockType, RelayType, ClockState, EventApply
<1>b. seq' = seq /\ (polls' = polls \/ (SamePolls /\ clock'.transition = clock.transition + 1))
  BY OvertakeMarks, PlayerEventType DEF IndInv, ClockType, PollsType, RelayType, EventApply
<1>1. SharedType'
  BY <1>a, <1>b DEF IndInv, SharedType, EventApply, IdleRelay, store
<1>2. StoreType'
  BY <1>a, <1>b DEF IndInv, StoreType, CacheType, EventApply, IdleRelay, store
<1>3. ClockType'
  BY <1>a, <1>b DEF IndInv, ClockType, EventApply, IdleRelay, store
<1>4. CommandsType'
  BY <1>a, <1>b DEF IndInv, CommandsType, EventApply, IdleRelay, store
<1>5. PollsType'
  BY <1>a, <1>b DEF IndInv, PollsType, SamePolls, EventApply, IdleRelay, store
<1>6. RelayType'
  <2>1. (relay.owns /\ ~ relay.foreign /\ IsPlaybackTransition(relay.ev)) \in BOOLEAN
    OBVIOUS
  <2> QED BY <2>1, IdleRelayType DEF IndInv, RelayType, EventApply
<1>7. CacheType'
  BY <1>a, <1>b DEF IndInv, CacheType, SharedType, EventApply, IdleRelay, store
<1>8. UsedType'
  BY <1>a, <1>b DEF IndInv, UsedType, EventApply, IdleRelay, store
<1>9. CommandInv'
  BY <1>a, <1>b DEF IndInv, CommandInv, EventApply, IdleRelay, store
<1>10. LaneInv'
  BY <1>a, <1>b
  DEF IndInv, LaneInv, CommandHolds, PollHolds, SamePolls, EventApply, IdleRelay, store
<1>11. PollInv'
  BY <1>a, <1>b
  DEF IndInv, SharedType, ClockType, ClockState, PollsType, PollRec, PollInv, SamePolls,
      EventApply, IdleRelay, store
<1>12. DurableInv'
  BY <1>a, <1>b
  DEF IndInv, SharedType, StoreType, PollsType, PollRec, CommandsType, CommandRec,
      CacheType, LaneInv, CommandHolds, PollHolds, DurableInv, RowsUpTo, SamePolls, EventApply,
      IdleRelay, store
<1>13. RelayInv'
  BY <1>a, <1>b DEF IndInv, RelayInv, EventApply, IdleRelay, store
<1>14. RowInv'
  BY <1>a, <1>b
  DEF IndInv, LaneInv, CommandHolds, PollHolds, RowInv, CommittedRowStands, RowIsLast, SamePolls,
      EventApply, IdleRelay, store
<1> QED BY <1>1, <1>2, <1>3, <1>4, <1>5, <1>6, <1>7, <1>8, <1>9, <1>10, <1>11, <1>12, <1>13,
           <1>14
        DEF IndInv

\* What follows an event changes neither counter.
LEMMA EventTailInd ==
    ASSUME IndInv, NEW enriched \in BOOLEAN, EventTail(enriched)
    PROVE  IndInv'
<1> USE ConstantsAssumption, NoTrackAssumption, NoRowType
<1>a. clock' \in ClockState /\ clock'.transition = clock.transition
  BY TailType DEF IndInv, ClockType, EventTail
<1>1. SharedType'
  BY <1>a DEF IndInv, SharedType, EventTail, IdleRelay, transport, store
<1>2. StoreType'
  BY <1>a DEF IndInv, StoreType, CacheType, EventTail, IdleRelay, transport, store
<1>3. ClockType'
  BY <1>a DEF IndInv, ClockType, EventTail, IdleRelay, transport, store
<1>4. CommandsType'
  BY <1>a DEF IndInv, CommandsType, EventTail, IdleRelay, transport, store
<1>5. PollsType'
  BY <1>a DEF IndInv, PollsType, EventTail, IdleRelay, transport, store
<1>6. RelayType'
  BY IdleRelayType DEF RelayType, EventTail
<1>7. CacheType'
  BY <1>a DEF IndInv, CacheType, SharedType, EventTail, IdleRelay, transport, store
<1>8. UsedType'
  BY <1>a DEF IndInv, UsedType, EventTail, IdleRelay, transport, store
<1>9. CommandInv'
  BY <1>a DEF IndInv, CommandInv, EventTail, IdleRelay, transport, store
<1>10. LaneInv'
  BY <1>a DEF IndInv, LaneInv, CommandHolds, PollHolds, EventTail, IdleRelay, transport, store
<1>11. PollInv'
  BY <1>a
  DEF IndInv, SharedType, ClockType, ClockState, PollsType, PollRec, PollInv, EventTail,
      IdleRelay, transport, store
<1>12. DurableInv'
  BY <1>a
  DEF IndInv, SharedType, StoreType, PollsType, PollRec, CommandsType, CommandRec,
      CacheType, LaneInv, CommandHolds, PollHolds, DurableInv, RowsUpTo, EventTail, IdleRelay,
      transport, store
<1>13. RelayInv'
  BY <1>a DEF IndInv, RelayInv, EventTail, IdleRelay, transport, store
<1>14. RowInv'
  BY <1>a
  DEF IndInv, LaneInv, CommandHolds, PollHolds, RowInv, CommittedRowStands, RowIsLast, EventTail,
      IdleRelay, transport, store
<1> QED BY <1>1, <1>2, <1>3, <1>4, <1>5, <1>6, <1>7, <1>8, <1>9, <1>10, <1>11, <1>12, <1>13,
           <1>14
        DEF IndInv

\* The worker takes the request.
LEMMA CacheTakeInd ==
    ASSUME IndInv, CacheTake
    PROVE  IndInv'
<1> USE ConstantsAssumption, NoTrackAssumption, NoRowType
<1>1. SharedType'
  BY DEF IndInv, SharedType, CacheTake, transport, store
<1>2. StoreType'
  BY DEF IndInv, StoreType, CacheType, CacheTake, transport, store
<1>3. ClockType'
  BY DEF IndInv, ClockType, CacheTake, transport, store
<1>4. CommandsType'
  BY DEF IndInv, CommandsType, CacheTake, transport, store
<1>5. PollsType'
  BY DEF IndInv, PollsType, CacheTake, transport, store
<1>6. RelayType'
  BY DEF IndInv, RelayType, CacheTake, transport, store
<1>7. CacheType'
  BY DEF IndInv, CacheType, SharedType, CacheTake, transport, store
<1>8. UsedType'
  BY DEF IndInv, UsedType, CacheTake, transport, store
<1>9. CommandInv'
  BY DEF IndInv, CommandInv, CacheTake, transport, store
<1>10. LaneInv'
  BY DEF IndInv, LaneInv, CommandHolds, PollHolds, CacheTake, transport, store
<1>11. PollInv'
  BY DEF IndInv, SharedType, ClockType, ClockState, PollsType, PollRec, PollInv, CacheTake,
         transport, store
<1>12. DurableInv'
  BY DEF IndInv, SharedType, StoreType, PollsType, PollRec, CommandsType, CommandRec,
         CacheType, LaneInv, CommandHolds, PollHolds, DurableInv, RowsUpTo, CacheTake, transport,
         store
<1>13. RelayInv'
  BY DEF IndInv, RelayInv, CacheTake, transport, store
<1>14. RowInv'
  BY DEF IndInv, LaneInv, CommandHolds, PollHolds, RowInv, CommittedRowStands, RowIsLast, CacheTake,
         transport, store
<1> QED BY <1>1, <1>2, <1>3, <1>4, <1>5, <1>6, <1>7, <1>8, <1>9, <1>10, <1>11, <1>12, <1>13,
           <1>14
        DEF IndInv

\* The worker takes the lane and the clock as it is.
LEMMA CacheSnapshotInd ==
    ASSUME IndInv, NEW readable \in BOOLEAN, CacheSnapshot(readable)
    PROVE  IndInv'
<1> USE ConstantsAssumption, NoTrackAssumption, NoRowType
<1>a. Shown(clock) \in Playback
  BY ShownType DEF IndInv, ClockType
<1>b. LaneOnly => NobodyHolds
  BY LaneIsFree DEF IndInv, CacheSnapshot
<1>1. SharedType'
  BY <1>a, <1>b DEF IndInv, SharedType, CacheSnapshot, IdleCache, NobodyHolds, transport, store
<1>2. StoreType'
  BY <1>a, <1>b
  DEF IndInv, StoreType, CacheType, CacheSnapshot, IdleCache, NobodyHolds, transport, store
<1>3. ClockType'
  BY <1>a, <1>b DEF IndInv, ClockType, CacheSnapshot, IdleCache, NobodyHolds, transport, store
<1>4. CommandsType'
  BY <1>a, <1>b
  DEF IndInv, CommandsType, CacheSnapshot, IdleCache, NobodyHolds, transport, store
<1>5. PollsType'
  BY <1>a, <1>b DEF IndInv, PollsType, CacheSnapshot, IdleCache, NobodyHolds, transport, store
<1>6. RelayType'
  BY <1>a, <1>b DEF IndInv, RelayType, CacheSnapshot, IdleCache, NobodyHolds, transport, store
<1>7. CacheType'
  BY <1>a, IdleCacheType DEF IndInv, SharedType, CacheType, CacheSnapshot
<1>8. UsedType'
  BY <1>a, <1>b DEF IndInv, UsedType, CacheSnapshot, IdleCache, NobodyHolds, transport, store
<1>9. CommandInv'
  BY <1>a, <1>b DEF IndInv, CommandInv, CacheSnapshot, IdleCache, NobodyHolds, transport, store
<1>10. LaneInv'
  BY <1>a, <1>b
  DEF IndInv, LaneInv, CommandHolds, PollHolds, CacheSnapshot, IdleCache, NobodyHolds,
      transport, store
<1>11. PollInv'
  BY <1>a, <1>b
  DEF IndInv, SharedType, ClockType, ClockState, PollsType, PollRec, PollInv, CacheSnapshot,
      IdleCache, NobodyHolds, transport, store
<1>12. DurableInv'
  BY <1>a, <1>b
  DEF IndInv, SharedType, StoreType, PollsType, PollRec, CommandsType, CommandRec,
      CacheType, LaneInv, CommandHolds, PollHolds, DurableInv, RowsUpTo, CacheSnapshot, IdleCache,
      NobodyHolds, transport, store
<1>13. RelayInv'
  BY <1>a, <1>b DEF IndInv, RelayInv, CacheSnapshot, IdleCache, NobodyHolds, transport, store
<1>14. RowInv'
  BY <1>a, <1>b
  DEF IndInv, LaneInv, CommandHolds, PollHolds, RowInv, CommittedRowStands, RowIsLast, CacheSnapshot,
      IdleCache, NobodyHolds, transport, store
<1> QED BY <1>1, <1>2, <1>3, <1>4, <1>5, <1>6, <1>7, <1>8, <1>9, <1>10, <1>11, <1>12, <1>13,
           <1>14
        DEF IndInv

\* Its row is of the epoch it took the clock in.
LEMMA CacheWriteInd ==
    ASSUME IndInv, NEW ok \in BOOLEAN, CacheWrite(ok)
    PROVE  IndInv'
<1> USE ConstantsAssumption, NoTrackAssumption, NoRowType
<1>1. SharedType'
  BY DEF IndInv, SharedType, CacheWrite, Persist, IdleCache, transport, store
<1>2. StoreType'
  BY DEF IndInv, StoreType, CacheType, CacheWrite, Persist, IdleCache, transport, store
<1>3. ClockType'
  BY DEF IndInv, ClockType, CacheWrite, Persist, IdleCache, transport, store
<1>4. CommandsType'
  BY DEF IndInv, CommandsType, CacheWrite, Persist, IdleCache, transport, store
<1>5. PollsType'
  BY DEF IndInv, PollsType, CacheWrite, Persist, IdleCache, transport, store
<1>6. RelayType'
  BY DEF IndInv, RelayType, CacheWrite, Persist, IdleCache, transport, store
<1>7. CacheType'
  BY IdleCacheType DEF CacheType, CacheWrite
<1>8. UsedType'
  BY DEF IndInv, UsedType, CacheWrite, Persist, IdleCache, transport, store
<1>9. CommandInv'
  BY DEF IndInv, CommandInv, CacheWrite, Persist, IdleCache, transport, store
<1>10. LaneInv'
  BY DEF IndInv, LaneInv, CommandHolds, PollHolds, CacheWrite, Persist, IdleCache,
         transport, store
<1>11. PollInv'
  BY DEF IndInv, SharedType, ClockType, ClockState, PollsType, PollRec, PollInv, CacheWrite,
         Persist, IdleCache, transport, store
<1>12. DurableInv'
  BY DEF IndInv, SharedType, StoreType, PollsType, PollRec, CommandsType, CommandRec,
         CacheType, LaneInv, CommandHolds, PollHolds, DurableInv, RowsUpTo, CacheWrite, Persist,
         IdleCache, transport, store
<1>13. RelayInv'
  BY DEF IndInv, RelayInv, CacheWrite, Persist, IdleCache, transport, store
<1>14. RowInv'
  BY DEF IndInv, LaneInv, CommandHolds, PollHolds, RowInv, CommittedRowStands, RowIsLast, CacheWrite,
         Persist, IdleCache, transport, store
<1> QED BY <1>1, <1>2, <1>3, <1>4, <1>5, <1>6, <1>7, <1>8, <1>9, <1>10, <1>11, <1>12, <1>13,
           <1>14
        DEF IndInv

\* A new process has the row and nothing else.
LEMMA RestartInd ==
    ASSUME IndInv, Restart
    PROVE  IndInv'
<1> USE ConstantsAssumption, NoTrackAssumption, NoRowType
<1>a. clock' \in ClockState
  BY SeedType DEF IndInv, StoreType, Restart
<1>1. SharedType'
  BY <1>a DEF IndInv, SharedType, Restart, IdleRelay, IdleCache, IdlePoll, IdleCommand
<1>2. StoreType'
  BY <1>a DEF IndInv, StoreType, CacheType, Restart, IdleRelay, IdleCache, IdlePoll, IdleCommand
<1>3. ClockType'
  BY <1>a DEF IndInv, ClockType, Restart, IdleRelay, IdleCache, IdlePoll, IdleCommand
<1>4. CommandsType'
  <2>1. [IdleCommand EXCEPT !.pc = "done"] \in CommandRec
    BY IdleCommandType DEF CommandRec, CommandPCs
  <2> QED BY <2>1 DEF IndInv, CommandsType, Restart
<1>5. PollsType'
  BY IdlePollType DEF PollsType, Restart
<1>6. RelayType'
  BY IdleRelayType DEF RelayType, Restart
<1>7. CacheType'
  BY IdleCacheType DEF CacheType, Restart
<1>8. UsedType'
  BY <1>a DEF IndInv, UsedType, Restart, IdleRelay, IdleCache, IdlePoll, IdleCommand
<1>9. CommandInv'
  BY <1>a DEF IndInv, CommandInv, Restart, IdleRelay, IdleCache, IdlePoll, IdleCommand
<1>10. LaneInv'
  BY <1>a
  DEF IndInv, LaneInv, CommandHolds, PollHolds, Restart, IdleRelay, IdleCache, IdlePoll,
      IdleCommand
<1>11. PollInv'
  BY <1>a
  DEF IndInv, SharedType, ClockType, ClockState, PollsType, PollRec, PollInv, Restart,
      IdleRelay, IdleCache, IdlePoll, IdleCommand
<1>12. DurableInv'
  BY <1>a
  DEF IndInv, SharedType, StoreType, PollsType, PollRec, CommandsType, CommandRec,
      CacheType, LaneInv, CommandHolds, PollHolds, DurableInv, RowsUpTo, Restart, IdleRelay,
      IdleCache, IdlePoll, IdleCommand
<1>13. RelayInv'
  BY <1>a DEF IndInv, RelayInv, Restart, IdleRelay, IdleCache, IdlePoll, IdleCommand
<1>14. RowInv'
  BY <1>a
  DEF IndInv, LaneInv, CommandHolds, PollHolds, RowInv, CommittedRowStands, RowIsLast, Restart,
      IdleRelay, IdleCache, IdlePoll, IdleCommand
<1> QED BY <1>1, <1>2, <1>3, <1>4, <1>5, <1>6, <1>7, <1>8, <1>9, <1>10, <1>11, <1>12, <1>13,
           <1>14
        DEF IndInv

\* The invariant holds at the start.
LEMMA InitInd == Init => IndInv
<1> SUFFICES ASSUME Init PROVE IndInv
  OBVIOUS
<1> USE ConstantsAssumption, NoTrackAssumption, NoRowType
<1>1. SharedType /\ StoreType /\ UsedType
  BY NoPlaybackType DEF Init, SharedType, StoreType, UsedType
<1>2. ClockType
  BY SeedType, NoPlaybackType DEF Init, ClockType
<1>3. CommandsType /\ PollsType /\ RelayType /\ CacheType
  BY IdleCommandType, IdlePollType, IdleRelayType, IdleCacheType
  DEF Init, CommandsType, PollsType, RelayType, CacheType
<1>4. /\ \A c \in Commands : commands[c].pc = "idle"
      /\ \A p \in Polls : polls[p].pc = "idle"
      /\ relay.pc = "idle" /\ cache.pc = "idle" /\ ~ handoff /\ seq = 0 /\ durableSeq = 0
      /\ delayed = NoRow
  BY DEF Init, IdleCommand, IdlePoll, IdleRelay, IdleCache
<1>5. CommandInv /\ LaneInv /\ PollInv /\ DurableInv /\ RelayInv /\ RowInv
  BY <1>4
  DEF CommandInv, LaneInv, CommandHolds, PollHolds, PollInv, DurableInv, RowsUpTo, RelayInv, RowInv,
      CommittedRowStands, RowIsLast
<1> QED BY <1>1, <1>2, <1>3, <1>5 DEF IndInv

\* It is about the variables only.
LEMMA StutterInd ==
    ASSUME IndInv, UNCHANGED vars PROVE IndInv'
BY DEF IndInv, vars, transport, store, native, SharedType, StoreType, ClockType, CommandsType,
    PollsType, RelayType, CacheType, UsedType, CommandInv, LaneInv, PollInv, DurableInv, RowsUpTo, RelayInv,
    RowInv, CommittedRowStands, RowIsLast

\* Every step preserves it.
LEMMA NextInd == IndInv /\ [Next]_vars => IndInv'
<1> SUFFICES ASSUME IndInv, [Next]_vars PROVE IndInv'
  OBVIOUS
<1>1. ASSUME NEW c \in Commands, CommandStep(c) PROVE IndInv'
  BY <1>1, RouteInd, DispatchInd, PredictInd, FastTransportInd, SkipFastTransportInd,
       LateAnswerInd, ExecuteInd, ExecuteFailsInd, SetOwnerInd, BumpForOwnerInd,
       HandOverInd, CheckResultInd, WriteResultInd, ApplyResultInd, HealInd,
       CutOffInd, CutOffHandOverInd
  DEF CommandStep
<1>2. ASSUME NEW p \in Polls, PollStep(p) PROVE IndInv'
  BY <1>2, PollStartInd, PollReadInd, PollReadFailsInd, PollAdmitInd, PollWriteInd,
       PollRecheckInd, PollApplyInd
  DEF PollStep
<1>3. CASE RelayStep
  BY <1>3, EventReceiveInd, EventLookInd, EventApplyInd, EventTailInd DEF RelayStep
<1>4. CASE CacheStep
  BY <1>4, CacheTakeInd, CacheSnapshotInd, CacheWriteInd DEF CacheStep
<1>5. CASE Restart
  BY <1>5, RestartInd
<1>6. CASE DelayedRow
  BY <1>6, DelayedRowInd
<1>7. CASE UNCHANGED vars
  BY <1>7, StutterInd
<1> QED BY <1>1, <1>2, <1>3, <1>4, <1>5, <1>6, <1>7 DEF Next

-----------------------------------------------------------------------------
(* Invariants *)

\* The inductive invariant holds in every reachable state.
THEOREM PlaybackInvariance == Spec => []IndInv
BY InitInd, NextInd, PTL DEF Spec

\* Every variable keeps its type, for any number of commands, polls and events.
THEOREM PlaybackTypeCorrect == Spec => []TypeOK
<1>1. IndInv => TypeOK
  BY DEF IndInv, SharedType, StoreType, ClockType, CommandsType, CommandRec, PollsType, PollRec,
         RelayType, CacheType, UsedType, TypeOK
<1> QED BY <1>1, PlaybackInvariance, PTL

\* Between a writer's row and its clock update no other row gets in: the lane has
\* one holder, and whoever holds it wrote the latest row.  The plays of bookmarks
\* and notifications, which take no lane, are left out.
THEOREM CommittedRowsStand ==
    ASSUME LaneOnly PROVE Spec => []CommittedRowStands
<1>1. IndInv => CommittedRowStands
  BY DEF IndInv, RowInv
<1> QED BY <1>1, PlaybackInvariance, PTL

-----------------------------------------------------------------------------
(* Action properties *)

\* The row a restart reads never goes back to an older command epoch: an epoch is
\* at most the counter's when a writer takes the lane, at least the row's, and the
\* counter only grows while the daemon runs.  The same commands are left out.
THEOREM RowsNeverGoBack ==
    ASSUME LaneOnly PROVE Spec => DurableNeverGoesBack
<1> DEFINE Step == used'.restarts = used.restarts => durableSeq' >= durableSeq
<1>1. ASSUME IndInv, [Next]_vars PROVE Step
  <2>0. durableSeq \in Nat /\ used.restarts \in Nat /\ used \in [events : Nat, polls : Nat, restarts : Nat]
    BY <1>1 DEF IndInv, StoreType, UsedType
  <2>1. ASSUME NEW c \in Commands, CommandStep(c) PROVE Step
    <3>1. CASE \E ok \in BOOLEAN : WriteResult(c, ok)
      <4>1. commands[c].pc = "write" /\ (durableSeq' = durableSeq \/ durableSeq' = commands[c].applied)
        BY <3>1 DEF WriteResult, Persist, store
      <4> QED BY <1>1, <2>0, <4>1 DEF IndInv, DurableInv, RowsUpTo
    <3>2. CASE \E row \in {"stored", "lost", "delayed"} : CutOff(c, row)
      <4>1. \/ durableSeq' = durableSeq
            \/ commands[c].pc = "write" /\ durableSeq' = commands[c].applied
        BY <3>2 DEF CutOff, Persist, store
      <4> QED BY <1>1, <2>0, <4>1 DEF IndInv, DurableInv, RowsUpTo
    <3>3. CASE /\ ~ \E ok \in BOOLEAN : WriteResult(c, ok)
               /\ ~ \E row \in {"stored", "lost", "delayed"} : CutOff(c, row)
      <4>1. durableSeq' = durableSeq
        BY <2>1, <3>3
        DEF CommandStep, Route, Dispatch, Predict, FastTransport, SkipFastTransport,
             LateAnswer, Execute, ExecuteFails, SetOwner, BumpForOwner, HandOver, CheckResult,
             ApplyResult, Heal, CutOffHandOver, store
      <4> QED BY <2>0, <4>1
    <3> QED BY <3>1, <3>2, <3>3
  <2>2. ASSUME NEW p \in Polls, PollStep(p) PROVE Step
    <3>1. CASE \E ok \in BOOLEAN : PollWrite(p, ok)
      <4>1. polls[p].pc = "write" /\ (durableSeq' = durableSeq \/ durableSeq' = polls[p].seq)
        BY <3>1 DEF PollWrite, Persist, store
      <4>2. polls[p].seq \in Nat
        BY <1>1 DEF IndInv, PollsType, PollRec
      <4> QED BY <1>1, <2>0, <4>1, <4>2 DEF IndInv, DurableInv, RowsUpTo
    <3>2. CASE ~ \E ok \in BOOLEAN : PollWrite(p, ok)
      <4>1. durableSeq' = durableSeq
        BY <2>2, <3>2 DEF PollStep, PollStart, PollRead, PollReadFails, PollAdmit, PollRecheck,
             PollApply, store
      <4> QED BY <2>0, <4>1
    <3> QED BY <3>1, <3>2
  <2>3. CASE RelayStep
    <3>1. durableSeq' = durableSeq
      BY <2>3 DEF RelayStep, EventReceive, EventLook, EventApply, EventTail, store
    <3> QED BY <2>0, <3>1
  <2>4. CASE CacheStep
    <3>1. \/ durableSeq' = durableSeq
          \/ cache.pc = "write" /\ durableSeq' = cache.seq
      BY <2>4 DEF CacheStep, CacheTake, CacheSnapshot, CacheWrite, Persist, store
    <3>2. cache.seq \in Nat
      BY <1>1 DEF IndInv, CacheType
    <3> QED BY <1>1, <2>0, <3>1, <3>2 DEF IndInv, DurableInv, RowsUpTo
  <2>5. CASE Restart
    <3>1. used'.restarts = used.restarts + 1
      BY <2>0, <2>5 DEF Restart
    <3> QED BY <2>0, <3>1
  <2>6. CASE UNCHANGED vars
    <3>1. durableSeq' = durableSeq
      BY <2>6 DEF vars, store
    <3> QED BY <2>0, <3>1
  <2>7. CASE DelayedRow
    BY <1>1, <2>0, <2>7, NoRowType DEF DelayedRow, IndInv, DurableInv
  <2> QED BY <1>1, <2>1, <2>2, <2>3, <2>4, <2>5, <2>6, <2>7 DEF Next
<1> QED BY <1>1, PlaybackInvariance, PTL DEF Spec, DurableNeverGoesBack

\* A poll that was overtaken while it was in flight changes neither the clock nor
\* the activity flag: one of the counters it read is strictly behind.
THEOREM OvertakenPollsAreInert == Spec => OvertakenPollIsInert
<1> DEFINE Step ==
      \A p \in Polls :
          (polls[p].overtaken /\ polls[p].pc = "apply" /\ polls'[p].pc = "idle"
             /\ used' = used)
          => UNCHANGED <<clock, active>>
<1>1. ASSUME IndInv, [Next]_vars PROVE Step
  <2> SUFFICES ASSUME NEW p \in Polls, polls[p].overtaken, polls[p].pc = "apply",
                      polls'[p].pc = "idle", used' = used
               PROVE  UNCHANGED <<clock, active>>
    OBVIOUS
  <2>0. /\ polls \in [Polls -> PollRec] /\ used \in [events : Nat, polls : Nat, restarts : Nat]
        /\ seq \in Nat /\ clock.transition \in Nat /\ polls[p].seq \in Nat /\ polls[p].transition \in Nat
    BY <1>1 DEF IndInv, PollsType, PollRec, UsedType, SharedType, ClockType, ClockState
  <2>1. ~ PollIsCurrent(p)
    BY <1>1, <2>0 DEF IndInv, PollInv, PollIsCurrent
  <2>2. ASSUME SeqStep \/ SamePolls PROVE FALSE
    BY <2>0, <2>2 DEF SeqStep, SamePolls
  <2>3. ASSUME NEW c \in Commands, CommandStep(c) PROVE FALSE
    <3>1. Bump \/ NoBump
      BY <2>3 DEF CommandStep, Route, Dispatch, Predict, FastTransport, SkipFastTransport,
           LateAnswer, Execute, ExecuteFails, SetOwner, BumpForOwner, HandOver, CheckResult,
           WriteResult, ApplyResult, Heal, CutOff, CutOffHandOver, NoBump
    <3> QED BY <1>1, <2>2, <3>1, SeqSteps DEF IndInv
  <2>4. ASSUME NEW q \in Polls, PollStep(q) PROVE UNCHANGED <<clock, active>>
    <3>1. q = p
      BY <2>0, <2>4 DEF PollStep, PollStart, PollRead, PollReadFails, PollAdmit, PollWrite,
           PollRecheck, PollApply, SetPoll
    <3>2. \E older \in BOOLEAN : PollApply(p, older)
      BY <2>4, <3>1 DEF PollStep, PollStart, PollRead, PollReadFails, PollAdmit, PollWrite,
           PollRecheck
    <3> QED BY <2>1, <3>2 DEF PollApply
  <2>5. CASE RelayStep
    <3>1. polls' = polls \/ Overtake
      BY <2>5 DEF RelayStep, EventReceive, EventLook, EventApply, EventTail, Bump, NoBump
    <3>2. SeqStep \/ SamePolls \/ polls' = polls
      BY <1>1, <3>1, OvertakeMarks DEF IndInv
    <3> QED BY <2>2, <3>2
  <2>6. CASE CacheStep
    BY <2>6 DEF CacheStep, CacheTake, CacheSnapshot, CacheWrite
  <2>7. CASE Restart
    <3>1. used'.restarts = used.restarts + 1 /\ used.restarts \in Nat
      BY <2>0, <2>7 DEF Restart
    <3> QED BY <3>1
  <2>8. CASE DelayedRow
    BY <2>8 DEF DelayedRow
  <2>9. CASE UNCHANGED vars
    BY <2>9 DEF vars, transport
  <2> QED BY <1>1, <2>3, <2>4, <2>5, <2>6, <2>7, <2>8, <2>9 DEF Next
<1> QED BY <1>1, PlaybackInvariance, PTL DEF Spec, OvertakenPollIsInert

\* From a hand-off to the next activation the relay takes back nothing: the only
\* event it treats as ours is the hand-off itself, whether it was received before
\* or after.
THEOREM HandOffsHold == Spec => HandOffHolds
<1> DEFINE Step ==
      (handoff /\ handoff' /\ relay' # relay) =>
          /\ owner' = owner
          /\ active' => active
          /\ clock'.item = clock.item
          /\ clock'.playing => clock.playing
<1>1. ASSUME IndInv, [Next]_vars PROVE Step
  <2> SUFFICES ASSUME handoff, handoff', relay' # relay
               PROVE  /\ owner' = owner
                      /\ active' => active
                      /\ clock'.item = clock.item
                      /\ clock'.playing => clock.playing
    OBVIOUS
  <2>1. ASSUME NEW c \in Commands, CommandStep(c) PROVE FALSE
    BY <2>1 DEF CommandStep, Route, Dispatch, Predict, FastTransport, SkipFastTransport,
         LateAnswer, Execute, ExecuteFails, SetOwner, BumpForOwner, HandOver, CheckResult,
         WriteResult, ApplyResult, Heal, CutOff, CutOffHandOver, native
  <2>2. ASSUME NEW p \in Polls, PollStep(p) PROVE FALSE
    BY <2>2 DEF PollStep, PollStart, PollRead, PollReadFails, PollAdmit, PollWrite,
         PollRecheck, PollApply, native
  <2>3. ASSUME NEW ev \in Events, EventReceive(ev)
        PROVE  owner' = owner /\ (active' => active) /\ clock' = clock
    BY <2>3 DEF EventReceive
  <2>4. ASSUME NEW drifted \in BOOLEAN, EventApply(drifted)
        PROVE  /\ owner' = owner /\ (active' => active)
               /\ clock'.item = clock.item /\ (clock'.playing => clock.playing)
    <3>1. relay.owns => relay.ev.kind = "deactivated"
      BY <1>1, <2>4 DEF IndInv, RelayInv, EventApply
    <3>2. \/ clock' = clock
          \/ clock' = ApplyPlayerEvent(clock, relay.ev, drifted) /\ relay.ev.kind = "deactivated"
      BY <2>4, <3>1 DEF EventApply
    <3>3. clock'.item = clock.item /\ (clock'.playing => clock.playing)
      BY <1>1, <3>2
      DEF ApplyPlayerEvent, IsPlaybackTransition, Transitions, LoadKinds, IndInv, ClockType,
          ClockState
    <3>4. owner' = owner /\ (active' => active)
      BY <2>4, <3>1 DEF EventApply, LoadKinds
    <3> QED BY <3>3, <3>4
  <2>5. ASSUME NEW enriched \in BOOLEAN, EventTail(enriched)
        PROVE  owner' = owner /\ active' = active /\ clock' = clock
    <3>1. relay.ev.kind = "deactivated"
      BY <1>1, <2>5 DEF IndInv, RelayInv, EventTail
    <3> QED BY <2>5, <3>1 DEF EventTail, LoadKinds, transport
  <2>6. CASE CacheStep
    BY <2>6 DEF CacheStep, CacheTake, CacheSnapshot, CacheWrite
  <2>7. CASE Restart
    BY <2>7 DEF Restart
  <2>8. CASE EventLook
    BY <2>8 DEF EventLook, transport
  <2>9. CASE DelayedRow
    BY <2>9 DEF DelayedRow, native
  <2>10. CASE UNCHANGED vars
    BY <2>10 DEF vars, native
  <2> QED BY <1>1, <2>1, <2>2, <2>3, <2>4, <2>5, <2>6, <2>7, <2>8, <2>9, <2>10 DEF Next, RelayStep
<1> QED BY <1>1, PlaybackInvariance, PTL DEF Spec, HandOffHolds
=============================================================================
