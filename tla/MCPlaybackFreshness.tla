------------------------ MODULE MCPlaybackFreshness ------------------------
(***************************************************************************)
(* PlaybackFreshness for TLC: two providers, "home" with the embedded      *)
(* player and "away" without, and one track of each.                       *)
(***************************************************************************)
EXTENDS PlaybackFreshness

CONSTANTS t1, home, away

\* t1 is home's track, every other track is away's.
MCHome == [t \in Tracks |-> IF t = t1 THEN home ELSE away]

\* A report with an item is of a track that plays: this keeps the instance small, and
\* silence and our own paused playback still occur.
MCReported == {pb \in Playback : pb.playing}
=============================================================================
