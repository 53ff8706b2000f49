-------------------------- MODULE MCMutationLifecycle --------------------------
(* Instances of MutationLifecycle for TLC: requests a and b carry the mutation id *)
(* m, request c carries none; all of them share one lane.                          *)
EXTENDS MutationLifecycle

CONSTANTS a, b, c, m, write, other, lib

MCMid     == [r \in Reqs |-> IF r = c THEN NoId ELSE m]
\* Every request sends the same payload ...
MCSame    == [r \in Reqs |-> write]
\* ... or b reuses a's id for a different one.
MCReused  == [r \in Reqs |-> IF r = b THEN other ELSE write]
\* c, without an id, sends another payload than a.
MCMixed   == [r \in Reqs |-> IF r = c THEN other ELSE write]
MCLaneOf  == [p \in Payloads |-> lib]
================================================================================
