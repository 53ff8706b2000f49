----------------------------- MODULE StablePasses -----------------------------
(***************************************************************************)
(* What a reconciliation promises the mutation that asked for it: the        *)
(* provider's view is verified as many times as the row requires, one pass   *)
(* at a time, each begun after the gap that follows the one before, each     *)
(* counted once and only when it was verified; what was given up or          *)
(* forgotten is done again, and what is done stays done.  Who works on it,   *)
(* how often the store fails and how often the daemon dies is not visible    *)
(* here.  ProviderReconciliation implements this specification.              *)
(***************************************************************************)
EXTENDS Naturals

CONSTANT Needed   \* passes

VARIABLES
    phase,        \* "none", "due", "busy", "verified", "gap" or "done"
    counted       \* passes that count

passVars == <<phase, counted>>

PassesInit == phase = "none" /\ counted = 0

Create == phase = "none" /\ phase' = "due" /\ UNCHANGED counted

Begin == phase = "due" /\ phase' = "busy" /\ UNCHANGED counted

Verify == phase = "busy" /\ phase' = "verified" /\ UNCHANGED counted

\* The one step that counts: after it a gap, or nothing at all, is left.
Count ==
    /\ phase = "verified"
    /\ counted' = counted + 1
    /\ phase' = IF counted + 1 < Needed THEN "gap" ELSE "done"

\* The verification is lost before it could be counted.
Forget == phase = "verified" /\ phase' = "busy" /\ UNCHANGED counted

\* The pass is given up, to be begun again.
Abandon == phase = "busy" /\ phase' = "due" /\ UNCHANGED counted

GapEnds == phase = "gap" /\ phase' = "due" /\ UNCHANGED counted

PassesNext ==
    Create \/ Begin \/ Verify \/ Count \/ Forget \/ Abandon \/ GapEnds

PassesSpec == PassesInit /\ [][PassesNext]_passVars
===============================================================================
