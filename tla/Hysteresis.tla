----------------------------- MODULE Hysteresis -----------------------------
(***************************************************************************)
(* What the saturation detector promises, as a function of the frames      *)
(* alone: the flag rises when the last EnterSamples frames were all at or  *)
(* above the enter threshold, falls when the last ExitSamples frames were  *)
(* all at or below the exit threshold, and keeps its value otherwise.      *)
(***************************************************************************)
EXTENDS Naturals

CONSTANTS EnterSamples, ExitSamples

VARIABLES
    flag,    \* the axis is taken for saturated
    above,   \* frames in a row at or above the enter threshold
    below    \* frames in a row at or below the exit threshold

vars == <<flag, above, below>>

(* Runs are counted up to the length that matters.                          *)
Longer(run, cap) == IF run < cap THEN run + 1 ELSE run

Init == flag = FALSE /\ above = 0 /\ below = 0

High  == above' = Longer(above, EnterSamples) /\ below' = 0
Low   == above' = 0 /\ below' = Longer(below, ExitSamples)
Between == above' = 0 /\ below' = 0

Frame ==
    /\ High \/ Low \/ Between
    /\ flag' = IF above' = EnterSamples THEN TRUE
               ELSE IF below' = ExitSamples THEN FALSE
               ELSE flag

(* All that was seen is forgotten.                                          *)
Forget == flag' = FALSE /\ above' = 0 /\ below' = 0

Next == Frame \/ Forget

Spec == Init /\ [][Next]_vars
=============================================================================
