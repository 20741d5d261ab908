------------------------------- MODULE Fusion -------------------------------
(***************************************************************************)
(* FusionStateMachine of tools/fusion_state.py: which accelerometer        *)
(* supplies the Y axis of a frame.                                         *)
(*                                                                         *)
(* A frame is abstracted to what update() tells apart: the band of |mpu Y| *)
(* between the exit, enter and hard thresholds (exit < enter < hard), and  *)
(* whether the ICM sample passes all validity checks.                      *)
(***************************************************************************)
EXTENDS Naturals

CONSTANTS EnterSamples, ExitSamples   \* enter_samples, exit_samples

ASSUME SamplesAssumption ==
    EnterSamples \in Nat \ {0} /\ ExitSamples \in Nat \ {0}

Band == {"low", "mid", "high", "hard"}     \* "low": at or below the exit threshold
Enters(y) == y \in {"high", "hard"}        \* |mpu Y| >= saturation_enter_mps2
Exits(y)  == y = "low"                     \* |mpu Y| <= saturation_exit_mps2

VARIABLES
    mpu_y_saturated, enter_count, exit_count, state,
    y, icm,        \* history: the last frame
    above, below   \* history: how long it has been high, or low

machine == <<mpu_y_saturated, enter_count, exit_count>>
vars == <<machine, state, y, icm, above, below>>

Longer(run, cap) == IF run < cap THEN run + 1 ELSE run

Init ==
    /\ mpu_y_saturated = FALSE
    /\ enter_count = 0
    /\ exit_count = 0
    /\ state = "MPU_PRIMARY"
    /\ y = "low" /\ icm = FALSE
    /\ above = 0 /\ below = 0

(* Fault: exit_count is not cleared when saturation is confirmed. *)
DetectUncleared(band) ==
    IF ~mpu_y_saturated
    THEN /\ enter_count' = IF Enters(band) THEN enter_count + 1 ELSE 0
         /\ mpu_y_saturated' = (enter_count' >= EnterSamples)
         /\ UNCHANGED exit_count
    ELSE /\ exit_count' = IF Exits(band) THEN exit_count + 1 ELSE 0
         /\ mpu_y_saturated' = (exit_count' < ExitSamples)
         /\ enter_count' = IF mpu_y_saturated' THEN enter_count ELSE 0

(* Hysteretic saturation detection on the MPU Y axis.                       *)
Detect(band) ==
    IF ~mpu_y_saturated
    THEN /\ enter_count' = IF Enters(band) THEN enter_count + 1 ELSE 0
         /\ mpu_y_saturated' = (enter_count' >= EnterSamples)
         /\ exit_count' = IF mpu_y_saturated' THEN 0 ELSE exit_count
    ELSE /\ exit_count' = IF Exits(band) THEN exit_count + 1 ELSE 0
         /\ mpu_y_saturated' = (exit_count' < ExitSamples)
         /\ enter_count' = IF mpu_y_saturated' THEN enter_count ELSE 0

(* Fault: a clipped frame is trusted until saturation is confirmed. *)
ChooseUnclipped(saturated, band, valid) ==
    CASE ~saturated /\ valid  -> "BLENDED"
      [] ~saturated /\ ~valid -> "MPU_PRIMARY"
      [] saturated /\ valid   -> "ICM_FALLBACK"
      [] saturated /\ ~valid  -> "INVALID"

Usable(saturated, band) == ~(saturated \/ band = "hard")

Choose(saturated, band, valid) ==
    CASE Usable(saturated, band) /\ valid   -> "BLENDED"
      [] Usable(saturated, band) /\ ~valid  -> "MPU_PRIMARY"
      [] ~Usable(saturated, band) /\ valid  -> "ICM_FALLBACK"
      [] ~Usable(saturated, band) /\ ~valid -> "INVALID"

Update(band, valid) ==
    /\ Detect(band)
    /\ state' = Choose(mpu_y_saturated', band, valid)
    /\ y' = band /\ icm' = valid
    /\ above' = IF Enters(band) THEN Longer(above, EnterSamples) ELSE 0
    /\ below' = IF Exits(band) THEN Longer(below, ExitSamples) ELSE 0

(* clear_data of the window takes a new machine.                            *)
Reset ==
    /\ mpu_y_saturated' = FALSE /\ enter_count' = 0 /\ exit_count' = 0
    /\ state' = "MPU_PRIMARY" /\ y' = "low" /\ icm' = FALSE
    /\ above' = 0 /\ below' = 0

Next == (\E band \in Band, valid \in BOOLEAN : Update(band, valid)) \/ Reset

Spec == Init /\ [][Next]_vars

-----------------------------------------------------------------------------
(* Properties.                                                              *)

(* Every variable keeps to its domain: the counters never pass the number   *)
(* of samples they are compared with.                                       *)
TypeOK ==
    /\ mpu_y_saturated \in BOOLEAN
    /\ enter_count \in 0..EnterSamples
    /\ exit_count \in 0..ExitSamples
    /\ state \in {"MPU_PRIMARY", "BLENDED", "ICM_FALLBACK", "INVALID"}
    /\ y \in Band /\ icm \in BOOLEAN
    /\ above \in 0..EnterSamples /\ below \in 0..ExitSamples

MpuTrusted == state \in {"MPU_PRIMARY", "BLENDED"}

(* MPU Y is never used in a clipped frame, nor once enough frames in a row  *)
(* were high, whatever happened before; and when it is not used although    *)
(* the frame is not clipped, fewer than ExitSamples frames in a row have    *)
(* been low since.                                                          *)
TrustIsEarned ==
    /\ MpuTrusted => y # "hard" /\ above < EnterSamples
    /\ ~MpuTrusted /\ y # "hard" => below < ExitSamples

(* The counters, which each stand still in one of the two regimes and are   *)
(* cleared on the change between them, implement the promise of Hysteresis. *)
H == INSTANCE Hysteresis WITH flag <- mpu_y_saturated
Debounced == H!Spec
=============================================================================
