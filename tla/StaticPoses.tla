---------------------------- MODULE StaticPoses ----------------------------
(***************************************************************************)
(* segment_static_poses of tools/calibrate_dual_imu.py: the rests in a log *)
(* of several poses, and which of them count as a pose of their own.       *)
(*                                                                         *)
(* A frame is abstracted to whether both gyroscopes are below gyro_limit,  *)
(* a rest to the direction of its mean acceleration: an integer angle, or  *)
(* Weightless where the mean has no direction.                             *)
(***************************************************************************)
EXTENDS Naturals, Sequences

CONSTANTS
    Length,         \* bound: frames in a log
    MinSamples,     \* min_samples
    Apart,          \* min_direction_change_deg
    Directions,     \* angles
    Weightless      \* norm < 1e-6

ASSUME PosesAssumption ==
    /\ Length \in Nat /\ MinSamples \in Nat \ {0} /\ Apart \in Nat
    /\ Directions \subseteq Nat /\ Weightless \notin Nat

VARIABLES
    still,       \* the log: gyro_mag < gyro_limit, frame by frame
    index,       \* the frame, then the run, that the loop is at
    start,       \* where the current rest began, 0 for None
    runs,        \* rests that are long enough: <<first frame, frame after it>>
    means,       \* history: the direction of each of the runs
    poses        \* numbers of the runs that are poses

posesVars == <<still, index, start, runs, means, poses>>

Near(a, b) == a - b < Apart /\ b - a < Apart

PosesInit ==
    /\ still = <<>> /\ index = 1 /\ start = 0
    /\ runs = <<>> /\ means = <<>> /\ poses = <<>>

Load(log) ==
    /\ still' = log
    /\ index' = 1 /\ start' = 0
    /\ runs' = <<>> /\ means' = <<>> /\ poses' = <<>>

(* The rest ends before frame i.                                            *)
Close(i) ==
    /\ runs' = IF i - start >= MinSamples THEN Append(runs, <<start, i>>) ELSE runs
    /\ start' = 0

(* One frame of the log.                                                    *)
Scan ==
    /\ index <= Len(still)
    /\ index' = index + 1
    /\ IF start # 0 /\ ~still[index]
       THEN Close(index)
       ELSE /\ start' = IF start = 0 /\ still[index] THEN index ELSE start
            /\ UNCHANGED runs
    /\ UNCHANGED <<still, means, poses>>

(* The log may end in a rest.  The second loop starts.                      *)
ScanEnds ==
    /\ index = Len(still) + 1
    /\ index' = 1
    /\ IF start # 0 THEN Close(Len(still) + 1) ELSE UNCHANGED <<runs, start>>
    /\ UNCHANGED <<still, means, poses>>

(* Fault: a rest is compared with the rest before it, so that a slow drift  *)
(* over many rests is never seen.                                           *)
IsPoseDrift(d) ==
    /\ d # Weightless
    /\ poses # <<>> => ~(means # <<>> /\ means[Len(means)] # Weightless
                          /\ Near(means[Len(means)], d))

(* A rest is compared with the last one that was taken.                     *)
IsPose(d) ==
    /\ d # Weightless
    /\ poses # <<>> => ~Near(means[poses[Len(poses)]], d)

(* One of the runs.                                                         *)
Examine(d) ==
    /\ index <= Len(runs)
    /\ index' = index + 1
    /\ means' = Append(means, d)
    /\ poses' = IF IsPose(d) THEN Append(poses, index) ELSE poses
    /\ UNCHANGED <<still, start, runs>>

-----------------------------------------------------------------------------
(* What the two loops are to compute, without a loop.                       *)

(* A rest: frames f..t-1 are still and the frames around them are not.      *)
Rest(f, t) ==
    /\ \A i \in f..(t - 1) : still[i]
    /\ f = 1 \/ ~still[f - 1]
    /\ t = Len(still) + 1 \/ ~still[t]

LongRests ==
    {r \in (1..Len(still)) \X (2..(Len(still) + 1)) :
        Rest(r[1], r[2]) /\ r[2] - r[1] >= MinSamples}

RunsExact ==
    /\ {runs[i] : i \in 1..Len(runs)} = LongRests
    /\ \A i, j \in 1..Len(runs) : i < j => runs[i][2] < runs[j][1]

(* Neighbouring poses are apart; a run that is no pose has no direction, or *)
(* is near the last pose before it.                                         *)
PosesFollow ==
    /\ \A i, j \in 1..Len(poses) : i < j => poses[i] < poses[j]
    /\ \A i \in 1..(Len(poses) - 1) : ~Near(means[poses[i]], means[poses[i + 1]])
    /\ \A n \in 1..Len(means) :
        \/ \E i \in 1..Len(poses) : poses[i] = n
        \/ means[n] = Weightless
        \/ \E i \in 1..Len(poses) :
            /\ poses[i] < n /\ Near(means[poses[i]], means[n])
            /\ \A j \in 1..Len(poses) : poses[j] < n => j <= i
=============================================================================
