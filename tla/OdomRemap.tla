----------------------------- MODULE OdomRemap -----------------------------
(***************************************************************************)
(* The localization source (odomRemap): it caches the newest pose (and, in *)
(* mocap mode, the newest IMU message), averages its first samples into a  *)
(* bias, and from then on publishes /odom/remap.                           *)
(*                                                                         *)
(* Callbacks and the 200 Hz timer run on different threads and hold one    *)
(* mutex throughout, so each of them is one action.  A timer tick that     *)
(* returns early changes nothing and is not an action of its own.          *)
(*                                                                         *)
(* Poses are abstracted to what the calibration tells apart: a quaternion  *)
(* of norm 0 or not.  Numbers of the filter and of the rotation are out.   *)
(***************************************************************************)
EXTENDS Integers

CONSTANTS
    BiasSamples,    \* gps_bias_samples, and the 300 of mc_odom_pub
    Cap             \* bound: the counters stop counting there

ASSUME BiasSamplesAssumption == BiasSamples \in Nat \ {0, 1}
ASSUME CapAssumption == Cap \in Nat /\ Cap > BiasSamples + 1

VARIABLES
    source,         \* localization_source and simulation
    pose,           \* gtruth
    imu,            \* imu, in mocap mode only
    calibration,    \* sums and counters
    used,           \* history: cached messages that were put to use
    output          \* history: the pose published last is none, current or older

vars == <<source, pose, imu, calibration, used, output>>

Sources == {"mocap", "gps", "simulation"}

Messages == [
    received : BOOLEAN,             \* gtruthsubTri, imusubTri
    age      : {"fresh", "stale"},  \* of the time it was received
    new      : BOOLEAN,             \* new_gtruth_frame, new_mocap_frame ...
    zero     : BOOLEAN ]            \* its quaternion has norm 0

Calibrations == [
    seq     : 0 .. Cap,
    bias_c  : 0 .. Cap,
    zero    : BOOLEAN,      \* gtruth_qua_bias has norm 0
    samples : 0 .. Cap,     \* history: different poses in the sums
    divided : 0 .. Cap,     \* history: times the sums were divided by bias_c
    ready   : BOOLEAN ]     \* gps_bias_ready; in mocap mode seq >= 300

NoMessage == [received |-> FALSE, age |-> "stale", new |-> FALSE, zero |-> FALSE]
NewMessage(zero) == [received |-> TRUE, age |-> "fresh", new |-> TRUE, zero |-> zero]

NoCalibration ==
    [seq |-> 0, bias_c |-> 0, zero |-> TRUE, samples |-> 0, divided |-> 0, ready |-> FALSE]

Init ==
    /\ source \in Sources
    /\ pose = NoMessage
    /\ imu = NoMessage
    /\ calibration = NoCalibration
    /\ used = {}
    /\ output = "none"

Count(n) == IF n < Cap THEN n + 1 ELSE n

-----------------------------------------------------------------------------
(* Callbacks.                                                              *)

CachePose(zero) ==
    /\ pose' = NewMessage(zero)
    /\ used' = used \ {"pose"}
    /\ output' = IF output = "none" THEN "none" ELSE "older"
    /\ UNCHANGED <<source, imu, calibration>>

\* A pose and a velocity that the synchronizer has put together: both have a
\* stamp, the stamps are close, the pose is newer than the last, all is finite.
Pairs ==
    [stamped : BOOLEAN, close : BOOLEAN, newer : BOOLEAN, finite : BOOLEAN, zero : BOOLEAN]

\* gpsOdomVelCallback; of a pair that is refused nothing is kept.
PairReceived(pair) ==
    /\ source = "gps"
    /\ pair.stamped /\ pair.close /\ pair.finite
    /\ pose.received => pair.newer
    /\ CachePose(pair.zero)

\* simtruthCallback, when the model of this vehicle is in the message.
ModelReceived(zero) == source = "simulation" /\ CachePose(zero)

\* mctruthCallback
MocapReceived == source = "mocap" /\ CachePose(FALSE)

\* imuCallback
ImuReceived ==
    /\ source = "mocap"
    /\ imu' = NewMessage(FALSE)
    /\ used' = used \ {"imu"}
    /\ UNCHANGED <<source, pose, calibration, output>>

-----------------------------------------------------------------------------
(* gps_odom_pub                                                            *)

\* Mutant: the calibration does not use up the frame.
M_PoseUsed_Calibrating(p) == [p EXCEPT !.new = ~calibration.ready]

PoseUsed(p) == [p EXCEPT !.new = FALSE]

PoseReady == source # "mocap" /\ pose.received /\ pose.age = "fresh" /\ pose.new

\* The sums take the pose; one that they have already taken is no other sample.
Summed(c) ==
    [c EXCEPT !.bias_c = Count(@),
              !.samples = IF "pose" \in used THEN @ ELSE Count(@)]

\* With GPS and in simulation the first pose overwrites the quaternion.
Sampled(c) ==
    [Summed(c) EXCEPT !.seq = Count(@), !.zero = pose.zero /\ (@ \/ c.bias_c = 0)]

\* Mutant: nobody is told that the means are there.
M_Averaged_NotReady(c) == [c EXCEPT !.divided = Count(@)]

\* The sums become means in place; a mean quaternion of norm 0 is refused.
Averaged(c) == [c EXCEPT !.divided = Count(@), !.ready = ~c.zero]

Calibrated(c) ==
    IF c.seq < BiasSamples \/ c.bias_c # c.seq THEN c ELSE Averaged(c)

GpsCalibrates ==
    /\ PoseReady
    /\ ~calibration.ready
    /\ pose' = PoseUsed(pose)
    /\ calibration' = Calibrated(Sampled(calibration))
    /\ used' = used \cup {"pose"}
    /\ UNCHANGED <<source, imu, output>>

GpsPublishes ==
    /\ PoseReady
    /\ calibration.ready
    /\ pose' = PoseUsed(pose)
    /\ output' = "current"
    /\ used' = used \cup {"pose"}
    /\ UNCHANGED <<source, imu, calibration>>

-----------------------------------------------------------------------------
(* mc_odom_pub                                                             *)

BothReady ==
    /\ source = "mocap"
    /\ \A message \in {pose, imu} : message.received /\ message.age = "fresh" /\ message.new

UseBoth ==
    /\ pose' = PoseUsed(pose)
    /\ imu' = [imu EXCEPT !.new = FALSE]
    /\ used' = used \cup {"pose", "imu"}
    /\ UNCHANGED source

\* Mutant: the counters are restarted, the sums are not.
M_Restarted_KeepsSums(c) == [c EXCEPT !.bias_c = 0, !.seq = 0]

\* The delay between the two clocks was not stable: from the beginning.
Restarted(c) == [c EXCEPT !.bias_c = 0, !.seq = 0, !.samples = 0]

MocapCalibrates(stable) ==
    /\ BothReady
    /\ calibration.seq + 1 < BiasSamples
    /\ UseBoth
    /\ calibration' = LET c == [calibration EXCEPT !.seq = Count(@)]
                      IN IF stable THEN Summed(c) ELSE Restarted(c)
    /\ UNCHANGED output

\* The sample that completes the calibration is not summed.
MocapAverages ==
    /\ BothReady
    /\ calibration.seq + 1 = BiasSamples
    /\ UseBoth
    /\ calibration' = [calibration EXCEPT !.seq = Count(@), !.divided = Count(@),
                                          !.ready = TRUE]
    /\ UNCHANGED output

\* After that a pose is published if its time is that of the IMU message.
MocapPublishes(aligned) ==
    /\ BothReady
    /\ calibration.seq >= BiasSamples
    /\ UseBoth
    /\ calibration' = [calibration EXCEPT !.seq = Count(@)]
    /\ output' = IF aligned THEN "current" ELSE output

-----------------------------------------------------------------------------
\* gps_odom_timeout or mocap_input_timeout since the message was received
PoseTimeout ==
    /\ pose.age = "fresh"
    /\ pose' = [pose EXCEPT !.age = "stale"]
    /\ UNCHANGED <<source, imu, calibration, used, output>>

ImuTimeout ==
    /\ imu.age = "fresh"
    /\ imu' = [imu EXCEPT !.age = "stale"]
    /\ UNCHANGED <<source, pose, calibration, used, output>>

Next ==
    \/ \E pair \in Pairs : PairReceived(pair)
    \/ \E zero \in BOOLEAN : ModelReceived(zero)
    \/ MocapReceived
    \/ ImuReceived
    \/ GpsCalibrates
    \/ GpsPublishes
    \/ \E stable \in BOOLEAN : MocapCalibrates(stable)
    \/ MocapAverages
    \/ \E aligned \in BOOLEAN : MocapPublishes(aligned)
    \/ PoseTimeout
    \/ ImuTimeout

Spec == Init /\ [][Next]_vars

(***************************************************************************)
(* Poses with a proper quaternion arrive again and again, and a timer tick *)
(* comes before they are stale (5 ms against 200 ms) and meets one.        *)
(***************************************************************************)
Fairness ==
    /\ WF_vars(ModelReceived(FALSE) \/ \E pair \in Pairs : ~pair.zero /\ PairReceived(pair))
    /\ SF_vars(GpsCalibrates /\ ~pose.zero)
    /\ SF_vars(GpsPublishes)

FairSpec == Spec /\ Fairness

-----------------------------------------------------------------------------
(* Properties.                                                             *)

\* Type invariant.
OdomRemapTypeOK ==
    /\ source \in Sources
    /\ pose \in Messages /\ imu \in Messages
    /\ calibration \in Calibrations
    /\ used \subseteq {"pose", "imu"}
    /\ output \in {"none", "current", "older"}

\* When the bias is taken into use, the sums hold as many different poses as they
\* were last divided by, although the timer is faster than its sources.  In mocap
\* mode these are the BiasSamples - 1 poses since the last restart, divided once:
\* their mean.  With GPS and in simulation each refused mean has cost one more
\* pose and one more division, of what was divided before (odom_remap.cpp:723-745):
\* the bias is the mean of BiasSamples poses if none was refused; otherwise it is
\* not the mean of the poses in it (MeansAreOfSamples).
BiasOfItsPoses ==
    calibration.ready =>
        /\ calibration.samples = calibration.bias_c
        /\ IF source = "mocap"
           THEN calibration.bias_c = BiasSamples - 1 /\ calibration.divided = 1
           ELSE calibration.bias_c < Cap =>
                   calibration.bias_c = BiasSamples + calibration.divided - 1

Uses ==
    \/ GpsCalibrates \/ GpsPublishes
    \/ \E stable \in BOOLEAN : MocapCalibrates(stable)
    \/ MocapAverages
    \/ \E aligned \in BOOLEAN : MocapPublishes(aligned)

\* A message is put to use once, to calibrate or to publish, although the timer
\* is faster than its sources; nothing stale is put to use, and nothing is
\* published before the bias is known.
MessagesUsedOnce ==
    [][Uses => /\ used = {}
               /\ pose.age = "fresh" /\ (source = "mocap" => imu.age = "fresh")
               /\ output' # output => calibration.ready]_vars

\* With GPS or in simulation the output never dries up while poses arrive: the
\* calibration ends, even if a mean had norm 0, and then new poses are published
\* again and again.  (In mocap mode an unstable delay may restart it for ever.)
OutputNeverStops == source # "mocap" => []<>(output = "current")

\* A comment's statement that the code does not keep: "here it must hold strictly
\* that seq == gps_bias_samples and bias_c == gps_bias_samples", where the sums
\* become means.  After a refused mean the old means are summed and divided again.
MeansAreOfSamples ==
    source # "mocap" /\ calibration.ready => calibration.seq = BiasSamples
=============================================================================
