-------------------------- MODULE OdomRemapProofs --------------------------
(***************************************************************************)
(* Proofs about the localization source, for every number of samples.      *)
(*                                                                         *)
(* The properties need to know where the calibration of either kind is: in *)
(* mocap mode its end is a value of seq, in the other modes a flag, and    *)
(* each refused mean goes with one more pose.                              *)
(***************************************************************************)
EXTENDS OdomRemap, TLAPS

NewIsUnused ==
    /\ pose.new => "pose" \notin used
    /\ imu.new => "imu" \notin used
    /\ source # "mocap" => used \subseteq {"pose"}

SumsAreCounted == calibration.samples = calibration.bias_c

MocapProgress ==
    source = "mocap" =>
        IF calibration.ready
        THEN /\ calibration.seq >= BiasSamples
             /\ calibration.bias_c = BiasSamples - 1
             /\ calibration.divided = 1
        ELSE /\ calibration.seq < BiasSamples
             /\ calibration.bias_c = calibration.seq
             /\ calibration.divided = 0

\* The checks of gps_odom_pub for a mismatch of the counters never fire, and the
\* sums are divided with each pose from the last of the BiasSamples on.
Attempts(c) ==
    /\ c.bias_c = c.seq
    /\ IF c.seq < BiasSamples THEN c.divided = 0 /\ ~c.ready
       ELSE c.seq < Cap => c.seq = BiasSamples + c.divided - 1

GpsProgress == source # "mocap" => Attempts(calibration)

RemapInv ==
    OdomRemapTypeOK /\ NewIsUnused /\ SumsAreCounted /\ MocapProgress /\ GpsProgress

USE BiasSamplesAssumption, CapAssumption

\* The source starts in the invariant.
LEMMA RemapInitInv == Init => RemapInv
  BY DEF Init, RemapInv, OdomRemapTypeOK, Sources, Messages, Calibrations, NoMessage,
         NoCalibration, NewIsUnused, SumsAreCounted, MocapProgress, GpsProgress, Attempts

\* The counters saturate inside their range.
LEMMA CountType ==
    ASSUME NEW n \in 0 .. Cap
    PROVE  Count(n) \in 0 .. Cap /\ (n < BiasSamples => Count(n) = n + 1)
                                 /\ (n >= BiasSamples => Count(n) >= BiasSamples)
  BY DEF Count

\* A new pose is an unused one; nothing else changes for the invariant.
LEMMA CachePoseInv ==
    ASSUME RemapInv, NEW zero \in BOOLEAN, CachePose(zero)
    PROVE  RemapInv'
  <1>1. pose' = [received |-> TRUE, age |-> "fresh", new |-> TRUE, zero |-> zero]
    BY DEF CachePose, NewMessage
  <1>2. OdomRemapTypeOK'
    BY <1>1 DEF CachePose, RemapInv, OdomRemapTypeOK, Messages
  <1>3. NewIsUnused'
    BY DEF CachePose, RemapInv, NewIsUnused
  <1>4. SumsAreCounted' /\ MocapProgress' /\ GpsProgress'
    BY DEF CachePose, RemapInv, SumsAreCounted, MocapProgress, GpsProgress
  <1> QED
    BY <1>2, <1>3, <1>4 DEF RemapInv

\* Using the pose leaves it in its type, and not new.
LEMMA PoseUsedType ==
    ASSUME NEW p \in Messages
    PROVE  PoseUsed(p) \in Messages /\ ~PoseUsed(p).new
  BY DEF PoseUsed, Messages

\* A pose that has not been used is one more in the sums and in their number.
LEMMA SummedType ==
    ASSUME NEW c \in Calibrations, c.samples = c.bias_c, "pose" \notin used
    PROVE  /\ Summed(c) \in Calibrations
           /\ Summed(c).samples = Summed(c).bias_c /\ Summed(c).bias_c = Count(c.bias_c)
           /\ Summed(c).seq = c.seq /\ Summed(c).divided = c.divided
           /\ Summed(c).ready = c.ready
  <1>1. Count(c.bias_c) \in 0 .. Cap /\ Count(c.samples) \in 0 .. Cap
    BY CountType DEF Calibrations
  <1>. QED  BY <1>1 DEF Summed, Calibrations

\* One sample, and perhaps the means: the counters stay together, and so do poses
\* and divisions.
LEMMA CalibratedType ==
    ASSUME NEW c \in Calibrations, c.samples = c.bias_c, Attempts(c), ~c.ready,
           "pose" \notin used, pose \in Messages
    PROVE  /\ Calibrated(Sampled(c)) \in Calibrations
           /\ Calibrated(Sampled(c)).samples = Calibrated(Sampled(c)).bias_c
           /\ Attempts(Calibrated(Sampled(c)))
  <1> DEFINE d == Sampled(c)
             a == Averaged(d)
  <1>1. c.seq \in 0 .. Cap /\ c.divided \in 0 .. Cap /\ c.bias_c = c.seq
    BY DEF Calibrations, Attempts
  <1>2. /\ d \in Calibrations /\ d.samples = d.bias_c /\ d.bias_c = d.seq
        /\ d.seq = Count(c.seq) /\ d.divided = c.divided /\ d.ready = c.ready
    <2>1. Count(c.seq) \in 0 .. Cap
      BY <1>1, CountType
    <2> DEFINE s == Summed(c)
               z == pose.zero /\ (s.zero \/ c.bias_c = 0)
    <2>2. /\ s \in Calibrations /\ s.samples = s.bias_c /\ s.bias_c = Count(c.bias_c)
          /\ s.seq = c.seq /\ s.divided = c.divided /\ s.ready = c.ready
      BY SummedType
    <2>3. z \in BOOLEAN
      BY <2>2 DEF Messages, Calibrations
    <2>4. d = [s EXCEPT !.seq = Count(s.seq), !.zero = z]
      BY <2>2 DEF Sampled, Calibrations
    <2>. HIDE DEF d, s, z
    <2>5. d \in Calibrations
      BY <1>1, <2>1, <2>2, <2>3, <2>4 DEF Calibrations
    <2>6. /\ d.samples = s.samples /\ d.bias_c = s.bias_c /\ d.seq = Count(s.seq)
          /\ d.divided = s.divided /\ d.ready = s.ready
      BY <2>2, <2>4 DEF Calibrations
    <2>. QED  BY <1>1, <2>2, <2>5, <2>6
  <1>3. Count(c.divided) \in 0 .. Cap
    BY <1>1, CountType
  <1>4. /\ a \in Calibrations /\ a.samples = a.bias_c /\ a.bias_c = a.seq
        /\ a.seq = Count(c.seq) /\ a.divided = Count(c.divided)
    BY <1>2, <1>3 DEF Averaged, Calibrations
  <1>. HIDE DEF d, a
  <1>5. CASE d.seq < BiasSamples
    <2>1. Calibrated(d) = d
      BY <1>5 DEF Calibrated
    <2>2. c.seq < BiasSamples
      BY <1>1, <1>2, <1>5 DEF Count
    <2>3. Attempts(d)
      BY <1>2, <1>5, <2>2 DEF Attempts
    <2>. QED  BY <1>2, <2>1, <2>3 DEF d
  <1>6. CASE ~(d.seq < BiasSamples)
    <2>1. Calibrated(d) = a
      BY <1>2, <1>6 DEF Calibrated, a
    <2>2. ASSUME a.seq < Cap PROVE a.seq = BiasSamples + a.divided - 1
      <3>1. c.seq < Cap /\ a.seq = c.seq + 1
        BY <1>1, <1>4, <2>2 DEF Count
      <3>2. CASE c.seq < BiasSamples
        <4>1. c.divided = 0 /\ c.seq + 1 = BiasSamples
          BY <1>1, <1>2, <1>4, <1>6, <3>1, <3>2 DEF Attempts
        <4>. QED  BY <1>1, <1>4, <3>1, <4>1 DEF Count
      <3>3. CASE ~(c.seq < BiasSamples)
        <4>1. c.seq = BiasSamples + c.divided - 1
          BY <3>1, <3>3 DEF Attempts
        <4>2. c.divided < Cap
          BY <1>1, <3>1, <4>1
        <4>. QED  BY <1>1, <1>4, <3>1, <4>1, <4>2 DEF Count
      <3>. QED  BY <3>2, <3>3
    <2>3. Attempts(a)
      BY <1>2, <1>4, <1>6, <2>2 DEF Attempts
    <2>. QED  BY <1>4, <2>1, <2>3 DEF d
  <1>. QED  BY <1>5, <1>6

\* Both messages are used; the calibration is left to the action.
LEMMA UseBothInv ==
    ASSUME RemapInv, BothReady, UseBoth
    PROVE  /\ source' = source /\ source = "mocap"
           /\ pose' \in Messages /\ imu' \in Messages
           /\ used' \subseteq {"pose", "imu"}
           /\ NewIsUnused' /\ "pose" \notin used
  BY PoseUsedType DEF RemapInv, OdomRemapTypeOK, BothReady, UseBoth, NewIsUnused, Messages

\* Every step keeps the invariant.
LEMMA RemapStepInv == RemapInv /\ [Next]_vars => RemapInv'
  <1> SUFFICES ASSUME RemapInv, [Next]_vars PROVE RemapInv'
    OBVIOUS
  <1> USE DEF RemapInv
  <1>1. ASSUME NEW pair \in Pairs, PairReceived(pair) PROVE RemapInv'
    BY <1>1, CachePoseInv DEF PairReceived, Pairs
  <1>2. ASSUME NEW zero \in BOOLEAN, ModelReceived(zero) PROVE RemapInv'
    BY <1>2, CachePoseInv DEF ModelReceived
  <1>3. CASE MocapReceived
    BY <1>3, CachePoseInv DEF MocapReceived
  <1>4. CASE ImuReceived
    <2>1. imu' = [received |-> TRUE, age |-> "fresh", new |-> TRUE, zero |-> FALSE]
      BY <1>4 DEF ImuReceived, NewMessage
    <2>2. OdomRemapTypeOK'
      <3>1. imu' \in Messages
        BY <2>1 DEF Messages
      <3>2. used' \subseteq {"pose", "imu"}
        BY <1>4 DEF ImuReceived, OdomRemapTypeOK
      <3> QED
        BY <1>4, <3>1, <3>2 DEF ImuReceived, OdomRemapTypeOK
    <2>3. NewIsUnused' /\ SumsAreCounted' /\ MocapProgress' /\ GpsProgress'
      BY <1>4 DEF ImuReceived, NewIsUnused, SumsAreCounted, MocapProgress, GpsProgress
    <2> QED
      BY <2>2, <2>3
  <1>5. CASE GpsCalibrates
    <2>1. source # "mocap" /\ Attempts(calibration) /\ "pose" \notin used
      BY <1>5 DEF GpsCalibrates, PoseReady, GpsProgress, NewIsUnused
    <2>2. calibration' \in Calibrations /\ SumsAreCounted' /\ Attempts(calibration')
      BY <1>5, <2>1, CalibratedType DEF GpsCalibrates, OdomRemapTypeOK, SumsAreCounted
    <2>3. OdomRemapTypeOK' /\ NewIsUnused'
      BY <1>5, <2>1, <2>2, PoseUsedType
      DEF GpsCalibrates, PoseReady, OdomRemapTypeOK, NewIsUnused
    <2>4. MocapProgress' /\ GpsProgress'
      BY <1>5, <2>1, <2>2 DEF GpsCalibrates, MocapProgress, GpsProgress
    <2> QED
      BY <2>2, <2>3, <2>4
  <1>6. CASE GpsPublishes
    BY <1>6, PoseUsedType
    DEF GpsPublishes, PoseReady, OdomRemapTypeOK, NewIsUnused, SumsAreCounted,
        MocapProgress, GpsProgress
  <1>7. ASSUME NEW stable \in BOOLEAN, MocapCalibrates(stable) PROVE RemapInv'
    <2>1. source' = source /\ source = "mocap" /\ NewIsUnused' /\ "pose" \notin used
      BY <1>7, UseBothInv DEF MocapCalibrates
    <2>2. /\ ~calibration.ready /\ calibration.seq \in 0 .. Cap
          /\ calibration.seq < BiasSamples
      BY <1>7, <2>1 DEF MocapCalibrates, MocapProgress, OdomRemapTypeOK, Calibrations
    <2>3. /\ calibration.bias_c = calibration.seq
          /\ Count(calibration.seq) = calibration.seq + 1
      BY <2>1, <2>2, CountType DEF MocapProgress
    <2> DEFINE next == calibration.seq + 1
               counted == [calibration EXCEPT !.seq = next]
    <2>6. /\ calibration \in Calibrations /\ counted \in Calibrations
          /\ next \in 0 .. Cap /\ next < BiasSamples
          /\ counted.bias_c = calibration.bias_c /\ counted.seq = next
          /\ ~counted.ready /\ counted.divided = 0 /\ counted.samples = counted.bias_c
      BY <1>7, <2>1, <2>2, <2>3
      DEF MocapCalibrates, MocapProgress, OdomRemapTypeOK, Calibrations, SumsAreCounted
    <2>7. calibration' = IF stable THEN Summed(counted) ELSE Restarted(counted)
      BY <1>7, <2>3, <2>6 DEF MocapCalibrates, Calibrations
    <2>4. calibration' \in Calibrations /\ MocapProgress' /\ SumsAreCounted'
      <3>1. CASE stable
        <4>1. /\ calibration' \in Calibrations /\ SumsAreCounted'
              /\ calibration'.bias_c = next /\ calibration'.seq = next
              /\ calibration'.divided = 0 /\ ~calibration'.ready
          BY <2>1, <2>3, <2>6, <2>7, <3>1, SummedType DEF SumsAreCounted
        <4> QED
          BY <2>1, <2>6, <4>1 DEF MocapProgress
      <3>2. CASE ~stable
        <4>1. /\ calibration' = [counted EXCEPT !.bias_c = 0, !.seq = 0, !.samples = 0]
              /\ 0 \in 0 .. Cap /\ 0 < BiasSamples
          BY <2>6, <2>7, <3>2 DEF Restarted
        <4>2. calibration' \in Calibrations
          BY <2>6, <4>1 DEF Calibrations
        <4>3. /\ calibration'.bias_c = 0 /\ calibration'.seq = 0
              /\ ~calibration'.ready /\ calibration'.divided = 0
              /\ calibration'.samples = 0
          BY <2>6, <4>1 DEF Calibrations
        <4> QED
          BY <2>1, <4>1, <4>2, <4>3 DEF MocapProgress, SumsAreCounted
      <3> QED
        BY <3>1, <3>2
    <2>5. OdomRemapTypeOK'
      BY <1>7, <2>4, UseBothInv DEF MocapCalibrates, OdomRemapTypeOK
    <2> QED
      BY <2>1, <2>4, <2>5 DEF GpsProgress
  <1>8. CASE MocapAverages
    <2>1. source' = source /\ source = "mocap" /\ NewIsUnused'
      BY <1>8, UseBothInv DEF MocapAverages
    <2>2. /\ ~calibration.ready /\ calibration.seq \in 0 .. Cap
          /\ calibration.seq < BiasSamples
      BY <1>8, <2>1 DEF MocapAverages, MocapProgress, OdomRemapTypeOK, Calibrations
    <2>3. /\ calibration.divided = 0 /\ calibration.bias_c = calibration.seq
          /\ Count(calibration.seq) = calibration.seq + 1
          /\ Count(0) = 1
      BY <2>1, <2>2, CountType DEF MocapProgress
    <2>6. calibration \in Calibrations /\ calibration.seq + 1 = BiasSamples
      BY <1>8 DEF MocapAverages, OdomRemapTypeOK
    <2>7. calibration' =
              [calibration EXCEPT !.seq = BiasSamples, !.divided = 1, !.ready = TRUE]
      BY <1>8, <2>3, <2>6 DEF MocapAverages, Calibrations
    <2>8. BiasSamples \in 0 .. Cap /\ 1 \in 0 .. Cap
      OBVIOUS
    <2>9. calibration' \in Calibrations
      BY <2>6, <2>7, <2>8 DEF Calibrations
    <2>10. /\ calibration'.ready /\ calibration'.divided = 1
           /\ calibration'.seq = BiasSamples /\ calibration'.bias_c = BiasSamples - 1
           /\ calibration'.samples = calibration'.bias_c
      BY <2>2, <2>3, <2>6, <2>7 DEF Calibrations, SumsAreCounted
    <2>4. calibration' \in Calibrations /\ MocapProgress' /\ SumsAreCounted'
      BY <2>1, <2>9, <2>10 DEF MocapProgress, SumsAreCounted
    <2>5. OdomRemapTypeOK'
      BY <1>8, <2>4, UseBothInv DEF MocapAverages, OdomRemapTypeOK
    <2> QED
      BY <2>1, <2>4, <2>5 DEF GpsProgress
  <1>9. ASSUME NEW aligned \in BOOLEAN, MocapPublishes(aligned) PROVE RemapInv'
    <2>1. source' = source /\ source = "mocap" /\ NewIsUnused'
      BY <1>9, UseBothInv DEF MocapPublishes
    <2>2. calibration.ready /\ calibration.seq \in 0 .. Cap
      BY <1>9, <2>1 DEF MocapPublishes, MocapProgress, OdomRemapTypeOK, Calibrations
    <2>3. Count(calibration.seq) \in 0 .. Cap /\ Count(calibration.seq) >= BiasSamples
      BY <1>9, <2>2, CountType DEF MocapPublishes
    <2>4. calibration' \in Calibrations /\ MocapProgress' /\ SumsAreCounted'
      BY <1>9, <2>1, <2>2, <2>3
      DEF MocapPublishes, MocapProgress, OdomRemapTypeOK, Calibrations, SumsAreCounted
    <2>5. OdomRemapTypeOK'
      BY <1>9, <2>4, UseBothInv DEF MocapPublishes, OdomRemapTypeOK
    <2> QED
      BY <2>1, <2>4, <2>5 DEF GpsProgress
  <1>10. CASE PoseTimeout
    BY <1>10 DEF PoseTimeout, OdomRemapTypeOK, Messages, NewIsUnused, SumsAreCounted,
                 MocapProgress, GpsProgress
  <1>11. CASE ImuTimeout
    BY <1>11 DEF ImuTimeout, OdomRemapTypeOK, Messages, NewIsUnused, SumsAreCounted,
                 MocapProgress, GpsProgress
  <1>12. CASE UNCHANGED vars
    BY <1>12 DEF vars, OdomRemapTypeOK, NewIsUnused, SumsAreCounted, MocapProgress,
                 GpsProgress
  <1> QED
    BY <1>1, <1>2, <1>3, <1>4, <1>5, <1>6, <1>7, <1>8, <1>9, <1>10, <1>11, <1>12 DEF Next

-----------------------------------------------------------------------------
\* The inductive invariant holds for every number of samples.
THEOREM RemapInvariant == Spec => []RemapInv
  BY RemapInitInv, RemapStepInv, PTL DEF Spec

\* Type correctness.
THEOREM RemapTypes == Spec => []OdomRemapTypeOK
  <1>1. RemapInv => OdomRemapTypeOK
    BY DEF RemapInv
  <1> QED
    BY <1>1, RemapInvariant, PTL

\* A bias in use is of as many different poses as its sums were last divided by:
\* in mocap mode the mean of those since the last restart, with GPS and in
\* simulation with one more pose and one more division for each refused mean.
THEOREM BiasIsOfItsPoses == Spec => []BiasOfItsPoses
  <1>1. RemapInv => BiasOfItsPoses
    <2> SUFFICES ASSUME RemapInv, calibration.ready
                 PROVE  /\ calibration.samples = calibration.bias_c
                        /\ IF source = "mocap"
                           THEN calibration.bias_c = BiasSamples - 1
                                  /\ calibration.divided = 1
                           ELSE calibration.bias_c < Cap =>
                                  calibration.bias_c = BiasSamples + calibration.divided - 1
      BY DEF BiasOfItsPoses
    <2>1. calibration.samples = calibration.bias_c
      BY DEF RemapInv, SumsAreCounted
    <2>2. CASE source = "mocap"
      BY <2>1, <2>2 DEF RemapInv, MocapProgress
    <2>3. CASE source # "mocap"
      BY <2>1, <2>3 DEF RemapInv, GpsProgress, Attempts
    <2> QED
      BY <2>2, <2>3, <2>1
  <1> QED
    BY <1>1, RemapInvariant, PTL

\* No message is put to use twice or stale, and nothing is published without bias.
THEOREM MessagesAreUsedOnce == Spec => MessagesUsedOnce
  <1> DEFINE Once == /\ used = {}
                     /\ pose.age = "fresh" /\ (source = "mocap" => imu.age = "fresh")
                     /\ output' # output => calibration.ready
  <1>1. RemapInv /\ [Next]_vars => [Uses => Once]_vars
    <2> SUFFICES ASSUME RemapInv, Uses PROVE Once
      OBVIOUS
    <2>1. used \subseteq {"pose", "imu"}
      BY DEF RemapInv, OdomRemapTypeOK
    <2>2. CASE GpsCalibrates \/ GpsPublishes
      BY <2>2 DEF GpsCalibrates, GpsPublishes, PoseReady, RemapInv, NewIsUnused
    <2>3. ASSUME BothReady
          PROVE  used = {} /\ source = "mocap" /\ pose.age = "fresh" /\ imu.age = "fresh"
      BY <2>1, <2>3 DEF BothReady, RemapInv, NewIsUnused
    <2>4. ASSUME NEW stable \in BOOLEAN, MocapCalibrates(stable) PROVE Once
      BY <2>3, <2>4 DEF MocapCalibrates
    <2>5. CASE MocapAverages
      BY <2>3, <2>5 DEF MocapAverages
    <2>6. ASSUME NEW aligned \in BOOLEAN, MocapPublishes(aligned) PROVE Once
      <3>1. calibration.seq \in Int
        BY DEF RemapInv, OdomRemapTypeOK, Calibrations
      <3> QED
        BY <2>3, <2>6, <3>1 DEF MocapPublishes, RemapInv, MocapProgress
    <2> QED
      BY <2>2, <2>4, <2>5, <2>6 DEF Uses
  <1> QED
    BY <1>1, RemapInvariant, PTL DEF Spec, MessagesUsedOnce
=============================================================================
