------------------------------ MODULE MCFlight ------------------------------
(***************************************************************************)
(* Constants of the TLC configurations of the flight state machine.        *)
(***************************************************************************)
EXTENDS FlightProperties

\* Sets of inputs a tick may find stale.
AllFresh == {{}}
StateLoss == {{}, {"state"}}
OdomLoss == {{}, {"odometry"}}
StateOrOdom == {{}, {"state"}, {"odometry"}}
AnyOneInput == {{}, {"state"}, {"connection"}, {"odometry"}, {"imu"}}

\* PX4 modes: with POSCTL the pilot takes over without landing.
TwoModes == {"OFFBOARD", "AUTO.LAND"}
ThreeModes == {"OFFBOARD", "AUTO.LAND", "POSCTL"}

\* What the environment does.
TakeoffOnly == {"takeoff"}
ArmingStimuli == {"takeoff", "pilot"}
LandStimuli == {"land", "pilot", "disarm"}
MissionStimuli == {"takeoff", "mission", "command", "disarm"}
NavigationStimuli == {"takeoff", "mission", "command"}
=============================================================================
