--------------------------- MODULE MissionScript ---------------------------
(***************************************************************************)
(* The supervisor of a real flight, sh_utils/RTK_whole_traj.sh: one shell  *)
(* process that polls topics, publishes takeoff, trajectory trigger and    *)
(* land, and keeps a rosbag recorder running beside it. Around it runs     *)
(* what it only sees through topics: PX4 with its pilot, the flight        *)
(* controller and the planner. It may be interrupted between any two       *)
(* commands, and started again.                                            *)
(*                                                                         *)
(* A poll that decides nothing (a failed read where the script retries, a  *)
(* condition not yet met) is a stuttering step. Clocks are abstracted: a   *)
(* wait may time out at any moment.                                        *)
(***************************************************************************)
EXTENDS Integers

CONSTANTS HoverFrames,   \* consecutive frames of a stable hover (10)
          StillFrames,   \* consecutive frames of standing still (15)
          StartWindow,   \* latest time a trajectory that just began may show (2 s)
          Total          \* length of the trajectory on the planner's clock

ASSUME FramesAssumption ==
    HoverFrames \in Nat \ {0} /\ StillFrames \in Nat \ {0}
ASSUME TotalAssumption ==
    Total \in Nat /\ StartWindow \in Nat /\ StartWindow < Total

VARIABLES
    \* the shell process
    pc,         \* the function main() is in; "off" when no script runs
    AIRBORNE,   \* the flag of the safety rules
    recPid,     \* RECORD_PID has been assigned
    stable,     \* stable_count of the wait it is in
    sent,       \* commands published by this task
    status,     \* how the last task ended
    \* the recorder processes
    rec,        \* of the running script
    orphan,     \* left behind by an earlier script, with the lock it inherited
    \* the world
    px4,        \* [mode, armed] as on /mavros/state
    accepted,   \* commands that their receiver has taken and not yet acted on
    clock,      \* the planner's trajectory time, Idle when it flies none
    since       \* what happened since: pilot chose OFFBOARD, flown, disarmed

script == <<pc, AIRBORNE, recPid, stable, sent, status>>
recorder == <<rec, orphan>>
world == <<px4, accepted, clock, since>>
vars == <<script, recorder, world>>

\* A task has ended for those outside when its process is gone.
Task == INSTANCE TaskPromise WITH
            status <- IF pc \in {"cleanup", "stopping"} THEN "running" ELSE status

Idle == -1
Modes == {"OFFBOARD", "AUTO.LAND", "POSCTL"}
Recorders == {"none", "running", "stopping"}
Ended == {"none", "complete", "fatal", "interrupted", "cut", "killed"}

\* A stationary wait that has no deadline.
M_FatalWaits_Patient == {"offboard", "arm", "hover", "start", "finish", "disarm"}

\* The waits of main() that give up after a number of seconds with fatal.
FatalWaits == {"offboard", "arm", "hover", "start", "finish", "still", "disarm"}

\* The functions main() goes through.
Phases ==
    {"preflight", "fork", "forked", "recording", "offboard", "takeoff", "arm",
     "hover", "recheck", "trigger", "start", "finish", "still", "land",
     "confirm", "disarm", "ground"}

Exiting == {"cleanup", "stopping"}

Init ==
    /\ pc = "off" /\ status = "none" /\ sent = Task!NothingSent
    /\ AIRBORNE = FALSE /\ recPid = FALSE /\ stable = 0
    /\ rec = "none" /\ orphan = "none"
    /\ px4 \in [mode : Modes, armed : {FALSE}]
    /\ accepted = {} /\ clock = Idle
    /\ since = [offboard |-> FALSE, flown |-> FALSE, disarmed |-> FALSE]

-----------------------------------------------------------------------------
(* The script. *)

\* The recorder closes the lock's descriptor.
M_LockFree_NotInherited == pc = "off"

\* The lock belongs to the open file, which the recorder inherits: it is free
\* only when the script and every recorder started under it are gone.
LockFree == pc = "off" /\ orphan = "none"

Start ==
    /\ LockFree
    /\ pc' = "preflight" /\ status' = "running" /\ sent' = Task!NothingSent
    /\ AIRBORNE' = FALSE /\ recPid' = FALSE /\ stable' = 0
    /\ UNCHANGED <<recorder, world>>

\* Goes on with the next function of main(); its counter starts at 0.
Enters(phase) ==
    /\ pc' = phase /\ stable' = 0
    /\ UNCHANGED <<recPid, status>>

\* exit with a status: the EXIT trap comes next.
ExitsWith(how) ==
    /\ pc' = "cleanup" /\ status' = how
    /\ UNCHANGED <<AIRBORNE, recPid, stable, sent, recorder, world>>

Fatal == ExitsWith("fatal")

Flying == px4.mode = "OFFBOARD" /\ px4.armed

\* The preflight checks do not look at the mode.
M_SafeOnGround_AnyMode == ~px4.armed

\* Everything before the recorder starts, the typed confirmation included. The
\* reads of RTK, EKF, disk, parameters and odometry may each be fatal.
SafeOnGround == ~px4.armed /\ px4.mode # "OFFBOARD"

Preflight ==
    /\ pc = "preflight"
    /\ \/ Fatal
       \/ /\ SafeOnGround
          /\ Enters("fork")
          /\ since' = [since EXCEPT !.offboard = FALSE]
          /\ UNCHANGED <<AIRBORNE, sent, recorder, px4, accepted, clock>>

ForkRecorder ==
    /\ pc = "fork"
    /\ Enters("forked")
    /\ rec' = "running"
    /\ UNCHANGED <<AIRBORNE, sent, orphan, world>>

AssignPid ==
    /\ pc = "forked"
    /\ pc' = "recording" /\ recPid' = TRUE
    /\ UNCHANGED <<AIRBORNE, stable, sent, status, recorder, world>>

CheckRecorder ==
    /\ pc = "recording"
    /\ \/ Fatal
       \/ /\ rec # "none"
          /\ Enters("offboard")
          /\ UNCHANGED <<AIRBORNE, sent, recorder, world>>

WaitOffboard ==
    /\ pc = "offboard"
    /\ \/ Fatal
       \/ /\ ~px4.armed /\ px4.mode = "OFFBOARD"
          /\ Enters("takeoff")
          /\ UNCHANGED <<AIRBORNE, sent, recorder, world>>

\* rostopic pub -1: the receiver may take the command or not.
Publishes(c, next) ==
    /\ Enters(next)
    /\ sent' = [sent EXCEPT ![c] = @ + 1]
    /\ accepted' \in {accepted, accepted \cup {c}}
    /\ UNCHANGED <<AIRBORNE, recorder, px4, clock>>

PublishTakeoff ==
    /\ pc = "takeoff"
    /\ \/ Fatal
       \/ Publishes("takeoff", "arm") /\ UNCHANGED since

WaitArmed ==
    /\ pc = "arm"
    /\ \/ Fatal
       \/ /\ Flying
          /\ Enters("hover")
          /\ AIRBORNE' = TRUE
          /\ UNCHANGED <<sent, recorder, world>>

\* One frame of a wait for n consecutive good frames.
Frame(n, next) ==
    \E good \in BOOLEAN :
        LET count == IF good THEN stable + 1 ELSE 0 IN
        /\ IF count >= n THEN Enters(next)
                         ELSE stable' = count /\ UNCHANGED <<pc, recPid, status>>
        /\ UNCHANGED <<AIRBORNE, sent, recorder, world>>

WaitHover ==
    /\ pc = "hover"
    /\ Fatal \/ (Flying /\ Frame(HoverFrames, "recheck"))

\* assert_rtk_fixed and assert_ekf_ready; the state is not read again.
Recheck ==
    /\ pc = "recheck"
    /\ \/ Fatal
       \/ Enters("trigger") /\ UNCHANGED <<AIRBORNE, sent, recorder, world>>

PublishTrigger ==
    /\ pc = "trigger"
    /\ \/ Fatal
       \/ /\ Publishes("trigger", "start")
          /\ since' = [since EXCEPT !.flown = FALSE, !.disarmed = FALSE]

WaitStart ==
    /\ pc = "start"
    /\ \/ Fatal
       \/ /\ clock \in 0 .. StartWindow
          /\ Enters("finish")
          /\ UNCHANGED <<AIRBORNE, sent, recorder, world>>

\* The end is taken from the first part of the trajectory only.
M_WaitFinish_Early ==
    /\ pc = "finish"
    /\ \/ Fatal
       \/ /\ Flying /\ clock > StartWindow - 1
          /\ Enters("still")
          /\ UNCHANGED <<AIRBORNE, sent, recorder, world>>

\* The clock is published only while the planner flies; an unreadable clock is
\* fatal, and so is one that stands still for 5 s.  The state and the clock are
\* read one after the other and are one look here.
WaitFinish ==
    /\ pc = "finish"
    /\ \/ Fatal
       \/ /\ Flying /\ clock >= Total
          /\ Enters("still")
          /\ UNCHANGED <<AIRBORNE, sent, recorder, world>>

WaitStationary ==
    /\ pc = "still"
    /\ Fatal \/ (Flying /\ Frame(StillFrames, "land"))

PublishLand ==
    /\ pc = "land"
    /\ \/ Fatal
       \/ Publishes("land", "confirm") /\ UNCHANGED since

\* The landing has begun when PX4 says so or when the vehicle sinks.
LandingSeen == ~px4.armed \/ px4.mode = "AUTO.LAND"

ConfirmLanding ==
    /\ pc = "confirm"
    /\ \/ /\ LandingSeen \/ px4.mode = "OFFBOARD"
          /\ Enters("disarm")
          /\ UNCHANGED <<AIRBORNE, sent, recorder, world>>
       \/ ~LandingSeen /\ px4.mode # "OFFBOARD" /\ Fatal

\* The command is repeated for as long as it takes.
M_LandingUnconfirmed_NoLimit ==
    /\ pc = "confirm"
    /\ Enters("still") /\ UNCHANGED <<AIRBORNE, sent, recorder, world>>

\* After 12 s without it the command is repeated once, but only from standstill.
LandingUnconfirmed ==
    /\ pc = "confirm"
    /\ IF sent["land"] < Task!MaxLands
       THEN Enters("still") /\ UNCHANGED <<AIRBORNE, sent, recorder, world>>
       ELSE Fatal

WaitDisarmed ==
    /\ pc = "disarm"
    /\ \/ Fatal
       \/ /\ ~px4.armed
          /\ Enters("ground")
          /\ AIRBORNE' = FALSE
          /\ UNCHANGED <<sent, recorder, world>>

\* ON_GROUND or 20 s: both end the task as a success.
WaitGround == pc = "ground" /\ ExitsWith("complete")

TimesOut == pc \in FatalWaits /\ Fatal

\* The process is gone; a recorder that still lives keeps the lock.
Gone(how) ==
    /\ pc' = "off" /\ status' = how
    /\ rec' = "none"
    /\ orphan' = IF rec = "none" THEN orphan ELSE rec
    /\ UNCHANGED <<AIRBORNE, recPid, stable, sent, world>>

\* on_signal, between two commands of main().
Interrupted == pc \in Phases /\ ExitsWith("interrupted")

\* A signal while the EXIT trap runs: exit does not run the trap again.
CutShort == pc \in Exiting /\ Gone("cut")

\* The process is killed, or its machine's session goes away.
Killed == pc \in Phases \cup Exiting /\ Gone("killed")

\* The clean-up forgets the flag.
M_MayStop_InAir == recPid /\ rec # "none"

\* The trap of the signals leaves without cleaning up.
M_MayStop_NotOnSignal == recPid /\ rec # "none" /\ ~AIRBORNE /\ status # "interrupted"

MayStop == recPid /\ rec # "none" /\ ~AIRBORNE

\* cleanup: in the air the recorder is left running, otherwise it gets SIGINT.
Cleanup ==
    /\ pc = "cleanup"
    /\ IF MayStop
       THEN /\ pc' = "stopping" /\ rec' = "stopping"
            /\ UNCHANGED <<AIRBORNE, recPid, stable, sent, status, orphan, world>>
       ELSE Gone(status)

\* stop_recording waits 15 s for the recorder and then exits without it.
Stopped == pc = "stopping" /\ Gone(status)

Script ==
    \/ Start \/ Preflight \/ ForkRecorder \/ AssignPid \/ CheckRecorder
    \/ WaitOffboard \/ PublishTakeoff \/ WaitArmed \/ WaitHover \/ Recheck
    \/ PublishTrigger \/ WaitStart \/ WaitFinish \/ WaitStationary \/ PublishLand
    \/ ConfirmLanding \/ LandingUnconfirmed \/ WaitDisarmed \/ WaitGround
    \/ TimesOut \/ Interrupted \/ CutShort \/ Killed \/ Cleanup \/ Stopped
-----------------------------------------------------------------------------
(* The recorder and the world around the script. *)

\* rosbag record ends by itself: its disk is full, or the operator stops it.
RecorderDies ==
    \/ rec # "none" /\ rec' = "none" /\ UNCHANGED <<orphan, script, world>>
    \/ orphan # "none" /\ orphan' = "none" /\ UNCHANGED <<rec, script, world>>

\* rosbag record obeys SIGINT once it has written its index.
RecorderStops == rec = "stopping" /\ rec' = "none" /\ UNCHANGED <<orphan, script, world>>
OrphanStops == orphan = "stopping" /\ orphan' = "none" /\ UNCHANGED <<rec, script, world>>

\* The pilot switches to OFFBOARD, or takes over.
PilotMode ==
    \E mode \in {"OFFBOARD", "POSCTL"} :
        /\ px4' = [px4 EXCEPT !.mode = mode]
        /\ since' = [since EXCEPT !.offboard = @ \/ mode = "OFFBOARD"]
        /\ UNCHANGED <<script, recorder, accepted, clock>>

Arms == px4' = [px4 EXCEPT !.armed = TRUE] /\ UNCHANGED since

Disarms ==
    /\ px4.armed
    /\ px4' = [px4 EXCEPT !.armed = FALSE]
    /\ since' = [since EXCEPT !.disarmed = TRUE]

\* The pilot arms by hand, or uses the kill switch.
PilotArms == ~px4.armed /\ Arms /\ UNCHANGED <<script, recorder, accepted, clock>>
PilotDisarms == Disarms /\ UNCHANGED <<script, recorder, accepted, clock>>

Handled(c) == c \in accepted /\ accepted' = accepted \ {c}

\* The ARM call of ctrl_node succeeds, however long it took.
ControllerArms == Handled("takeoff") /\ Arms /\ UNCHANGED <<script, recorder, clock>>

\* The AUTO.LAND call of ctrl_node succeeds.
ControllerLands ==
    /\ Handled("land")
    /\ px4' = [px4 EXCEPT !.mode = "AUTO.LAND"]
    /\ UNCHANGED <<script, recorder, clock, since>>

\* A command is refused, expires or is given up by its receiver.
Dropped == \E c \in accepted : Handled(c) /\ UNCHANGED <<script, recorder, px4, clock, since>>

TouchesDown ==
    /\ px4.mode = "AUTO.LAND"
    /\ Disarms
    /\ UNCHANGED <<script, recorder, accepted, clock>>

\* The planner gets its handshake in a hover, for the script's trigger or for
\* that of a user.
PlannerStarts ==
    /\ clock = Idle /\ Flying
    /\ clock' = 0
    /\ accepted' = accepted \ {"trigger"}
    /\ UNCHANGED <<script, recorder, px4, since>>

PlannerAdvances ==
    /\ clock \in 0 .. Total - 1
    /\ clock' = clock + 1
    /\ since' = [since EXCEPT !.flown = @ \/ clock' = Total]
    /\ UNCHANGED <<script, recorder, px4, accepted>>

\* At its end the planner falls silent at once; a flight that leaves OFFBOARD
\* cancels it.
PlannerEnds ==
    /\ clock = Total \/ (clock # Idle /\ ~Flying)
    /\ clock' = Idle
    /\ UNCHANGED <<script, recorder, px4, accepted, since>>

World ==
    \/ RecorderDies \/ RecorderStops \/ OrphanStops \/ PilotMode \/ PilotArms
    \/ PilotDisarms \/ ControllerArms \/ ControllerLands \/ Dropped
    \/ TouchesDown \/ PlannerStarts \/ PlannerAdvances \/ PlannerEnds

Next == Script \/ World

Spec == Init /\ [][Next]_vars

\* What the shell does next unless it waits for the user: a command of main(),
\* or the EXIT trap.
Proceeds ==
    \/ ForkRecorder \/ AssignPid \/ CheckRecorder \/ WaitOffboard \/ PublishTakeoff
    \/ WaitArmed \/ WaitHover \/ Recheck \/ PublishTrigger \/ WaitStart
    \/ WaitFinish \/ WaitStationary \/ PublishLand \/ ConfirmLanding
    \/ LandingUnconfirmed \/ WaitDisarmed \/ WaitGround \/ Cleanup \/ Stopped

\* The shell runs, its waits have a deadline, and rosbag obeys SIGINT. Nothing
\* is assumed of pilot, vehicle, planner, user or signals.
FairSpec ==
    /\ Spec
    /\ WF_vars(Proceeds)
    /\ WF_vars(TimesOut)
    /\ WF_vars(RecorderStops)
    /\ WF_vars(OrphanStops)

-----------------------------------------------------------------------------
(* Properties. *)

TypeOK ==
    /\ pc \in Phases \cup Exiting \cup {"off"}
    /\ AIRBORNE \in BOOLEAN /\ recPid \in BOOLEAN
    /\ stable \in Nat
    /\ sent \in [Task!Commands -> 0 .. Task!MaxLands]
    /\ status \in Ended \cup {"running"}
    /\ rec \in Recorders /\ orphan \in Recorders
    /\ px4 \in [mode : Modes, armed : BOOLEAN]
    /\ accepted \subseteq Task!Commands
    /\ clock \in Idle .. Total
    /\ since \in [offboard : BOOLEAN, flown : BOOLEAN, disarmed : BOOLEAN]

\* Two recorders never run side by side, though a script that ends in the air
\* leaves its own behind and another script may be started at once
\* (RTK_whole_traj.sh:37-41, 84-98).
OneRecorder == rec = "none" \/ orphan = "none"

\* "TASK COMPLETE" is reported only when the planner reached the end of a
\* trajectory after this task's trigger and the vehicle was disarmed after it,
\* whoever else triggers the planner or takes over (RTK_whole_traj.sh:671-693).
CompleteMeansFlown == status = "complete" => since.flown /\ since.disarmed

\* The takeoff is commanded only after the pilot has switched to OFFBOARD since
\* the preflight checks: the script never starts a flight on a mode switch left
\* over from before (RTK_whole_traj.sh:5, 189, 267-292).
TakeoffAfterPilot == [][sent'["takeoff"] > sent["takeoff"] => since.offboard]_vars

StopsRecorder == rec = "running" /\ rec' = "stopping"

\* Once a trajectory has been triggered, the script stops its recorder only
\* after the vehicle was disarmed, however the task ends
\* (RTK_whole_traj.sh:84-98).
RecordsWholeFlight == [][StopsRecorder /\ sent["trigger"] > 0 => since.disarmed]_vars

\* The commands of a task are those TaskPromise allows, in its order.
KeepsTaskPromise == Task!Spec

\* A task that has begun to record ends: no wait lasts for ever
\* (RTK_whole_traj.sh:29-33).
TaskEnds == pc = "recording" ~> pc = "off"

\* A script that ends on the ground gives the lock back, so that the next task
\* can begin: its recorder is told to stop, waited for or not. Excepted are a
\* script that is killed, a second signal during the clean-up, and a signal
\* before RECORD_PID is assigned (RTK_whole_traj.sh:62-98, 250-254).
LockComesBack ==
    pc = "off" /\ status \in {"complete", "fatal", "interrupted"} /\ ~AIRBORNE /\ recPid
        ~> orphan = "none"

GivesUp == pc \in Phases /\ pc' = "cleanup"

\* The safety rule at RTK_whole_traj.sh:56, kept by the AIRBORNE flag: a script
\* that gives up while the vehicle flies on its takeoff command keeps the
\* recording. It fails between the command and the poll that sees the arming.
RecordsInAir ==
    [][GivesUp /\ Flying /\ sent["takeoff"] = 1 /\ sent["land"] = 0 => AIRBORNE]_vars
=============================================================================
