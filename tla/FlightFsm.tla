----------------------------- MODULE FlightFsm -----------------------------
(***************************************************************************)
(* The offboard flight state machine (ctrl_node::FSM): its 100 Hz control  *)
(* timer, the message callbacks that run on the same single-threaded       *)
(* queue, the service worker thread that runs beside them, and PX4.        *)
(*                                                                         *)
(* One timer tick is three actions, because it takes the mutex of the      *)
(* service worker three times and the worker may report a result in        *)
(* between: TakeArmResult, TakeLandResult, then one of the Tick actions,   *)
(* which is the rest of fsm_timer.  Callbacks never run inside a tick.     *)
(*                                                                         *)
(* Time is abstracted: every timer of the code is a field that Elapse      *)
(* moves to its next stage between two ticks, in any order, and each tick  *)
(* finds any of the admissible combinations of stale inputs.               *)
(*                                                                         *)
(* A definition M_... is the one after it with a bug a programmer could    *)
(* make; it is used nowhere but to try the properties on it.               *)
(***************************************************************************)
EXTENDS ServiceWorker, FiniteSets

CONSTANTS
    MaxId,          \* largest trajectory generation (2^32 - 1 in the code)
    ArmRetries,     \* retries of arm_gate_ (20)
    LandRetries,    \* retries of land_gate_ (40)
    NavMonitor,     \* navigation_monitor_enabled_
    Losses,         \* the sets of critical inputs a tick may find stale
    Modes,          \* PX4 modes of the environment
    Stimuli         \* what the environment of a configuration does at all

Offboard == "OFFBOARD"
AutoLandMode == "AUTO.LAND"
CriticalInputs == {"state", "connection", "odometry", "imu"}
AllStimuli == {"takeoff", "land", "mission", "command", "pilot", "disarm"}

ASSUME MaxIdAssumption == MaxId \in Nat \ {0}
ASSUME RetriesAssumption == ArmRetries \in Nat \ {0} /\ LandRetries \in Nat \ {0}
ASSUME NavMonitorAssumption == NavMonitor \in BOOLEAN
ASSUME LossesAssumption == Losses \subseteq SUBSET CriticalInputs
ASSUME ModesAssumption == Modes \subseteq STRING /\ {Offboard, AutoLandMode} \subseteq Modes
ASSUME StimuliAssumption == Stimuli \subseteq AllStimuli

VARIABLES
    fsm,           \* private state of the state machine, see Fsms
    step,          \* where the timer callback is: see TickSteps
    arm_result,    \* local of fsm_timer: result taken by this tick, or NoKind
    land_result,   \* likewise for AUTO.LAND
    observed,      \* state_data.current_state: the last /mavros/state message
    px4            \* the vehicle: mode and armed

vars == <<fsm, step, arm_result, land_result, observed, px4, serviceVars>>

TickSteps == {"idle", "armTaken", "landTaken"}
Vehicles == [mode : Modes, armed : BOOLEAN]
States == {"MANUAL", "TAKEOFF", "HOVER", "MISSION", "LAND"}
Ids == 0 .. MaxId             \* 0: no valid handshake
Cancel == 0                   \* the "cancel" message; "world:<id>" is its id

(***************************************************************************)
(* Setpoints: "odom" is the desired state a tick starts with (hold where   *)
(* the odometry says), "cmd" follows the planner's PositionCommand, "none" *)
(* is a tick that published nothing.                                       *)
(***************************************************************************)
Setpoints == {"none", "odom", "speedup", "climb", "hover", "cmd"}

Commands == [stamp : {"zero", "fresh", "stale"}, id : Ids]
NoCommand == [stamp |-> "zero", id |-> 0]

Fsms == [
    current_state   : States,
    previous_mode   : Modes,       \* previous_state.mode
    takeoff_trigger : BOOLEAN,
    land_trigger    : BOOLEAN,
    failsafe        : BOOLEAN,     \* critical_input_failsafe_active_
    active          : BOOLEAN,     \* mission_trigger_data.active
    pending         : {"none", "fresh", "expired"},  \* and its pending trigger
    cmd             : Commands,    \* cmd_data
    expected_id     : Ids,         \* expected_trajectory_id_
    generation      : Ids \ {0},   \* trajectory_generation_
    delay           : {"off", "waiting", "due"},     \* takeoff_state.delay_trigger
    takeoff_timer   : {"speedup", "climb", "timeout"},
    unhealthy       : {"zero", "Grace", "Hover", "AutoLand"},
    arm_gate        : Gates,
    land_gate       : Gates,
    setpoint        : Setpoints,   \* published by the last tick
    published       : Seq(Ids) ]   \* /traj_start_trigger messages of the last tick

Init ==
    /\ px4 \in Vehicles
    /\ observed = px4
    /\ fsm \in [
         current_state   : {"MANUAL"},
         previous_mode   : {Offboard},
         takeoff_trigger : {FALSE},
         land_trigger    : {FALSE},
         failsafe        : {FALSE},
         active          : {FALSE},
         pending         : {"none"},
         cmd             : {NoCommand},
         expected_id     : {0},
         generation      : Ids \ {0},
         delay           : {"off"},
         takeoff_timer   : {"speedup"},
         unhealthy       : {"zero"},
         arm_gate        : {ResetGate},
         land_gate       : {ResetGate},
         setpoint        : {"none"},
         published       : {<<>>} ]
    /\ step = "idle"
    /\ arm_result = NoKind
    /\ land_result = NoKind
    /\ WorkerInit

-----------------------------------------------------------------------------
(* Small steps the handlers are made of.                                   *)

Enter(s, state) == [s EXCEPT !.current_state = state]
Deactivate(s) == [s EXCEPT !.active = FALSE]
CancelPending(s) == [s EXCEPT !.pending = "none"]
InvalidateCmd(s) == [s EXCEPT !.cmd = NoCommand]

\* Mutant: the planner is told, the id stays valid.
M_CancelHandshake_KeepsId(s) == [s EXCEPT !.published = Append(@, Cancel)]

\* cancel_planner_handshake
CancelHandshake(s) ==
    [s EXCEPT !.expected_id = 0, !.published = Append(@, Cancel)]

\* Mutant: a trigger of the user outlives the flight.
M_StopMission_KeepsPending(s) == CancelHandshake(Deactivate(s))

\* The three calls that every exit from a flight makes together.
StopMission(s) == CancelHandshake(CancelPending(Deactivate(s)))

\* uint32 increment that skips 0.
NextGeneration(g) == IF g = MaxId THEN 1 ELSE g + 1

\* publish_trigger
PublishTrigger(s) ==
    LET id == NextGeneration(s.generation)
    IN [s EXCEPT !.generation = id, !.expected_id = id, !.published = Append(@, id)]

\* Mutant: any handshake's command will do.
M_CmdIsReceived_AnyId(s) == s.cmd.stamp = "fresh" /\ s.expected_id # 0

\* cmd_is_received: fresh, READY, and of the handshake in force.
CmdIsReceived(s) ==
    /\ s.cmd.stamp = "fresh"
    /\ s.expected_id # 0
    /\ s.cmd.id = s.expected_id

\* Mission_Trigger_t::activatePending would return TRUE.
CanActivate(s) == s.pending = "fresh"

-----------------------------------------------------------------------------
(* handle_critical_input_loss                                              *)

\* A tick that publishes no setpoint starts by dropping every request.
Cleared ==
    LET s == [InvalidateCmd(CancelPending(Deactivate(fsm))) EXCEPT
                  !.takeoff_trigger = FALSE, !.land_trigger = FALSE]
    IN IF s.expected_id # 0 THEN CancelHandshake(s) ELSE s

\* Mutants: an outstanding arming call is no reason to land, or flight is what
\* PX4 calls armed.
M_AutoLandRequired_NoArm(stateFresh, vehicle, inFlight, armPending) ==
    IF stateFresh
    THEN vehicle.mode = Offboard /\ (vehicle.armed \/ inFlight)
    ELSE (vehicle.armed /\ vehicle.mode = Offboard) \/ inFlight

M_AutoLandRequired_ArmedOnly(stateFresh, vehicle, inFlight, armPending) ==
    vehicle.mode = Offboard /\ (vehicle.armed \/ armPending)

\* critical_input_loss_requires_auto_land: with fresh feedback only in
\* OFFBOARD; with stale feedback the last known state and the internal state
\* count as evidence of flight.
AutoLandRequired(stateFresh, vehicle, inFlight, armPending) ==
    IF stateFresh
    THEN vehicle.mode = Offboard /\ (vehicle.armed \/ inFlight \/ armPending)
    ELSE (vehicle.armed /\ vehicle.mode = Offboard) \/ inFlight \/ armPending

\* The decision as the handler makes it, service_pending read here and not at
\* the start of the tick.
MustLand(stateFresh) ==
    /\ ~(stateFresh /\ observed.mode = AutoLandMode)
    /\ AutoLandRequired(stateFresh, observed, fsm.current_state # "MANUAL",
                        arm_result = "Accepted" \/ service_pending["Arm"])

\* Mutant: the forced landing gives up with its retries.
M_ForcedLanding_GivesUp ==
    LET s == [Enter(Cleared, "LAND") EXCEPT !.failsafe = TRUE]
    IN IF fsm.current_state # "LAND" THEN [s EXCEPT !.land_gate = ResetGate] ELSE s

\* Entering LAND resets the gate, and so does an exhausted gate: this landing
\* is requested until it happens.
ForcedLanding ==
    LET s == [Enter(Cleared, "LAND") EXCEPT !.failsafe = TRUE]
    IN IF fsm.current_state # "LAND" \/ Exhausted(s.land_gate, LandRetries)
       THEN [s EXCEPT !.land_gate = ResetGate]
       ELSE s

Released == [Enter(Cleared, "MANUAL") EXCEPT !.failsafe = FALSE]

-----------------------------------------------------------------------------
(* The parts of fsm_timer before its switch, in the order they run.        *)

FollowMode(s) ==
    LET left == s.previous_mode = Offboard /\ observed.mode # Offboard
        handedOver == s.current_state = "LAND" /\ observed.mode = AutoLandMode
        t == IF ~left THEN s
             ELSE IF handedOver THEN StopMission(s)
             ELSE Enter(StopMission(s), "MANUAL")
    IN [t EXCEPT !.previous_mode = observed.mode]

\* Mutant: the takeoff is not interrupted.
M_NavigationFailsafe_Climbs(s, healthy) ==
    LET watched == NavMonitor /\ observed.armed /\ s.current_state \notin {"MANUAL", "LAND"}
        aborted == InvalidateCmd(StopMission(s))
    IN IF ~watched \/ healthy THEN [s EXCEPT !.unhealthy = "zero"]
       ELSE IF s.unhealthy = "zero" THEN [s EXCEPT !.unhealthy = "Grace"]
       ELSE IF s.unhealthy = "Grace" \/ s.current_state = "TAKEOFF" THEN s
       ELSE IF s.current_state = "MISSION" THEN Enter(aborted, "HOVER")
       ELSE IF s.unhealthy = "Hover" THEN s
       ELSE [Enter(aborted, "LAND") EXCEPT !.land_gate = ResetGate]

\* update_navigation_failsafe; the stage stored in "unhealthy" is that of
\* classify_navigation_failsafe for the time since the first bad tick.
NavigationFailsafe(s, healthy) ==
    LET watched == NavMonitor /\ observed.armed /\ s.current_state \notin {"MANUAL", "LAND"}
        aborted == InvalidateCmd(StopMission(s))
        hovering == IF s.current_state = "HOVER" THEN s ELSE Enter(aborted, "HOVER")
    IN IF ~watched \/ healthy THEN [s EXCEPT !.unhealthy = "zero"]
       ELSE IF s.unhealthy = "zero" THEN [s EXCEPT !.unhealthy = "Grace"]
       ELSE IF s.unhealthy = "Grace" THEN s
       ELSE IF s.unhealthy = "Hover" THEN hovering
       ELSE [Enter(aborted, "LAND") EXCEPT !.land_gate = ResetGate]

\* The landing trigger is consumed by the tick that sees it, accepted or not.
LandTrigger(s, still) ==
    LET accepted == /\ s.current_state \in {"HOVER", "MISSION"}
                    /\ observed.mode = Offboard
                    /\ observed.armed
                    /\ still
        t == IF accepted
             THEN [Enter(InvalidateCmd(StopMission(s)), "LAND") EXCEPT !.land_gate = ResetGate]
             ELSE s
    IN IF s.land_trigger THEN [t EXCEPT !.land_trigger = FALSE] ELSE s

\* What the switch of a tick with all inputs fresh works on.
Prepared(healthy, still) ==
    LandTrigger(NavigationFailsafe(FollowMode(fsm), healthy), still)

-----------------------------------------------------------------------------
(* The timer callback.                                                     *)

\* take_service_result(Arm): first of the tick's critical sections.  A tick
\* starts with nothing published.
TakeArmResult ==
    /\ step = "idle"
    /\ step' = "armTaken"
    /\ fsm' = [fsm EXCEPT !.setpoint = "none", !.published = <<>>]
    /\ IF ResultReady("Arm")
       THEN /\ arm_result' = service_completions[OldestResult("Arm")].result
            /\ TakeResult("Arm")
       ELSE UNCHANGED <<arm_result, serviceVars>>
    /\ UNCHANGED <<land_result, observed, px4>>

GateAfter(gate, result) == IF result = NoKind THEN gate ELSE UpdateGate(gate, result)

\* take_service_result(AutoLand), then both gates learn the results.
TakeLandResult ==
    /\ step = "armTaken"
    /\ step' = "landTaken"
    /\ IF ResultReady("AutoLand")
       THEN /\ land_result' = service_completions[OldestResult("AutoLand")].result
            /\ TakeResult("AutoLand")
       ELSE UNCHANGED <<land_result, serviceVars>>
    /\ fsm' = [fsm EXCEPT !.arm_gate = GateAfter(@, arm_result),
                          !.land_gate = GateAfter(@, land_result')]
    /\ UNCHANGED <<arm_result, observed, px4>>

EndTick(s, setpoint) ==
    /\ step = "landTaken"
    /\ step' = "idle"
    /\ arm_result' = NoKind
    /\ land_result' = NoKind
    /\ fsm' = [s EXCEPT !.setpoint = setpoint]
    /\ UNCHANGED <<observed, px4>>

EndQuietly(s, setpoint) == EndTick(s, setpoint) /\ UNCHANGED serviceVars

EndRequesting(s, setpoint, kind) == EndTick(s, setpoint) /\ EnqueueRequest(kind)

\* A critical input is stale, or was and no landing has been confirmed since.
CriticalTick(lost) == step = "landTaken" /\ (lost # {} \/ fsm.failsafe)

TickReleases ==
    \E lost \in Losses :
        /\ CriticalTick(lost)
        /\ ~MustLand("state" \notin lost)
        /\ EndQuietly(Released, "none")

MayRequest(gate, max, kind) == ~service_pending[kind] /\ ShouldAttempt(gate, max)

ForceLanding(lost) ==
    /\ CriticalTick(lost)
    /\ MustLand("state" \notin lost)
    /\ IF MayRequest(ForcedLanding.land_gate, LandRetries, "AutoLand")
       THEN EndRequesting(ForcedLanding, "none", "AutoLand")
       ELSE EndQuietly(ForcedLanding, "none")

TickForcesLanding == \E lost \in Losses : ForceLanding(lost)

-----------------------------------------------------------------------------
(* The switch, one operator per case; s is Prepared.                       *)

InOffboard == observed.mode = Offboard

\* MANUAL: a takeoff waits for its ARM request, whose result arrives in a later
\* tick.  ext is the extended state: stale, landed, or not landed.
ManualCase(s, ext) ==
    LET given == [s EXCEPT !.takeoff_trigger = FALSE]
        ready == arm_result # NoKind
        asking == InOffboard /\ s.takeoff_trigger /\ ~ready /\ ~service_pending["Arm"]
    IN \/ /\ ~InOffboard
          /\ EndQuietly(s, "odom")
       \/ /\ InOffboard /\ s.takeoff_trigger /\ arm_result = "Accepted"
          /\ EndQuietly([Enter(Deactivate(given), "TAKEOFF") EXCEPT
                            !.cmd.stamp = "zero", !.takeoff_timer = "speedup"], "odom")
       \/ /\ InOffboard /\ s.takeoff_trigger /\ ready /\ arm_result # "Accepted"
          /\ EndQuietly(IF Exhausted(s.arm_gate, ArmRetries)
                        THEN [given EXCEPT !.arm_gate = ResetGate]
                        ELSE s, "odom")
       \/ /\ InOffboard /\ s.takeoff_trigger /\ ~ready /\ service_pending["Arm"]
          /\ EndQuietly(s, "odom")
       \/ /\ asking /\ ext = "stale"
          /\ EndQuietly(s, "odom")
       \/ /\ asking /\ (ext = "airborne" \/ (ext = "landed" /\ observed.armed))
          /\ EndQuietly(given, "odom")
       \/ /\ asking /\ ext = "landed" /\ ~observed.armed
          /\ IF MayRequest(s.arm_gate, ArmRetries, "Arm")
             THEN EndRequesting(s, "odom", "Arm")
             ELSE EndQuietly(s, "odom")
       \/ /\ InOffboard /\ ~s.takeoff_trigger
          /\ EndQuietly(IF observed.armed THEN Enter(Deactivate(s), "HOVER") ELSE s, "odom")

\* The exits to MANUAL that TAKEOFF, HOVER and MISSION share.  FollowMode has
\* already left these states when the mode changed; the code checks twice.
Abandoned(s) == Enter(StopMission(s), "MANUAL")

TakeoffCase(s, reached) ==
    IF ~InOffboard \/ (~observed.armed /\ s.takeoff_timer # "speedup")
    THEN EndQuietly(Abandoned(s), "odom")
    ELSE \/ /\ s.takeoff_timer = "timeout"
            /\ EndQuietly(Enter(StopMission(s), "HOVER"), "odom")
         \/ /\ s.takeoff_timer = "speedup"
            /\ EndQuietly(s, "speedup")
         \/ /\ s.takeoff_timer = "climb" /\ reached
            /\ EndQuietly([Enter(s, "HOVER") EXCEPT !.delay = "waiting"], "odom")
         \/ /\ s.takeoff_timer = "climb" /\ ~reached
            /\ EndQuietly(s, "climb")

\* A command without a fresh trigger of the user ends the handshake: the
\* planner is told to stop and the command is forgotten.
HoverCase(s, healthy) ==
    LET command == CmdIsReceived(s) /\ observed.armed
        refused == CancelHandshake(InvalidateCmd(CancelPending(s)))
        \* activatePending drops a trigger that has expired, and keeps none.
        ignored == CancelHandshake(InvalidateCmd(
                       IF s.pending = "expired" THEN CancelPending(s) ELSE s))
    IN IF ~InOffboard \/ (~command /\ ~observed.armed)
       THEN EndQuietly(Abandoned(s), "odom")
       ELSE \/ /\ command /\ ~healthy
               /\ EndQuietly(refused, "hover")
            \/ /\ command /\ healthy /\ CanActivate(s)
               /\ EndQuietly([Enter(s, "MISSION") EXCEPT
                                 !.active = TRUE, !.pending = "none"], "cmd")
            \/ /\ command /\ healthy /\ ~CanActivate(s)
               /\ EndQuietly(ignored, "hover")
            \/ /\ ~command /\ s.delay = "due"
               /\ EndQuietly(PublishTrigger([s EXCEPT !.delay = "off"]), "hover")
            \/ /\ ~command /\ s.delay # "due"
               /\ EndQuietly(s, "hover")

\* Mutant: a stale command only changes the state.
M_MissionCase_StaysActive(s) ==
    \/ /\ ~InOffboard
       /\ EndQuietly(Abandoned(s), "odom")
    \/ /\ InOffboard /\ ~observed.armed
       /\ EndQuietly(InvalidateCmd(Abandoned(s)), "odom")
    \/ /\ InOffboard /\ observed.armed /\ ~CmdIsReceived(s)
       /\ EndQuietly(Enter(s, "HOVER"), "hover")
    \/ /\ InOffboard /\ observed.armed /\ CmdIsReceived(s)
       /\ EndQuietly(s, "cmd")

MissionCase(s) ==
    \/ /\ ~InOffboard
       /\ EndQuietly(Abandoned(s), "odom")
    \/ /\ InOffboard /\ ~observed.armed
       /\ EndQuietly(InvalidateCmd(Abandoned(s)), "odom")
    \/ /\ InOffboard /\ observed.armed /\ ~CmdIsReceived(s)
       /\ EndQuietly(Enter(Deactivate(s), "HOVER"), "hover")
    \/ /\ InOffboard /\ observed.armed /\ CmdIsReceived(s)
       /\ EndQuietly(s, "cmd")

\* Mutant: LAND gives up with its retries.
M_LandCase_GivesUp(s) ==
    \/ /\ ~InOffboard
       /\ EndQuietly(Enter(s, "MANUAL"), "hover")
    \/ /\ InOffboard /\ land_result # NoKind
       /\ EndQuietly(s, "hover")
    \/ /\ InOffboard /\ land_result = NoKind
       /\ IF MayRequest(s.land_gate, LandRetries, "AutoLand")
          THEN EndRequesting(s, "hover", "AutoLand")
          ELSE EndQuietly(s, "hover")

\* LAND holds the position until PX4 confirms AUTO.LAND; an accepted request is
\* no confirmation, and exhausted retries start over.
LandCase(s) ==
    LET exhausted == land_result # "Accepted" /\ Exhausted(s.land_gate, LandRetries)
    IN \/ /\ ~InOffboard
          /\ EndQuietly(Enter(s, "MANUAL"), "hover")
       \/ /\ InOffboard /\ land_result # NoKind
          /\ EndQuietly(IF exhausted THEN [s EXCEPT !.land_gate = ResetGate] ELSE s, "hover")
       \/ /\ InOffboard /\ land_result = NoKind
          /\ IF MayRequest(s.land_gate, LandRetries, "AutoLand")
             THEN EndRequesting(s, "hover", "AutoLand")
             ELSE EndQuietly(s, "hover")

\* What a tick reads besides the fields above.
Healths == IF NavMonitor THEN BOOLEAN ELSE {TRUE}

ExtendedStates == {"stale", "landed", "airborne"}

\* Mutant: control resumes as soon as the inputs are back.
M_NormalTick_Resumes == step = "landTaken" /\ {} \in Losses

NormalTick == step = "landTaken" /\ {} \in Losses /\ ~fsm.failsafe

TickManual ==
    /\ NormalTick
    /\ \E healthy \in Healths, still \in BOOLEAN, ext \in ExtendedStates :
         LET s == Prepared(healthy, still)
         IN s.current_state = "MANUAL" /\ ManualCase(s, ext)

TickTakeoff ==
    /\ NormalTick
    /\ \E healthy \in Healths, still \in BOOLEAN, reached \in BOOLEAN :
         LET s == Prepared(healthy, still)
         IN s.current_state = "TAKEOFF" /\ TakeoffCase(s, reached)

TickHover ==
    /\ NormalTick
    /\ \E healthy \in Healths, still \in BOOLEAN :
         LET s == Prepared(healthy, still)
         IN s.current_state = "HOVER" /\ HoverCase(s, healthy)

TickMission ==
    /\ NormalTick
    /\ \E healthy \in Healths, still \in BOOLEAN :
         LET s == Prepared(healthy, still)
         IN s.current_state = "MISSION" /\ MissionCase(s)

TickLand ==
    /\ NormalTick
    /\ \E healthy \in Healths, still \in BOOLEAN :
         LET s == Prepared(healthy, still)
         IN s.current_state = "LAND" /\ LandCase(s)

Tick == TickReleases \/ TickForcesLanding \/ TickManual \/ TickTakeoff
          \/ TickHover \/ TickMission \/ TickLand

-----------------------------------------------------------------------------
(* Callbacks, on the thread of the timer.                                  *)

Callback(stimulus, s) ==
    /\ step = "idle"
    /\ stimulus \in Stimuli
    /\ fsm' = s
    /\ UNCHANGED <<step, arm_result, land_result, observed, px4, serviceVars>>

\* takeoff_trigger_callback, in any state of the machine.
TakeoffCallback == Callback("takeoff", [fsm EXCEPT !.takeoff_trigger = TRUE])

LandCallback == Callback("land", [fsm EXCEPT !.land_trigger = TRUE])

\* Mission_Trigger_t::feed
MissionTriggerFeed == Callback("mission", [fsm EXCEPT !.pending = "fresh"])

\* Command_Data_t::feed: any id, and 0 for a command that is not READY.
CommandFeed(id) ==
    Callback("command", [fsm EXCEPT !.cmd = [stamp |-> "fresh", id |-> id]])

StateFeed ==
    /\ step = "idle"
    /\ observed' = px4
    /\ UNCHANGED <<fsm, step, arm_result, land_result, px4, serviceVars>>

-----------------------------------------------------------------------------
(* Time: a timer of the code passes its next threshold between two ticks.  *)

Pass(s) ==
    /\ step = "idle"
    /\ fsm' = s
    /\ UNCHANGED <<step, arm_result, land_result, observed, px4, serviceVars>>

\* msg_timeout.cmd without a new PositionCommand
CommandStale == fsm.cmd.stamp = "fresh" /\ Pass([fsm EXCEPT !.cmd.stamp = "stale"])

\* mission_trigger_timeout_ since the user's trigger
TriggerExpires == fsm.pending = "fresh" /\ Pass([fsm EXCEPT !.pending = "expired"])

\* min_interval of a gate since its last result
ArmIntervalOver ==
    fsm.arm_gate.last = "recent" /\ Pass([fsm EXCEPT !.arm_gate = AgeGate(@)])

LandIntervalOver ==
    fsm.land_gate.last = "recent" /\ Pass([fsm EXCEPT !.land_gate = AgeGate(@)])

\* DELAY_TRIGGER_TIME since the target height was reached
DelayOver == fsm.delay = "waiting" /\ Pass([fsm EXCEPT !.delay = "due"])

\* MOTORS_SPEEDUP_TIME, then the timeout, since toggle_takeoff_time; the timer
\* is read in TAKEOFF only.
TakeoffTimer ==
    /\ fsm.current_state = "TAKEOFF"
    /\ fsm.takeoff_timer # "timeout"
    /\ Pass([fsm EXCEPT !.takeoff_timer = IF @ = "speedup" THEN "climb" ELSE "timeout"])

\* navigation_failure_grace_, then navigation_auto_land_timeout_
UnhealthyLonger ==
    /\ fsm.unhealthy \in {"Grace", "Hover"}
    /\ Pass([fsm EXCEPT !.unhealthy = IF @ = "Grace" THEN "Hover" ELSE "AutoLand"])

-----------------------------------------------------------------------------
(* PX4 and the pilot, at any moment.                                       *)

Px4Changes(vehicle) ==
    /\ px4' = vehicle
    /\ UNCHANGED <<fsm, step, arm_result, land_result, observed, serviceVars>>

PilotMode(mode) ==
    /\ "pilot" \in Stimuli
    /\ mode # px4.mode
    /\ Px4Changes([px4 EXCEPT !.mode = mode])

\* After landing, or by the pilot's switch.
Px4Disarms ==
    /\ "disarm" \in Stimuli
    /\ px4.armed
    /\ Px4Changes([px4 EXCEPT !.armed = FALSE])

\* What an arming call that ended so may have done to the vehicle: a failed
\* transport says nothing about it, and "in progress" (retryable) not enough.
ArmedAfter(result) ==
    CASE result = "Accepted" -> {TRUE}
      [] result = "Rejected" -> {px4.armed}
      [] OTHER -> {px4.armed, TRUE}

\* mode_sent says that the request went out, not that PX4 changed mode.
ModeAfter(result) ==
    IF result \in {"Accepted", "TransportError"} THEN {px4.mode, AutoLandMode}
    ELSE {px4.mode}

ArmCallReturns(result) ==
    /\ worker.kind = "Arm"
    /\ CallReturns(result)
    /\ px4' \in [mode : {px4.mode}, armed : ArmedAfter(result)]
    /\ UNCHANGED <<fsm, step, arm_result, land_result, observed>>

LandCallReturns(result) ==
    /\ worker.kind = "AutoLand"
    /\ CallReturns(result)
    /\ px4' \in [mode : ModeAfter(result), armed : {px4.armed}]
    /\ UNCHANGED <<fsm, step, arm_result, land_result, observed>>

WorkerStep ==
    /\ WorkerSleep \/ WorkerTake \/ WorkerReport
    /\ UNCHANGED <<fsm, step, arm_result, land_result, observed, px4>>

-----------------------------------------------------------------------------
Next ==
    \/ TakeArmResult
    \/ TakeLandResult
    \/ TickReleases
    \/ TickForcesLanding
    \/ TickManual
    \/ TickTakeoff
    \/ TickHover
    \/ TickMission
    \/ TickLand
    \/ TakeoffCallback
    \/ LandCallback
    \/ MissionTriggerFeed
    \/ \E id \in Ids : CommandFeed(id)
    \/ StateFeed
    \/ CommandStale
    \/ TriggerExpires
    \/ ArmIntervalOver
    \/ LandIntervalOver
    \/ DelayOver
    \/ TakeoffTimer
    \/ UnhealthyLonger
    \/ \E mode \in Modes : PilotMode(mode)
    \/ Px4Disarms
    \/ \E r \in Results : ArmCallReturns(r)
    \/ \E r \in Results : LandCallReturns(r)
    \/ WorkerStep

Spec == Init /\ [][Next]_vars
=============================================================================
