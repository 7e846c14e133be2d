-------------------------- MODULE FlightProperties --------------------------
(***************************************************************************)
(* What makes the flight state machine correct: properties of FlightFsm.   *)
(***************************************************************************)
EXTENDS FlightFsm

\* A step that ends a tick.
TickEnds == step = "landTaken" /\ step' = "idle"

InFlight == {"TAKEOFF", "HOVER", "MISSION"}

\* Type invariant.
FsmTypeOK ==
    /\ fsm \in Fsms
    /\ step \in TickSteps
    /\ arm_result \in Results \cup {NoKind}
    /\ land_result \in Results \cup {NoKind}
    /\ observed \in Vehicles
    /\ px4 \in Vehicles
    /\ WorkerTypeOK

-----------------------------------------------------------------------------
(* Invariants.                                                             *)

\* The mission is active exactly in MISSION, over every way out of that state
\* (mode change, disarm, stale command, landing, both failsafes): the
\* controller's estimators are driven by mission_trigger_data.active, not by
\* the state.
MissionExact == fsm.active <=> fsm.current_state = "MISSION"

\* The planner's handshake id is expected only while hovering or flying the
\* mission, so a command that arrives in any other state can match nothing.
HandshakeInFlight == fsm.expected_id # 0 => fsm.current_state \in {"HOVER", "MISSION"}

\* A tick whose last word to the planner is "cancel" leaves no mission behind.
CancelEndsMission ==
    fsm.published # <<>> /\ fsm.published[Len(fsm.published)] = Cancel
        => fsm.expected_id = 0 /\ fsm.current_state # "MISSION"

\* The latched failsafe is a silent landing: LAND, no setpoint, no mission, no
\* handshake, until it is released.
FailsafeSilent ==
    fsm.failsafe =>
        /\ fsm.current_state = "LAND"
        /\ fsm.setpoint = "none"
        /\ ~fsm.active
        /\ fsm.expected_id = 0

\* TAKEOFF, HOVER and MISSION, and a LAND that the failsafe did not force, are
\* entered and kept in OFFBOARD only.  Hence FollowMode notices every exit.
FlightInOffboard ==
    \/ fsm.current_state \in InFlight
    \/ fsm.current_state = "LAND" /\ ~fsm.failsafe
    => fsm.previous_mode = Offboard

\* Landing is mandatory: between two ticks the gate of AUTO.LAND is never
\* closed in LAND (an exhausted gate would end the requests for good).
LandGateOpen ==
    step = "idle" /\ fsm.current_state = "LAND" => ~Exhausted(fsm.land_gate, LandRetries)

Untaken(kind) ==
    {i \in 1 .. Len(service_completions) : service_completions[i].kind = kind}

\* A result can be reported between take_service_result and the test of
\* service_pending in the same tick, so a second request may be queued while
\* the first result waits; but never a third.
ResultBacklogBounded ==
    \A k \in Kinds :
        Cardinality(Untaken(k)) + (IF service_pending[k] THEN 1 ELSE 0) <= 2

-----------------------------------------------------------------------------
(* Action properties.                                                      *)

\* This step keeps a forced landing on the evidence of a stale state message.
ForcedBlindly == \E lost \in Losses : "state" \in lost /\ ForceLanding(lost)

\* A tick that sees PX4 outside OFFBOARD gives the vehicle back, whatever the
\* machine was doing; only stale state feedback may force a landing there.
HandsOver ==
    [][TickEnds /\ observed.mode # Offboard =>
          fsm'.current_state = "MANUAL" \/ ForcedBlindly]_vars

\* While an ARM call is queued, executing or returned but not reported, losing
\* an input in OFFBOARD never makes a tick stand down: the vehicle may become
\* armed with no setpoint, so AUTO.LAND goes behind the call.
PendingArmForcesLanding ==
    [][TickEnds /\ fsm'.setpoint = "none" /\ observed.mode = Offboard
         /\ (Waiting("Arm") \/ worker.kind = "Arm") => fsm'.current_state = "LAND"]_vars

\* LAND is left only to MANUAL and only after PX4 was seen outside OFFBOARD: no
\* trigger, command, recovered input or service result resumes the flight.
LandingIsFinal ==
    [][fsm.current_state = "LAND" /\ fsm'.current_state # "LAND" =>
          fsm'.current_state = "MANUAL" /\ observed.mode # Offboard]_vars

\* Whatever ends a flight leaves no trigger that could start a mission in the
\* next one, and no handshake.
FlightEndDropsMission ==
    [][fsm.current_state # "MANUAL" /\ fsm'.current_state = "MANUAL" =>
          fsm'.pending = "none" /\ ~fsm'.active /\ fsm'.expected_id = 0]_vars

\* Once navigation has been bad for longer than the grace time, a tick that
\* still finds it bad flies neither the takeoff nor the mission, and after the
\* second timeout it is landing.  (A tick without a setpoint has lost an input
\* and does not look at navigation: see FailsafeSilent and HandsOver.)
BadNavigationStops ==
    [][TickEnds /\ fsm'.setpoint # "none"
                /\ fsm.unhealthy \in {"Hover", "AutoLand"}
                /\ fsm'.unhealthy = fsm.unhealthy =>
          /\ fsm'.current_state \notin {"TAKEOFF", "MISSION"}
          /\ fsm'.setpoint # "cmd"
          /\ fsm.unhealthy = "AutoLand" => fsm'.current_state = "LAND"]_vars

\* MISSION is entered from HOVER only, on a trigger that was pending and a
\* command of the current handshake, with every ingredient consumed.
MissionNeedsBoth ==
    [][fsm.current_state # "MISSION" /\ fsm'.current_state = "MISSION" =>
          /\ fsm.current_state = "HOVER" /\ fsm.pending = "fresh"
          /\ fsm.cmd.id = fsm.expected_id /\ fsm.expected_id # 0
          /\ fsm'.pending = "none"]_vars

-----------------------------------------------------------------------------
(* Refinement.                                                             *)

Phase ==
    CASE fsm.current_state = "HOVER" -> "hover"
      [] fsm.current_state = "MISSION" -> "mission"
      [] OTHER -> "away"

Promise == INSTANCE MissionPromise WITH
    machine <- [phase |-> Phase, expected_id |-> fsm.expected_id,
                generation |-> fsm.generation, pending |-> fsm.pending, cmd |-> fsm.cmd],
    sent <- fsm.published

\* The state machine keeps its promise to the planner: with every takeoff,
\* landing, failsafe and mode change abstracted away, its handshakes, cancels
\* and missions are those of MissionPromise.
KeepsMissionPromise == Promise!PromiseSpec

-----------------------------------------------------------------------------
(* Liveness.                                                               *)

TimerThread ==
    WF_vars(TakeArmResult) /\ WF_vars(TakeLandResult) /\ WF_vars(Tick)

\* PX4 changes mode on a request that is repeated for ever.
LandingGranted ==
    /\ worker.kind = "AutoLand"
    /\ LandCallReturns("Accepted")
    /\ px4'.mode = AutoLandMode

(***************************************************************************)
(* The timer and the worker thread are scheduled, calls return, time       *)
(* passes whatever the machine does (strong: it is observed between two    *)
(* ticks only), and PX4 does not refuse AUTO.LAND for ever.                *)
(***************************************************************************)
Fairness ==
    /\ TimerThread
    /\ WF_vars(WorkerStep)
    /\ WF_vars(\E r \in Results : ArmCallReturns(r) \/ LandCallReturns(r))
    /\ SF_vars(LandIntervalOver)
    /\ SF_vars(LandingGranted)

FairSpec == Spec /\ Fairness

\* "Landing is mandatory": once in LAND, by trigger or by a failsafe, PX4
\* eventually leaves OFFBOARD or has been seen outside it (LandingIsFinal: the
\* only way to MANUAL), through any number of failed requests, exhausted retries
\* and further input losses.
LandingHappens ==
    fsm.current_state = "LAND" ~> px4.mode # Offboard \/ fsm.current_state = "MANUAL"

-----------------------------------------------------------------------------
(* Statements of the comments that the code does not keep.                 *)

\* "It cannot be cancelled safely; queue AUTO.LAND behind it so a late
\* successful ARM is immediately neutralized": a tick that finds an input stale
\* in OFFBOARD does not stand down while a successful ARM is still unreported.
LateArmNeutralized ==
    [][TickEnds /\ fsm'.setpoint = "none" /\ fsm'.current_state = "MANUAL"
         /\ observed.mode = Offboard =>
          ~\E i \in Untaken("Arm") : service_completions[i].result = "Accepted"]_vars

\* "cleared only when the takeoff succeeded or the vehicle is armed, to support
\* a retry after ARM was refused": a tick in OFFBOARD that leaves the takeoff
\* waiting, with no call outstanding and no result to come, can still retry.
TakeoffCanRetry ==
    [][TickEnds /\ observed.mode = Offboard
         /\ fsm'.current_state = "MANUAL" /\ fsm'.takeoff_trigger
         /\ ~service_pending'["Arm"] /\ Untaken("Arm") = {}
       => ~Exhausted(fsm'.arm_gate, ArmRetries)]_vars

\* "Keep requesting AUTO.LAND until PX4 confirms it, disarms, or the pilot leaves
\* OFFBOARD": with fresh state feedback that says disarmed and no ARM call in
\* sight, a forced landing is over.
DisarmEndsForcedLanding ==
    [][TickEnds /\ ~ForcedBlindly /\ fsm.failsafe /\ ~observed.armed
         /\ arm_result = NoKind /\ ~service_pending["Arm"]
       => ~fsm'.failsafe]_vars
=============================================================================
