----------------------------- MODULE Estimators -----------------------------
(***************************************************************************)
(* The disturbance estimators of the attitude controller                   *)
(* (Attitude_Angular_Control), one in the position loop and, with the      *)
(* controller of body rates, one in the attitude loop, under the missions  *)
(* that the flight state machine starts and ends (Mission_Trigger_t).      *)
(*                                                                         *)
(* What the numbers are is left out; where they come from is kept.  Every  *)
(* tick of the controller has a tag: its flight, its mission and the run   *)
(* of regular ticks it belongs to.  An integral is the set of the tags of  *)
(* the ticks summed up in it, a reference the tag of the tick it was       *)
(* taken in.  The questions are which errors an output rests on after      *)
(* missions that follow each other, after flights, and after gaps.         *)
(***************************************************************************)
EXTENDS Naturals

CONSTANTS
    MaxFlights,     \* flights, and missions, and gaps between ticks
    MaxMissions,
    MaxGaps,
    MaxSequence     \* triggers of the user (2^64 - 1 in the code)

ASSUME BoundsAssumption ==
    /\ MaxFlights \in Nat
    /\ MaxMissions \in Nat
    /\ MaxGaps \in Nat
    /\ MaxSequence \in Nat

VARIABLES
    est,            \* param_.estimator_type
    dual,           \* controller_type 3, with an attitude loop, rather than 2
    phase,          \* idle: MANUAL; flight: TAKEOFF, HOVER, LAND; mission
    trigger,        \* mission_trigger_data
    pos,            \* the estimator of the position loop
    att,            \* the estimator of the attitude loop
    last_sequence,  \* last_mission_sequence_
    last_err,       \* the tick of last_eul_err
    rate,           \* the tick the derivative of the last output refers to
    since,          \* the interval to the tick before, if the last step is a tick
    flights, missions, runs     \* how many there have been

loopVars == <<pos, att, last_sequence, last_err, rate>>
vars == <<est, dual, phase, trigger, loopVars, since, flights, missions, runs>>

\* UDE, TVUDE and TTVUDE observe the disturbance, PID sums up the error, PD
\* does neither.
Observers == {"UDE", "TVUDE", "TTVUDE"}
EstimatorTypes == Observers \cup {"PD", "PID"}

Tags == [flight : 0 .. MaxFlights, mission : 0 .. MaxMissions, run : 0 .. MaxGaps]
NoTag == [flight |-> 0, mission |-> 0, run |-> 0]

Triggers == [sequence : 0 .. MaxSequence, pending : 0 .. MaxSequence,
             active : BOOLEAN, received : {"zero", "fresh", "old"}]

Loops == [first : BOOLEAN,       \* is_first_in_control
          first_pub : BOOLEAN,   \* is_first_in_pubtrigger
          ref : Tags,            \* init_taj_state, init_att_euler_
          sum : SUBSET Tags,     \* u0_integral_pos, pos_err_integral_
          used : SUBSET Tags,    \* what the last output has of it
          base : Tags]           \* and the reference it was taken against

Init ==
    /\ est \in EstimatorTypes
    /\ dual \in BOOLEAN
    /\ phase = "idle"
    /\ trigger = [sequence |-> 0, pending |-> 0, active |-> FALSE, received |-> "zero"]
    /\ pos = [first |-> TRUE, first_pub |-> TRUE, ref |-> NoTag,
              sum |-> {}, used |-> {}, base |-> NoTag]
    /\ att = pos
    /\ last_sequence = 0
    /\ last_err = NoTag
    /\ rate = NoTag
    /\ since = "none"
    /\ flights = 0
    /\ missions = 0
    /\ runs = 0

(***************************************************************************)
(* Mission_Trigger_t.                                                      *)
(***************************************************************************)

Deactivated(t) == [t EXCEPT !.active = FALSE]
PendingCancelled(t) == [t EXCEPT !.pending = t.sequence, !.received = "zero"]
Ended(t) == PendingCancelled(Deactivated(t))

\* feed: a trigger of the user.
Feed ==
    /\ trigger.pending < MaxSequence
    /\ trigger' = [trigger EXCEPT !.pending = @ + 1, !.received = "fresh"]
    /\ since' = "none"
    /\ UNCHANGED <<est, dual, phase, loopVars, flights, missions, runs>>

TriggerAges ==
    /\ trigger.received = "fresh"
    /\ trigger' = [trigger EXCEPT !.received = "old"]
    /\ since' = "none"
    /\ UNCHANGED <<est, dual, phase, loopVars, flights, missions, runs>>

\* activatePending, where it returns true.
Activates(t) == t.pending \notin {0, t.sequence} /\ t.received = "fresh"
Activated(t) == [t EXCEPT !.sequence = t.pending, !.active = TRUE, !.received = "fresh"]

\* Where it returns false: an expired trigger is cancelled.
Declined(t) ==
    IF t.pending \in {0, t.sequence} THEN t ELSE PendingCancelled(t)

(***************************************************************************)
(* The controller.                                                         *)
(***************************************************************************)

\* handleMissionTrigger: the first tick with another sequence resets all.
NewMission(t) == t.sequence \notin {0, last_sequence}

\* Mutant: the flag of the first tick is forgotten, and with it the sum.
M_Cleared_KeepsSum(l, now) == [l EXCEPT !.first_pub = TRUE, !.ref = now]

Cleared(l, now) ==
    [l EXCEPT !.first = TRUE, !.first_pub = TRUE, !.ref = now, !.sum = {}]

\* What handleMissionTrigger leaves of a loop.
Triggered(l, t, now) == IF NewMission(t) THEN Cleared(l, now) ELSE l

\* What the output has of the sum after this tick.
Outputs(l, sum) == [l EXCEPT !.sum = sum, !.used = sum, !.base = l.ref]
Silent(l) == [l EXCEPT !.used = {}]

\* Mutant: an observer leaves out an irregular tick, as PID does.
M_Estimates_KeepsSum(l, regular, added) ==
    CASE l.first -> Silent([l EXCEPT !.first = FALSE, !.sum = {}])
      [] ~l.first /\ regular -> Outputs(l, l.sum \cup added)
      [] OTHER -> Outputs(l, l.sum)

\* A tick of a loop in which the estimator is at work: nothing in its first
\* tick; then an observer sums up after a regular interval and starts anew
\* after any other, while PID keeps its sum and leaves out the tick.
Estimates(l, regular, added) ==
    CASE l.first -> Silent([l EXCEPT !.first = FALSE, !.sum = {}])
      [] ~l.first /\ regular -> Outputs(l, l.sum \cup added)
      [] ~l.first /\ ~regular /\ est \in Observers -> Silent([l EXCEPT !.sum = {}])
      [] OTHER -> Outputs(l, l.sum)

\* Mutant: PID integrates while hovering with an attitude loop too.
M_PositionLoop_PidAlways(l, t, target, regular, now) ==
    LET begun == IF t.active /\ l.first_pub /\ est # "PD"
                 THEN [l EXCEPT !.ref = now, !.first_pub = FALSE] ELSE l
    IN  IF est # "PD" /\ (t.active \/ est = "PID")
        THEN Estimates(begun, regular, IF target = "odometry" THEN {} ELSE {now})
        ELSE Silent(begun)

\* In the position loop PID is at work outside missions too if there is no
\* attitude loop; a tick whose target is the odometry itself has no error.
PositionLoop(l, t, target, regular, now) ==
    LET begun == IF t.active /\ l.first_pub /\ est # "PD"
                 THEN [l EXCEPT !.ref = now, !.first_pub = FALSE] ELSE l
    IN  IF est # "PD" /\ (t.active \/ (est = "PID" /\ ~dual))
        THEN Estimates(begun, regular, IF target = "odometry" THEN {} ELSE {now})
        ELSE Silent(begun)

\* The attitude loop keeps its reference and its clock up to date until its
\* first tick in a mission is over; PD never ends that.
AttitudeLoop(l, t, regular, now) ==
    LET cached == IF l.first THEN [l EXCEPT !.ref = now] ELSE l
        begun == IF t.active /\ est # "PD" THEN [cached EXCEPT !.first_pub = FALSE] ELSE cached
    IN  IF t.active /\ est # "PD"
        THEN Estimates(begun, regular, {now})
        ELSE Silent(begun)

\* Mutant: the first tick is not looked at.
M_Derivative_FirstToo(l, regular) == IF regular THEN last_err ELSE NoTag

\* The derivative of the attitude error, from this tick and the last one.
Derivative(l, regular) == IF ~l.first /\ regular THEN last_err ELSE NoTag

\* calculateControl and calculateControlCMD, for the trigger t.
Control(t, target, interval) ==
    LET regular == interval = "regular"
        now == [flight |-> flights', mission |-> IF t.active THEN missions' ELSE 0,
                run |-> runs']
        p == Triggered(pos, t, now)
        a == Triggered(att, t, now)
    IN  /\ since' = interval
        /\ last_sequence' = IF NewMission(t) THEN t.sequence ELSE last_sequence
        /\ pos' = PositionLoop(p, t, target, regular, now)
        /\ att' = IF dual THEN AttitudeLoop(a, t, regular, now) ELSE a
        /\ rate' = IF dual THEN Derivative(a, regular) ELSE NoTag
        /\ last_err' = IF dual THEN now ELSE last_err

(***************************************************************************)
(* Ticks of the state machine.                                             *)
(***************************************************************************)

\* What the desired state of a tick is: the odometry, as in MANUAL, or not.
Targets == {"odometry", "setpoint"}

\* getSafeControlDt refuses the interval to the tick before when there was
\* none, when it is too long and when time went back.
Ticks(t, ph, target) ==
    /\ trigger' = t
    /\ phase' = ph
    /\ \E interval \in {"regular", "irregular"} :
        /\ interval = "regular" => runs > 0
        /\ interval = "irregular" => runs < MaxGaps
        /\ runs' = IF interval = "regular" THEN runs ELSE runs + 1
        /\ Control(t, target, interval)
    /\ UNCHANGED <<est, dual>>

\* In flight the tick that ends a takeoff still has the odometry as its target.
Held == {target \in Targets : /\ phase = "idle" => target = "odometry"
                              /\ phase = "mission" => target = "setpoint"}

\* Takeoff, or a vehicle that flies already.
Departs ==
    /\ phase = "idle"
    /\ flights < MaxFlights
    /\ flights' = flights + 1
    /\ missions' = missions
    /\ Ticks(Deactivated(trigger), "flight", "odometry")

StartsMission ==
    /\ phase = "flight"
    /\ Activates(trigger)
    /\ missions < MaxMissions
    /\ missions' = missions + 1
    /\ flights' = flights
    /\ Ticks(Activated(trigger), "mission", "setpoint")

\* A command without a fresh trigger.
Declines ==
    /\ phase = "flight"
    /\ ~Activates(trigger)
    /\ UNCHANGED <<flights, missions>>
    /\ Ticks(Declined(trigger), "flight", "setpoint")

\* Bad navigation, the end of a takeoff, or leaving OFFBOARD in MANUAL.
DropsTrigger ==
    /\ phase # "mission"
    /\ UNCHANGED <<flights, missions>>
    /\ \E target \in Held : Ticks(Ended(trigger), phase, target)

Continues ==
    /\ UNCHANGED <<flights, missions>>
    /\ \E target \in Held : Ticks(trigger, phase, target)

\* Commands stop: the pending trigger stays.
Pauses ==
    /\ phase = "mission"
    /\ UNCHANGED <<flights, missions>>
    /\ Ticks(Deactivated(trigger), "flight", "setpoint")

\* Landing, or the navigation failsafe.
Aborts ==
    /\ phase = "mission"
    /\ UNCHANGED <<flights, missions>>
    /\ Ticks(Ended(trigger), "flight", "setpoint")

\* Another mode or disarmed, at once, or from LAND with the hover point still
\* the target.
Leaves ==
    /\ phase # "idle"
    /\ UNCHANGED <<flights, missions>>
    /\ \E target \in Targets : Ticks(Ended(trigger), "idle", target)

\* LAND with a mode other than OFFBOARD leaves the trigger as it is.
Lands ==
    /\ phase = "flight"
    /\ UNCHANGED <<flights, missions>>
    /\ Ticks(trigger, "idle", "setpoint")

\* A tick with a critical input lost returns before the controllers.
LosesInput ==
    /\ trigger' = Ended(trigger)
    /\ phase' \in IF phase = "idle" THEN {"idle"} ELSE {"idle", "flight"}
    /\ since' = "none"
    /\ UNCHANGED <<est, dual, loopVars, flights, missions, runs>>

Next ==
    \/ Feed \/ TriggerAges
    \/ Departs \/ StartsMission \/ Declines \/ DropsTrigger \/ Continues
    \/ Pauses \/ Aborts \/ Leaves \/ Lands \/ LosesInput

Spec == Init /\ [][Next]_vars

(***************************************************************************)
(* Properties.                                                             *)
(***************************************************************************)

TypeOK ==
    /\ est \in EstimatorTypes
    /\ dual \in BOOLEAN
    /\ phase \in {"idle", "flight", "mission"}
    /\ trigger \in Triggers
    /\ pos \in Loops
    /\ att \in Loops
    /\ last_sequence \in 0 .. MaxSequence
    /\ last_err \in Tags
    /\ rate \in Tags
    /\ since \in {"none", "regular", "irregular"}
    /\ flights \in 0 .. MaxFlights
    /\ missions \in 0 .. MaxMissions
    /\ runs \in 0 .. MaxGaps

\* During a mission every error summed up in an output, and the state that it
\* is compared with, is of that mission, not of the hover before it or of an
\* earlier mission, whatever triggers were cancelled, expired or given twice in
\* between (handleMissionTrigger tells missions apart by their sequence alone).
EstimatesOfThisMission ==
    trigger.active /\ since # "none" =>
        \A l \in {pos, att} :
            l.used # {} => \A tag \in l.used \cup {l.base} : tag.mission = missions

\* An observer integrates over one run of regular ticks only: no interval that
\* getSafeControlDt refused lies inside a sum that an output has.
NoSumOverGap ==
    est \in Observers /\ since # "none" =>
        \A l \in {pos, att} : \A tag \in l.used : tag.run = runs

\* Errors of an earlier flight are felt in one case only: PID without attitude
\* loop, which integrates while hovering and resets at a mission, not at a
\* takeoff.
FlightsDoNotMix ==
    since # "none" =>
        \A l \in {pos, att} : \A tag \in l.used :
            tag.flight # flights => est = "PID" /\ ~dual /\ ~trigger.active

\* The derivative never spans a gap, nor the start of a mission.
DampingFromLastTick ==
    rate # NoTag /\ since # "none" =>
        /\ rate.run = runs
        /\ trigger.active => rate.mission = missions

\* From the first mission on every regular tick but a mission's first one is
\* damped by the derivative of the attitude error; before it none is, and with
\* PD none ever is, because the loop stays in its first tick.
DampedAfterMission ==
    [][dual /\ since' = "regular" /\ missions' = missions =>
        (rate' # NoTag <=> missions > 0 /\ est # "PD")]_vars
=============================================================================
