------------------------------ MODULE SimOdom ------------------------------
(***************************************************************************)
(* The trajectory planner (sim_odom::SimOdom): the handshake that starts a *)
(* trajectory, and the timer that publishes its commands.                  *)
(*                                                                         *)
(* Its callbacks and its timer run on the worker threads of a nodelet      *)
(* manager.  Each callback holds state_mutex_ throughout; the timer holds  *)
(* it while it computes, publishes without it, and takes it again to stop. *)
(* So the timer is three actions and any callback may run between them.    *)
(* The timer does not run concurrently with itself.                        *)
(*                                                                         *)
(* Time is abstracted: Elapse actions age the trigger and the odometry,    *)
(* and a timer tick advances the trajectory by 0 (the clock jumped) or 1.  *)
(***************************************************************************)
EXTENDS Integers

CONSTANTS
    HandshakeIds,   \* ids other than 0 (1 .. 2^32 - 1 in the code)
    Duration,       \* traj_total_time_, in timer ticks
    Places          \* where an origin can be frozen, as far as properties care

ASSUME HandshakeIdsAssumption == HandshakeIds \subseteq Nat \ {0}
ASSUME PlacesAssumption == Places # {}
ASSUME DurationAssumption == Duration \in Nat \ {0}

VARIABLES
    planner,    \* members guarded by state_mutex_, see Planners
    odom,       \* the cached odometry
    timer       \* where timer_callback is, and its locals

plannerVars == <<planner, odom, timer>>

Planners == [
    ready     : BOOLEAN,                        \* ctrl_ready_trigger_
    id        : HandshakeIds \cup {0},          \* controller_trajectory_id_
    trigger   : {"none", "fresh", "expired"},   \* trigger_received_ and its age
    active    : BOOLEAN,                        \* trajectory_active_
    active_id : HandshakeIds \cup {0},          \* active_trajectory_id_
    elapsed   : 0 .. Duration,                  \* trajectory_elapsed_
    origin    : Places ]                        \* traj_origin_

Odoms == [
    received : BOOLEAN,                         \* odom_received_
    age      : {"fresh", "stale"},              \* odom_stamp_
    still    : BOOLEAN ]                        \* |uav_v| within the threshold

(***************************************************************************)
(* "publishing" and "stopping" have left the first critical section with   *)
(* these locals.  yaw is not one: last_yaw_ref_ is read while publishing,  *)
(* and "other" says that another origin has been frozen in the meantime.   *)
(***************************************************************************)
Timers == [
    at     : {"idle", "publishing", "stopping"},
    id     : HandshakeIds \cup {0},             \* trajectory_id_snapshot
    origin : Places,                            \* of current_state
    yaw    : {"own", "other"},
    stop   : BOOLEAN ]                          \* stop_after_publish

IdleTimer ==
    [at |-> "idle", id |-> 0, origin |-> CHOOSE place \in Places : TRUE, yaw |-> "own",
     stop |-> FALSE]

PlannerInit(place) ==
    /\ planner = [ready |-> FALSE, id |-> 0, trigger |-> "none", active |-> FALSE,
                  active_id |-> 0, elapsed |-> 0, origin |-> place]
    /\ odom = [received |-> FALSE, age |-> "stale", still |-> TRUE]
    /\ timer = IdleTimer

-----------------------------------------------------------------------------
(* Parts of the handlers.                                                  *)

\* expirePendingTriggers: first thing every handler of the handshake does.
Expire(p) == IF p.trigger = "expired" THEN [p EXCEPT !.trigger = "none"] ELSE p

OdomFresh == odom.received /\ odom.age = "fresh"

OdomValid == OdomFresh /\ odom.still

\* The trajectory will start at the present position.
Freeze(p, place) == [p EXCEPT !.origin = place, !.elapsed = 0]

\* Freezing overwrites last_yaw_ref_, which a tick being published still reads.
FreezeTimer == IF timer.at = "publishing" THEN [timer EXCEPT !.yaw = "other"] ELSE timer

-----------------------------------------------------------------------------
(* Callbacks.                                                              *)

\* Mutant: a trajectory in flight does not protect its origin.
M_TriggerCallback_WhileActive(place) ==
    LET p == Expire(planner)
    IN /\ planner' = IF OdomValid THEN [Freeze(p, place) EXCEPT !.trigger = "fresh"] ELSE p
       /\ timer' = IF OdomValid THEN FreezeTimer ELSE timer
       /\ UNCHANGED odom

\* es_trigger_callback
TriggerCallback(place) ==
    LET p == Expire(planner)
        accepted == OdomValid /\ ~p.active
    IN /\ planner' = IF accepted THEN [Freeze(p, place) EXCEPT !.trigger = "fresh"] ELSE p
       /\ timer' = IF accepted THEN FreezeTimer ELSE timer
       /\ UNCHANGED odom

\* Mutant: the trajectory in flight is left running.
M_CancelCallback_KeepsFlying ==
    /\ planner' = [planner EXCEPT !.ready = FALSE, !.id = 0, !.trigger = "none"]
    /\ UNCHANGED <<odom, timer>>

\* es_ctrl_ready_tri_callback for "cancel"
CancelCallback ==
    /\ planner' = [planner EXCEPT !.ready = FALSE, !.id = 0, !.trigger = "none",
                                  !.active = FALSE, !.active_id = 0]
    /\ UNCHANGED <<odom, timer>>

\* The same callback for a frame_id without a valid id.
InvalidReadyCallback ==
    /\ planner' = Expire(planner)
    /\ UNCHANGED <<odom, timer>>

\* Mutant: an origin that was frozen on the ground is kept.
M_ReadyCallback_KeepsOrigin(id, place) ==
    LET p == Expire(planner)
    IN /\ planner' = IF p.active THEN p
                     ELSE IF p.trigger = "fresh" /\ ~OdomValid
                     THEN [p EXCEPT !.trigger = "none", !.ready = FALSE]
                     ELSE [p EXCEPT !.id = id, !.ready = TRUE]
       /\ UNCHANGED <<odom, timer>>

\* The same callback for "world:<id>".  A user's trigger that came first is
\* refreshed, or dropped together with the handshake.
ReadyCallback(id, place) ==
    LET p == Expire(planner)
        waiting == p.trigger = "fresh"
        accept(q) == [q EXCEPT !.id = id, !.ready = TRUE]
    IN /\ planner' = IF p.active THEN p
                     ELSE IF ~waiting THEN accept(p)
                     ELSE IF OdomValid THEN accept(Freeze(p, place))
                     ELSE [p EXCEPT !.trigger = "none", !.ready = FALSE]
       /\ timer' = IF ~p.active /\ waiting /\ OdomValid THEN FreezeTimer ELSE timer
       /\ UNCHANGED odom

\* es_uav_odom_callback; an invalid message does not refresh the stamp.
OdomCallback(valid, still) ==
    /\ odom' = [received |-> valid, age |-> IF valid THEN "fresh" ELSE odom.age,
                still |-> still]
    /\ UNCHANGED <<planner, timer>>

-----------------------------------------------------------------------------
(* timer_callback                                                          *)

\* The first critical section returns early.
TimerReturns ==
    /\ timer.at = "idle"
    /\ LET p == Expire(planner)
       IN /\ ~OdomFresh \/ (~p.active /\ (~p.ready \/ p.trigger = "none"))
          /\ planner' = IF odom.received THEN p ELSE planner
    /\ UNCHANGED <<odom, timer>>

Computed(p, stop) ==
    [at |-> "publishing", id |-> p.active_id, origin |-> p.origin, yaw |-> "own", stop |-> stop]

\* Mutant: neither half of the handshake is consumed.
M_TimerStarts_KeepsReady ==
    LET p == Expire(planner)
        q == [p EXCEPT !.active = TRUE, !.active_id = p.id, !.elapsed = 0]
    IN /\ timer.at = "idle" /\ OdomFresh
       /\ ~p.active /\ p.ready /\ p.trigger = "fresh"
       /\ planner' = q
       /\ timer' = Computed(q, FALSE)
       /\ UNCHANGED odom

\* Both halves of the handshake are there: they are consumed, the trajectory
\* starts and its first point is computed.
TimerStarts ==
    LET p == Expire(planner)
        q == [p EXCEPT !.active = TRUE, !.active_id = p.id, !.elapsed = 0,
                       !.ready = FALSE, !.id = 0, !.trigger = "none"]
    IN /\ timer.at = "idle" /\ OdomFresh
       /\ ~p.active /\ p.ready /\ p.trigger = "fresh"
       /\ planner' = q
       /\ timer' = Computed(q, FALSE)
       /\ UNCHANGED odom

\* Mutant: the end is noticed and not acted on.
M_TimerAdvances_NoStop(dt) ==
    LET time == planner.elapsed + dt
        p == [Expire(planner) EXCEPT !.elapsed = IF time > Duration THEN Duration ELSE time]
    IN /\ timer.at = "idle" /\ OdomFresh
       /\ planner.active
       /\ planner' = p
       /\ timer' = Computed(p, FALSE)
       /\ UNCHANGED odom

TimerAdvances(dt) ==
    LET time == planner.elapsed + dt
        p == [Expire(planner) EXCEPT !.elapsed = IF time > Duration THEN Duration ELSE time]
    IN /\ timer.at = "idle" /\ OdomFresh
       /\ planner.active
       /\ planner' = p
       /\ timer' = Computed(p, time >= Duration)
       /\ UNCHANGED odom

\* The PositionCommand that TimerPublishes sends.
Command ==
    [id |-> timer.id, origin |-> timer.origin, yaw |-> timer.yaw]

\* The unlocked part: the command is published.
TimerPublishes ==
    /\ timer.at = "publishing"
    /\ timer' = IF timer.stop THEN [timer EXCEPT !.at = "stopping"] ELSE IdleTimer
    /\ UNCHANGED <<planner, odom>>

\* Mutant: only the id is cleared.
M_TimerStops_StaysActive ==
    /\ timer.at = "stopping"
    /\ planner' = [planner EXCEPT !.active_id = 0]
    /\ timer' = IdleTimer
    /\ UNCHANGED odom

\* The second critical section, after the final point.  A cancel may have come
\* in between, but no start: only this timer starts trajectories.
TimerStops ==
    /\ timer.at = "stopping"
    /\ planner' = [planner EXCEPT !.active = FALSE, !.active_id = 0]
    /\ timer' = IdleTimer
    /\ UNCHANGED odom

TimerComputes == TimerStarts \/ \E dt \in {0, 1} : TimerAdvances(dt)

-----------------------------------------------------------------------------
(* Time.                                                                   *)

\* trigger_handshake_timeout_ since the user's trigger
HandshakeTimeout ==
    /\ planner.trigger = "fresh"
    /\ planner' = [planner EXCEPT !.trigger = "expired"]
    /\ UNCHANGED <<odom, timer>>

\* odom_timeout_ since the last valid odometry
OdomTimeout ==
    /\ odom.age = "fresh"
    /\ odom' = [odom EXCEPT !.age = "stale"]
    /\ UNCHANGED <<planner, timer>>

-----------------------------------------------------------------------------
(* The planner with any user, any controller and any odometry source.      *)

Init == \E place \in Places : PlannerInit(place)

Next ==
    \/ \E place \in Places : TriggerCallback(place)
    \/ CancelCallback
    \/ InvalidReadyCallback
    \/ \E id \in HandshakeIds, place \in Places : ReadyCallback(id, place)
    \/ \E valid, still \in BOOLEAN : OdomCallback(valid, still)
    \/ TimerReturns
    \/ TimerComputes
    \/ TimerPublishes
    \/ TimerStops
    \/ HandshakeTimeout
    \/ OdomTimeout

Spec == Init /\ [][Next]_plannerVars

(***************************************************************************)
(* The timer is scheduled, odometry arrives again and again, and the clock *)
(* does not jump in every tick that finds it fresh.                        *)
(***************************************************************************)
Fairness ==
    /\ WF_plannerVars(TimerPublishes \/ TimerStops)
    /\ WF_plannerVars(\E still \in BOOLEAN : OdomCallback(TRUE, still))
    /\ SF_plannerVars(TimerAdvances(1))

FairSpec == Spec /\ Fairness

-----------------------------------------------------------------------------
(* Properties.                                                             *)

\* Type invariant.
PlannerTypeOK == planner \in Planners /\ odom \in Odoms /\ timer \in Timers

\* "The final point is published once, then the commands stop": between two
\* ticks no trajectory that has reached its end is still active, whatever the
\* callbacks did between the final point and the second critical section.
FinalPointOnce == timer.at = "idle" /\ planner.active => planner.elapsed < Duration

\* A command always carries the id of a handshake, although the trajectory may
\* be cancelled, and its id cleared, between the two parts of the tick.
CommandsCarryId == timer.at = "publishing" => Command.id # 0

\* last_yaw_ref_ is read without the mutex: a command can carry the yaw of
\* another origin, but only one of a trajectory that has been cancelled (so
\* that the controller does not expect its id any more).
TornIsCancelled ==
    timer.at = "publishing" /\ Command.yaw = "other" => ~planner.active

\* Every trajectory ends, by its own clock if nobody cancels it: the commands
\* stop and the next handshake is possible.
TrajectoryEnds == planner.active ~> ~planner.active
=============================================================================
