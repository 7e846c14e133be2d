---------------------------- MODULE PlannerProofs ----------------------------
(***************************************************************************)
(* The invariants of SimOdom, for every set of ids, every duration and any *)
(* user, controller and odometry source.                                   *)
(***************************************************************************)
EXTENDS SimOdom, TLAPS

(***************************************************************************)
(* None of the three invariants is inductive alone.  The timer brings the  *)
(* id and the end of a trajectory from one critical section into the next, *)
(* so the invariant says what it carries while the callbacks run.          *)
(***************************************************************************)
IdsValid ==
    /\ planner.ready => planner.id # 0
    /\ planner.active => planner.active_id # 0
    /\ timer.at = "publishing" => timer.id # 0

EndCarried ==
    /\ timer.at = "idle" /\ planner.active => planner.elapsed < Duration
    /\ timer.at = "publishing" /\ planner.active /\ ~timer.stop => planner.elapsed < Duration

TornInactive == timer.at = "publishing" /\ timer.yaw = "other" => ~planner.active

PlannerInv == PlannerTypeOK /\ IdsValid /\ EndCarried /\ TornInactive

USE PlacesAssumption, DurationAssumption, HandshakeIdsAssumption

\* The planner starts in the invariant.
LEMMA PlannerInitInv == Init => PlannerInv
  BY DEF Init, PlannerInit, IdleTimer, PlannerInv, PlannerTypeOK, Planners, Odoms, Timers,
         IdsValid, EndCarried, TornInactive

\* Expiring a trigger changes nothing else.
LEMMA ExpireKeeps ==
  ASSUME planner \in Planners
  PROVE  /\ Expire(planner) \in Planners
         /\ Expire(planner).ready = planner.ready
         /\ Expire(planner).id = planner.id
         /\ Expire(planner).active = planner.active
         /\ Expire(planner).active_id = planner.active_id
         /\ Expire(planner).elapsed = planner.elapsed
         /\ Expire(planner).origin = planner.origin
  BY DEF Expire, Planners

\* Between two ticks the timer carries nothing.
LEMMA IdleTimerType == IdleTimer \in Timers /\ IdleTimer.at = "idle"
  BY DEF IdleTimer, Timers

\* A tick being published keeps its id, whatever is frozen meanwhile.
LEMMA FreezeTimerKeeps ==
  ASSUME timer \in Timers
  PROVE  /\ FreezeTimer \in Timers
         /\ FreezeTimer.at = timer.at
         /\ FreezeTimer.id = timer.id
  BY DEF FreezeTimer, Timers

\* Freezing an origin starts no trajectory and touches no id.
LEMMA FreezeKeeps ==
  ASSUME NEW p \in Planners, NEW place \in Places
  PROVE  /\ Freeze(p, place) \in Planners
         /\ Freeze(p, place).active = p.active
         /\ Freeze(p, place).id = p.id
         /\ Freeze(p, place).ready = p.ready
<1>1. 0 \in 0 .. Duration
  OBVIOUS
<1> QED BY <1>1 DEF Freeze, Planners

\* Every callback, every part of a tick and every timeout keeps the invariant.
LEMMA PlannerStepInv == PlannerInv /\ [Next]_plannerVars => PlannerInv'
<1> SUFFICES ASSUME PlannerInv, [Next]_plannerVars PROVE PlannerInv'
  OBVIOUS
<1> USE DEF PlannerInv, PlannerTypeOK, IdsValid, EndCarried, TornInactive
<1>0. planner \in Planners /\ odom \in Odoms /\ timer \in Timers
  OBVIOUS
<1>1. ASSUME NEW place \in Places, TriggerCallback(place) PROVE PlannerInv'
  <2> DEFINE p == Expire(planner)
             accepted == OdomValid /\ ~p.active
  <2>1. CASE accepted
    <3>1. /\ planner' = [Freeze(p, place) EXCEPT !.trigger = "fresh"]
          /\ timer' = FreezeTimer /\ odom' = odom
      BY <1>1, <2>1 DEF TriggerCallback
    <3>2. p \in Planners /\ ~p.active /\ (p.ready => p.id # 0)
      BY <2>1, <1>0, ExpireKeeps
    <3>3. /\ Freeze(p, place) \in Planners /\ ~Freeze(p, place).active
          /\ Freeze(p, place).ready => Freeze(p, place).id # 0
      BY <3>2, FreezeKeeps
    <3>4. planner' \in Planners /\ ~planner'.active /\ (planner'.ready => planner'.id # 0)
      BY <3>1, <3>3 DEF Planners
    <3> QED BY <3>1, <3>4, <1>0, FreezeTimerKeeps
  <2>2. CASE ~accepted
    <3>1. planner' = p /\ timer' = timer /\ odom' = odom
      BY <1>1, <2>2 DEF TriggerCallback
    <3> QED BY <3>1, <1>0, ExpireKeeps
  <2> QED BY <2>1, <2>2
<1>2. CASE CancelCallback
  BY <1>2, <1>0 DEF CancelCallback, Planners
<1>3. CASE InvalidReadyCallback
  BY <1>3, <1>0, ExpireKeeps DEF InvalidReadyCallback
<1>4. ASSUME NEW id \in HandshakeIds, NEW place \in Places, ReadyCallback(id, place)
      PROVE  PlannerInv'
  <2> DEFINE p == Expire(planner)
  <2> odom' = odom
    BY <1>4 DEF ReadyCallback
  <2>1. CASE p.active
    BY <2>1, <1>4, <1>0, ExpireKeeps DEF ReadyCallback
  <2>2. CASE ~p.active /\ p.trigger # "fresh"
    <3>1. planner' = [p EXCEPT !.id = id, !.ready = TRUE] /\ timer' = timer
      BY <2>2, <1>4 DEF ReadyCallback
    <3> QED BY <3>1, <2>2, <1>0, ExpireKeeps DEF Planners
  <2>3. CASE ~p.active /\ p.trigger = "fresh" /\ OdomValid
    <3>1. /\ planner' = [Freeze(p, place) EXCEPT !.id = id, !.ready = TRUE]
          /\ timer' = FreezeTimer
      BY <2>3, <1>4 DEF ReadyCallback
    <3>2. p \in Planners /\ ~p.active
      BY <2>3, <1>0, ExpireKeeps
    <3>3. Freeze(p, place) \in Planners /\ ~Freeze(p, place).active
      BY <3>2, FreezeKeeps
    <3>4. planner' \in Planners /\ ~planner'.active /\ planner'.id # 0
      BY <3>1, <3>3 DEF Planners
    <3> QED BY <3>1, <3>4, <1>0, FreezeTimerKeeps
  <2>4. CASE ~p.active /\ p.trigger = "fresh" /\ ~OdomValid
    <3>1. planner' = [p EXCEPT !.trigger = "none", !.ready = FALSE] /\ timer' = timer
      BY <2>4, <1>4 DEF ReadyCallback
    <3> QED BY <3>1, <2>4, <1>0, ExpireKeeps DEF Planners
  <2> QED BY <2>1, <2>2, <2>3, <2>4
<1>5. ASSUME NEW valid \in BOOLEAN, NEW still \in BOOLEAN, OdomCallback(valid, still)
      PROVE  PlannerInv'
  BY <1>5, <1>0 DEF OdomCallback, Odoms
<1>6. CASE TimerReturns
  BY <1>6, <1>0, ExpireKeeps DEF TimerReturns
<1>7. CASE TimerStarts
  <2> DEFINE e == Expire(planner)
             q == [e EXCEPT !.active = TRUE, !.active_id = e.id, !.elapsed = 0,
                            !.ready = FALSE, !.id = 0, !.trigger = "none"]
  <2>1. planner' = q /\ timer' = Computed(q, FALSE) /\ odom' = odom /\ e.ready
    BY <1>7 DEF TimerStarts
  <2>2. e \in Planners /\ e.id # 0
    BY <2>1, <1>0, ExpireKeeps
  <2>3. 0 \in 0 .. Duration /\ 0 < Duration
    OBVIOUS
  <2> HIDE DEF e
  <2>4. q \in Planners /\ q.active /\ q.active_id # 0 /\ q.elapsed = 0 /\ ~q.ready
    BY <2>2, <2>3 DEF Planners
  <2> HIDE DEF q
  <2> QED BY <2>1, <2>3, <2>4, <1>0 DEF Computed, Planners, Timers
<1>8. ASSUME NEW dt \in {0, 1}, TimerAdvances(dt) PROVE PlannerInv'
  <2> DEFINE e == Expire(planner)
             time == planner.elapsed + dt
             reached == IF time > Duration THEN Duration ELSE time
             p == [e EXCEPT !.elapsed = reached]
  <2>1. /\ planner' = p /\ timer' = Computed(p, time >= Duration) /\ odom' = odom
        /\ planner.active
    BY <1>8 DEF TimerAdvances
  <2>2. e \in Planners /\ e.active /\ e.active_id # 0 /\ (e.ready => e.id # 0)
    BY <2>1, <1>0, ExpireKeeps
  <2>3. reached \in 0 .. Duration /\ (~(time >= Duration) => reached < Duration)
    BY <1>0 DEF Planners
  <2>4. (time >= Duration) \in BOOLEAN
    OBVIOUS
  <2> HIDE DEF e, time, reached
  <2>5. /\ p \in Planners /\ p.active /\ p.active_id # 0 /\ (p.ready => p.id # 0)
        /\ p.elapsed = reached
    BY <2>2, <2>3 DEF Planners
  <2> HIDE DEF p
  <2> QED BY <2>1, <2>3, <2>4, <2>5, <1>0 DEF Computed, Planners, Timers
<1>9. CASE TimerPublishes
  BY <1>9, <1>0, IdleTimerType DEF TimerPublishes, Timers
<1>10. CASE TimerStops
  BY <1>10, <1>0, IdleTimerType DEF TimerStops, Planners
<1>11. CASE HandshakeTimeout
  BY <1>11, <1>0 DEF HandshakeTimeout, Planners
<1>12. CASE OdomTimeout
  BY <1>12, <1>0 DEF OdomTimeout, Odoms
<1>13. CASE UNCHANGED plannerVars
  BY <1>13 DEF plannerVars
<1> QED
  BY <1>1, <1>2, <1>3, <1>4, <1>5, <1>6, <1>7, <1>8, <1>9, <1>10, <1>11, <1>12, <1>13
  DEF Next, TimerComputes

\* The inductive invariant.
THEOREM PlannerInvariant == Spec => []PlannerInv
  BY PlannerInitInv, PlannerStepInv, PTL DEF Spec

\* Type correctness of the planner.
THEOREM PlannerTypes == Spec => []PlannerTypeOK
  BY PlannerInvariant, PTL DEF PlannerInv

\* FinalPointOnce: whatever callbacks run between the two critical sections of
\* the timer, no trajectory is active at its end when the next tick begins.
THEOREM FinalPointIsPublishedOnce == Spec => []FinalPointOnce
<1>1. PlannerInv => FinalPointOnce
  BY DEF PlannerInv, EndCarried, FinalPointOnce
<1> QED BY <1>1, PlannerInvariant, PTL

\* CommandsCarryId: no command is published with the id that means none.
THEOREM CommandsAlwaysCarryId == Spec => []CommandsCarryId
<1>1. PlannerInv => CommandsCarryId
  BY DEF PlannerInv, IdsValid, CommandsCarryId, Command
<1> QED BY <1>1, PlannerInvariant, PTL

\* TornIsCancelled: the race on last_yaw_ref_ only touches cancelled trajectories.
THEOREM TornCommandIsCancelled == Spec => []TornIsCancelled
<1>1. PlannerInv => TornIsCancelled
  BY DEF PlannerInv, TornInactive, TornIsCancelled, Command
<1> QED BY <1>1, PlannerInvariant, PTL
=============================================================================
