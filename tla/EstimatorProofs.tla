-------------------------- MODULE EstimatorProofs --------------------------
(***************************************************************************)
(* Proofs about Estimators: the outputs of both loops rest on errors of    *)
(* the current mission, of one run of regular ticks and of the current     *)
(* flight, for every number of flights, missions, gaps and triggers.       *)
(*                                                                         *)
(* The argument: last_mission_sequence_ equals the sequence of the trigger *)
(* between any two steps, so that a tick finds another one exactly when it *)
(* has just started a mission; that tick clears both loops, and from then  *)
(* on only ticks of the mission are added.                                 *)
(***************************************************************************)
EXTENDS Estimators, TLAPS

(***************************************************************************)
(* The inductive invariant.                                                *)
(***************************************************************************)

Synced == last_sequence = trigger.sequence

\* While a mission is on, both loops hold nothing of anything else.
Sums ==
    trigger.active =>
        \A l \in {pos, att} :
            /\ l.ref.mission = missions
            /\ \A tag \in l.sum :
                /\ tag.mission = missions
                /\ tag.flight = flights
                /\ est \in Observers => tag.run = runs

\* The last attitude error is that of the last tick.
LastError ==
    dual =>
        /\ last_err.run = runs
        /\ trigger.active => last_err.mission = missions

\* The attitude loop leaves its first tick with the first mission.
FirstTick ==
    /\ trigger.active => missions > 0
    /\ dual => (att.first <=> missions = 0 \/ est = "PD")
    /\ ~dual => att.used = {} /\ att.sum = {}

IInv == TypeOK /\ Synced /\ Sums /\ LastError /\ FirstTick

\* What the outputs rest on, the four invariants together.
Sound ==
    /\ EstimatesOfThisMission
    /\ NoSumOverGap
    /\ FlightsDoNotMix
    /\ DampingFromLastTick

Damped ==
    dual /\ since' = "regular" /\ missions' = missions =>
        (rate' # NoTag <=> missions > 0 /\ est # "PD")

(***************************************************************************)
(* What one tick does to a loop.                                           *)
(***************************************************************************)

\* The loop k after a tick: its sum and reference come from before or from it.
Extends(k, l, now) ==
    /\ k \in Loops
    /\ k.sum \subseteq l.sum \cup {now}
    /\ k.used \in {{}, k.sum}
    /\ k.used # {} => k.base = k.ref
    /\ k.ref \in {l.ref, now}

\* An estimator at work ends the first tick.
Estimated(k, l, regular, now) ==
    /\ Extends(k, l, now)
    /\ k.ref = l.ref
    /\ k.first = FALSE
    /\ est \in Observers /\ ~regular => k.sum = {}

\* An estimator at work adds at most this tick, and an observer nothing to
\* what was before an irregular interval.
LEMMA EstimateStep ==
    \A l \in Loops, regular \in BOOLEAN, now \in Tags : \A added \in {{}, {now}} :
        Estimated(Estimates(l, regular, added), l, regular, now)
<1> SUFFICES ASSUME NEW l \in Loops, NEW regular \in BOOLEAN, NEW now \in Tags,
                    NEW added \in {{}, {now}}
             PROVE  Estimated(Estimates(l, regular, added), l, regular, now)
    OBVIOUS
<1> DEFINE k == Estimates(l, regular, added)
<1> USE DEF Estimated
<1>1. l.sum \cup added \in SUBSET Tags
    BY DEF Loops
<1>2. CASE l.first
    BY <1>2 DEF Estimates, Silent, Loops, Extends
<1>3. CASE ~l.first /\ regular
    BY <1>1, <1>3 DEF Estimates, Outputs, Loops, Extends
<1>4. CASE ~l.first /\ ~regular /\ est \in Observers
    BY <1>4 DEF Estimates, Silent, Loops, Extends
<1>5. CASE ~l.first /\ ~regular /\ est \notin Observers
    BY <1>5 DEF Estimates, Outputs, Loops, Extends
<1> QED BY <1>2, <1>3, <1>4, <1>5

\* The position loop; silent outside missions, but for PID without attitude
\* loop.
Positioned(k, l, t, regular, now) ==
    /\ Extends(k, l, now)
    /\ k.used # {} => t.active \/ (est = "PID" /\ ~dual)
    /\ est \in Observers /\ t.active /\ ~regular => k.sum = {}

\* The position loop rests on what it had and on this tick.
LEMMA PositionStep ==
    \A l \in Loops, t \in Triggers, regular \in BOOLEAN, now \in Tags : \A target :
        Positioned(PositionLoop(l, t, target, regular, now), l, t, regular, now)
<1> SUFFICES ASSUME NEW l \in Loops, NEW t \in Triggers, NEW regular \in BOOLEAN,
                    NEW now \in Tags, NEW target
             PROVE  Positioned(PositionLoop(l, t, target, regular, now), l, t, regular, now)
    OBVIOUS
<1> USE DEF Positioned
<1> DEFINE k == PositionLoop(l, t, target, regular, now)
<1> DEFINE begun == IF t.active /\ l.first_pub /\ est # "PD"
                    THEN [l EXCEPT !.ref = now, !.first_pub = FALSE] ELSE l
<1>1. begun \in Loops /\ begun.sum = l.sum /\ begun.ref \in {l.ref, now}
    BY DEF Loops
<1> DEFINE added == IF target = "odometry" THEN {} ELSE {now}
<1> HIDE DEF begun
<1>3. CASE est # "PD" /\ (t.active \/ (est = "PID" /\ ~dual))
    <2>1. k = Estimates(begun, regular, added)
        BY <1>3 DEF PositionLoop, begun
    <2>2. added \in {{}, {now}}
        OBVIOUS
    <2>3. Estimated(Estimates(begun, regular, added), begun, regular, now)
        <3> HIDE DEF added
        <3> QED BY <1>1, <2>2, EstimateStep, Zenon
    <2> QED BY <1>1, <1>3, <2>1, <2>3 DEF Extends, Estimated
<1>4. CASE ~(est # "PD" /\ (t.active \/ (est = "PID" /\ ~dual)))
    <2>1. k = Silent(begun)
        BY <1>4 DEF PositionLoop, begun
    <2>2. /\ k \in Loops
          /\ k.sum = begun.sum
          /\ k.used = {}
          /\ k.ref = begun.ref
        BY <1>1, <2>1 DEF Silent, Loops
    <2>3. est \in Observers /\ t.active => FALSE
        BY <1>4 DEF Observers
    <2> QED BY <1>1, <2>2, <2>3 DEF Extends
<1> QED BY <1>3, <1>4

\* The attitude loop; only a mission ends its first tick.
Attituded(k, l, t, regular, now) ==
    /\ Extends(k, l, now)
    /\ k.used # {} => t.active
    /\ k.first = (l.first /\ ~(t.active /\ est # "PD"))
    /\ est \in Observers /\ t.active /\ ~regular => k.sum = {}

\* The attitude loop rests on what it had and on this tick.
LEMMA AttitudeStep ==
    \A l \in Loops, t \in Triggers, regular \in BOOLEAN, now \in Tags :
        Attituded(AttitudeLoop(l, t, regular, now), l, t, regular, now)
<1> SUFFICES ASSUME NEW l \in Loops, NEW t \in Triggers, NEW regular \in BOOLEAN,
                    NEW now \in Tags
             PROVE  Attituded(AttitudeLoop(l, t, regular, now), l, t, regular, now)
    OBVIOUS
<1> USE DEF Attituded
<1> DEFINE k == AttitudeLoop(l, t, regular, now)
<1> DEFINE cached == IF l.first THEN [l EXCEPT !.ref = now] ELSE l
           begun == IF t.active /\ est # "PD" THEN [cached EXCEPT !.first_pub = FALSE]
                    ELSE cached
<1>1. cached \in Loops /\ cached.sum = l.sum /\ cached.ref \in {l.ref, now}
      /\ cached.first = l.first
    BY DEF Loops
<1> HIDE DEF cached
<1>2. begun \in Loops /\ begun.sum = l.sum /\ begun.ref \in {l.ref, now}
      /\ begun.first = l.first
    BY <1>1 DEF Loops
<1> HIDE DEF begun
<1>3. l.first \in BOOLEAN /\ t.active \in BOOLEAN
    BY DEF Loops, Triggers
<1>4. CASE t.active /\ est # "PD"
    <2>1. k = Estimates(begun, regular, {now})
        BY <1>4 DEF AttitudeLoop, begun, cached
    <2>2. {now} \in {{}, {now}} /\ begun \in Loops
        BY <1>2
    <2>3. Extends(k, begun, now) /\ k.ref = begun.ref /\ k.first = FALSE
          /\ (est \in Observers /\ ~regular => k.sum = {})
        BY <2>1, <2>2, EstimateStep DEF Estimated
    <2> QED BY <1>2, <1>3, <1>4, <2>3 DEF Extends
<1>5. CASE ~(t.active /\ est # "PD")
    <2>1. k = Silent(begun)
        BY <1>5 DEF AttitudeLoop, begun, cached
    <2>2. /\ k \in Loops
          /\ k.sum = begun.sum
          /\ k.used = {}
          /\ k.ref = begun.ref
          /\ k.first = begun.first
        BY <1>2, <2>1 DEF Silent, Loops
    <2>3. est \in Observers /\ t.active => FALSE
        BY <1>5 DEF Observers
    <2> QED BY <1>2, <1>3, <1>5, <2>2, <2>3 DEF Extends
<1> QED BY <1>4, <1>5

(***************************************************************************)
(* What one tick of the controller does.                                   *)
(***************************************************************************)

Phases == {"idle", "flight", "mission"}

\* A tick either stays with the sequence it found, and then keeps a mission
\* that is on and no more than that, or starts a mission with another one.
Follows(t) ==
    /\ t.sequence = trigger.sequence
    /\ missions' = missions
    /\ t.active => trigger.active /\ flights' = flights

Begins(t) ==
    /\ t.sequence \notin {0, trigger.sequence}
    /\ t.active
    /\ missions' = missions + 1

Tick(t, ph) ==
    /\ t \in Triggers
    /\ ph \in Phases
    /\ flights' \in 0 .. MaxFlights
    /\ missions' \in 0 .. MaxMissions
    /\ Follows(t) \/ Begins(t)
    /\ \E target \in Targets : Ticks(t, ph, target)

\* Every action is such a tick, or leaves the controller alone.
LEMMA Steps ==
    ASSUME IInv, Next
    PROVE  \/ \E t \in Triggers, ph \in Phases : Tick(t, ph)
           \/ /\ since' = "none"
              /\ trigger' \in Triggers
              /\ trigger'.sequence = trigger.sequence
              /\ trigger'.active => trigger.active
              /\ phase' \in Phases
              /\ UNCHANGED <<est, dual, loopVars, flights, missions, runs>>
<1> USE BoundsAssumption DEF IInv, TypeOK, Triggers, Phases, Targets, Held
<1>1. CASE Feed
    <2>1. trigger.pending + 1 \in 0 .. MaxSequence
        BY <1>1 DEF Feed
    <2> QED BY <1>1, <2>1 DEF Feed
<1>2. CASE TriggerAges
    BY <1>2 DEF TriggerAges
<1>3. CASE LosesInput
    BY <1>3 DEF LosesInput, Ended, PendingCancelled, Deactivated
<1>4. CASE Departs
    <2>1. flights + 1 \in 0 .. MaxFlights
        BY <1>4 DEF Departs
    <2>2. Deactivated(trigger) \in Triggers
        BY DEF Deactivated
    <2>3. Follows(Deactivated(trigger))
        BY <1>4 DEF Departs, Follows, Deactivated
    <2>4. Tick(Deactivated(trigger), "flight")
        BY <1>4, <2>1, <2>2, <2>3 DEF Departs, Tick
    <2> QED BY <2>4 DEF Tick
<1>5. CASE StartsMission
    <2>1. missions + 1 \in 0 .. MaxMissions
        BY <1>5 DEF StartsMission
    <2>2. Activated(trigger) \in Triggers
        BY DEF Activated
    <2>3. Begins(Activated(trigger))
        BY <1>5 DEF StartsMission, Begins, Activated, Activates
    <2>4. Tick(Activated(trigger), "mission")
        BY <1>5, <2>1, <2>2, <2>3 DEF StartsMission, Tick
    <2> QED BY <2>4 DEF Tick
<1>6. CASE Declines
    <2>1. Tick(Declined(trigger), "flight")
        BY <1>6 DEF Declines, Tick, Follows, Declined, PendingCancelled
    <2> QED BY <2>1 DEF Tick
<1>7. CASE DropsTrigger
    <2>1. Tick(Ended(trigger), phase)
        BY <1>7 DEF DropsTrigger, Tick, Follows, Ended, PendingCancelled, Deactivated
    <2> QED BY <2>1 DEF Tick
<1>8. CASE Continues
    <2>1. Tick(trigger, phase)
        BY <1>8 DEF Continues, Tick, Follows
    <2> QED BY <2>1 DEF Tick
<1>9. CASE Pauses
    <2>1. Tick(Deactivated(trigger), "flight")
        BY <1>9 DEF Pauses, Tick, Follows, Deactivated
    <2> QED BY <2>1 DEF Tick
<1>10. CASE Aborts
    <2>1. Tick(Ended(trigger), "flight")
        BY <1>10 DEF Aborts, Tick, Follows, Ended, PendingCancelled, Deactivated
    <2> QED BY <2>1 DEF Tick
<1>11. CASE Leaves
    <2>1. Tick(Ended(trigger), "idle")
        BY <1>11 DEF Leaves, Tick, Follows, Ended, PendingCancelled, Deactivated
    <2> QED BY <2>1 DEF Tick
<1>12. CASE Lands
    <2>1. Tick(trigger, "idle")
        BY <1>12 DEF Lands, Tick, Follows
    <2> QED BY <2>1 DEF Tick
<1> QED BY <1>1, <1>2, <1>3, <1>4, <1>5, <1>6, <1>7, <1>8, <1>9, <1>10, <1>11, <1>12 DEF Next

\* A tick keeps the invariant, and its outputs are sound.
LEMMA TickKeeps ==
    ASSUME IInv, NEW t \in Triggers, NEW ph \in Phases, Tick(t, ph)
    PROVE  IInv' /\ Sound' /\ Damped
<1> USE DEF IInv
<1>0. PICK target \in Targets : Ticks(t, ph, target)
    BY DEF Tick
<1>1. PICK interval \in {"regular", "irregular"} :
        /\ interval = "regular" => runs > 0
        /\ interval = "irregular" => runs < MaxGaps
        /\ runs' = IF interval = "regular" THEN runs ELSE runs + 1
        /\ Control(t, target, interval)
    BY <1>0 DEF Ticks
<1> DEFINE regular == interval = "regular"
           now == [flight |-> flights', mission |-> IF t.active THEN missions' ELSE 0,
                   run |-> runs']
           p == Triggered(pos, t, now)
           a == Triggered(att, t, now)
<1>2. /\ trigger' = t /\ phase' = ph /\ est' = est /\ dual' = dual
      /\ since' = interval
      /\ last_sequence' = IF NewMission(t) THEN t.sequence ELSE last_sequence
      /\ pos' = PositionLoop(p, t, target, regular, now)
      /\ att' = IF dual THEN AttitudeLoop(a, t, regular, now) ELSE a
      /\ rate' = IF dual THEN Derivative(a, regular) ELSE NoTag
      /\ last_err' = IF dual THEN now ELSE last_err
    BY <1>0, <1>1 DEF Ticks, Control
<1>3. /\ now \in Tags
      /\ now.flight = flights'
      /\ t.active => now.mission = missions'
      /\ now.run = runs'
      /\ runs' \in 0 .. MaxGaps
      /\ regular \in BOOLEAN
    BY <1>1, BoundsAssumption DEF TypeOK, Tags, Tick
<1>4. p \in Loops /\ a \in Loops
    BY <1>3 DEF Triggered, Cleared, TypeOK, Loops
<1> HIDE DEF now, regular
\* What handleMissionTrigger leaves, if the tick is of a mission.
<1>5. ASSUME t.active, NEW l \in {p, a}
      PROVE  /\ l.ref.mission = missions'
             /\ \A tag \in l.sum :
                 /\ tag.mission = missions'
                 /\ tag.flight = flights'
                 /\ est \in Observers /\ regular => tag.run = runs'
    <2>1. CASE Follows(t)
        <3>1. p = pos /\ a = att /\ trigger.active
            BY <1>5, <2>1 DEF Follows, NewMission, Synced, Triggered
        <3>2. missions' = missions /\ flights' = flights
            BY <1>5, <2>1 DEF Follows
        <3>3. regular => runs' = runs
            BY <1>1 DEF regular
        <3> QED BY <1>5, <3>1, <3>2, <3>3 DEF Sums
    <2>2. CASE Begins(t)
        <3>1. NewMission(t)
            BY <2>2 DEF Begins, NewMission, Synced
        <3>2. l.ref = now /\ l.sum = {}
            BY <1>3, <3>1 DEF Triggered, Cleared, TypeOK, Loops
        <3> QED BY <1>3, <1>5, <3>2
    <2> QED BY <2>1, <2>2 DEF Tick
<1>6. Positioned(pos', p, t, regular, now)
    BY <1>2, <1>3, <1>4, PositionStep
<1>7. dual => Attituded(att', a, t, regular, now)
    BY <1>2, <1>3, <1>4, AttitudeStep
<1>8. ~dual => att' = a /\ att'.used = {} /\ att'.sum = {}
    BY <1>2 DEF Triggered, Cleared, FirstTick, TypeOK, Loops
\* What the loops hold after the tick, if it is of a mission.
<1>9. ASSUME t.active, NEW k \in {pos', att'}
      PROVE  /\ k.ref.mission = missions'
             /\ \A tag \in k.sum :
                 /\ tag.mission = missions'
                 /\ tag.flight = flights'
                 /\ est \in Observers => tag.run = runs'
    <2>1. PICK l \in {p, a} :
            \/ k = l /\ l = a /\ ~dual
            \/ /\ Extends(k, l, now)
               /\ est \in Observers /\ ~regular => k.sum = {}
        BY <1>6, <1>7, <1>8, <1>9 DEF Positioned, Attituded
    <2>2. CASE k = l /\ l = a /\ ~dual
        BY <2>2, <1>5, <1>8, <1>9
    <2>3. CASE Extends(k, l, now) /\ (est \in Observers /\ ~regular => k.sum = {})
        <3>1. k.ref \in {l.ref, now} /\ k.sum \subseteq l.sum \cup {now}
            BY <2>3 DEF Extends
        <3> QED BY <1>3, <1>5, <1>9, <2>3, <3>1
    <2> QED BY <2>1, <2>2, <2>3
<1>10. TypeOK'
    <2>1. pos' \in Loops /\ att' \in Loops
        BY <1>4, <1>6, <1>7, <1>8 DEF Positioned, Attituded, Extends
    <2>2. last_sequence' \in 0 .. MaxSequence
        BY <1>2 DEF TypeOK, Triggers
    <2>3. last_err' \in Tags /\ rate' \in Tags
        BY <1>2, <1>3, BoundsAssumption DEF TypeOK, Derivative, NoTag, Tags
    <2> QED BY <1>2, <1>3, <2>1, <2>2, <2>3 DEF TypeOK, Tick, Phases
<1>11. Synced'
    BY <1>2 DEF Synced, NewMission, Tick, Follows, Begins
<1>12. Sums'
    BY <1>2, <1>9 DEF Sums
<1>13. LastError'
    BY <1>2, <1>3 DEF LastError
<1>14. FirstTick'
    <2>1. t.active => missions' > 0
        BY DEF Tick, Follows, Begins, FirstTick, TypeOK
    <2>2. ASSUME dual PROVE att'.first <=> missions' = 0 \/ est = "PD"
        <3>1. att'.first <=> a.first /\ ~(t.active /\ est # "PD")
            BY <1>7, <2>2 DEF Attituded
        <3>2. CASE Follows(t)
            BY <2>1, <2>2, <3>1, <3>2
               DEF Follows, NewMission, Synced, Triggered, FirstTick, TypeOK
        <3>3. CASE Begins(t)
            <4>1. a.first = TRUE
                BY <3>3 DEF Begins, NewMission, Synced, Triggered, Cleared, TypeOK, Loops
            <4> QED BY <2>1, <3>1, <3>3, <4>1 DEF Begins
        <3> QED BY <3>2, <3>3 DEF Tick
    <2> QED BY <1>2, <1>8, <2>1, <2>2 DEF FirstTick
<1>15. \A k \in {pos', att'} :
        /\ k.used \in {{}, k.sum}
        /\ k.used # {} => k.base = k.ref
        /\ k.used # {} => t.active \/ (est = "PID" /\ ~dual)
    BY <1>6, <1>7, <1>8 DEF Positioned, Attituded, Extends
<1>16. EstimatesOfThisMission'
    BY <1>2, <1>9, <1>15 DEF EstimatesOfThisMission
<1>17. NoSumOverGap'
    <2>1. est \in Observers => est # "PID"
        BY DEF Observers
    <2> QED BY <1>2, <1>9, <1>15, <2>1 DEF NoSumOverGap
<1>18. FlightsDoNotMix'
    BY <1>2, <1>9, <1>15 DEF FlightsDoNotMix
\* The derivative, and that it is there, in a tick of no new mission.
<1>19. Begins(t) => rate' = NoTag
    BY <1>2 DEF Begins, NewMission, Synced, Triggered, Cleared, Derivative, TypeOK, Loops
<1>20. Follows(t) => rate' = IF dual /\ ~att.first /\ regular THEN last_err ELSE NoTag
    BY <1>2 DEF Follows, NewMission, Synced, Triggered, Derivative
<1>21. regular => runs' = runs /\ runs > 0
    BY <1>1 DEF regular
<1>22. DampingFromLastTick'
    BY <1>2, <1>19, <1>20, <1>21 DEF DampingFromLastTick, LastError, Tick, Follows
<1>23. Damped
    <2>1. ASSUME dual, since' = "regular", missions' = missions
          PROVE  rate' # NoTag <=> missions > 0 /\ est # "PD"
        <3>1. Follows(t)
            BY <2>1 DEF Tick, Begins, TypeOK
        <3>2. regular /\ rate' = IF ~att.first THEN last_err ELSE NoTag
            BY <1>2, <1>20, <2>1, <3>1 DEF regular
        <3>3. last_err # NoTag
            BY <1>21, <2>1, <3>2 DEF LastError, NoTag
        <3> QED BY <2>1, <3>2, <3>3 DEF FirstTick, TypeOK
    <2> QED BY <2>1 DEF Damped
<1> QED BY <1>10, <1>11, <1>12, <1>13, <1>14, <1>16, <1>17, <1>18, <1>22, <1>23 DEF Sound

(***************************************************************************)
(* The theorems.                                                           *)
(***************************************************************************)

\* Every step keeps the invariant; its outputs are sound.
LEMMA StepKeeps == IInv /\ Sound /\ [Next]_vars => (IInv /\ Sound)' /\ (Damped \/ UNCHANGED vars)
<1> SUFFICES ASSUME IInv, Sound, [Next]_vars
             PROVE  (IInv /\ Sound)' /\ (Damped \/ UNCHANGED vars)
    OBVIOUS
<1>1. CASE UNCHANGED vars
    BY <1>1 DEF vars, loopVars, IInv, TypeOK, Synced, Sums, LastError, FirstTick, Sound,
                EstimatesOfThisMission, NoSumOverGap, FlightsDoNotMix, DampingFromLastTick
<1>2. CASE \E t \in Triggers, ph \in Phases : Tick(t, ph)
    BY <1>2, TickKeeps
<1>3. CASE /\ since' = "none"
           /\ trigger' \in Triggers
           /\ trigger'.sequence = trigger.sequence
           /\ trigger'.active => trigger.active
           /\ phase' \in Phases
           /\ UNCHANGED <<est, dual, loopVars, flights, missions, runs>>
    <2>1. TypeOK'
        BY <1>3 DEF IInv, TypeOK, loopVars, Phases
    <2>2. Synced' /\ Sums' /\ LastError' /\ FirstTick'
        BY <1>3 DEF IInv, loopVars, Synced, Sums, LastError, FirstTick
    <2>3. Sound'
        BY <1>3 DEF Sound, EstimatesOfThisMission, NoSumOverGap, FlightsDoNotMix,
                    DampingFromLastTick
    <2>4. Damped
        BY <1>3 DEF Damped
    <2> QED BY <2>1, <2>2, <2>3, <2>4 DEF IInv
<1> QED BY <1>1, <1>2, <1>3, Steps

\* Both hold in every state, for every number of flights, missions and gaps.
THEOREM EstimatorInvariant == Spec => [](IInv /\ Sound)
<1>1. Init => IInv /\ Sound
    BY BoundsAssumption
       DEF Init, IInv, TypeOK, Synced, Sums, LastError, FirstTick, Sound, Triggers, Loops,
           Tags, NoTag, EstimatesOfThisMission, NoSumOverGap, FlightsDoNotMix,
           DampingFromLastTick
<1>2. IInv /\ Sound /\ [Next]_vars => (IInv /\ Sound)'
    BY StepKeeps
<1> QED BY <1>1, <1>2, PTL DEF Spec

\* During a mission an output rests on errors of this mission only.
THEOREM OutputsOfThisMission == Spec => []EstimatesOfThisMission
<1>1. IInv /\ Sound => EstimatesOfThisMission
    BY DEF Sound
<1> QED BY <1>1, EstimatorInvariant, PTL

\* No sum of an observer has a refused interval inside.
THEOREM SumsOfOneRun == Spec => []NoSumOverGap
<1>1. IInv /\ Sound => NoSumOverGap
    BY DEF Sound
<1> QED BY <1>1, EstimatorInvariant, PTL

\* Only PID without attitude loop remembers an earlier flight.
THEOREM FlightsApart == Spec => []FlightsDoNotMix
<1>1. IInv /\ Sound => FlightsDoNotMix
    BY DEF Sound
<1> QED BY <1>1, EstimatorInvariant, PTL

\* The derivative spans neither a gap nor the start of a mission.
THEOREM DerivativeOfLastTick == Spec => []DampingFromLastTick
<1>1. IInv /\ Sound => DampingFromLastTick
    BY DEF Sound
<1> QED BY <1>1, EstimatorInvariant, PTL

\* From the first mission on regular ticks are damped, and none before.
THEOREM DampedFromMission == Spec => DampedAfterMission
<1>1. IInv /\ Sound /\ [Next]_vars =>
        [dual /\ since' = "regular" /\ missions' = missions =>
            (rate' # NoTag <=> missions > 0 /\ est # "PD")]_vars
    BY StepKeeps DEF Damped
<1> QED BY <1>1, EstimatorInvariant, PTL DEF Spec, DampedAfterMission
=============================================================================
