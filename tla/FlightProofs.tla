---------------------------- MODULE FlightProofs ----------------------------
(***************************************************************************)
(* Proofs about the flight state machine, for every number of handshake    *)
(* ids, retries, modes, input losses and behaviour of the environment.     *)
(*                                                                         *)
(* The machine is one record, and a tick is a composition of operators on  *)
(* that record; so most lemmas are about records: an operator keeps a      *)
(* record in Fsms, and a consistent one consistent.  Between two ticks the *)
(* record is Consistent; inside a tick, after FollowMode has recorded the  *)
(* mode, it is Underway, which says less about LAND.                       *)
(*                                                                         *)
(* A normal tick is described twice: what its parts before the switch make *)
(* of the record (PreparedMakes), and what the switch makes of that        *)
(* (SwitchMakes).  The promise to the planner follows from the product of  *)
(* the two, and from HandshakeDue.  The results that wait are bounded      *)
(* together with the requests that may still produce one (FewResults).     *)
(* That bound is what makes the machine a client as ServiceClient has it.  *)
(***************************************************************************)
EXTENDS FlightProperties, ServiceClientProofs, FiniteSetTheorems

USE DEF Offboard, AutoLandMode, NoKind

-----------------------------------------------------------------------------
(* Types of the record operators.                                          *)

LEMMA SmallStepsType ==
    ASSUME NEW s \in Fsms
    PROVE  /\ \A state \in States : Enter(s, state) \in Fsms
           /\ Deactivate(s) \in Fsms
           /\ CancelPending(s) \in Fsms
           /\ InvalidateCmd(s) \in Fsms
  <1>1. ASSUME NEW state \in States PROVE Enter(s, state) \in Fsms
    BY DEF Fsms, Enter
  <1>2. Deactivate(s) \in Fsms
    BY DEF Fsms, Deactivate
  <1>3. CancelPending(s) \in Fsms
    BY DEF Fsms, CancelPending
  <1>4. InvalidateCmd(s) \in Fsms
    <2>1. NoCommand \in Commands
      BY MaxIdAssumption DEF NoCommand, Commands, Ids
    <2>. QED  BY <2>1 DEF Fsms, InvalidateCmd
  <1>. QED  BY <1>1, <1>2, <1>3, <1>4

LEMMA HandshakeType ==
    ASSUME NEW s \in Fsms
    PROVE  CancelHandshake(s) \in Fsms /\ PublishTrigger(s) \in Fsms
  <1>1. /\ s.generation \in Ids \ {0} /\ s.published \in Seq(Ids)
        /\ 0 \in Ids /\ MaxId \in Nat \ {0}
    BY MaxIdAssumption DEF Fsms, Ids
  <1>2. NextGeneration(s.generation) \in Ids \ {0}
    BY <1>1 DEF NextGeneration, Ids
  <1>3. \A id \in Ids : Append(s.published, id) \in Seq(Ids)
    BY <1>1, AppendElements
  <1>4. CancelHandshake(s) \in Fsms
    BY <1>1, <1>3 DEF CancelHandshake, Fsms, Cancel
  <1>5. PublishTrigger(s) \in Fsms
    BY <1>2, <1>3 DEF PublishTrigger, Fsms
  <1>. QED  BY <1>4, <1>5

LEMMA StopMissionType ==
    ASSUME NEW s \in Fsms PROVE StopMission(s) \in Fsms /\ Abandoned(s) \in Fsms
  BY SmallStepsType, HandshakeType DEF StopMission, Abandoned, States

\* What stopping the mission leaves: everything but the mission and the
\* handshake is as before, and the planner's last word is "cancel".
LEMMA StopMissionFields ==
    ASSUME NEW s \in Fsms
    PROVE  LET t == StopMission(s)
           IN /\ ~t.active /\ t.expected_id = 0 /\ t.pending = "none"
              /\ t.current_state = s.current_state /\ t.previous_mode = s.previous_mode
              /\ t.failsafe = s.failsafe /\ t.setpoint = s.setpoint
              /\ t.land_gate = s.land_gate /\ t.unhealthy = s.unhealthy
              /\ t.land_trigger = s.land_trigger
              /\ t.published = Append(s.published, Cancel)
  BY DEF Fsms, StopMission, CancelHandshake, CancelPending, Deactivate

LEMMA GateTypes ==
    ASSUME NEW gate \in Gates
    PROVE  /\ ResetGate \in Gates /\ AgeGate(gate) \in Gates
           /\ \A r \in Results : UpdateGate(gate, r) \in Gates
  BY DEF Gates, ResetGate, AgeGate, UpdateGate, Results

-----------------------------------------------------------------------------
(* The strengthened invariant.                                             *)

\* The last message of a tick is "cancel" only if the mission is over.
CancelKept(s) ==
    s.published # <<>> /\ s.published[Len(s.published)] = Cancel
        => s.expected_id = 0 /\ s.current_state # "MISSION"

MissionKept(s) ==
    /\ s.active <=> s.current_state = "MISSION"
    /\ s.expected_id # 0 => s.current_state \in {"HOVER", "MISSION"}
    /\ CancelKept(s)

\* Inside a tick: the mode is on record, a flight is one in OFFBOARD, and a LAND
\* that is about to be left has dropped the user's trigger.
Underway(s) ==
    /\ s \in Fsms
    /\ MissionKept(s)
    /\ ~s.failsafe
    /\ s.previous_mode = observed.mode
    /\ s.current_state \in InFlight => InOffboard
    /\ s.current_state = "LAND" /\ ~InOffboard => s.pending = "none"

\* Between two ticks.
Consistent(s) ==
    /\ s \in Fsms
    /\ MissionKept(s)
    /\ s.failsafe => s.current_state = "LAND" /\ s.setpoint = "none" /\ s.expected_id = 0
    /\ s.current_state \in InFlight \/ (s.current_state = "LAND" /\ ~s.failsafe)
           => s.previous_mode = Offboard

\* The gate of AUTO.LAND in LAND, as the tick goes on: a failed result may have
\* closed it, and then this tick has that result in hand.
LandGateKept ==
    fsm.current_state = "LAND" /\ Exhausted(fsm.land_gate, LandRetries) =>
        step = "landTaken" /\ land_result \notin {NoKind, "Accepted"}

IInv ==
    /\ FsmTypeOK
    /\ WorkerInv
    /\ Consistent(fsm)
    /\ step # "idle" => fsm.published = <<>> /\ fsm.setpoint = "none"
    /\ step # "landTaken" => land_result = NoKind
    /\ LandGateKept

LEMMA StopMissionKept ==
    ASSUME NEW s \in Fsms
    PROVE  /\ \A state \in States \ {"MISSION"} : MissionKept(Enter(StopMission(s), state))
           /\ s.current_state # "MISSION" => MissionKept(StopMission(s))
  <1>1. s.published \in Seq(Ids) /\ Cancel \in Ids
    BY MaxIdAssumption DEF Fsms, Cancel, Ids
  <1> DEFINE p == Append(s.published, Cancel)
  <1>2. p[Len(p)] = Cancel
    BY <1>1, AppendElements
  <1>3. StopMission(s) \in Fsms
    BY StopMissionType
  <1>4. /\ StopMission(s).published = p /\ ~StopMission(s).active
        /\ StopMission(s).expected_id = 0
        /\ StopMission(s).current_state = s.current_state
    BY StopMissionFields
  <1>. HIDE DEF p
  <1>5. ASSUME NEW state \in States \ {"MISSION"}
        PROVE  MissionKept(Enter(StopMission(s), state))
    BY <1>2, <1>3, <1>4 DEF MissionKept, CancelKept, Enter, Fsms
  <1>6. ASSUME s.current_state # "MISSION" PROVE MissionKept(StopMission(s))
    BY <1>2, <1>3, <1>4, <1>6 DEF MissionKept, CancelKept
  <1>. QED  BY <1>5, <1>6
-----------------------------------------------------------------------------
(* The parts of a tick before its switch.                                  *)

\* What a part that turns s into t may do to a landing: enter it with a fresh
\* gate, or leave its gate alone; leave it for MANUAL only, by a change of mode.
\* And MANUAL is entered without a trigger of the user.
FlightKept(s, t) ==
    /\ t.current_state = "LAND" =>
           t.land_gate = ResetGate \/ (s.current_state = "LAND" /\ t.land_gate = s.land_gate)
    /\ s.current_state = "LAND" =>
           t.current_state = "LAND" \/ (t.current_state = "MANUAL" /\ ~InOffboard)
    /\ s.current_state # "MANUAL" /\ t.current_state = "MANUAL" => t.pending = "none"

LEMMA FollowModeKeeps ==
    ASSUME FsmTypeOK, NEW s \in Fsms, Consistent(s), ~s.failsafe
    PROVE  Underway(FollowMode(s)) /\ FlightKept(s, FollowMode(s))
  <1>1. StopMission(s) \in Fsms
    BY StopMissionType
  <1>2. /\ StopMission(s).current_state = s.current_state
        /\ StopMission(s).land_gate = s.land_gate
        /\ ~StopMission(s).failsafe
        /\ StopMission(s).pending = "none"
    BY StopMissionFields
  <1>3. observed \in Vehicles /\ observed.mode \in Modes
    BY DEF FsmTypeOK, Vehicles
  <1> DEFINE left == s.previous_mode = Offboard /\ observed.mode # Offboard
             handedOver == s.current_state = "LAND" /\ observed.mode = AutoLandMode
  <1>4. CASE ~left
    <2>1. FollowMode(s) = [s EXCEPT !.previous_mode = observed.mode]
      BY <1>4 DEF FollowMode
    <2>2. MissionKept(FollowMode(s))
      BY <2>1 DEF Consistent, MissionKept, CancelKept, Fsms
    <2>3. FollowMode(s).current_state \in InFlight => InOffboard
      BY <1>4, <2>1 DEF Consistent, InOffboard, Fsms
    <2>4. FollowMode(s).current_state = "LAND" => InOffboard
      BY <1>4, <2>1 DEF Consistent, InOffboard, Fsms
    <2>. QED
      BY <1>3, <2>1, <2>2, <2>3, <2>4 DEF Underway, FlightKept, Fsms
  <1>5. CASE left /\ handedOver
    <2>1. FollowMode(s) = [StopMission(s) EXCEPT !.previous_mode = observed.mode]
      BY <1>5 DEF FollowMode
    <2>2. MissionKept(StopMission(s))
      BY <1>5, StopMissionKept
    <2>3. MissionKept(FollowMode(s))
      BY <1>1, <2>1, <2>2 DEF MissionKept, CancelKept, Fsms
    <2>. QED
      BY <1>1, <1>2, <1>3, <1>5, <2>1, <2>3 DEF Underway, FlightKept, Fsms, InFlight
  <1>6. CASE left /\ ~handedOver
    <2> DEFINE t == Enter(StopMission(s), "MANUAL")
    <2>1. FollowMode(s) = [t EXCEPT !.previous_mode = observed.mode]
      BY <1>6 DEF FollowMode
    <2>2. MissionKept(t) /\ t \in Fsms
      BY <1>1, StopMissionKept, SmallStepsType DEF States
    <2>3. t.current_state = "MANUAL" /\ ~t.failsafe /\ t.pending = "none"
      BY <1>1, <1>2 DEF Enter, Fsms
    <2>. HIDE DEF t
    <2>4. MissionKept(FollowMode(s))
      BY <2>1, <2>2 DEF MissionKept, CancelKept, Fsms
    <2>. QED
      BY <1>3, <1>6, <2>1, <2>2, <2>3, <2>4
         DEF Underway, FlightKept, Fsms, InFlight, InOffboard
  <1>. QED  BY <1>4, <1>5, <1>6

\* A flight ended by a landing or a hover, as three of the parts do it.
LEMMA AbortKeeps ==
    ASSUME FsmTypeOK, NEW s \in Fsms, Underway(s), NEW state \in States \ {"MISSION"},
           state \in InFlight => InOffboard
    PROVE  LET t == Enter(InvalidateCmd(StopMission(s)), state)
           IN /\ Underway(t)
              /\ t.current_state = state
              /\ Underway([t EXCEPT !.land_gate = ResetGate])
              /\ [t EXCEPT !.land_gate = ResetGate].land_gate = ResetGate
              /\ [t EXCEPT !.land_gate = ResetGate].current_state = state
  <1> DEFINE u == Enter(StopMission(s), state)
             t == Enter(InvalidateCmd(StopMission(s)), state)
             v == [t EXCEPT !.land_gate = ResetGate]
  <1>1. StopMission(s) \in Fsms /\ u \in Fsms /\ t \in Fsms
    BY StopMissionType, SmallStepsType
  <1>2. t = [u EXCEPT !.cmd = NoCommand]
    BY <1>1 DEF Enter, InvalidateCmd, Fsms
  <1>3. /\ u.current_state = state /\ ~u.failsafe /\ u.previous_mode = observed.mode
        /\ u.active = StopMission(s).active /\ u.pending = "none"
    BY <1>1, StopMissionFields DEF Enter, Fsms, Underway
  <1>4. MissionKept(u)
    BY StopMissionKept
  <1>5. ResetGate \in Gates
    BY DEF ResetGate, Gates
  <1>6. Underway(t) /\ t.current_state = state
    <2>. HIDE DEF u, t
    <2>1. MissionKept(t)
      BY <1>1, <1>2, <1>4 DEF MissionKept, CancelKept, Fsms
    <2>. QED
      BY <1>1, <1>2, <1>3, <2>1 DEF Underway, Fsms
  <1>7. Underway(v) /\ v.current_state = state /\ v.land_gate = ResetGate
    <2>. HIDE DEF t
    <2>1. v \in Fsms /\ v.current_state = state /\ v.land_gate = ResetGate
      BY <1>1, <1>5, <1>6 DEF Fsms
    <2>2. MissionKept(v)
      BY <1>1, <1>6 DEF MissionKept, CancelKept, Fsms, Underway
    <2>. QED
      BY <1>1, <1>6, <2>1, <2>2 DEF Underway, Fsms
  <1>. QED  BY <1>6, <1>7

LEMMA NavigationFailsafeKeeps ==
    ASSUME FsmTypeOK, NEW s \in Fsms, Underway(s), NEW healthy \in BOOLEAN
    PROVE  LET t == NavigationFailsafe(s, healthy)
           IN Underway(t) /\ FlightKept(s, t)
  <1> DEFINE watched == /\ NavMonitor /\ observed.armed
                        /\ s.current_state \notin {"MANUAL", "LAND"}
             aborted == InvalidateCmd(StopMission(s))
             t == NavigationFailsafe(s, healthy)
  <1>1. ASSUME NEW stage \in {"zero", "Grace", "Hover", "AutoLand"},
               t = [s EXCEPT !.unhealthy = stage]
        PROVE  Underway(t) /\ FlightKept(s, t)
    <2>. HIDE DEF t
    <2>1. MissionKept(t)
      BY <1>1 DEF MissionKept, CancelKept, Fsms, Underway
    <2>. QED
      BY <1>1, <2>1 DEF Underway, FlightKept, Fsms
  <1>2. CASE ~watched \/ healthy
    BY <1>1, <1>2 DEF NavigationFailsafe
  <1>3. CASE watched /\ ~healthy /\ s.unhealthy = "zero"
    BY <1>1, <1>3 DEF NavigationFailsafe
  <1>4. CASE t = s
    BY <1>4 DEF FlightKept
  <1>5. CASE watched /\ t = Enter(aborted, "HOVER")
    <2>1. InOffboard
      BY <1>5 DEF Underway, InFlight, Fsms, States
    <2>2. "HOVER" \in States \ {"MISSION"}
      BY DEF States
    <2>3. Underway(Enter(aborted, "HOVER")) /\ Enter(aborted, "HOVER").current_state = "HOVER"
      BY <2>1, <2>2, AbortKeeps
    <2>4. Underway(t) /\ t.current_state = "HOVER"
      <3>. HIDE DEF t, aborted
      <3>. QED  BY <1>5, <2>3
    <2>. QED
      BY <1>5, <2>4 DEF FlightKept
  <1>6. CASE watched /\ t = [Enter(aborted, "LAND") EXCEPT !.land_gate = ResetGate]
    <2>1. Underway(t) /\ t.current_state = "LAND" /\ t.land_gate = ResetGate
      BY <1>6, AbortKeeps DEF States, InFlight
    <2>. QED
      BY <2>1 DEF FlightKept
  <1>. QED
    BY <1>2, <1>3, <1>4, <1>5, <1>6 DEF NavigationFailsafe

LEMMA LandTriggerKeeps ==
    ASSUME FsmTypeOK, NEW s \in Fsms, Underway(s), NEW still \in BOOLEAN
    PROVE  LET t == LandTrigger(s, still)
           IN Underway(t) /\ FlightKept(s, t)
  <1> DEFINE landing == [Enter(InvalidateCmd(StopMission(s)), "LAND")
                            EXCEPT !.land_gate = ResetGate]
             t == LandTrigger(s, still)
  <1>1. Underway(landing) /\ landing.current_state = "LAND" /\ landing.land_gate = ResetGate
    BY AbortKeeps DEF States, InFlight
  <1>2. ASSUME NEW u \in Fsms, Underway(u), t = [u EXCEPT !.land_trigger = FALSE]
        PROVE  Underway(t) /\ t.current_state = u.current_state /\ t.land_gate = u.land_gate
    <2>. HIDE DEF t
    <2>1. MissionKept(t)
      BY <1>2 DEF MissionKept, CancelKept, Fsms, Underway
    <2>. QED
      BY <1>2, <2>1 DEF Underway, Fsms
  <1>3. CASE t = s
    BY <1>3 DEF FlightKept
  <1>4. CASE t = [s EXCEPT !.land_trigger = FALSE]
    <2>1. Underway(t) /\ t.current_state = s.current_state /\ t.land_gate = s.land_gate
      BY <1>2, <1>4
    <2>. QED
      BY <2>1 DEF FlightKept
  <1>5. CASE /\ t = [landing EXCEPT !.land_trigger = FALSE]
             /\ s.current_state \in {"HOVER", "MISSION"}
    <2>1. landing \in Fsms
      BY <1>1 DEF Underway
    <2>2. Underway(t) /\ t.current_state = "LAND" /\ t.land_gate = ResetGate
      BY <1>1, <1>2, <1>5, <2>1
    <2>. QED
      BY <1>5, <2>2 DEF FlightKept
  <1>. QED
    BY <1>3, <1>4, <1>5 DEF LandTrigger

LEMMA PreparedKeeps ==
    ASSUME IInv, ~fsm.failsafe, NEW healthy \in BOOLEAN, NEW still \in BOOLEAN
    PROVE  LET s == Prepared(healthy, still)
           IN s \in Fsms /\ Underway(s) /\ FlightKept(fsm, s)
  <1> DEFINE s1 == FollowMode(fsm)
             s2 == NavigationFailsafe(s1, healthy)
             s3 == LandTrigger(s2, still)
  <1>0. FsmTypeOK /\ fsm \in Fsms /\ Consistent(fsm)
    BY DEF IInv, FsmTypeOK
  <1>1. s1 \in Fsms /\ Underway(s1) /\ FlightKept(fsm, s1)
    BY <1>0, FollowModeKeeps DEF Underway
  <1>2. s2 \in Fsms /\ Underway(s2) /\ FlightKept(s1, s2)
    <2>. HIDE DEF s1
    <2>. QED  BY <1>0, <1>1, NavigationFailsafeKeeps DEF Underway
  <1>3. s3 \in Fsms /\ Underway(s3) /\ FlightKept(s2, s3)
    <2>. HIDE DEF s2
    <2>. QED  BY <1>0, <1>2, LandTriggerKeeps DEF Underway
  <1>4. FlightKept(fsm, s3)
    <2>1. s1.current_state = "MANUAL" =>
              s2.current_state = "MANUAL" /\ s2.pending = s1.pending
      <3>. HIDE DEF s1
      <3>. QED  BY <1>1 DEF NavigationFailsafe, Fsms
    <2>2. s2.current_state = "MANUAL" =>
              s3.current_state = "MANUAL" /\ s3.pending = s2.pending
      <3>. HIDE DEF s2
      <3>. QED  BY <1>2 DEF LandTrigger, Fsms
    <2>. HIDE DEF s1, s2, s3
    <2>. QED
      BY <1>1, <1>2, <1>3, <2>1, <2>2 DEF FlightKept
  <1>. QED
    BY <1>3, <1>4 DEF Prepared
-----------------------------------------------------------------------------
(* The switch.                                                             *)

\* What the end of a tick makes of the landing and of the trigger.
Left(t) ==
    /\ t.current_state = "LAND" => ~Exhausted(t.land_gate, LandRetries)
    /\ fsm.current_state = "LAND" =>
           t.current_state = "LAND" \/ (t.current_state = "MANUAL" /\ ~InOffboard)
    /\ fsm.current_state # "MANUAL" /\ t.current_state = "MANUAL" => t.pending = "none"

\* A record the switch may end a tick with, and the step that does.
Settled(s) == Underway(s) /\ Left(s) /\ (s.current_state = "LAND" => InOffboard)

EndsWell ==
    /\ step = "landTaken" /\ step' = "idle"
    /\ arm_result' = NoKind /\ land_result' = NoKind
    /\ UNCHANGED <<observed, px4>>
    /\ UNCHANGED serviceVars \/ \E k \in Kinds : EnqueueRequest(k)
    /\ \E t \in Fsms : fsm' = t /\ Consistent(t) /\ Left(t)

\* So ends a tick that did not find an input stale: it published a setpoint, and
\* outside OFFBOARD it leaves nothing running.
NormallyEnds ==
    /\ EndsWell
    /\ fsm'.setpoint # "none"
    /\ ~InOffboard => fsm'.current_state = "MANUAL"

LEMMA SettledEnds ==
    ASSUME NEW s, Settled(s), NEW setpoint \in Setpoints \ {"none"},
           EndQuietly(s, setpoint) \/ \E k \in Kinds : EndRequesting(s, setpoint, k)
    PROVE  NormallyEnds
  <1> DEFINE t == [s EXCEPT !.setpoint = setpoint]
  <1>1. s \in Fsms /\ t \in Fsms /\ t.setpoint = setpoint
    BY DEF Settled, Underway, Fsms
  <1>2. MissionKept(t)
    BY <1>1 DEF Settled, Underway, MissionKept, CancelKept, Fsms
  <1>3. Consistent(t) /\ Left(t)
    BY <1>1, <1>2 DEF Settled, Underway, Consistent, Left, InOffboard, Fsms
  <1>4. fsm' = t
    BY DEF EndQuietly, EndRequesting, EndTick
  <1>5. ~InOffboard => t.current_state = "MANUAL"
    BY <1>1 DEF Settled, Underway, Fsms, States, InFlight
  <1>. HIDE DEF t
  <1>6. EndsWell
    BY <1>1, <1>3, <1>4 DEF EndsWell, EndQuietly, EndRequesting, EndTick
  <1>. QED
    BY <1>1, <1>4, <1>5, <1>6 DEF NormallyEnds

\* Fields that a tick may set without care.
LEMMA HarmlessFields ==
    ASSUME NEW s, Settled(s), NEW t \in Fsms,
           /\ t.current_state = s.current_state /\ t.previous_mode = s.previous_mode
           /\ t.active = s.active /\ t.expected_id = s.expected_id
           /\ t.failsafe = s.failsafe /\ t.published = s.published
           /\ t.land_gate = s.land_gate /\ t.pending \in {s.pending, "none"}
    PROVE  Settled(t)
  <1>1. MissionKept(t)
    BY DEF Settled, Underway, MissionKept, CancelKept
  <1>. QED
    BY <1>1 DEF Settled, Underway, Left

\* A change of state in flight, the mission flag kept in step.
LEMMA FlightEntered ==
    ASSUME NEW s \in Fsms, Underway(s), s.current_state # "LAND", InOffboard,
           fsm.current_state # "LAND",
           NEW t \in Fsms,
           /\ t.current_state \in InFlight
           /\ t.active <=> t.current_state = "MISSION"
           /\ t.expected_id # 0 => t.current_state \in {"HOVER", "MISSION"}
           /\ CancelKept(t)
           /\ t.previous_mode = s.previous_mode /\ t.failsafe = s.failsafe
    PROVE  Settled(t)
  BY DEF Settled, Underway, MissionKept, Left, InFlight

LEMMA AbandonedSettled ==
    ASSUME FsmTypeOK, NEW s \in Fsms, Underway(s), fsm.current_state = "LAND" => ~InOffboard
    PROVE  Settled(Abandoned(s))
  <1>1. /\ Abandoned(s) \in Fsms /\ MissionKept(Abandoned(s))
        /\ StopMission(s) \in Fsms
    BY StopMissionType, StopMissionKept DEF Abandoned, States
  <1>2. /\ Abandoned(s).current_state = "MANUAL" /\ Abandoned(s).pending = "none"
        /\ ~Abandoned(s).failsafe /\ Abandoned(s).previous_mode = observed.mode
    BY <1>1, StopMissionFields DEF Abandoned, Enter, Underway, Fsms
  <1>. QED
    BY <1>1, <1>2 DEF Settled, Underway, Left, InFlight

LEMMA ManualEnds ==
    ASSUME FsmTypeOK, NEW s \in Fsms, Underway(s), FlightKept(fsm, s),
           s.current_state = "MANUAL", NEW ext, ManualCase(s, ext)
    PROVE  NormallyEnds
  <1> DEFINE given == [s EXCEPT !.takeoff_trigger = FALSE]
             again == [given EXCEPT !.arm_gate = ResetGate]
             takeoff == [Enter(Deactivate(given), "TAKEOFF") EXCEPT
                            !.cmd.stamp = "zero", !.takeoff_timer = "speedup"]
             hover == Enter(Deactivate(s), "HOVER")
  <1>1. Settled(s) /\ ~s.active /\ s.expected_id = 0
    BY DEF Settled, Underway, MissionKept, FlightKept, Left
  <1>2. Settled(given)
    BY <1>1, HarmlessFields DEF Fsms
  <1>3. Settled(again)
    <2>1. again \in Fsms
      BY GateTypes DEF Fsms, ResetGate, Gates
    <2>. QED
      BY <1>1, <2>1, HarmlessFields DEF Fsms
  <1>4. ASSUME InOffboard PROVE Settled(hover)
    <2>1. hover \in Fsms
      BY DEF Fsms, Enter, Deactivate, States
    <2>2. /\ hover.current_state = "HOVER" /\ ~hover.active
          /\ hover.previous_mode = s.previous_mode /\ hover.failsafe = s.failsafe
          /\ CancelKept(hover) /\ fsm.current_state # "LAND"
      BY <1>1, <1>4 DEF Enter, Deactivate, Fsms, CancelKept, FlightKept
    <2>. HIDE DEF hover
    <2>. QED
      BY <1>4, <2>1, <2>2, FlightEntered DEF InFlight
  <1>5. ASSUME InOffboard PROVE Settled(takeoff)
    <2>1. takeoff \in Fsms
      BY DEF Fsms, Enter, Deactivate, States, Commands
    <2>2. /\ takeoff.current_state = "TAKEOFF" /\ ~takeoff.active
          /\ takeoff.previous_mode = s.previous_mode /\ takeoff.failsafe = s.failsafe
          /\ takeoff.expected_id = 0
          /\ CancelKept(takeoff) /\ fsm.current_state # "LAND"
      BY <1>1, <1>5 DEF Enter, Deactivate, Fsms, CancelKept, FlightKept
    <2>. HIDE DEF takeoff
    <2>. QED
      BY <1>5, <2>1, <2>2, FlightEntered DEF InFlight
  <1>6. "odom" \in Setpoints /\ "Arm" \in Kinds
    BY DEF Setpoints, Kinds
  <1>7. \E t : Settled(t) /\ (EndQuietly(t, "odom") \/ EndRequesting(t, "odom", "Arm"))
    <2>. HIDE DEF given, again, takeoff, hover
    <2>. QED
      BY <1>1, <1>2, <1>3, <1>4, <1>5 DEF ManualCase, given, again, takeoff, hover
  <1>. QED
    BY <1>6, <1>7, SettledEnds

LEMMA TakeoffEnds ==
    ASSUME FsmTypeOK, NEW s \in Fsms, Underway(s), FlightKept(fsm, s),
           s.current_state = "TAKEOFF", NEW reached, TakeoffCase(s, reached)
    PROVE  NormallyEnds
  <1> DEFINE gaveUp == Enter(StopMission(s), "HOVER")
             arrived == [Enter(s, "HOVER") EXCEPT !.delay = "waiting"]
  <1>1. /\ Settled(s) /\ InOffboard /\ fsm.current_state # "LAND"
        /\ ~s.active /\ s.expected_id = 0
    BY DEF Settled, Underway, MissionKept, FlightKept, Left, InFlight
  <1>2. Settled(Abandoned(s))
    BY <1>1, AbandonedSettled
  <1>3. Settled(gaveUp)
    <2>1. StopMission(s) \in Fsms /\ gaveUp \in Fsms /\ MissionKept(gaveUp)
      BY StopMissionType, SmallStepsType, StopMissionKept DEF States
    <2>2. /\ gaveUp.current_state = "HOVER" /\ gaveUp.previous_mode = s.previous_mode
          /\ gaveUp.failsafe = s.failsafe
      BY <2>1, StopMissionFields DEF Enter, Fsms
    <2>. HIDE DEF gaveUp
    <2>. QED
      BY <1>1, <2>1, <2>2, FlightEntered DEF InFlight, MissionKept
  <1>4. Settled(arrived)
    <2>1. arrived \in Fsms
      BY DEF Fsms, Enter, States
    <2>2. /\ arrived.current_state = "HOVER" /\ ~arrived.active
          /\ arrived.previous_mode = s.previous_mode /\ arrived.failsafe = s.failsafe
          /\ arrived.expected_id = 0 /\ CancelKept(arrived)
      BY <1>1 DEF Enter, Fsms, CancelKept
    <2>. HIDE DEF arrived
    <2>. QED
      BY <1>1, <2>1, <2>2, FlightEntered DEF InFlight
  <1>5. \/ EndQuietly(Abandoned(s), "odom") \/ EndQuietly(gaveUp, "odom")
        \/ EndQuietly(s, "speedup") \/ EndQuietly(s, "climb")
        \/ EndQuietly(arrived, "odom")
    BY DEF TakeoffCase
  <1>. HIDE DEF gaveUp, arrived
  <1>. QED
    BY <1>1, <1>2, <1>3, <1>4, <1>5, SettledEnds DEF Setpoints

LEMMA HoverEnds ==
    ASSUME FsmTypeOK, NEW s \in Fsms, Underway(s), FlightKept(fsm, s),
           s.current_state = "HOVER", NEW healthy, HoverCase(s, healthy)
    PROVE  NormallyEnds
  <1> DEFINE refused == CancelHandshake(InvalidateCmd(CancelPending(s)))
             kept == IF s.pending = "expired" THEN CancelPending(s) ELSE s
             ignored == CancelHandshake(InvalidateCmd(kept))
             mission == [Enter(s, "MISSION") EXCEPT !.active = TRUE, !.pending = "none"]
             asked == PublishTrigger([s EXCEPT !.delay = "off"])
  <1>1. /\ Settled(s) /\ InOffboard /\ fsm.current_state # "LAND" /\ ~s.active
    BY DEF Settled, Underway, MissionKept, FlightKept, Left, InFlight
  <1>2. Settled(Abandoned(s))
    BY <1>1, AbandonedSettled
  <1>3. ASSUME NEW u \in Fsms, u.current_state = "HOVER", ~u.active,
               u.previous_mode = s.previous_mode, u.failsafe = s.failsafe
        PROVE  Settled(CancelHandshake(InvalidateCmd(u)))
    <2> DEFINE t == CancelHandshake(InvalidateCmd(u))
    <2>1. t \in Fsms
      BY SmallStepsType, HandshakeType
    <2>2. /\ t.current_state = "HOVER" /\ ~t.active /\ t.expected_id = 0
          /\ t.previous_mode = s.previous_mode /\ t.failsafe = s.failsafe
      BY <1>3 DEF CancelHandshake, InvalidateCmd, Fsms
    <2>. HIDE DEF t
    <2>3. Settled(t)
      BY <1>1, <2>1, <2>2, FlightEntered DEF InFlight, CancelKept
    <2>. QED
      BY <2>3 DEF t
  <1>4. Settled(refused) /\ Settled(ignored)
    <2>1. CancelPending(s) \in Fsms
      BY SmallStepsType
    <2>2. /\ CancelPending(s).current_state = "HOVER" /\ ~CancelPending(s).active
          /\ CancelPending(s).previous_mode = s.previous_mode
          /\ CancelPending(s).failsafe = s.failsafe
      BY <1>1 DEF CancelPending, Fsms
    <2>. QED
      BY <1>1, <1>3, <2>1, <2>2
  <1>5. ASSUME CmdIsReceived(s) PROVE Settled(mission)
    <2>1. mission \in Fsms
      BY DEF Fsms, Enter, States
    <2>2. /\ mission.current_state = "MISSION" /\ mission.active
          /\ mission.previous_mode = s.previous_mode /\ mission.failsafe = s.failsafe
          /\ mission.published = s.published
      BY DEF Enter, Fsms
    <2>3. CancelKept(mission)
      BY <1>5, <2>2 DEF CancelKept, CmdIsReceived, Underway, MissionKept
    <2>. HIDE DEF mission
    <2>. QED
      BY <1>1, <2>1, <2>2, <2>3, FlightEntered DEF InFlight
  <1>6. Settled(asked)
    <2> DEFINE u == [s EXCEPT !.delay = "off"]
               id == NextGeneration(u.generation)
    <2>1. u \in Fsms /\ u.generation \in Ids \ {0} /\ u.published \in Seq(Ids)
      BY DEF Fsms
    <2>2. asked \in Fsms
      BY <2>1, HandshakeType
    <2>3. id \in Ids \ {0}
      BY <2>1, MaxIdAssumption DEF NextGeneration, Ids
    <2>4. /\ asked.current_state = "HOVER" /\ ~asked.active
          /\ asked.previous_mode = s.previous_mode /\ asked.failsafe = s.failsafe
          /\ asked.published = Append(u.published, id)
      BY <1>1 DEF PublishTrigger, Fsms
    <2>5. asked.published[Len(asked.published)] # Cancel
      <3>. HIDE DEF u, id, asked
      <3>. QED  BY <2>1, <2>3, <2>4, AppendElements DEF Cancel
    <2>. HIDE DEF asked
    <2>. QED
      BY <1>1, <2>2, <2>4, <2>5, FlightEntered DEF InFlight, CancelKept
  <1>7. \/ EndQuietly(Abandoned(s), "odom") \/ EndQuietly(refused, "hover")
        \/ EndQuietly(ignored, "hover") \/ EndQuietly(asked, "hover")
        \/ EndQuietly(s, "hover") \/ (CmdIsReceived(s) /\ EndQuietly(mission, "cmd"))
    BY DEF HoverCase
  <1>. HIDE DEF refused, ignored, mission, asked
  <1>. QED
    BY <1>1, <1>2, <1>4, <1>5, <1>6, <1>7, SettledEnds DEF Setpoints

LEMMA MissionEnds ==
    ASSUME FsmTypeOK, NEW s \in Fsms, Underway(s), FlightKept(fsm, s),
           s.current_state = "MISSION", MissionCase(s)
    PROVE  NormallyEnds
  <1> DEFINE hover == Enter(Deactivate(s), "HOVER")
             disarmed == InvalidateCmd(Abandoned(s))
  <1>1. /\ Settled(s) /\ InOffboard /\ fsm.current_state # "LAND"
    BY DEF Settled, Underway, MissionKept, FlightKept, Left, InFlight
  <1>2. Settled(Abandoned(s)) /\ Abandoned(s) \in Fsms
    BY <1>1, AbandonedSettled, StopMissionType
  <1>3. Settled(disarmed)
    <2> DEFINE a == Abandoned(s)
    <2>. HIDE DEF a
    <2>1. Settled(a) /\ a \in Fsms
      BY <1>2 DEF a
    <2>2. InvalidateCmd(a) \in Fsms
      BY <2>1, SmallStepsType
    <2>3. Settled(InvalidateCmd(a))
      BY <2>1, <2>2, HarmlessFields DEF InvalidateCmd, Fsms
    <2>. QED
      BY <2>3 DEF a
  <1>4. Settled(hover)
    <2>1. hover \in Fsms
      BY DEF Fsms, Enter, Deactivate, States
    <2>2. /\ hover.current_state = "HOVER" /\ ~hover.active
          /\ hover.previous_mode = s.previous_mode /\ hover.failsafe = s.failsafe
          /\ hover.expected_id = s.expected_id /\ hover.published = s.published
      BY DEF Enter, Deactivate, Fsms
    <2>3. CancelKept(hover)
      BY <2>2 DEF CancelKept, Underway, MissionKept
    <2>. HIDE DEF hover
    <2>. QED
      BY <1>1, <2>1, <2>2, <2>3, FlightEntered DEF InFlight
  <1>5. \/ EndQuietly(Abandoned(s), "odom") \/ EndQuietly(disarmed, "odom")
        \/ EndQuietly(hover, "hover") \/ EndQuietly(s, "cmd")
    BY DEF MissionCase
  <1>. HIDE DEF hover, disarmed
  <1>. QED
    BY <1>1, <1>2, <1>3, <1>4, <1>5, SettledEnds DEF Setpoints

LEMMA LandEnds ==
    ASSUME IInv, NEW s \in Fsms, Underway(s), FlightKept(fsm, s),
           s.current_state = "LAND", LandCase(s)
    PROVE  NormallyEnds
  <1> DEFINE left == Enter(s, "MANUAL")
             again == [s EXCEPT !.land_gate = ResetGate]
             open(gate) == ~Exhausted(gate, LandRetries)
  <1>1. open(ResetGate)
    BY RetriesAssumption DEF Exhausted, ResetGate
  <1>2. land_result \in {NoKind, "Accepted"} => open(s.land_gate)
    BY <1>1 DEF IInv, LandGateKept, FlightKept
  <1>3. ASSUME InOffboard, open(s.land_gate) PROVE Settled(s)
    BY <1>3 DEF Settled, Left
  <1>4. ASSUME InOffboard PROVE Settled(again)
    <2>1. again \in Fsms
      BY GateTypes DEF Fsms, ResetGate, Gates
    <2>2. /\ again.current_state = "LAND" /\ again.land_gate = ResetGate
          /\ again.active = s.active /\ again.expected_id = s.expected_id
          /\ again.published = s.published /\ again.failsafe = s.failsafe
          /\ again.previous_mode = s.previous_mode
      BY DEF Fsms
    <2>. HIDE DEF again
    <2>3. MissionKept(again)
      BY <2>2 DEF MissionKept, CancelKept, Underway
    <2>. QED
      BY <1>1, <1>4, <2>1, <2>2, <2>3 DEF Settled, Underway, Left, InFlight
  <1>5. ASSUME ~InOffboard PROVE Settled(left)
    <2>1. left \in Fsms
      BY DEF Fsms, Enter, States
    <2>2. /\ left.current_state = "MANUAL" /\ left.pending = "none"
          /\ left.active = s.active /\ left.expected_id = s.expected_id
          /\ left.published = s.published /\ left.failsafe = s.failsafe
          /\ left.previous_mode = s.previous_mode
      BY <1>5 DEF Fsms, Enter, Underway
    <2>. HIDE DEF left
    <2>3. MissionKept(left)
      BY <2>2 DEF MissionKept, CancelKept, Underway
    <2>. QED
      BY <1>5, <2>1, <2>2, <2>3 DEF Settled, Underway, Left, InFlight
  <1>6. "hover" \in Setpoints /\ "AutoLand" \in Kinds
    BY DEF Setpoints, Kinds
  <1>7. \E t : Settled(t) /\ (EndQuietly(t, "hover") \/ EndRequesting(t, "hover", "AutoLand"))
    <2>. HIDE DEF left, again
    <2>. QED
      BY <1>2, <1>3, <1>4, <1>5 DEF LandCase, left, again
  <1>. QED
    BY <1>6, <1>7, SettledEnds

LEMMA NormalTickEnds ==
    ASSUME IInv, TickManual \/ TickTakeoff \/ TickHover \/ TickMission \/ TickLand
    PROVE  NormallyEnds
  <1>1. FsmTypeOK /\ ~fsm.failsafe
    BY DEF IInv, TickManual, TickTakeoff, TickHover, TickMission, TickLand, NormalTick
  <1>2. Healths \subseteq BOOLEAN
    BY DEF Healths
  <1>3. CASE TickManual
    <2>1. PICK healthy \in Healths, still \in BOOLEAN, ext \in ExtendedStates :
             /\ Prepared(healthy, still).current_state = "MANUAL"
             /\ ManualCase(Prepared(healthy, still), ext)
      BY <1>3 DEF TickManual
    <2>. QED  BY <1>1, <1>2, <2>1, PreparedKeeps, ManualEnds
  <1>4. CASE TickTakeoff
    <2>1. PICK healthy \in Healths, still \in BOOLEAN, reached \in BOOLEAN :
             /\ Prepared(healthy, still).current_state = "TAKEOFF"
             /\ TakeoffCase(Prepared(healthy, still), reached)
      BY <1>4 DEF TickTakeoff
    <2>. QED  BY <1>1, <1>2, <2>1, PreparedKeeps, TakeoffEnds
  <1>5. CASE TickHover
    <2>1. PICK healthy \in Healths, still \in BOOLEAN :
             /\ Prepared(healthy, still).current_state = "HOVER"
             /\ HoverCase(Prepared(healthy, still), healthy)
      BY <1>5 DEF TickHover
    <2>. QED  BY <1>1, <1>2, <2>1, PreparedKeeps, HoverEnds
  <1>6. CASE TickMission
    <2>1. PICK healthy \in Healths, still \in BOOLEAN :
             /\ Prepared(healthy, still).current_state = "MISSION"
             /\ MissionCase(Prepared(healthy, still))
      BY <1>6 DEF TickMission
    <2>. QED  BY <1>1, <1>2, <2>1, PreparedKeeps, MissionEnds
  <1>7. CASE TickLand
    <2>1. PICK healthy \in Healths, still \in BOOLEAN :
             /\ Prepared(healthy, still).current_state = "LAND"
             /\ LandCase(Prepared(healthy, still))
      BY <1>7 DEF TickLand
    <2>. QED  BY <1>1, <1>2, <2>1, PreparedKeeps, LandEnds
  <1>. QED
    BY <1>3, <1>4, <1>5, <1>6, <1>7

LEMMA ClearedFields ==
    ASSUME fsm \in Fsms
    PROVE  /\ Cleared \in Fsms
           /\ ~Cleared.active /\ Cleared.expected_id = 0 /\ Cleared.pending = "none"
           /\ Cleared.land_gate = fsm.land_gate
  <1> DEFINE s == [InvalidateCmd(CancelPending(Deactivate(fsm))) EXCEPT
                      !.takeoff_trigger = FALSE, !.land_trigger = FALSE]
  <1>1. InvalidateCmd(CancelPending(Deactivate(fsm))) \in Fsms
    BY SmallStepsType
  <1>2. /\ s \in Fsms /\ ~s.active /\ s.pending = "none"
        /\ s.land_gate = fsm.land_gate
    BY <1>1 DEF Fsms, InvalidateCmd, CancelPending, Deactivate
  <1>3. Cleared = IF s.expected_id # 0 THEN CancelHandshake(s) ELSE s
    BY DEF Cleared
  <1>. HIDE DEF s
  <1>4. CancelHandshake(s) \in Fsms
    BY <1>2, HandshakeType
  <1>. QED
    BY <1>2, <1>3, <1>4 DEF CancelHandshake, Fsms

\* The ticks that publish nothing: released to MANUAL, or landing.
LEMMA CriticalTickEndsWell ==
    ASSUME IInv, TickReleases \/ TickForcesLanding
    PROVE  EndsWell
  <1>1. fsm \in Fsms /\ FsmTypeOK /\ "none" \in Setpoints /\ "AutoLand" \in Kinds
    BY DEF IInv, FsmTypeOK, Setpoints, Kinds
  <1>2. /\ Cleared \in Fsms
        /\ ~Cleared.active /\ Cleared.expected_id = 0 /\ Cleared.pending = "none"
    BY <1>1, ClearedFields
  <1>3. CASE TickReleases
    <2> DEFINE t == [Released EXCEPT !.setpoint = "none"]
    <2>1. PICK lost \in Losses : ~MustLand("state" \notin lost) /\ EndQuietly(Released, "none")
      BY <1>3 DEF TickReleases
    <2>2. /\ t \in Fsms /\ t.current_state = "MANUAL" /\ ~t.active /\ ~t.failsafe
          /\ t.expected_id = 0 /\ t.pending = "none"
      BY <1>1, <1>2 DEF Released, Enter, Fsms, States
    <2>3. fsm' = t
      BY <2>1 DEF EndQuietly, EndTick
    <2>4. fsm.current_state = "LAND" => ~InOffboard
      BY <2>1 DEF MustLand, AutoLandRequired, InOffboard
    <2>. HIDE DEF t
    <2>5. Consistent(t) /\ Left(t)
      BY <2>2, <2>4 DEF Consistent, MissionKept, CancelKept, Left, InFlight
    <2>. QED
      BY <2>1, <2>2, <2>3, <2>5 DEF EndsWell, EndQuietly, EndTick
  <1>4. CASE TickForcesLanding
    <2> DEFINE t == [ForcedLanding EXCEPT !.setpoint = "none"]
               s == [Enter(Cleared, "LAND") EXCEPT !.failsafe = TRUE]
    <2>1. \/ EndQuietly(ForcedLanding, "none")
          \/ EndRequesting(ForcedLanding, "none", "AutoLand")
      BY <1>4 DEF TickForcesLanding, ForceLanding
    <2>2. /\ s \in Fsms /\ s.current_state = "LAND" /\ ~s.active /\ s.failsafe
          /\ s.expected_id = 0
      BY <1>1, <1>2 DEF Enter, Fsms, States
    <2>3. /\ ForcedLanding \in {s, [s EXCEPT !.land_gate = ResetGate]}
          /\ ~Exhausted(ForcedLanding.land_gate, LandRetries)
      <3>1. ForcedLanding = IF \/ fsm.current_state # "LAND"
                               \/ Exhausted(s.land_gate, LandRetries)
                            THEN [s EXCEPT !.land_gate = ResetGate] ELSE s
        BY DEF ForcedLanding
      <3>2. ~Exhausted(ResetGate, LandRetries)
        BY RetriesAssumption DEF Exhausted, ResetGate
      <3>. HIDE DEF s
      <3>3. [s EXCEPT !.land_gate = ResetGate].land_gate = ResetGate
        BY <2>2 DEF Fsms
      <3>. QED  BY <3>1, <3>2, <3>3
    <2>. HIDE DEF s
    <2>4. ResetGate \in Gates
      BY DEF ResetGate, Gates
    <2>5. /\ t \in Fsms /\ t.current_state = "LAND" /\ ~t.active /\ t.failsafe
          /\ t.expected_id = 0 /\ t.setpoint = "none"
          /\ t.land_gate = ForcedLanding.land_gate
      BY <1>1, <2>2, <2>3, <2>4 DEF Fsms
    <2>6. fsm' = t
      BY <2>1 DEF EndQuietly, EndRequesting, EndTick
    <2>. HIDE DEF t
    <2>7. Consistent(t) /\ Left(t)
      BY <2>3, <2>5 DEF Consistent, MissionKept, CancelKept, Left, InFlight
    <2>. QED
      BY <1>1, <2>1, <2>5, <2>6, <2>7 DEF EndsWell, EndQuietly, EndRequesting, EndTick
  <1>. QED
    BY <1>3, <1>4

LEMMA TickInv == ASSUME IInv, Tick PROVE IInv'
  <1>1. EndsWell
    BY NormalTickEnds, CriticalTickEndsWell DEF Tick, NormallyEnds
  <1>2. PICK t \in Fsms : fsm' = t /\ Consistent(t) /\ Left(t)
    BY <1>1 DEF EndsWell
  <1>3. /\ step' = "idle" /\ arm_result' = NoKind /\ land_result' = NoKind
        /\ UNCHANGED <<observed, px4>>
        /\ UNCHANGED serviceVars \/ \E k \in Kinds : EnqueueRequest(k)
    BY <1>1 DEF EndsWell
  <1>4. WorkerInv'
    BY <1>3, EnqueueInv, WorkerStutterInv DEF IInv
  <1>5. FsmTypeOK'
    BY <1>2, <1>3, <1>4 DEF IInv, FsmTypeOK, WorkerInv, TickSteps
  <1>6. Consistent(fsm')
    BY <1>2
  <1>7. LandGateKept'
    BY <1>2 DEF LandGateKept, Left
  <1>. QED
    BY <1>3, <1>4, <1>5, <1>6, <1>7 DEF IInv

-----------------------------------------------------------------------------
(* The other steps.                                                        *)

LEMMA InitInv == Init => IInv
  <1>. SUFFICES ASSUME Init PROVE IInv
    OBVIOUS
  <1>1. WorkerInv
    BY WorkerInitInv DEF Init
  <1>2. fsm \in Fsms
    <2>1. 0 \in Ids /\ <<>> \in Seq(Ids) /\ Offboard \in Modes /\ NoCommand \in Commands
      BY MaxIdAssumption, ModesAssumption, EmptySeq DEF Ids, NoCommand, Commands
    <2>2. ResetGate \in Gates
      BY DEF ResetGate, Gates
    <2>. QED
      BY <2>1, <2>2 DEF Init, Fsms, States, Setpoints
  <1>3. /\ fsm.current_state = "MANUAL" /\ ~fsm.active /\ fsm.expected_id = 0
        /\ ~fsm.failsafe /\ fsm.published = <<>>
    BY DEF Init
  <1>4. Consistent(fsm)
    BY <1>2, <1>3 DEF Consistent, MissionKept, CancelKept, InFlight
  <1>5. FsmTypeOK
    BY <1>1, <1>2 DEF FsmTypeOK, Init, WorkerInv, TickSteps
  <1>. QED
    BY <1>1, <1>3, <1>4, <1>5 DEF IInv, Init, LandGateKept

\* Taking a result leaves one of the four in the local of the tick.
LEMMA TakenResult ==
    ASSUME WorkerInv, NEW kind \in Kinds, ResultReady(kind)
    PROVE  service_completions[OldestResult(kind)].result \in Results
  <1>1. OldestResult(kind) \in 1 .. Len(service_completions)
    BY OldestResultExists DEF WorkerInv
  <1>2. service_completions[OldestResult(kind)] \in Completions
    BY <1>1, ElementOfSeq DEF WorkerInv, WorkerTypeOK
  <1>. QED  BY <1>2 DEF Completions

LEMMA TakeArmResultInv == ASSUME IInv, TakeArmResult PROVE IInv'
  <1> DEFINE t == [fsm EXCEPT !.setpoint = "none", !.published = <<>>]
  <1>1. /\ step = "idle" /\ step' = "armTaken" /\ fsm' = t
        /\ UNCHANGED <<land_result, observed, px4>>
        /\ "Arm" \in Kinds
    BY DEF TakeArmResult, Kinds
  <1>2. WorkerInv'
    BY <1>1, TakeResultInv, WorkerStutterInv DEF TakeArmResult, IInv, serviceVars
  <1>3. arm_result' \in Results \cup {NoKind}
    BY <1>1, TakenResult DEF TakeArmResult, IInv, FsmTypeOK
  <1>4. fsm \in Fsms /\ Consistent(fsm)
    BY DEF IInv, FsmTypeOK
  <1>5. /\ t \in Fsms /\ t.published = <<>> /\ t.setpoint = "none"
        /\ t.current_state = fsm.current_state /\ t.land_gate = fsm.land_gate
    BY <1>4, EmptySeq DEF Fsms, Setpoints
  <1>6. Consistent(t)
    BY <1>4, <1>5 DEF Consistent, MissionKept, CancelKept, Fsms
  <1>. HIDE DEF t
  <1>7. FsmTypeOK'
    BY <1>1, <1>2, <1>3, <1>5 DEF IInv, FsmTypeOK, WorkerInv, TickSteps
  <1>8. land_result' = NoKind
    BY <1>1 DEF IInv
  <1>9. LandGateKept'
    BY <1>1, <1>5 DEF IInv, LandGateKept
  <1>. QED
    BY <1>1, <1>2, <1>5, <1>6, <1>7, <1>8, <1>9 DEF IInv

LEMMA TakeLandResultInv == ASSUME IInv, TakeLandResult PROVE IInv'
  <1>1. /\ step = "armTaken" /\ step' = "landTaken" /\ "AutoLand" \in Kinds
        /\ UNCHANGED <<arm_result, observed, px4>>
        /\ land_result = NoKind
    BY DEF TakeLandResult, Kinds, IInv
  <1>2. WorkerInv'
    BY <1>1, TakeResultInv, WorkerStutterInv DEF TakeLandResult, IInv, serviceVars
  <1>3. land_result' \in Results \cup {NoKind}
    BY <1>1, TakenResult DEF TakeLandResult, IInv, FsmTypeOK
  <1>4. fsm \in Fsms /\ Consistent(fsm) /\ arm_result \in Results \cup {NoKind}
        /\ fsm.published = <<>> /\ fsm.setpoint = "none"
    BY <1>1 DEF IInv, FsmTypeOK
  <1>5. PICK r \in Results \cup {NoKind} : r = land_result'
    BY <1>3
  <1> DEFINE arm == GateAfter(fsm.arm_gate, arm_result)
             land == GateAfter(fsm.land_gate, r)
             t == [fsm EXCEPT !.arm_gate = arm, !.land_gate = land]
  <1>6. fsm' = t
    BY <1>5 DEF TakeLandResult
  <1>7. fsm.arm_gate \in Gates /\ fsm.land_gate \in Gates
    BY <1>4 DEF Fsms
  <1>8. arm \in Gates /\ land \in Gates
    BY <1>4, <1>7, GateTypes DEF GateAfter
  <1>9. fsm.current_state = "LAND" /\ r \in {NoKind, "Accepted"} =>
            ~Exhausted(land, LandRetries)
    <2>1. CASE r = NoKind
      BY <1>1, <2>1 DEF IInv, LandGateKept, GateAfter
    <2>2. CASE r = "Accepted"
      <3>1. land = [retry |-> 0, rejected |-> FALSE, last |-> "recent"]
        BY <2>2 DEF GateAfter, UpdateGate
      <3>. QED
        BY <3>1, RetriesAssumption DEF Exhausted
    <2>. QED  BY <2>1, <2>2
  <1>. HIDE DEF arm, land
  <1>10. /\ t \in Fsms /\ t.published = <<>> /\ t.setpoint = "none"
         /\ t.current_state = fsm.current_state /\ t.land_gate = land
    BY <1>4, <1>8 DEF Fsms
  <1>11. Consistent(t)
    BY <1>4, <1>10 DEF Consistent, MissionKept, CancelKept, Fsms
  <1>. HIDE DEF t
  <1>12. FsmTypeOK'
    BY <1>1, <1>2, <1>3, <1>6, <1>10 DEF IInv, FsmTypeOK, WorkerInv, TickSteps
  <1>13. LandGateKept'
    BY <1>1, <1>5, <1>6, <1>9, <1>10 DEF LandGateKept
  <1>. QED
    BY <1>1, <1>2, <1>6, <1>10, <1>11, <1>12, <1>13 DEF IInv

\* Between two ticks a step of this thread changes none of the fields that the
\* invariant relates; a gate only ages.
LEMMA BetweenTicksInv ==
    ASSUME IInv, step = "idle", NEW t \in Fsms, fsm' = t,
           UNCHANGED <<step, arm_result, land_result, observed, px4, serviceVars>>,
           /\ t.current_state = fsm.current_state /\ t.previous_mode = fsm.previous_mode
           /\ t.active = fsm.active /\ t.expected_id = fsm.expected_id
           /\ t.failsafe = fsm.failsafe /\ t.published = fsm.published
           /\ t.setpoint = fsm.setpoint
           /\ t.land_gate = fsm.land_gate \/ t.land_gate = AgeGate(fsm.land_gate)
    PROVE  IInv'
  <1>1. WorkerInv'
    BY WorkerStutterInv DEF IInv
  <1>2. FsmTypeOK'
    BY <1>1 DEF IInv, FsmTypeOK, WorkerInv
  <1>3. Consistent(t)
    BY DEF IInv, Consistent, MissionKept, CancelKept
  <1>4. Exhausted(t.land_gate, LandRetries) = Exhausted(fsm.land_gate, LandRetries)
    <2>1. fsm.land_gate \in Gates
      BY DEF IInv, FsmTypeOK, Fsms
    <2>. QED
      BY <2>1 DEF Exhausted, AgeGate, Gates
  <1>5. LandGateKept'
    BY <1>4 DEF IInv, LandGateKept
  <1>. QED
    BY <1>1, <1>2, <1>3, <1>5 DEF IInv

LEMMA CallbacksInv ==
    ASSUME IInv,
           \/ TakeoffCallback \/ LandCallback \/ MissionTriggerFeed
           \/ \E id \in Ids : CommandFeed(id)
    PROVE  IInv'
  <1>1. fsm \in Fsms
    BY DEF IInv, FsmTypeOK
  <1>2. CASE TakeoffCallback
    <2> DEFINE t == [fsm EXCEPT !.takeoff_trigger = TRUE]
    <2>1. t \in Fsms
      BY <1>1 DEF Fsms
    <2>2. /\ t.current_state = fsm.current_state /\ t.previous_mode = fsm.previous_mode
          /\ t.active = fsm.active /\ t.expected_id = fsm.expected_id
          /\ t.failsafe = fsm.failsafe /\ t.published = fsm.published
          /\ t.setpoint = fsm.setpoint /\ t.land_gate = fsm.land_gate
      BY <1>1 DEF Fsms
    <2>3. fsm' = t
      BY <1>2 DEF TakeoffCallback, Callback
    <2>. HIDE DEF t
    <2>. QED
      BY <1>2, <2>1, <2>2, <2>3, BetweenTicksInv DEF TakeoffCallback, Callback
  <1>3. CASE LandCallback
    <2> DEFINE t == [fsm EXCEPT !.land_trigger = TRUE]
    <2>1. t \in Fsms
      BY <1>1 DEF Fsms
    <2>2. /\ t.current_state = fsm.current_state /\ t.previous_mode = fsm.previous_mode
          /\ t.active = fsm.active /\ t.expected_id = fsm.expected_id
          /\ t.failsafe = fsm.failsafe /\ t.published = fsm.published
          /\ t.setpoint = fsm.setpoint /\ t.land_gate = fsm.land_gate
      BY <1>1 DEF Fsms
    <2>3. fsm' = t
      BY <1>3 DEF LandCallback, Callback
    <2>. HIDE DEF t
    <2>. QED
      BY <1>3, <2>1, <2>2, <2>3, BetweenTicksInv DEF LandCallback, Callback
  <1>4. CASE MissionTriggerFeed
    BY <1>1, <1>4, BetweenTicksInv DEF MissionTriggerFeed, Callback, Fsms
  <1>5. ASSUME NEW id \in Ids, CommandFeed(id) PROVE IInv'
    <2>1. [stamp |-> "fresh", id |-> id] \in Commands
      BY DEF Commands
    <2>. QED
      BY <1>1, <1>5, <2>1, BetweenTicksInv DEF CommandFeed, Callback, Fsms
  <1>. QED
    BY <1>2, <1>3, <1>4, <1>5

LEMMA TimeInv ==
    ASSUME IInv,
           \/ CommandStale \/ TriggerExpires \/ ArmIntervalOver \/ LandIntervalOver
           \/ DelayOver \/ TakeoffTimer \/ UnhealthyLonger
    PROVE  IInv'
  <1>1. fsm \in Fsms /\ fsm.arm_gate \in Gates /\ fsm.land_gate \in Gates
        /\ fsm.cmd \in Commands
    BY DEF IInv, FsmTypeOK, Fsms
  <1>2. CASE CommandStale
    <2>1. [fsm.cmd EXCEPT !.stamp = "stale"] \in Commands
      BY <1>1 DEF Commands
    <2>. QED
      BY <1>1, <1>2, <2>1, BetweenTicksInv DEF CommandStale, Pass, Fsms
  <1>3. CASE TriggerExpires
    BY <1>1, <1>3, BetweenTicksInv DEF TriggerExpires, Pass, Fsms
  <1>4. CASE ArmIntervalOver
    BY <1>1, <1>4, GateTypes, BetweenTicksInv DEF ArmIntervalOver, Pass, Fsms
  <1>5. CASE LandIntervalOver
    BY <1>1, <1>5, GateTypes, BetweenTicksInv DEF LandIntervalOver, Pass, Fsms
  <1>6. CASE DelayOver
    BY <1>1, <1>6, BetweenTicksInv DEF DelayOver, Pass, Fsms
  <1>7. CASE TakeoffTimer
    BY <1>1, <1>7, BetweenTicksInv DEF TakeoffTimer, Pass, Fsms
  <1>8. CASE UnhealthyLonger
    BY <1>1, <1>8, BetweenTicksInv DEF UnhealthyLonger, Pass, Fsms
  <1>. QED
    BY <1>2, <1>3, <1>4, <1>5, <1>6, <1>7, <1>8

\* PX4, the pilot, the worker thread, and the state message.
LEMMA OutsideInv ==
    ASSUME IInv, UNCHANGED <<fsm, step, arm_result, land_result>>, WorkerInv',
           observed' \in Vehicles, px4' \in Vehicles
    PROVE  IInv'
  <1>1. FsmTypeOK'
    BY DEF IInv, FsmTypeOK, WorkerInv
  <1>2. LandGateKept'
    BY DEF IInv, LandGateKept
  <1>. QED
    BY <1>1, <1>2 DEF IInv

LEMMA OutsideStepsInv ==
    ASSUME IInv,
           \/ StateFeed \/ Px4Disarms \/ WorkerStep
           \/ \E mode \in Modes : PilotMode(mode)
           \/ \E r \in Results : ArmCallReturns(r) \/ LandCallReturns(r)
    PROVE  IInv'
  <1>1. /\ WorkerInv /\ observed \in Vehicles /\ px4 \in Vehicles
        /\ px4.mode \in Modes /\ px4.armed \in BOOLEAN
    BY DEF IInv, FsmTypeOK, Vehicles
  <1>2. CASE StateFeed
    BY <1>1, <1>2, OutsideInv, WorkerStutterInv DEF StateFeed
  <1>3. CASE Px4Disarms
    BY <1>1, <1>3, OutsideInv, WorkerStutterInv DEF Px4Disarms, Px4Changes, Vehicles
  <1>4. ASSUME NEW mode \in Modes, PilotMode(mode) PROVE IInv'
    BY <1>1, <1>4, OutsideInv, WorkerStutterInv DEF PilotMode, Px4Changes, Vehicles
  <1>5. CASE WorkerStep
    <2>1. WorkerInv'
      BY <1>1, <1>5, IdleStepsInv, WorkerTakeInv, WorkerReportInv DEF WorkerStep
    <2>. QED
      BY <1>1, <1>5, <2>1, OutsideInv DEF WorkerStep
  <1>6. ASSUME NEW r \in Results, ArmCallReturns(r) PROVE IInv'
    <2>1. WorkerInv'
      BY <1>1, <1>6, CallReturnsInv DEF ArmCallReturns
    <2>2. ArmedAfter(r) \subseteq BOOLEAN
      BY <1>1 DEF ArmedAfter
    <2>3. px4' \in Vehicles
      BY <1>1, <1>6, <2>2 DEF ArmCallReturns, Vehicles
    <2>. QED
      BY <1>1, <1>6, <2>1, <2>3, OutsideInv DEF ArmCallReturns
  <1>7. ASSUME NEW r \in Results, LandCallReturns(r) PROVE IInv'
    <2>1. WorkerInv'
      BY <1>1, <1>7, CallReturnsInv DEF LandCallReturns
    <2>2. ModeAfter(r) \subseteq Modes
      BY <1>1, ModesAssumption DEF ModeAfter
    <2>3. px4' \in Vehicles
      BY <1>1, <1>7, <2>2 DEF LandCallReturns, Vehicles
    <2>. QED
      BY <1>1, <1>7, <2>1, <2>3, OutsideInv DEF LandCallReturns
  <1>. QED
    BY <1>2, <1>3, <1>4, <1>5, <1>6, <1>7

LEMMA StutterInv == ASSUME IInv, UNCHANGED vars PROVE IInv'
  <1>1. WorkerInv'
    BY WorkerStutterInv DEF IInv, vars
  <1>. QED
    BY <1>1, OutsideInv DEF IInv, FsmTypeOK, vars

LEMMA StepInv == ASSUME IInv, [Next]_vars PROVE IInv'
  <1>1. CASE Tick
    BY <1>1, TickInv
  <1>2. CASE TakeArmResult
    BY <1>2, TakeArmResultInv
  <1>3. CASE TakeLandResult
    BY <1>3, TakeLandResultInv
  <1>4. CASE UNCHANGED vars
    BY <1>4, StutterInv
  <1>. QED
    BY <1>1, <1>2, <1>3, <1>4, CallbacksInv, TimeInv, OutsideStepsInv DEF Next, Tick

-----------------------------------------------------------------------------
(* The theorems.                                                           *)

\* The strengthened invariant, from which the rest follows.
THEOREM FlightInvariant == Spec => []IInv
  BY InitInv, StepInv, PTL DEF Spec
\* Every variable keeps its type: the handshake counter its width, and the
\* results, gates and queues their kinds.
THEOREM FlightTypes == Spec => []FsmTypeOK
  BY FlightInvariant, PTL DEF IInv

\* The mission is active exactly in MISSION.
THEOREM MissionIsExact == Spec => []MissionExact
  <1>1. IInv => MissionExact
    BY DEF IInv, Consistent, MissionKept, MissionExact
  <1>. QED  BY <1>1, FlightInvariant, PTL

\* A handshake id is expected only while hovering or flying the mission.
THEOREM HandshakeOnlyInFlight == Spec => []HandshakeInFlight
  <1>1. IInv => HandshakeInFlight
    BY DEF IInv, Consistent, MissionKept, HandshakeInFlight
  <1>. QED  BY <1>1, FlightInvariant, PTL

\* A tick that told the planner "cancel" last leaves no mission behind.
THEOREM CancelIsKept == Spec => []CancelEndsMission
  <1>1. IInv => CancelEndsMission
    BY DEF IInv, Consistent, MissionKept, CancelKept, CancelEndsMission
  <1>. QED  BY <1>1, FlightInvariant, PTL

\* The latched failsafe is a silent landing.
THEOREM FailsafeIsSilent == Spec => []FailsafeSilent
  <1>1. IInv => FailsafeSilent
    BY DEF IInv, Consistent, MissionKept, FailsafeSilent
  <1>. QED  BY <1>1, FlightInvariant, PTL

\* Flight, and a landing the failsafe did not force, is in OFFBOARD.
THEOREM FlightIsInOffboard == Spec => []FlightInOffboard
  <1>1. IInv => FlightInOffboard
    BY DEF IInv, Consistent, FlightInOffboard
  <1>. QED  BY <1>1, FlightInvariant, PTL

\* Between two ticks the requests for AUTO.LAND are never given up.
THEOREM LandGateStaysOpen == Spec => []LandGateOpen
  <1>1. IInv => LandGateOpen
    BY DEF IInv, LandGateKept, LandGateOpen
  <1>. QED  BY <1>1, FlightInvariant, PTL

\* At most one request of a kind is queued or executing, with the machine as
\* the client.
THEOREM OneCallOfAKind == Spec => []OneOutstanding
  <1>1. IInv => OneOutstanding
    BY DEF IInv, WorkerInv
  <1>. QED  BY <1>1, FlightInvariant, PTL

\* Only ticks end a tick or change the state of the machine.
LEMMA OnlyTicks ==
    ASSUME IInv, [Next]_vars, ~Tick
    PROVE  fsm'.current_state = fsm.current_state /\ ~TickEnds
  <1>1. fsm \in Fsms
    BY DEF IInv, FsmTypeOK
  <1>2. CASE TakeArmResult \/ TakeLandResult
    BY <1>1, <1>2 DEF TakeArmResult, TakeLandResult, TickEnds, Fsms
  <1>3. CASE TakeoffCallback \/ LandCallback \/ MissionTriggerFeed
    BY <1>1, <1>3
       DEF TakeoffCallback, LandCallback, MissionTriggerFeed, Callback, TickEnds, Fsms
  <1>4. CASE \E id \in Ids : CommandFeed(id)
    BY <1>1, <1>4 DEF CommandFeed, Callback, TickEnds, Fsms
  <1>5. CASE CommandStale \/ TriggerExpires \/ ArmIntervalOver \/ LandIntervalOver
    BY <1>1, <1>5
       DEF CommandStale, TriggerExpires, ArmIntervalOver, LandIntervalOver, Pass,
           TickEnds, Fsms
  <1>6. CASE DelayOver \/ TakeoffTimer \/ UnhealthyLonger
    BY <1>1, <1>6 DEF DelayOver, TakeoffTimer, UnhealthyLonger, Pass, TickEnds, Fsms
  <1>7. CASE \/ StateFeed \/ WorkerStep \/ Px4Disarms
             \/ \E mode \in Modes : PilotMode(mode)
             \/ \E r \in Results : ArmCallReturns(r)
             \/ \E r \in Results : LandCallReturns(r)
             \/ UNCHANGED vars
    BY <1>7 DEF StateFeed, WorkerStep, Px4Disarms, PilotMode, Px4Changes,
                ArmCallReturns, LandCallReturns, TickEnds, vars
  <1>. QED
    BY <1>2, <1>3, <1>4, <1>5, <1>6, <1>7 DEF Next, Tick

\* LAND is left only to MANUAL, after PX4 was seen outside OFFBOARD.
THEOREM LandingIsLast == Spec => LandingIsFinal
  <1>1. ASSUME IInv, [Next]_vars, fsm.current_state = "LAND", fsm'.current_state # "LAND"
        PROVE  fsm'.current_state = "MANUAL" /\ observed.mode # Offboard
    <2>1. Tick
      BY <1>1, OnlyTicks
    <2>2. EndsWell
      BY <1>1, <2>1, NormalTickEnds, CriticalTickEndsWell DEF Tick, NormallyEnds
    <2>. QED
      BY <1>1, <2>2 DEF EndsWell, Left, InOffboard
  <1>. QED
    BY <1>1, FlightInvariant, PTL DEF Spec, LandingIsFinal

\* Whatever ends a flight drops the trigger, the mission and the handshake.
THEOREM FlightEndIsClean == Spec => FlightEndDropsMission
  <1>1. ASSUME IInv, [Next]_vars,
               fsm.current_state # "MANUAL", fsm'.current_state = "MANUAL"
        PROVE  fsm'.pending = "none" /\ ~fsm'.active /\ fsm'.expected_id = 0
    <2>1. Tick
      BY <1>1, OnlyTicks
    <2>2. EndsWell
      BY <1>1, <2>1, NormalTickEnds, CriticalTickEndsWell DEF Tick, NormallyEnds
    <2>. QED
      BY <1>1, <2>2 DEF EndsWell, Left, Consistent, MissionKept
  <1>. QED
    BY <1>1, FlightInvariant, PTL DEF Spec, FlightEndDropsMission

\* A tick that sees PX4 outside OFFBOARD gives the vehicle back, unless stale
\* state feedback forces a landing.
THEOREM VehicleIsHandedOver == Spec => HandsOver
  <1>1. ASSUME IInv, [Next]_vars, TickEnds, observed.mode # Offboard
        PROVE  fsm'.current_state = "MANUAL" \/ ForcedBlindly
    <2>1. Tick
      BY <1>1, OnlyTicks
    <2>2. CASE TickManual \/ TickTakeoff \/ TickHover \/ TickMission \/ TickLand
      BY <1>1, <2>2, NormalTickEnds DEF NormallyEnds, InOffboard
    <2>3. CASE TickReleases
      <3>1. fsm' = [Released EXCEPT !.setpoint = "none"] /\ Released \in Fsms
        BY <1>1, <2>3, ClearedFields
           DEF TickReleases, EndQuietly, EndTick, IInv, FsmTypeOK, Released, Enter, Fsms, States
      <3>2. Released.current_state = "MANUAL"
        BY <1>1, ClearedFields DEF IInv, FsmTypeOK, Released, Enter, Fsms
      <3>. QED
        BY <3>1, <3>2 DEF Fsms
    <2>4. CASE TickForcesLanding
      BY <1>1, <2>4
         DEF TickForcesLanding, ForceLanding, ForcedBlindly, MustLand, AutoLandRequired
    <2>. QED
      BY <2>1, <2>2, <2>3, <2>4 DEF Tick
  <1>. QED
    BY <1>1, FlightInvariant, PTL DEF Spec, HandsOver

\* While an ARM call is outstanding, losing an input in OFFBOARD never makes a
\* tick stand down.
THEOREM PendingArmLands == Spec => PendingArmForcesLanding
  <1>1. ASSUME IInv, [Next]_vars, TickEnds, fsm'.setpoint = "none",
               observed.mode = Offboard, Waiting("Arm") \/ worker.kind = "Arm"
        PROVE  fsm'.current_state = "LAND"
    <2>1. Tick
      BY <1>1, OnlyTicks
    <2>2. service_pending["Arm"]
      BY <1>1 DEF IInv, WorkerInv, PendingExact, Kinds
    <2>3. ~TickReleases
      BY <1>1, <2>2 DEF TickReleases, MustLand, AutoLandRequired
    <2>4. TickForcesLanding
      BY <1>1, <2>1, <2>3, NormalTickEnds DEF Tick, NormallyEnds
    <2>5. fsm' = [ForcedLanding EXCEPT !.setpoint = "none"]
      BY <2>4 DEF TickForcesLanding, ForceLanding, EndRequesting, EndQuietly, EndTick
    <2>6. Cleared \in Fsms
      BY <1>1, ClearedFields DEF IInv, FsmTypeOK
    <2>. QED
      BY <2>5, <2>6, GateTypes DEF ForcedLanding, Enter, Fsms
  <1>. QED
    BY <1>1, FlightInvariant, PTL DEF Spec, PendingArmForcesLanding

-----------------------------------------------------------------------------
(* What a tick makes of the handshake and of the navigation stage.         *)

\* What the small steps change of the fields that the planner's handshake and
\* the navigation failsafe depend on.
LEMMA StepFields ==
    ASSUME NEW s \in Fsms
    PROVE  /\ LET t == CancelHandshake(s) IN
                /\ t.expected_id = 0 /\ t.published = Append(s.published, Cancel)
                /\ t.current_state = s.current_state
                /\ t.generation = s.generation /\ t.pending = s.pending
                /\ t.cmd = s.cmd /\ t.delay = s.delay
                /\ t.unhealthy = s.unhealthy
           /\ LET t == CancelPending(s) IN
                /\ t.pending = "none" /\ t.current_state = s.current_state
                /\ t.expected_id = s.expected_id /\ t.generation = s.generation
                /\ t.cmd = s.cmd /\ t.delay = s.delay
                /\ t.published = s.published /\ t.unhealthy = s.unhealthy
           /\ LET t == InvalidateCmd(s) IN
                /\ t.cmd = NoCommand /\ t.current_state = s.current_state
                /\ t.expected_id = s.expected_id /\ t.generation = s.generation
                /\ t.pending = s.pending /\ t.delay = s.delay
                /\ t.published = s.published /\ t.unhealthy = s.unhealthy
           /\ LET t == Deactivate(s) IN
                /\ t.current_state = s.current_state
                /\ t.expected_id = s.expected_id /\ t.generation = s.generation
                /\ t.pending = s.pending /\ t.cmd = s.cmd /\ t.delay = s.delay
                /\ t.published = s.published /\ t.unhealthy = s.unhealthy
           /\ LET t == StopMission(s) IN
                /\ t.expected_id = 0 /\ t.pending = "none"
                /\ t.published = Append(s.published, Cancel)
                /\ t.current_state = s.current_state
                /\ t.generation = s.generation /\ t.cmd = s.cmd
                /\ t.delay = s.delay /\ t.unhealthy = s.unhealthy
           /\ LET t == PublishTrigger(s)
                  id == NextGeneration(s.generation) IN
                /\ t.generation = id /\ t.expected_id = id
                /\ t.published = Append(s.published, id)
                /\ t.current_state = s.current_state /\ t.pending = s.pending
                /\ t.cmd = s.cmd /\ t.delay = s.delay /\ t.unhealthy = s.unhealthy
           /\ \A state \in States : LET t == Enter(s, state) IN
                /\ t.current_state = state
                /\ t.expected_id = s.expected_id /\ t.generation = s.generation
                /\ t.pending = s.pending /\ t.cmd = s.cmd /\ t.delay = s.delay
                /\ t.published = s.published /\ t.unhealthy = s.unhealthy
  BY DEF Fsms, CancelHandshake, CancelPending, InvalidateCmd, Deactivate, StopMission, Enter,
             PublishTrigger

\* Nothing that the planner or the user could notice has changed from s to t.
Steady(s, t) ==
    /\ t.expected_id = s.expected_id /\ t.generation = s.generation
    /\ t.pending = s.pending /\ t.cmd = s.cmd /\ t.delay = s.delay
    /\ t.published = s.published /\ t.unhealthy = s.unhealthy

\* The mission and its handshake were dropped, and the planner told so.
Stopped(s, t) ==
    /\ t.expected_id = 0 /\ t.pending = "none"
    /\ t.published = Append(s.published, Cancel)
    /\ t.generation = s.generation /\ t.delay = s.delay /\ t.unhealthy = s.unhealthy

\* A handshake was granted.
Asked(s, t) ==
    LET id == NextGeneration(s.generation)
    IN /\ t.generation = id /\ t.expected_id = id
       /\ t.published = Append(s.published, id)
       /\ t.pending = s.pending /\ t.cmd = s.cmd
       /\ t.delay = "off" /\ t.unhealthy = s.unhealthy

\* The same for what the handlers compose of them: the end of a flight, a flight
\* ended into a state, a refused command, a new handshake.
LEMMA ComposedFields ==
    ASSUME NEW s \in Fsms
    PROVE  /\ LET t == Abandoned(s) IN
                t \in Fsms /\ t.current_state = "MANUAL" /\ Stopped(s, t) /\ t.cmd = s.cmd
           /\ \A state \in States : LET t == Enter(StopMission(s), state) IN
                t \in Fsms /\ t.current_state = state /\ Stopped(s, t) /\ t.cmd = s.cmd
           /\ \A state \in States : LET t == Enter(InvalidateCmd(StopMission(s)), state) IN
                t \in Fsms /\ t.current_state = state /\ Stopped(s, t) /\ t.cmd = NoCommand
           /\ LET t == CancelHandshake(InvalidateCmd(s)) IN
                /\ t \in Fsms /\ t.current_state = s.current_state
                /\ s.pending = "none" => Stopped(s, t) /\ t.cmd = NoCommand
           /\ LET t == CancelHandshake(InvalidateCmd(CancelPending(s))) IN
                /\ t \in Fsms /\ t.current_state = s.current_state
                /\ Stopped(s, t) /\ t.cmd = NoCommand
           /\ LET t == PublishTrigger([s EXCEPT !.delay = "off"]) IN
                t \in Fsms /\ t.current_state = s.current_state /\ Asked(s, t)
  <1> DEFINE stopped == StopMission(s)
             forgot == InvalidateCmd(stopped)
             off == [s EXCEPT !.delay = "off"]
  <1>1. stopped \in Fsms /\ Stopped(s, stopped) /\ stopped.cmd = s.cmd
    BY StopMissionType, StepFields DEF Stopped
  <1>2. /\ off \in Fsms /\ off.delay = "off"
        /\ off.current_state = s.current_state /\ off.cmd = s.cmd
        /\ off.pending = s.pending /\ off.published = s.published
        /\ off.generation = s.generation /\ off.unhealthy = s.unhealthy
    BY DEF Fsms
  <1>. HIDE DEF stopped, off
  <1>3. forgot \in Fsms /\ Stopped(s, forgot) /\ forgot.cmd = NoCommand
    BY <1>1, SmallStepsType, StepFields DEF Stopped
  <1>. HIDE DEF forgot
  <1>4. ASSUME NEW u \in Fsms, Stopped(s, u), NEW state \in States
        PROVE  LET t == Enter(u, state) IN
                 t \in Fsms /\ t.current_state = state /\ Stopped(s, t) /\ t.cmd = u.cmd
    BY <1>4, SmallStepsType, StepFields DEF Stopped
  <1>5. ASSUME NEW u \in Fsms
        PROVE  LET t == CancelHandshake(InvalidateCmd(u)) IN
                 /\ t \in Fsms /\ t.current_state = u.current_state
                 /\ u.pending = "none" => Stopped(u, t) /\ t.cmd = NoCommand
    <2> DEFINE n == InvalidateCmd(u)
    <2>1. /\ n \in Fsms /\ n.cmd = NoCommand /\ n.current_state = u.current_state
          /\ n.pending = u.pending /\ n.published = u.published
          /\ n.generation = u.generation /\ n.delay = u.delay
          /\ n.unhealthy = u.unhealthy
      BY SmallStepsType, StepFields
    <2>. HIDE DEF n
    <2>2. CancelHandshake(n) \in Fsms
      BY <2>1, HandshakeType
    <2>3. LET t == CancelHandshake(n) IN
             /\ t \in Fsms /\ t.current_state = u.current_state
             /\ u.pending = "none" => Stopped(u, t) /\ t.cmd = NoCommand
      BY <2>1, <2>2, StepFields DEF Stopped
    <2>. QED  BY <2>3 DEF n
  <1>6. LET t == CancelHandshake(InvalidateCmd(CancelPending(s))) IN
             /\ t \in Fsms /\ t.current_state = s.current_state
             /\ Stopped(s, t) /\ t.cmd = NoCommand
    <2> DEFINE u == CancelPending(s)
    <2>1. /\ u \in Fsms /\ u.pending = "none" /\ u.current_state = s.current_state
          /\ u.published = s.published /\ u.generation = s.generation
          /\ u.delay = s.delay /\ u.unhealthy = s.unhealthy
      BY SmallStepsType, StepFields
    <2>. HIDE DEF u
    <2>2. LET t == CancelHandshake(InvalidateCmd(u)) IN
             /\ t \in Fsms /\ t.current_state = s.current_state
             /\ Stopped(s, t) /\ t.cmd = NoCommand
      BY <1>5, <2>1 DEF Stopped
    <2>. QED  BY <2>2 DEF u
  <1>7. LET t == PublishTrigger(off) IN
             t \in Fsms /\ t.current_state = s.current_state /\ Asked(s, t)
    <2>1. PublishTrigger(off) \in Fsms
      BY <1>2, HandshakeType
    <2>. QED  BY <1>2, <2>1, StepFields DEF Asked
  <1>8. Abandoned(s) = Enter(stopped, "MANUAL") /\ "MANUAL" \in States
    BY DEF Abandoned, stopped, States
  <1>9. LET t == Abandoned(s) IN
             t \in Fsms /\ t.current_state = "MANUAL" /\ Stopped(s, t) /\ t.cmd = s.cmd
    BY <1>1, <1>4, <1>8
  <1>10. \A state \in States :
             /\ LET t == Enter(stopped, state) IN
                t \in Fsms /\ t.current_state = state /\ Stopped(s, t) /\ t.cmd = s.cmd
             /\ LET t == Enter(forgot, state) IN
                t \in Fsms /\ t.current_state = state /\ Stopped(s, t) /\ t.cmd = NoCommand
    BY <1>1, <1>3, <1>4
  <1>. QED
    BY <1>5, <1>6, <1>7, <1>9, <1>10 DEF forgot, stopped, off

\* How long navigation has been bad is decided before the switch; only there can
\* it end a takeoff or a mission.
LEMMA UnhealthyPrepared ==
    ASSUME IInv, ~fsm.failsafe, NEW healthy \in BOOLEAN, NEW still \in BOOLEAN,
           fsm.unhealthy \in {"Hover", "AutoLand"},
           Prepared(healthy, still).unhealthy = fsm.unhealthy
    PROVE  /\ ~healthy /\ InOffboard
           /\ Prepared(healthy, still).current_state \in {"HOVER", "LAND"}
           /\ fsm.unhealthy = "AutoLand" => Prepared(healthy, still).current_state = "LAND"
  <1> DEFINE s1 == FollowMode(fsm)
             s2 == NavigationFailsafe(s1, healthy)
             s3 == LandTrigger(s2, still)
             watched == /\ NavMonitor /\ observed.armed
                        /\ s1.current_state \notin {"MANUAL", "LAND"}
             aborted == InvalidateCmd(StopMission(s1))
  <1>0. fsm \in Fsms /\ FsmTypeOK /\ Consistent(fsm) /\ Prepared(healthy, still) = s3
    BY DEF IInv, FsmTypeOK, Prepared
  <1>1. s1 \in Fsms /\ Underway(s1)
    BY <1>0, FollowModeKeeps DEF Underway
  <1>2. s1.unhealthy = fsm.unhealthy
    <2>1. StopMission(fsm) \in Fsms /\ StopMission(fsm).unhealthy = fsm.unhealthy
      BY <1>0, StopMissionType, StopMissionFields
    <2>. QED
      BY <1>0, <2>1 DEF FollowMode, Enter, Fsms
  <1>. HIDE DEF s1
  <1>3. s2 \in Fsms /\ Underway(s2)
    BY <1>0, <1>1, NavigationFailsafeKeeps DEF Underway
  <1>4. aborted \in Fsms /\ StopMission(s1) \in Fsms
    BY <1>1, StopMissionType, SmallStepsType
  <1>5. s3.unhealthy = s2.unhealthy
    <2>. HIDE DEF s2
    <2>1. /\ StopMission(s2) \in Fsms /\ StopMission(s2).unhealthy = s2.unhealthy
          /\ InvalidateCmd(StopMission(s2)) \in Fsms
      BY <1>3, StopMissionType, StopMissionFields, SmallStepsType
    <2>. QED
      BY <1>3, <2>1 DEF LandTrigger, Enter, InvalidateCmd, Fsms
  <1>6. watched /\ ~healthy
    BY <1>0, <1>1, <1>5 DEF NavigationFailsafe, Fsms
  <1>7. InOffboard
    BY <1>1, <1>6 DEF Underway, InFlight, Fsms, States
  <1>8. /\ s2.current_state \in {"HOVER", "LAND"}
        /\ fsm.unhealthy = "AutoLand" => s2.current_state = "LAND"
    BY <1>1, <1>2, <1>4, <1>6 DEF NavigationFailsafe, Enter, Fsms
  <1>9. s3.current_state \in {s2.current_state, "LAND"}
    <2>. HIDE DEF s2
    <2>1. InvalidateCmd(StopMission(s2)) \in Fsms
      BY <1>3, StopMissionType, SmallStepsType
    <2>. QED
      BY <1>3, <2>1 DEF LandTrigger, Enter, Fsms
  <1>. QED
    BY <1>0, <1>6, <1>7, <1>8, <1>9

\* A tick ends with the record it has computed, and a setpoint.
LEMMA EndFields ==
    ASSUME NEW u \in Fsms, NEW setpoint \in Setpoints,
           EndQuietly(u, setpoint) \/ \E k \in Kinds : EndRequesting(u, setpoint, k)
    PROVE  /\ fsm' \in Fsms /\ fsm'.setpoint = setpoint
           /\ fsm'.current_state = u.current_state /\ Steady(u, fsm')
  <1>1. fsm' = [u EXCEPT !.setpoint = setpoint]
    BY DEF EndQuietly, EndRequesting, EndTick
  <1>. QED
    BY <1>1 DEF Fsms, Steady

\* What each case of the switch makes of the record it is given.
ManualMakes(s, t) ==
    /\ t.current_state \in {"MANUAL", "TAKEOFF", "HOVER"}
    /\ ~InOffboard => t.current_state = "MANUAL"
    /\ t.cmd \in {s.cmd, [s.cmd EXCEPT !.stamp = "zero"]}
    /\ Steady(s, [t EXCEPT !.cmd = s.cmd])

TakeoffMakes(s, t) ==
    \/ t.current_state \in {"MANUAL", "HOVER"} /\ Stopped(s, t) /\ t.cmd = s.cmd
    \/ t.current_state = "TAKEOFF" /\ Steady(s, t)
    \/ t.current_state = "HOVER" /\ Steady([s EXCEPT !.delay = "waiting"], t)

HoverMakes(s, healthy, t) ==
    \/ t.current_state = "MANUAL" /\ Stopped(s, t) /\ t.cmd = s.cmd /\ (InOffboard => ~observed.armed)
    \/ /\ CmdIsReceived(s)
       /\ t.current_state = "HOVER" /\ Stopped(s, t) /\ t.cmd = NoCommand
    \/ /\ CmdIsReceived(s) /\ s.pending = "fresh" /\ healthy
       /\ t.current_state = "MISSION" /\ Steady([s EXCEPT !.pending = "none"], t)
    \/ s.delay = "due" /\ t.current_state = "HOVER" /\ Asked(s, t)
    \/ t.current_state = "HOVER" /\ Steady(s, t)

MissionMakes(s, t) ==
    \/ t.current_state = "MANUAL" /\ Stopped(s, t) /\ t.cmd \in {s.cmd, NoCommand}
    \/ ~CmdIsReceived(s) /\ t.current_state = "HOVER" /\ Steady(s, t)
    \/ CmdIsReceived(s) /\ t.current_state = "MISSION" /\ Steady(s, t)

LandMakes(s, t) ==
    /\ t.current_state \in {"LAND", "MANUAL"}
    /\ InOffboard => t.current_state = "LAND"
    /\ Steady(s, t)

\* What a MANUAL tick makes: the same state, a takeoff or a hover, no mission.
LEMMA ManualResult ==
    ASSUME NEW s \in Fsms, s.current_state = "MANUAL", NEW ext, ManualCase(s, ext)
    PROVE  ManualMakes(s, fsm')
  <1> DEFINE given == [s EXCEPT !.takeoff_trigger = FALSE]
             again == [given EXCEPT !.arm_gate = ResetGate]
             takeoff == [Enter(Deactivate(given), "TAKEOFF") EXCEPT
                            !.cmd.stamp = "zero", !.takeoff_timer = "speedup"]
             hover == Enter(Deactivate(s), "HOVER")
             Fits(u) == u \in Fsms /\ ManualMakes(s, u)
  <1>1. Fits(s) /\ Fits(given)
    BY DEF ManualMakes, Steady, Fsms
  <1>2. Fits(again)
    BY GateTypes DEF ManualMakes, Steady, Fsms, ResetGate, Gates
  <1>3. InOffboard => Fits(hover)
    BY DEF ManualMakes, Steady, Fsms, Enter, Deactivate, States
  <1>4. InOffboard => Fits(takeoff)
    BY DEF ManualMakes, Steady, Fsms, Enter, Deactivate, States, Commands
  <1>5. \E u : Fits(u) /\ (EndQuietly(u, "odom") \/ EndRequesting(u, "odom", "Arm"))
    <2>. HIDE DEF Fits, given, again, takeoff, hover
    <2>. QED
      BY <1>1, <1>2, <1>3, <1>4 DEF ManualCase, given, again, takeoff, hover
  <1>6. PICK u \in Fsms : /\ ManualMakes(s, u)
                          /\ EndQuietly(u, "odom") \/ EndRequesting(u, "odom", "Arm")
    BY <1>5
  <1>7. /\ fsm' \in Fsms /\ fsm'.current_state = u.current_state /\ Steady(u, fsm')
    BY <1>6, EndFields DEF Setpoints, Kinds
  <1>. QED
    BY <1>6, <1>7 DEF ManualMakes, Steady, Fsms

\* A TAKEOFF tick stays, hovers or ends the flight.
LEMMA TakeoffResult ==
    ASSUME NEW s \in Fsms, s.current_state = "TAKEOFF", NEW reached, TakeoffCase(s, reached)
    PROVE  TakeoffMakes(s, fsm')
  <1> DEFINE gaveUp == Enter(StopMission(s), "HOVER")
             arrived == [Enter(s, "HOVER") EXCEPT !.delay = "waiting"]
             Fits(u) == u \in Fsms /\ TakeoffMakes(s, u)
  <1>1. Fits(s)
    BY DEF TakeoffMakes, Steady
  <1>2. Fits(Abandoned(s)) /\ Fits(gaveUp)
    BY ComposedFields DEF TakeoffMakes, States
  <1>3. Fits(arrived)
    BY DEF TakeoffMakes, Steady, Enter, Fsms, States
  <1>4. ASSUME NEW u, Fits(u), NEW setpoint \in Setpoints, EndQuietly(u, setpoint)
        PROVE  TakeoffMakes(s, fsm')
    <2>1. /\ fsm' \in Fsms /\ fsm'.current_state = u.current_state /\ Steady(u, fsm')
      BY <1>4, EndFields
    <2>. QED
      BY <1>4, <2>1 DEF TakeoffMakes, Steady, Stopped
  <1>5. \/ EndQuietly(Abandoned(s), "odom") \/ EndQuietly(gaveUp, "odom")
        \/ EndQuietly(s, "speedup") \/ EndQuietly(s, "climb")
        \/ EndQuietly(arrived, "odom")
    BY DEF TakeoffCase
  <1>6. {"odom", "speedup", "climb"} \subseteq Setpoints
    BY DEF Setpoints
  <1>. HIDE DEF Fits, gaveUp, arrived
  <1>. QED
    BY <1>1, <1>2, <1>3, <1>4, <1>5, <1>6

\* A HOVER tick stays, refuses a command, begins a mission, sends its
\* handshake or ends the flight.
LEMMA HoverResult ==
    ASSUME NEW s \in Fsms, s.current_state = "HOVER", NEW healthy \in BOOLEAN, HoverCase(s, healthy)
    PROVE  HoverMakes(s, healthy, fsm') /\ (~healthy => fsm'.setpoint # "cmd")
  <1> DEFINE refused == CancelHandshake(InvalidateCmd(CancelPending(s)))
             kept == IF s.pending = "expired" THEN CancelPending(s) ELSE s
             ignored == CancelHandshake(InvalidateCmd(kept))
             mission == [Enter(s, "MISSION") EXCEPT !.active = TRUE, !.pending = "none"]
             asked == PublishTrigger([s EXCEPT !.delay = "off"])
             Fits(u) == u \in Fsms /\ HoverMakes(s, healthy, u)
  <1>1. Fits(s)
    BY DEF HoverMakes, Steady
  <1>2. (InOffboard => ~observed.armed) => Fits(Abandoned(s))
    BY ComposedFields DEF HoverMakes
  <1>3. CmdIsReceived(s) => Fits(refused)
    BY ComposedFields DEF HoverMakes
  <1>4. CmdIsReceived(s) /\ ~CanActivate(s) => Fits(ignored)
    <2>1. CASE s.pending = "expired"
      BY <1>3, <2>1
    <2>2. CASE s.pending = "none"
      BY <2>2, ComposedFields DEF HoverMakes
    <2>. QED
      BY <2>1, <2>2 DEF CanActivate, Fsms
  <1>5. CmdIsReceived(s) /\ CanActivate(s) /\ healthy => Fits(mission)
    BY DEF HoverMakes, Steady, Enter, CanActivate, Fsms, States
  <1>6. s.delay = "due" => Fits(asked)
    BY ComposedFields DEF HoverMakes
  <1>7. ASSUME NEW u, Fits(u), NEW setpoint \in Setpoints, EndQuietly(u, setpoint),
               ~healthy => setpoint # "cmd"
        PROVE  HoverMakes(s, healthy, fsm') /\ (~healthy => fsm'.setpoint # "cmd")
    <2>1. /\ fsm' \in Fsms /\ fsm'.current_state = u.current_state /\ Steady(u, fsm')
          /\ fsm'.setpoint = setpoint
      BY <1>7, EndFields
    <2>. QED
      BY <1>7, <2>1 DEF HoverMakes, Steady, Stopped, Asked
  <1>8. \/ (InOffboard => ~observed.armed) /\ EndQuietly(Abandoned(s), "odom")
        \/ CmdIsReceived(s) /\ EndQuietly(refused, "hover")
        \/ CmdIsReceived(s) /\ CanActivate(s) /\ healthy /\ EndQuietly(mission, "cmd")
        \/ CmdIsReceived(s) /\ ~CanActivate(s) /\ EndQuietly(ignored, "hover")
        \/ s.delay = "due" /\ EndQuietly(asked, "hover")
        \/ EndQuietly(s, "hover")
    BY DEF HoverCase
  <1>9. {"odom", "hover", "cmd"} \subseteq Setpoints
    BY DEF Setpoints
  <1>. HIDE DEF Fits, refused, kept, ignored, mission, asked
  <1>. QED
    BY <1>1, <1>2, <1>3, <1>4, <1>5, <1>6, <1>7, <1>8, <1>9

\* A MISSION tick stays, hovers or ends the flight.
LEMMA MissionResult ==
    ASSUME NEW s \in Fsms, s.current_state = "MISSION", MissionCase(s)
    PROVE  MissionMakes(s, fsm')
  <1> DEFINE hover == Enter(Deactivate(s), "HOVER")
             disarmed == InvalidateCmd(Abandoned(s))
             Fits(u) == u \in Fsms /\ MissionMakes(s, u)
  <1>1. CmdIsReceived(s) => Fits(s)
    BY DEF MissionMakes, Steady
  <1>2. Fits(Abandoned(s))
    BY ComposedFields DEF MissionMakes
  <1>3. Fits(disarmed)
    <2> DEFINE a == Abandoned(s)
    <2>1. a \in Fsms /\ a.current_state = "MANUAL" /\ Stopped(s, a)
      BY ComposedFields
    <2>. HIDE DEF a
    <2>2. Fits(InvalidateCmd(a))
      BY <2>1, SmallStepsType, StepFields DEF MissionMakes, Stopped
    <2>. QED  BY <2>2 DEF a
  <1>4. ~CmdIsReceived(s) => Fits(hover)
    BY DEF MissionMakes, Steady, Enter, Deactivate, Fsms, States
  <1>5. ASSUME NEW u, Fits(u), NEW setpoint \in Setpoints, EndQuietly(u, setpoint)
        PROVE  MissionMakes(s, fsm')
    <2>1. /\ fsm' \in Fsms /\ fsm'.current_state = u.current_state /\ Steady(u, fsm')
      BY <1>5, EndFields
    <2>. QED
      BY <1>5, <2>1 DEF MissionMakes, Steady, Stopped
  <1>6. \/ EndQuietly(Abandoned(s), "odom") \/ EndQuietly(disarmed, "odom")
        \/ ~CmdIsReceived(s) /\ EndQuietly(hover, "hover")
        \/ CmdIsReceived(s) /\ EndQuietly(s, "cmd")
    BY DEF MissionCase
  <1>7. {"odom", "hover", "cmd"} \subseteq Setpoints
    BY DEF Setpoints
  <1>. HIDE DEF Fits, hover, disarmed
  <1>. QED
    BY <1>1, <1>2, <1>3, <1>4, <1>5, <1>6, <1>7

\* A LAND tick stays, or ends the flight.
LEMMA LandResult ==
    ASSUME NEW s \in Fsms, s.current_state = "LAND", LandCase(s)
    PROVE  LandMakes(s, fsm') /\ fsm'.setpoint = "hover"
  <1> DEFINE left == Enter(s, "MANUAL")
             again == [s EXCEPT !.land_gate = ResetGate]
             Fits(u) == u \in Fsms /\ LandMakes(s, u)
  <1>1. Fits(s)
    BY DEF LandMakes, Steady
  <1>2. Fits(again)
    BY GateTypes DEF LandMakes, Steady, Fsms, ResetGate, Gates
  <1>3. ~InOffboard => Fits(left)
    BY DEF LandMakes, Steady, Enter, Fsms, States
  <1>4. \E u : Fits(u) /\ (EndQuietly(u, "hover") \/ EndRequesting(u, "hover", "AutoLand"))
    <2>. HIDE DEF Fits, left, again
    <2>. QED
      BY <1>1, <1>2, <1>3 DEF LandCase, left, again
  <1>5. PICK u \in Fsms : /\ LandMakes(s, u)
                          /\ EndQuietly(u, "hover") \/ EndRequesting(u, "hover", "AutoLand")
    BY <1>4
  <1>6. /\ fsm' \in Fsms /\ fsm'.current_state = u.current_state /\ Steady(u, fsm')
        /\ fsm'.setpoint = "hover"
    BY <1>5, EndFields DEF Setpoints, Kinds
  <1>. QED
    BY <1>5, <1>6 DEF LandMakes, Steady

\* The switch of a tick with all inputs fresh.
SwitchMakes(s, healthy, t) ==
    \/ s.current_state = "MANUAL" /\ ManualMakes(s, t)
    \/ s.current_state = "TAKEOFF" /\ TakeoffMakes(s, t)
    \/ s.current_state = "HOVER" /\ HoverMakes(s, healthy, t)
    \/ s.current_state = "MISSION" /\ MissionMakes(s, t)
    \/ s.current_state = "LAND" /\ LandMakes(s, t)

\* A tick that reaches the switch is one of its five cases.
LEMMA NormalTickMakes ==
    ASSUME IInv, TickManual \/ TickTakeoff \/ TickHover \/ TickMission \/ TickLand
    PROVE  /\ step = "landTaken" /\ ~fsm.failsafe
           /\ \E healthy, still \in BOOLEAN :
                LET s == Prepared(healthy, still) IN
                  /\ SwitchMakes(s, healthy, fsm')
                  /\ s.current_state \in {"HOVER", "LAND"} /\ ~healthy => fsm'.setpoint # "cmd"
  <1>1. step = "landTaken" /\ ~fsm.failsafe /\ Healths \subseteq BOOLEAN
    BY DEF TickManual, TickTakeoff, TickHover, TickMission, TickLand, NormalTick, Healths
  <1>2. \A healthy, still \in BOOLEAN : Prepared(healthy, still) \in Fsms
    BY <1>1, PreparedKeeps
  <1> DEFINE Goal == \E healthy, still \in BOOLEAN :
                LET s == Prepared(healthy, still) IN
                  /\ SwitchMakes(s, healthy, fsm')
                  /\ s.current_state \in {"HOVER", "LAND"} /\ ~healthy => fsm'.setpoint # "cmd"
  <1>3. ASSUME TickManual PROVE Goal
    <2>1. PICK healthy \in BOOLEAN, still \in BOOLEAN, ext \in ExtendedStates :
             /\ Prepared(healthy, still).current_state = "MANUAL"
             /\ ManualCase(Prepared(healthy, still), ext)
      BY <1>1, <1>3 DEF TickManual
    <2>2. ManualMakes(Prepared(healthy, still), fsm')
      BY <1>2, <2>1, ManualResult
    <2>. QED  BY <2>1, <2>2 DEF SwitchMakes
  <1>4. ASSUME TickTakeoff PROVE Goal
    <2>1. PICK healthy \in BOOLEAN, still \in BOOLEAN, reached \in BOOLEAN :
             /\ Prepared(healthy, still).current_state = "TAKEOFF"
             /\ TakeoffCase(Prepared(healthy, still), reached)
      BY <1>1, <1>4 DEF TickTakeoff
    <2>2. TakeoffMakes(Prepared(healthy, still), fsm')
      BY <1>2, <2>1, TakeoffResult
    <2>. QED  BY <2>1, <2>2 DEF SwitchMakes
  <1>5. ASSUME TickHover PROVE Goal
    <2>1. PICK healthy \in BOOLEAN, still \in BOOLEAN :
             /\ Prepared(healthy, still).current_state = "HOVER"
             /\ HoverCase(Prepared(healthy, still), healthy)
      BY <1>1, <1>5 DEF TickHover
    <2>2. /\ HoverMakes(Prepared(healthy, still), healthy, fsm')
          /\ ~healthy => fsm'.setpoint # "cmd"
      BY <1>2, <2>1, HoverResult
    <2>. QED  BY <2>1, <2>2 DEF SwitchMakes
  <1>6. ASSUME TickMission PROVE Goal
    <2>1. PICK healthy \in BOOLEAN, still \in BOOLEAN :
             /\ Prepared(healthy, still).current_state = "MISSION"
             /\ MissionCase(Prepared(healthy, still))
      BY <1>1, <1>6 DEF TickMission
    <2>2. MissionMakes(Prepared(healthy, still), fsm')
      BY <1>2, <2>1, MissionResult
    <2>. QED  BY <2>1, <2>2 DEF SwitchMakes
  <1>7. ASSUME TickLand PROVE Goal
    <2>1. PICK healthy \in BOOLEAN, still \in BOOLEAN :
             /\ Prepared(healthy, still).current_state = "LAND"
             /\ LandCase(Prepared(healthy, still))
      BY <1>1, <1>7 DEF TickLand
    <2>2. LandMakes(Prepared(healthy, still), fsm') /\ fsm'.setpoint = "hover"
      BY <1>2, <2>1, LandResult
    <2>. QED  BY <2>1, <2>2 DEF SwitchMakes
  <1>. QED
    BY <1>1, <1>3, <1>4, <1>5, <1>6, <1>7

\* Navigation that stays bad stops the takeoff and the mission, and lands after
\* the second timeout.
THEOREM NavigationStopsFlight == Spec => BadNavigationStops
  <1>1. ASSUME IInv, [Next]_vars, TickEnds, fsm'.setpoint # "none",
               fsm.unhealthy \in {"Hover", "AutoLand"}, fsm'.unhealthy = fsm.unhealthy
        PROVE  /\ fsm'.current_state \notin {"TAKEOFF", "MISSION"}
               /\ fsm'.setpoint # "cmd"
               /\ fsm.unhealthy = "AutoLand" => fsm'.current_state = "LAND"
    <2>1. TickManual \/ TickTakeoff \/ TickHover \/ TickMission \/ TickLand
      <3>1. ~TickReleases
        BY <1>1, ClearedFields
           DEF TickReleases, EndQuietly, EndTick, Released, Enter, IInv, FsmTypeOK, Fsms
      <3>2. ~TickForcesLanding
        BY <1>1, ClearedFields, GateTypes
           DEF TickForcesLanding, ForceLanding, EndQuietly, EndRequesting, EndTick,
               ForcedLanding, Enter, IInv, FsmTypeOK, Fsms
      <3>. QED  BY <1>1, <3>1, <3>2, OnlyTicks DEF Tick
    <2>2. ~fsm.failsafe
      BY <1>1, <2>1, NormalTickMakes
    <2>3. PICK healthy \in BOOLEAN, still \in BOOLEAN :
             /\ SwitchMakes(Prepared(healthy, still), healthy, fsm')
             /\ Prepared(healthy, still).current_state \in {"HOVER", "LAND"} /\ ~healthy
                    => fsm'.setpoint # "cmd"
      BY <1>1, <2>1, NormalTickMakes
    <2> DEFINE s == Prepared(healthy, still)
    <2>4. s \in Fsms
      BY <1>1, <2>2, PreparedKeeps
    <2>5. s.unhealthy = fsm.unhealthy
      <3>. HIDE DEF s
      <3>1. SwitchMakes(s, healthy, fsm')
        BY <2>3 DEF s
      <3>. QED
        BY <1>1, <2>4, <3>1
           DEF SwitchMakes, ManualMakes, TakeoffMakes, HoverMakes, MissionMakes, LandMakes,
               Steady, Stopped, Asked, Fsms
    <2>6. /\ ~healthy /\ InOffboard /\ s.current_state \in {"HOVER", "LAND"}
          /\ fsm.unhealthy = "AutoLand" => s.current_state = "LAND"
      BY <1>1, <2>2, <2>5, UnhealthyPrepared
    <2>. HIDE DEF s
    <2>. QED
      BY <2>3, <2>6 DEF SwitchMakes, HoverMakes, LandMakes, s
  <1>. QED
    BY <1>1, FlightInvariant, PTL DEF Spec, BadNavigationStops

-----------------------------------------------------------------------------
(* The parts of a tick before its switch, and the promise.                 *)

\* As Steady, while the navigation stage may change.
SteadyBut(s, t) == Steady([s EXCEPT !.unhealthy = t.unhealthy], t)

\* Following the flight mode: nothing, or the end of a flight.
LEMMA FollowModeMakes ==
    ASSUME NEW s \in Fsms, observed \in Vehicles
    PROVE  LET t == FollowMode(s) IN
             \/ t.current_state = s.current_state /\ Steady(s, t)
             \/ /\ Stopped(s, t) /\ t.cmd = s.cmd
                /\ t.current_state \in {"MANUAL", "LAND"} /\ ~InOffboard
  <1> DEFINE stopped == StopMission(s)
             manual == Enter(stopped, "MANUAL")
  <1>1. stopped \in Fsms /\ Stopped(s, stopped) /\ stopped.cmd = s.cmd
        /\ stopped.current_state = s.current_state
    BY StopMissionType, StepFields DEF Stopped
  <1>2. manual \in Fsms /\ Stopped(s, manual) /\ manual.cmd = s.cmd
        /\ manual.current_state = "MANUAL"
    BY ComposedFields DEF States
  <1>. HIDE DEF stopped, manual
  <1>3. PICK u : /\ FollowMode(s) = [u EXCEPT !.previous_mode = observed.mode]
                 /\ \/ u = s
                    \/ u = stopped /\ ~InOffboard /\ s.current_state = "LAND"
                    \/ u = manual /\ ~InOffboard
    <2>1. FollowMode(s) =
            [IF ~(s.previous_mode = Offboard /\ ~InOffboard) THEN s
             ELSE IF s.current_state = "LAND" /\ observed.mode = AutoLandMode THEN stopped
             ELSE manual EXCEPT !.previous_mode = observed.mode]
      BY DEF FollowMode, InOffboard, stopped, manual
    <2>. QED  BY <2>1
  <1>4. u \in Fsms /\ observed.mode \in Modes
    BY <1>1, <1>2, <1>3 DEF Vehicles
  <1>5. /\ FollowMode(s).current_state = u.current_state
        /\ Steady(u, FollowMode(s))
    BY <1>3, <1>4 DEF Steady, Fsms
  <1>. QED
    BY <1>1, <1>2, <1>3, <1>5 DEF Steady, Stopped

\* The navigation failsafe: nothing, a hover for a mission, or a landing.
LEMMA NavigationFailsafeMakes ==
    ASSUME NEW s \in Fsms, NEW healthy \in BOOLEAN
    PROVE  LET t == NavigationFailsafe(s, healthy) IN
             \/ t.current_state = s.current_state /\ SteadyBut(s, t)
             \/ /\ Stopped(s, t) /\ t.cmd = NoCommand
                /\ s.current_state \in InFlight /\ observed.armed
                /\ t.current_state \in {"HOVER", "LAND"}
                /\ t.current_state = "HOVER" => s.current_state \in {"TAKEOFF", "MISSION"}
  <1> DEFINE hover == Enter(InvalidateCmd(StopMission(s)), "HOVER")
             land == Enter(InvalidateCmd(StopMission(s)), "LAND")
             t == NavigationFailsafe(s, healthy)
  <1>1. /\ hover \in Fsms /\ Stopped(s, hover) /\ hover.cmd = NoCommand
        /\ hover.current_state = "HOVER"
        /\ land \in Fsms /\ Stopped(s, land) /\ land.cmd = NoCommand
        /\ land.current_state = "LAND"
    BY ComposedFields DEF States
  <1>. HIDE DEF hover, land
  <1>2. \/ t = s \/ t = [s EXCEPT !.unhealthy = "zero"] \/ t = [s EXCEPT !.unhealthy = "Grace"]
        \/ /\ observed.armed /\ s.current_state \in InFlight
           /\ \/ t = hover /\ s.current_state # "HOVER"
              \/ t = [land EXCEPT !.land_gate = ResetGate]
    BY DEF NavigationFailsafe, hover, land, InFlight, Fsms, States
  <1>. HIDE DEF t
  <1>3. CASE t = s \/ t = [s EXCEPT !.unhealthy = "zero"] \/ t = [s EXCEPT !.unhealthy = "Grace"]
    BY <1>3 DEF SteadyBut, Steady, Fsms, t
  <1>4. CASE observed.armed /\ s.current_state \in InFlight /\ t = hover /\ s.current_state # "HOVER"
    BY <1>1, <1>4 DEF InFlight, t
  <1>5. CASE /\ observed.armed /\ s.current_state \in InFlight
             /\ t = [land EXCEPT !.land_gate = ResetGate]
    <2>1. t.current_state = "LAND" /\ Stopped(s, t) /\ t.cmd = NoCommand
      BY <1>1, <1>5 DEF Stopped, Fsms
    <2>. QED
      BY <1>5, <2>1 DEF t
  <1>. QED
    BY <1>2, <1>3, <1>4, <1>5

\* The landing trigger: nothing, or a landing that drops the mission.
LEMMA LandTriggerMakes ==
    ASSUME NEW s \in Fsms, NEW still \in BOOLEAN
    PROVE  LET t == LandTrigger(s, still) IN
             \/ t.current_state = s.current_state /\ Steady(s, t)
             \/ /\ Stopped(s, t) /\ t.cmd = NoCommand
                /\ s.current_state \in {"HOVER", "MISSION"} /\ t.current_state = "LAND"
  <1> DEFINE land == Enter(InvalidateCmd(StopMission(s)), "LAND")
             gate == [land EXCEPT !.land_gate = ResetGate]
             t == LandTrigger(s, still)
  <1>1. land \in Fsms /\ Stopped(s, land) /\ land.cmd = NoCommand /\ land.current_state = "LAND"
    BY ComposedFields DEF States
  <1>2. gate \in Fsms /\ Stopped(s, gate) /\ gate.cmd = NoCommand /\ gate.current_state = "LAND"
    <2>. HIDE DEF land
    <2>1. ResetGate \in Gates
      BY DEF ResetGate, Gates
    <2>. QED
      BY <1>1, <2>1 DEF Stopped, Fsms
  <1>3. PICK u \in {s, gate} :
            /\ t = u \/ t = [u EXCEPT !.land_trigger = FALSE]
            /\ u = s \/ s.current_state \in {"HOVER", "MISSION"}
    BY DEF LandTrigger
  <1>. HIDE DEF gate
  <1>4. t.current_state = u.current_state /\ Steady(u, t)
    <2>. HIDE DEF t
    <2>. QED  BY <1>2, <1>3 DEF Steady, Fsms
  <1>. QED
    BY <1>2, <1>3, <1>4 DEF Steady, Stopped

\* What the switch works on: the record the tick began with; or a flight that
\* has been ended, by one or two of the parts; or a hover that the navigation
\* failsafe has made of a takeoff or of a mission.
PreparedMakes(s) ==
    \/ s.current_state = fsm.current_state /\ SteadyBut(fsm, s)
    \/ /\ s.current_state \in {"MANUAL", "LAND"}
       /\ s.current_state = "MANUAL" => ~InOffboard
       /\ s.expected_id = 0 /\ s.pending = "none" /\ s.cmd \in {fsm.cmd, NoCommand}
       /\ s.generation = fsm.generation /\ s.delay = fsm.delay
       /\ s.published \in {<<Cancel>>, <<Cancel, Cancel>>}
    \/ /\ fsm.current_state \in {"TAKEOFF", "MISSION"} /\ s.current_state = "HOVER"
       /\ InOffboard /\ observed.armed
       /\ s.expected_id = 0 /\ s.pending = "none" /\ s.cmd = NoCommand
       /\ s.generation = fsm.generation /\ s.delay = fsm.delay
       /\ s.published = <<Cancel>>

\* A tuple of two messages, one after the other.
LEMMA TwoMessages ==
    ASSUME NEW S, NEW a \in S, NEW b \in S
    PROVE  Append(<<>>, a) = <<a>> /\ Append(<<a>>, b) = <<a, b>>
  <1>1. /\ <<a>> \in Seq(S) /\ Append(<<>>, a) \in Seq(S)
        /\ <<a, b>> \in Seq(S) /\ Append(<<a>>, b) \in Seq(S)
    OBVIOUS
  <1>2. /\ Len(<<a>>) = 1 /\ Len(Append(<<>>, a)) = 1 /\ <<a>>[1] = Append(<<>>, a)[1]
        /\ Len(<<a, b>>) = 2 /\ Len(Append(<<a>>, b)) = 2
        /\ <<a, b>>[1] = Append(<<a>>, b)[1] /\ <<a, b>>[2] = Append(<<a>>, b)[2]
    OBVIOUS
  <1>3. Append(<<>>, a) = <<a>>
    BY <1>1, <1>2, SeqEqual
  <1>4. \A i \in 1 .. 2 : <<a, b>>[i] = Append(<<a>>, b)[i]
    BY <1>2
  <1>5. Append(<<a>>, b) = <<a, b>>
    BY <1>1, <1>2, <1>4, SeqEqual
  <1>. QED  BY <1>3, <1>5

\* The parts of a tick before the switch: left alone, ended or aborted.
LEMMA PreparedResult ==
    ASSUME IInv, step = "landTaken", ~fsm.failsafe, NEW healthy \in BOOLEAN, NEW still \in BOOLEAN
    PROVE  PreparedMakes(Prepared(healthy, still))
  <1> DEFINE s1 == FollowMode(fsm)
             s2 == NavigationFailsafe(s1, healthy)
             s3 == LandTrigger(s2, still)
  <1>0. /\ FsmTypeOK /\ fsm \in Fsms /\ Consistent(fsm) /\ observed \in Vehicles
        /\ fsm.published = <<>> /\ Prepared(healthy, still) = s3
    BY DEF IInv, FsmTypeOK, Prepared
  <1>1. /\ s1 \in Fsms /\ Underway(s1)
        /\ \/ s1.current_state = fsm.current_state /\ Steady(fsm, s1)
           \/ /\ Stopped(fsm, s1) /\ s1.cmd = fsm.cmd
              /\ s1.current_state \in {"MANUAL", "LAND"} /\ ~InOffboard
    BY <1>0, FollowModeKeeps, FollowModeMakes DEF Underway
  <1>. HIDE DEF s1
  <1>2. /\ s2 \in Fsms /\ Underway(s2)
        /\ \/ s2.current_state = s1.current_state /\ SteadyBut(s1, s2)
           \/ /\ Stopped(s1, s2) /\ s2.cmd = NoCommand
              /\ s1.current_state \in InFlight /\ observed.armed
              /\ s2.current_state \in {"HOVER", "LAND"}
              /\ s2.current_state = "HOVER" => s1.current_state \in {"TAKEOFF", "MISSION"}
    BY <1>0, <1>1, NavigationFailsafeKeeps, NavigationFailsafeMakes DEF Underway
  <1>. HIDE DEF s2
  <1>3. /\ s3 \in Fsms
        /\ \/ s3.current_state = s2.current_state /\ Steady(s2, s3)
           \/ /\ Stopped(s2, s3) /\ s3.cmd = NoCommand
              /\ s2.current_state \in {"HOVER", "MISSION"} /\ s3.current_state = "LAND"
    BY <1>0, <1>2, LandTriggerKeeps, LandTriggerMakes DEF Underway
  <1>. HIDE DEF s3
  <1>4. Append(<<>>, Cancel) = <<Cancel>> /\ Append(<<Cancel>>, Cancel) = <<Cancel, Cancel>>
    BY TwoMessages
  <1>5. CASE s1.current_state = fsm.current_state /\ Steady(fsm, s1)
    <2>1. CASE s2.current_state = s1.current_state /\ SteadyBut(s1, s2)
      <3>1. s2.current_state = fsm.current_state /\ SteadyBut(fsm, s2)
        BY <1>0, <1>1, <1>5, <2>1 DEF SteadyBut, Steady, Fsms
      <3>2. CASE s3.current_state = s2.current_state /\ Steady(s2, s3)
        BY <1>0, <3>1, <3>2 DEF SteadyBut, Steady, Fsms, PreparedMakes
      <3>3. CASE /\ Stopped(s2, s3) /\ s3.cmd = NoCommand
                 /\ s2.current_state \in {"HOVER", "MISSION"} /\ s3.current_state = "LAND"
        <4>1. s2.published = <<>> /\ s2.generation = fsm.generation /\ s2.delay = fsm.delay
          BY <1>0, <3>1 DEF SteadyBut, Steady, Fsms
        <4>. QED
          BY <1>0, <1>4, <3>3, <4>1 DEF Stopped, PreparedMakes
      <3>. QED  BY <1>3, <3>2, <3>3
    <2>2. CASE /\ Stopped(s1, s2) /\ s2.cmd = NoCommand
               /\ s1.current_state \in InFlight /\ observed.armed
               /\ s2.current_state \in {"HOVER", "LAND"}
               /\ s2.current_state = "HOVER" => s1.current_state \in {"TAKEOFF", "MISSION"}
      <3>1. InOffboard
        BY <1>1, <2>2 DEF Underway
      <3>2. /\ s2.expected_id = 0 /\ s2.pending = "none"
            /\ s2.generation = fsm.generation /\ s2.delay = fsm.delay
            /\ s2.published = <<Cancel>>
        BY <1>0, <1>4, <1>5, <2>2 DEF Stopped, Steady
      <3>3. CASE s3.current_state = s2.current_state /\ Steady(s2, s3)
        BY <1>0, <1>5, <2>2, <3>1, <3>2, <3>3 DEF Steady, PreparedMakes
      <3>4. CASE /\ Stopped(s2, s3) /\ s3.cmd = NoCommand
                 /\ s2.current_state \in {"HOVER", "MISSION"} /\ s3.current_state = "LAND"
        BY <1>0, <1>4, <3>2, <3>4 DEF Stopped, PreparedMakes
      <3>. QED  BY <1>3, <3>3, <3>4
    <2>. QED  BY <1>2, <2>1, <2>2
  <1>6. CASE /\ Stopped(fsm, s1) /\ s1.cmd = fsm.cmd
             /\ s1.current_state \in {"MANUAL", "LAND"} /\ ~InOffboard
    <2>1. s2.current_state = s1.current_state /\ SteadyBut(s1, s2)
      BY <1>2, <1>6 DEF InFlight
    <2>2. s3.current_state = s2.current_state /\ Steady(s2, s3)
      BY <1>3, <1>6, <2>1
    <2>. QED
      BY <1>0, <1>1, <1>4, <1>6, <2>1, <2>2
         DEF SteadyBut, Steady, Stopped, Fsms, PreparedMakes
  <1>. QED
    BY <1>0, <1>1, <1>5, <1>6

-----------------------------------------------------------------------------
(* The promise to the planner.                                             *)

\* The phase that the promise shows, state by state.
LEMMA Phases ==
    /\ fsm.current_state = "HOVER" <=> Phase = "hover"
    /\ fsm.current_state = "MISSION" <=> Phase = "mission"
    /\ fsm.current_state \notin {"HOVER", "MISSION"} <=> Phase = "away"
  BY ZenonT(30) DEF Phase

\* The same of the next state.
LEMMA PhasesNext ==
    /\ fsm'.current_state = "HOVER" <=> Phase' = "hover"
    /\ fsm'.current_state = "MISSION" <=> Phase' = "mission"
    /\ fsm'.current_state \notin {"HOVER", "MISSION"} <=> Phase' = "away"
  BY ZenonT(30) DEF Phase

\* What the state machine shows of itself.
Shown(phase, s) ==
    [phase |-> phase, expected_id |-> s.expected_id, generation |-> s.generation,
     pending |-> s.pending, cmd |-> s.cmd]

\* What the promise shows of the machine, field by field.
LEMMA ShownFields ==
    ASSUME NEW phase \in {"away", "hover", "mission"}, NEW s \in Fsms
    PROVE  LET m == Shown(phase, s)
           IN /\ m \in Promise!Machines
              /\ m.phase = phase /\ m.expected_id = s.expected_id
              /\ m.generation = s.generation /\ m.pending = s.pending /\ m.cmd = s.cmd
  BY DEF Shown, Fsms, Promise!Machines, Promise!Ids, Promise!Commands, Ids, Commands

\* A tick of the promise, from the one of its cases that happened.
LEMMA PromisedTick ==
    ASSUME NEW before, NEW after, NEW messages
    PROVE  Promise!Tick(before, after, messages)
             <=> /\ Phase = before /\ Shown(Phase, fsm)' = after /\ fsm'.published = messages
  BY Zenon DEF Promise!Tick, Shown

\* The machine of the promise after a tick, field by field.
LEMMA PromisedFields ==
    ASSUME fsm \in Fsms, fsm' \in Fsms
    PROVE  LET m == Shown(Phase, fsm)
               n == m'
           IN /\ m \in Promise!Machines /\ n \in Promise!Machines
              /\ m.phase = Phase /\ m.expected_id = fsm.expected_id
              /\ m.generation = fsm.generation /\ m.pending = fsm.pending /\ m.cmd = fsm.cmd
              /\ n.phase = Phase' /\ n.expected_id = fsm'.expected_id
              /\ n.generation = fsm'.generation /\ n.pending = fsm'.pending /\ n.cmd = fsm'.cmd
  <1>1. Phase \in {"away", "hover", "mission"} /\ Phase' \in {"away", "hover", "mission"}
    BY Phases, PhasesNext
  <1>2. Shown(Phase', fsm') = Shown(Phase, fsm)'
    BY DEF Shown
  <1>. QED  BY <1>1, <1>2, ShownFields

\* Where no mission can start, nothing but the trigger, the command and the
\* messages change.
LEMMA PromisedAway ==
    ASSUME fsm \in Fsms, fsm' \in Fsms,
           fsm.current_state \notin {"HOVER", "MISSION"},
           fsm'.expected_id = fsm.expected_id, fsm'.generation = fsm.generation,
           fsm'.pending \in {fsm.pending, "none"},
           fsm'.cmd \in Promise!Forgotten(fsm.cmd)
    PROVE  /\ /\ fsm'.current_state \notin {"HOVER", "MISSION"}
              /\ fsm'.published \in Promise!Cancels \cup {<<>>}
              => Promise!StaysAway
           /\ fsm'.current_state = "HOVER" /\ fsm'.published \in {<<>>, <<Cancel>>}
              => Promise!Arrives
  <1> DEFINE m == Shown(Phase, fsm)
             n == m'
  <1>1. Phase = "away"
    BY Phases
  <1>2. /\ m \in Promise!Machines /\ n \in Promise!Machines
        /\ m.phase = "away" /\ n.expected_id = m.expected_id /\ n.generation = m.generation
        /\ n.phase = Phase' /\ n.pending = fsm'.pending /\ n.cmd = fsm'.cmd
    BY <1>1, PromisedFields
  <1>3. ASSUME fsm'.current_state \notin {"HOVER", "MISSION"},
               fsm'.published \in Promise!Cancels \cup {<<>>}
        PROVE  Promise!StaysAway
    <2>1. Phase' = "away"
      BY <1>3, PhasesNext
    <2>2. n = [m EXCEPT !.pending = fsm'.pending, !.cmd = fsm'.cmd]
      <3>. HIDE DEF m, n
      <3>. QED  BY <1>2, <2>1 DEF Promise!Machines
    <2>3. Promise!Tick("away", [m EXCEPT !.pending = fsm'.pending, !.cmd = fsm'.cmd],
                       fsm'.published)
      BY <1>1, <2>2, PromisedTick
    <2>. QED
      BY <1>3, <2>3 DEF Promise!StaysAway, Shown
  <1>4. ASSUME fsm'.current_state = "HOVER", fsm'.published \in {<<>>, <<Cancel>>}
        PROVE  Promise!Arrives
    <2>1. Phase' = "hover"
      BY <1>4, PhasesNext
    <2>2. n = [m EXCEPT !.phase = "hover", !.pending = fsm'.pending, !.cmd = fsm'.cmd]
      <3>. HIDE DEF m, n
      <3>. QED  BY <1>2, <2>1 DEF Promise!Machines
    <2>3. Promise!Tick("away", [m EXCEPT !.phase = "hover", !.pending = fsm'.pending,
                                         !.cmd = fsm'.cmd],
                       fsm'.published)
      BY <1>1, <2>2, PromisedTick
    <2>. QED
      BY <1>4, <2>3 DEF Promise!Arrives, Shown, Promise!Cancel, Cancel
  <1>. QED
    BY <1>3, <1>4

\* The end of a flight.
LEMMA PromisedEnd ==
    ASSUME fsm \in Fsms, fsm' \in Fsms,
           fsm.current_state \in {"HOVER", "MISSION"},
           fsm'.current_state \notin {"HOVER", "MISSION"},
           fsm'.expected_id = 0, fsm'.generation = fsm.generation,
           fsm'.pending = "none", fsm'.cmd \in Promise!Forgotten(fsm.cmd),
           fsm'.published \in Promise!Cancels \cup {<<>>},
           fsm'.published = <<>> => fsm.expected_id = 0
    PROVE  Promise!Leaves
  <1> DEFINE m == Shown(Phase, fsm)
             n == m'
             after == [m EXCEPT !.phase = "away", !.expected_id = 0, !.pending = "none",
                                !.cmd = fsm'.cmd]
  <1>1. Phase \in {"hover", "mission"} /\ Phase' = "away"
    BY Phases, PhasesNext
  <1>2. n = after
    <2>1. /\ m \in Promise!Machines /\ n \in Promise!Machines
          /\ n.generation = m.generation /\ n.phase = "away" /\ n.expected_id = 0
          /\ n.pending = "none" /\ n.cmd = fsm'.cmd
      BY <1>1, PromisedFields
    <2>. HIDE DEF m, n
    <2>. QED  BY <2>1 DEF Promise!Machines
  <1>3. Promise!Tick(Phase, after, fsm'.published)
    BY <1>2, PromisedTick
  <1>. QED
    BY <1>1, <1>3 DEF Promise!Leaves, Shown

\* A hover goes on: nothing changes, the command is refused, or a handshake
\* is granted.
LEMMA PromisedHover ==
    ASSUME fsm \in Fsms, fsm' \in Fsms,
           fsm.current_state = "HOVER", fsm'.current_state = "HOVER"
    PROVE  /\ /\ fsm'.expected_id = fsm.expected_id /\ fsm'.generation = fsm.generation
              /\ fsm'.pending = fsm.pending /\ fsm'.cmd = fsm.cmd
              /\ fsm'.published = <<>>
              => Promise!Hovers
           /\ /\ CmdIsReceived(fsm)
              /\ fsm'.expected_id = 0 /\ fsm'.generation = fsm.generation
              /\ fsm'.pending = "none" /\ fsm'.cmd = NoCommand
              /\ fsm'.published = <<Cancel>>
              => Promise!Refuses
           /\ /\ fsm.expected_id = 0
              /\ fsm'.generation = NextGeneration(fsm.generation)
              /\ fsm'.expected_id = fsm'.generation
              /\ fsm'.pending = fsm.pending /\ fsm'.cmd = fsm.cmd
              /\ fsm'.published = <<fsm'.generation>>
              => Promise!Grants
  <1> DEFINE m == Shown(Phase, fsm)
             n == m'
  <1>1. Phase = "hover" /\ Phase' = "hover"
    BY Phases, PhasesNext
  <1>2. /\ m \in Promise!Machines /\ n \in Promise!Machines
        /\ m.phase = "hover" /\ n.phase = "hover"
        /\ m.expected_id = fsm.expected_id /\ m.generation = fsm.generation
        /\ m.pending = fsm.pending /\ m.cmd = fsm.cmd
        /\ n.expected_id = fsm'.expected_id /\ n.generation = fsm'.generation
        /\ n.pending = fsm'.pending /\ n.cmd = fsm'.cmd
    BY <1>1, PromisedFields
  <1>3. ASSUME fsm'.expected_id = fsm.expected_id, fsm'.generation = fsm.generation,
               fsm'.pending = fsm.pending, fsm'.cmd = fsm.cmd, fsm'.published = <<>>
        PROVE  Promise!Hovers
    BY <1>1, <1>3 DEF Promise!Hovers, Promise!Tick
  <1>4. ASSUME CmdIsReceived(fsm),
               fsm'.expected_id = 0, fsm'.generation = fsm.generation,
               fsm'.pending = "none", fsm'.cmd = NoCommand, fsm'.published = <<Cancel>>
        PROVE  Promise!Refuses
    <2>1. n = [m EXCEPT !.expected_id = 0, !.pending = "none", !.cmd = NoCommand]
      <3>. HIDE DEF m, n
      <3>1. /\ m \in Promise!Machines /\ n \in Promise!Machines
            /\ n.phase = m.phase /\ n.generation = m.generation
            /\ n.expected_id = 0 /\ n.pending = "none" /\ n.cmd = NoCommand
        BY <1>2, <1>4
      <3>. QED  BY <3>1 DEF Promise!Machines
    <2>2. Promise!Tick("hover", [m EXCEPT !.expected_id = 0, !.pending = "none",
                                          !.cmd = NoCommand], <<Cancel>>)
      BY <1>1, <1>4, <2>1, PromisedTick
    <2>3. Promise!Matches
      BY <1>4 DEF CmdIsReceived, Promise!Matches
    <2>. QED
      BY <2>2, <2>3 DEF Promise!Refuses, Shown, Promise!Cancel, Cancel,
                        Promise!NoCommand, NoCommand
  <1>5. ASSUME fsm.expected_id = 0,
               fsm'.generation = NextGeneration(fsm.generation),
               fsm'.expected_id = fsm'.generation,
               fsm'.pending = fsm.pending, fsm'.cmd = fsm.cmd,
               fsm'.published = <<fsm'.generation>>
        PROVE  Promise!Grants
    <2> DEFINE id == NextGeneration(fsm.generation)
               after == [m EXCEPT !.phase = "hover", !.generation = id, !.expected_id = id]
    <2>1. n = after /\ after.generation = id
      <3>. HIDE DEF m, n, id
      <3>1. fsm'.generation = id /\ id \in Promise!Ids \ {0}
        BY <1>2, <1>5 DEF id, Promise!Machines
      <3>2. /\ m \in Promise!Machines /\ n \in Promise!Machines
            /\ n.phase = "hover" /\ n.generation = id /\ n.expected_id = id
            /\ n.pending = m.pending /\ n.cmd = m.cmd
        BY <1>2, <1>5, <3>1
      <3>. QED  BY <3>1, <3>2 DEF Promise!Machines
    <2>2. Promise!Granted(m) = after
      BY DEF Promise!Granted, NextGeneration, Shown
    <2>3. Promise!Tick("hover", Promise!Granted(m), <<Promise!Granted(m).generation>>)
      <3>. HIDE DEF m, n, id, after
      <3>1. Shown(Phase, fsm)' = Promise!Granted(m)
        BY <2>1, <2>2 DEF n, m
      <3>. QED  BY <1>1, <1>5, <2>1, <2>2, <3>1, PromisedTick DEF id
    <2>. QED
      BY <1>5, <2>3 DEF Promise!Grants, Shown
  <1>. QED
    BY <1>3, <1>4, <1>5

\* A takeoff that the navigation failsafe turns into a hover may be granted a
\* handshake at once.
LEMMA PromisedGrant ==
    ASSUME fsm \in Fsms, fsm' \in Fsms,
           fsm.current_state = "TAKEOFF", fsm'.current_state = "HOVER",
           fsm'.generation = NextGeneration(fsm.generation),
           fsm'.expected_id = fsm'.generation,
           fsm'.pending = "none", fsm'.cmd = NoCommand,
           fsm'.published = <<Cancel, fsm'.generation>>
    PROVE  Promise!ArrivesGranting
  <1> DEFINE m == Shown(Phase, fsm)
             n == m'
             k == [m EXCEPT !.pending = "none", !.cmd = NoCommand]
             id == NextGeneration(fsm.generation)
             after == [k EXCEPT !.phase = "hover", !.generation = id, !.expected_id = id]
  <1>1. Phase = "away" /\ Phase' = "hover"
    BY Phases, PhasesNext
  <1>2. /\ m \in Promise!Machines /\ n \in Promise!Machines
        /\ n.phase = "hover" /\ n.generation = id /\ n.expected_id = id
        /\ n.pending = "none" /\ n.cmd = NoCommand /\ m.generation = fsm.generation
    BY <1>1, PromisedFields
  <1>3. k \in Promise!Machines /\ k.pending = "none" /\ k.cmd = NoCommand
        /\ k.generation = m.generation
    <2>. HIDE DEF m, n
    <2>. QED  BY <1>2 DEF Promise!Machines
  <1>4. n = after
    <2>1. id \in Promise!Ids \ {0}
      <3>. HIDE DEF m, n, id
      <3>. QED  BY <1>2 DEF Promise!Machines
    <2>. HIDE DEF m, n, k, id
    <2>. QED  BY <1>2, <1>3, <2>1 DEF Promise!Machines
  <1>5. Promise!Granted(k) = after /\ Promise!Granted(m).generation = id
    <2>1. id = IF m.generation = MaxId THEN 1 ELSE m.generation + 1
      <3>. HIDE DEF m
      <3>. QED  BY <1>2 DEF NextGeneration
    <2>2. Promise!Granted(k) = after
      <3>. HIDE DEF m, k, id
      <3>. QED  BY <1>3, <2>1 DEF Promise!Granted
    <2>3. Promise!Granted(m).generation = id
      <3>. HIDE DEF m, n, id
      <3>. QED  BY <1>2, <2>1 DEF Promise!Granted, Promise!Machines
    <2>. QED  BY <2>2, <2>3
  <1>6. Promise!Tick("away", Promise!Granted(k), <<Cancel, Promise!Granted(m).generation>>)
    <2>1. Shown(Phase, fsm)' = Promise!Granted(k) /\ fsm'.generation = id
      BY <1>4, <1>5
    <2>. HIDE DEF m, n, k, id, after
    <2>. QED  BY <1>1, <1>5, <2>1, PromisedTick
  <1>. QED
    BY Zenon, <1>6 DEF Promise!ArrivesGranting, Shown, Promise!Cancel, Cancel,
                       Promise!NoCommand, NoCommand

\* A mission begins, goes on, is interrupted or aborted.
LEMMA PromisedMission ==
    ASSUME fsm \in Fsms, fsm' \in Fsms, fsm'.generation = fsm.generation
    PROVE  /\ /\ fsm.current_state = "HOVER" /\ fsm'.current_state = "MISSION"
              /\ CmdIsReceived(fsm) /\ fsm.pending = "fresh" /\ fsm'.pending = "none"
              /\ fsm'.expected_id = fsm.expected_id /\ fsm'.cmd = fsm.cmd
              /\ fsm'.published = <<>>
              => Promise!Accepts
           /\ /\ fsm.current_state = "MISSION" /\ fsm'.current_state = "MISSION"
              /\ CmdIsReceived(fsm) /\ fsm'.pending = fsm.pending
              /\ fsm'.expected_id = fsm.expected_id /\ fsm'.cmd = fsm.cmd
              /\ fsm'.published = <<>>
              => Promise!Flies
           /\ /\ fsm.current_state = "MISSION" /\ fsm'.current_state = "HOVER"
              /\ ~CmdIsReceived(fsm) /\ fsm'.pending = fsm.pending
              /\ fsm'.expected_id = fsm.expected_id /\ fsm'.cmd = fsm.cmd
              /\ fsm'.published = <<>>
              => Promise!Pauses
           /\ /\ fsm.current_state = "MISSION" /\ fsm'.current_state = "HOVER"
              /\ fsm'.expected_id = 0 /\ fsm'.pending = "none" /\ fsm'.cmd = NoCommand
              /\ fsm'.published = <<Cancel>>
              => Promise!Aborts
  <1> DEFINE m == Shown(Phase, fsm)
             n == m'
  <1>1. /\ m \in Promise!Machines /\ n \in Promise!Machines
        /\ m.phase = Phase /\ n.phase = Phase' /\ n.generation = m.generation
        /\ m.expected_id = fsm.expected_id /\ m.pending = fsm.pending /\ m.cmd = fsm.cmd
        /\ n.expected_id = fsm'.expected_id /\ n.pending = fsm'.pending /\ n.cmd = fsm'.cmd
    BY PromisedFields
  <1>2. CmdIsReceived(fsm) <=> Promise!Matches
    BY DEF CmdIsReceived, Promise!Matches
  <1>3. ASSUME fsm.current_state = "HOVER", fsm'.current_state = "MISSION",
               CmdIsReceived(fsm), fsm.pending = "fresh", fsm'.pending = "none",
               fsm'.expected_id = fsm.expected_id, fsm'.cmd = fsm.cmd, fsm'.published = <<>>
        PROVE  Promise!Accepts
    <2>1. Phase = "hover" /\ Phase' = "mission"
      BY <1>3, Phases, PhasesNext
    <2>2. n = [m EXCEPT !.phase = "mission", !.pending = "none"]
      <3>. HIDE DEF m, n
      <3>1. /\ n.phase = "mission" /\ n.pending = "none" /\ n.cmd = m.cmd
            /\ n.expected_id = m.expected_id
        BY <1>1, <1>3, <2>1
      <3>. QED  BY <1>1, <3>1 DEF Promise!Machines
    <2>3. Promise!Tick("hover", [m EXCEPT !.phase = "mission", !.pending = "none"], <<>>)
      BY <1>3, <2>1, <2>2, PromisedTick
    <2>. QED
      BY <1>2, <1>3, <2>3 DEF Promise!Accepts, Shown
  <1>4. ASSUME fsm.current_state = "MISSION", fsm'.current_state = "MISSION",
               CmdIsReceived(fsm), fsm'.pending = fsm.pending,
               fsm'.expected_id = fsm.expected_id, fsm'.cmd = fsm.cmd, fsm'.published = <<>>
        PROVE  Promise!Flies
    <2>1. Phase = "mission" /\ Phase' = "mission"
      BY <1>4, Phases, PhasesNext
    <2>. QED
      BY <1>2, <1>4, <2>1 DEF Promise!Flies, Promise!Tick
  <1>5. ASSUME fsm.current_state = "MISSION", fsm'.current_state = "HOVER",
               ~CmdIsReceived(fsm), fsm'.pending = fsm.pending,
               fsm'.expected_id = fsm.expected_id, fsm'.cmd = fsm.cmd, fsm'.published = <<>>
        PROVE  Promise!Pauses
    <2>1. Phase = "mission" /\ Phase' = "hover"
      BY <1>5, Phases, PhasesNext
    <2>2. n = [m EXCEPT !.phase = "hover"]
      <3>. HIDE DEF m, n
      <3>1. /\ n.phase = "hover" /\ n.pending = m.pending /\ n.cmd = m.cmd
            /\ n.expected_id = m.expected_id
        BY <1>1, <1>5, <2>1
      <3>. QED  BY <1>1, <3>1 DEF Promise!Machines
    <2>3. Promise!Tick("mission", [m EXCEPT !.phase = "hover"], <<>>)
      BY <1>5, <2>1, <2>2, PromisedTick
    <2>. QED
      BY <1>2, <1>5, <2>3 DEF Promise!Pauses, Shown
  <1>6. ASSUME fsm.current_state = "MISSION", fsm'.current_state = "HOVER",
               fsm'.expected_id = 0, fsm'.pending = "none", fsm'.cmd = NoCommand,
               fsm'.published = <<Cancel>>
        PROVE  Promise!Aborts
    <2> DEFINE after == [m EXCEPT !.phase = "hover", !.expected_id = 0, !.pending = "none",
                                  !.cmd = NoCommand]
    <2>1. Phase = "mission" /\ Phase' = "hover"
      BY <1>6, Phases, PhasesNext
    <2>2. n = after
      <3>. HIDE DEF m, n
      <3>1. /\ n.phase = "hover" /\ n.pending = "none" /\ n.cmd = NoCommand
            /\ n.expected_id = 0
        BY <1>1, <1>6, <2>1
      <3>. QED  BY <1>1, <3>1 DEF Promise!Machines
    <2>3. Promise!Tick("mission", after, <<Cancel>>)
      BY <1>6, <2>1, <2>2, PromisedTick
    <2>. QED
      BY <2>3 DEF Promise!Aborts, Shown, Promise!Cancel, Cancel, Promise!NoCommand, NoCommand
  <1>. QED
    BY <1>3, <1>4, <1>5, <1>6

\* While a handshake is in force no other one falls due, so no handshake ever
\* replaces another; and a mission flies under one.
HandshakeDue ==
    /\ fsm.expected_id # 0 => fsm.delay = "off"
    /\ fsm.current_state = "MISSION" => fsm.expected_id # 0

\* What the promise asks of a tick, and what the next one needs.
Keeps == Promise!Ticks /\ HandshakeDue'

\* The commands that a tick may leave.
LEMMA ForgottenCommands ==
    ASSUME NEW cmd \in Commands
    PROVE  /\ Promise!Forgotten(cmd) = {cmd, [cmd EXCEPT !.stamp = "zero"], NoCommand}
           /\ [NoCommand EXCEPT !.stamp = "zero"] = NoCommand
  BY DEF Promise!Forgotten, Promise!NoCommand, NoCommand

\* The switch after a record that the parts before it have left alone.
LEMMA SteadyKeeps ==
    ASSUME IInv, HandshakeDue, fsm' \in Fsms, NEW s \in Fsms, NEW healthy \in BOOLEAN,
           fsm.published = <<>>, s.current_state = fsm.current_state, SteadyBut(fsm, s),
           SwitchMakes(s, healthy, fsm')
    PROVE  Keeps
  <1>1. /\ fsm \in Fsms /\ s.current_state = fsm.current_state
        /\ s.expected_id = fsm.expected_id /\ s.generation = fsm.generation
        /\ s.pending = fsm.pending /\ s.cmd = fsm.cmd /\ s.delay = fsm.delay
        /\ s.published = <<>>
    BY DEF IInv, FsmTypeOK, SteadyBut, Steady, Fsms
  <1>2. fsm.current_state \notin {"HOVER", "MISSION"} => fsm.expected_id = 0
    BY DEF IInv, Consistent, MissionKept
  <1>3. CmdIsReceived(s) <=> CmdIsReceived(fsm)
    BY <1>1 DEF CmdIsReceived
  <1>4. /\ Append(<<>>, Cancel) = <<Cancel>>
        /\ \A id \in Ids : Append(<<>>, id) = <<id>>
    BY TwoMessages, MaxIdAssumption DEF Cancel, Ids
  <1>5. fsm.cmd \in Commands
    BY <1>1 DEF Fsms
  <1>6. CASE s.current_state = "MANUAL" /\ ManualMakes(s, fsm')
    <2>1. /\ fsm'.current_state \in {"MANUAL", "TAKEOFF", "HOVER"}
          /\ fsm'.expected_id = 0 /\ fsm'.generation = fsm.generation
          /\ fsm'.pending = fsm.pending /\ fsm'.published = <<>>
          /\ fsm'.cmd \in {fsm.cmd, [fsm.cmd EXCEPT !.stamp = "zero"]}
      BY <1>1, <1>2, <1>6 DEF ManualMakes, Steady, Fsms
    <2>2. Promise!StaysAway \/ Promise!Arrives
      BY <1>1, <1>2, <1>5, <1>6, <2>1, ForgottenCommands, PromisedAway
    <2>. QED  BY <2>1, <2>2 DEF Keeps, HandshakeDue, Promise!Ticks
  <1>7. CASE s.current_state = "TAKEOFF" /\ TakeoffMakes(s, fsm')
    <2>1. /\ fsm'.current_state \in {"MANUAL", "TAKEOFF", "HOVER"}
          /\ fsm'.expected_id = 0 /\ fsm'.generation = fsm.generation
          /\ fsm'.pending \in {fsm.pending, "none"} /\ fsm'.cmd = fsm.cmd
          /\ fsm'.published \in {<<>>, <<Cancel>>}
      <3>1. CASE fsm'.current_state \in {"MANUAL", "HOVER"} /\ Stopped(s, fsm') /\ fsm'.cmd = s.cmd
        BY <1>1, <1>4, <3>1 DEF Stopped
      <3>2. CASE fsm'.current_state = "TAKEOFF" /\ Steady(s, fsm')
        BY <1>1, <1>2, <1>7, <3>2 DEF Steady
      <3>3. CASE fsm'.current_state = "HOVER" /\ Steady([s EXCEPT !.delay = "waiting"], fsm')
        BY <1>1, <1>2, <1>7, <3>3 DEF Steady, Fsms
      <3>. QED  BY <1>7, <3>1, <3>2, <3>3 DEF TakeoffMakes
    <2>2. Promise!StaysAway \/ Promise!Arrives
      BY <1>1, <1>2, <1>5, <1>7, <2>1, ForgottenCommands, PromisedAway
         DEF Promise!Cancels, Promise!Cancel, Cancel
    <2>. QED  BY <2>1, <2>2 DEF Keeps, HandshakeDue, Promise!Ticks
  <1>8. CASE s.current_state = "HOVER" /\ HoverMakes(s, healthy, fsm')
    <2>1. CASE fsm'.current_state = "MANUAL" /\ Stopped(s, fsm') /\ fsm'.cmd = s.cmd
      <3>1. Promise!Leaves
        BY <1>1, <1>4, <1>5, <1>8, <2>1, ForgottenCommands, PromisedEnd
           DEF Stopped, Promise!Cancels, Promise!Cancel, Cancel
      <3>. QED  BY <2>1, <3>1 DEF Keeps, HandshakeDue, Promise!Ticks, Stopped
    <2>2. CASE /\ CmdIsReceived(s)
               /\ fsm'.current_state = "HOVER" /\ Stopped(s, fsm') /\ fsm'.cmd = NoCommand
      <3>1. Promise!Refuses
        BY <1>1, <1>3, <1>4, <1>8, <2>2, PromisedHover DEF Stopped
      <3>. QED  BY <2>2, <3>1 DEF Keeps, HandshakeDue, Promise!Ticks, Stopped
    <2>3. CASE /\ CmdIsReceived(s) /\ s.pending = "fresh"
               /\ fsm'.current_state = "MISSION" /\ Steady([s EXCEPT !.pending = "none"], fsm')
      <3>1. /\ fsm'.expected_id = fsm.expected_id /\ fsm'.generation = fsm.generation
            /\ fsm'.pending = "none" /\ fsm'.cmd = fsm.cmd /\ fsm'.published = <<>>
            /\ fsm'.delay = fsm.delay
        BY <1>1, <2>3 DEF Steady, Fsms
      <3>2. Promise!Accepts
        BY <1>1, <1>3, <1>8, <2>3, <3>1, PromisedMission
      <3>. QED
        BY <1>1, <2>3, <3>1, <3>2 DEF Keeps, HandshakeDue, Promise!Ticks, CmdIsReceived
    <2>4. CASE s.delay = "due" /\ fsm'.current_state = "HOVER" /\ Asked(s, fsm')
      <3>1. fsm.expected_id = 0
        BY <1>1, <2>4 DEF HandshakeDue
      <3>2. fsm'.published = <<fsm'.generation>>
        BY <1>1, <1>4, <2>4 DEF Asked, Fsms
      <3>3. Promise!Grants
        BY <1>1, <1>8, <2>4, <3>1, <3>2, PromisedHover DEF Asked
      <3>. QED  BY <2>4, <3>3 DEF Keeps, HandshakeDue, Promise!Ticks, Asked
    <2>5. CASE fsm'.current_state = "HOVER" /\ Steady(s, fsm')
      <3>1. Promise!Hovers
        BY <1>1, <1>8, <2>5, PromisedHover DEF Steady
      <3>. QED  BY <1>1, <2>5, <3>1 DEF Keeps, HandshakeDue, Promise!Ticks, Steady
    <2>. QED  BY <1>8, <2>1, <2>2, <2>3, <2>4, <2>5 DEF HoverMakes
  <1>9. CASE s.current_state = "MISSION" /\ MissionMakes(s, fsm')
    <2>1. CASE fsm'.current_state = "MANUAL" /\ Stopped(s, fsm')
               /\ fsm'.cmd \in {s.cmd, NoCommand}
      <3>1. Promise!Leaves
        BY <1>1, <1>4, <1>5, <1>9, <2>1, ForgottenCommands, PromisedEnd
           DEF Stopped, Promise!Cancels, Promise!Cancel, Cancel
      <3>. QED  BY <2>1, <3>1 DEF Keeps, HandshakeDue, Promise!Ticks, Stopped
    <2>2. CASE ~CmdIsReceived(s) /\ fsm'.current_state = "HOVER" /\ Steady(s, fsm')
      <3>1. Promise!Pauses
        BY <1>1, <1>3, <1>9, <2>2, PromisedMission DEF Steady
      <3>. QED  BY <1>1, <2>2, <3>1 DEF Keeps, HandshakeDue, Promise!Ticks, Steady
    <2>3. CASE CmdIsReceived(s) /\ fsm'.current_state = "MISSION" /\ Steady(s, fsm')
      <3>1. Promise!Flies
        BY <1>1, <1>3, <1>9, <2>3, PromisedMission DEF Steady
      <3>. QED
        BY <1>1, <2>3, <3>1 DEF Keeps, HandshakeDue, Promise!Ticks, Steady, CmdIsReceived
    <2>. QED  BY <1>9, <2>1, <2>2, <2>3 DEF MissionMakes
  <1>10. CASE s.current_state = "LAND" /\ LandMakes(s, fsm')
    <2>1. Promise!StaysAway
      BY <1>1, <1>2, <1>5, <1>10, ForgottenCommands, PromisedAway DEF LandMakes, Steady
    <2>. QED
      BY <1>1, <1>2, <1>10, <2>1 DEF Keeps, HandshakeDue, Promise!Ticks, LandMakes, Steady
  <1>. QED
    BY <1>6, <1>7, <1>8, <1>9, <1>10 DEF SwitchMakes

\* The switch after a flight that one of the parts before it has ended.
LEMMA EndedKeeps ==
    ASSUME IInv, HandshakeDue, fsm' \in Fsms, NEW s \in Fsms, NEW healthy \in BOOLEAN,
           s.current_state \in {"MANUAL", "LAND"},
           s.current_state = "MANUAL" => ~InOffboard,
           s.expected_id = 0, s.pending = "none", s.cmd \in {fsm.cmd, NoCommand},
           s.generation = fsm.generation, s.delay = fsm.delay,
           s.published \in {<<Cancel>>, <<Cancel, Cancel>>},
           SwitchMakes(s, healthy, fsm')
    PROVE  Keeps
  <1>1. fsm \in Fsms /\ fsm.cmd \in Commands
    BY DEF IInv, FsmTypeOK, Fsms
  <1>2. fsm.current_state \notin {"HOVER", "MISSION"} => fsm.expected_id = 0
    BY DEF IInv, Consistent, MissionKept
  <1>3. /\ fsm'.current_state \in {"MANUAL", "LAND"}
        /\ fsm'.expected_id = 0 /\ fsm'.generation = fsm.generation /\ fsm'.pending = "none"
        /\ fsm'.cmd \in {fsm.cmd, [fsm.cmd EXCEPT !.stamp = "zero"], NoCommand}
        /\ fsm'.published \in {<<Cancel>>, <<Cancel, Cancel>>}
    <2>1. CASE s.current_state = "MANUAL" /\ ManualMakes(s, fsm')
      <3>1. fsm'.current_state = "MANUAL" /\ fsm'.cmd \in {s.cmd, [s.cmd EXCEPT !.stamp = "zero"]}
            /\ fsm'.expected_id = 0 /\ fsm'.generation = fsm.generation /\ fsm'.pending = "none"
            /\ fsm'.published = s.published
        BY <2>1 DEF ManualMakes, Steady, Fsms
      <3>. QED  BY <1>1, <3>1, ForgottenCommands
    <2>2. CASE s.current_state = "LAND" /\ LandMakes(s, fsm')
      BY <2>2 DEF LandMakes, Steady
    <2>. QED
      BY <2>1, <2>2 DEF SwitchMakes
  <1>4. CASE fsm.current_state \in {"HOVER", "MISSION"}
    <2>1. Promise!Leaves
      BY <1>1, <1>3, <1>4, ForgottenCommands, PromisedEnd
         DEF Promise!Cancels, Promise!Cancel, Cancel
    <2>. QED  BY <1>3, <2>1 DEF Keeps, HandshakeDue, Promise!Ticks
  <1>5. CASE fsm.current_state \notin {"HOVER", "MISSION"}
    <2>1. Promise!StaysAway
      BY <1>1, <1>2, <1>3, <1>5, ForgottenCommands, PromisedAway
         DEF Promise!Cancels, Promise!Cancel, Cancel
    <2>. QED  BY <1>3, <2>1 DEF Keeps, HandshakeDue, Promise!Ticks
  <1>. QED
    BY <1>4, <1>5

\* The switch after a takeoff or a mission that the navigation failsafe has
\* turned into a hover.
LEMMA AbortedKeeps ==
    ASSUME IInv, HandshakeDue, fsm' \in Fsms, NEW s \in Fsms, NEW healthy \in BOOLEAN,
           fsm.current_state \in {"TAKEOFF", "MISSION"}, s.current_state = "HOVER",
           InOffboard, observed.armed,
           s.expected_id = 0, s.pending = "none", s.cmd = NoCommand,
           s.generation = fsm.generation, s.delay = fsm.delay, s.published = <<Cancel>>,
           SwitchMakes(s, healthy, fsm')
    PROVE  Keeps
  <1>1. fsm \in Fsms /\ fsm.cmd \in Commands /\ fsm.generation \in Ids \ {0}
    BY DEF IInv, FsmTypeOK, Fsms
  <1>2. fsm.current_state = "TAKEOFF" => fsm.expected_id = 0
    BY DEF IInv, Consistent, MissionKept
  <1>3. /\ fsm'.current_state = "HOVER"
        /\ (s.delay = "due" /\ Asked(s, fsm')) \/ Steady(s, fsm')
    BY DEF SwitchMakes, HoverMakes, CmdIsReceived
  <1>4. CASE s.delay = "due" /\ Asked(s, fsm')
    <2>1. fsm.current_state = "TAKEOFF"
      BY <1>4 DEF HandshakeDue
    <2>2. NextGeneration(fsm.generation) \in Ids
      BY <1>1, MaxIdAssumption DEF NextGeneration, Ids
    <2>3. fsm'.published = <<Cancel, fsm'.generation>>
      BY <1>4, <2>2, TwoMessages, MaxIdAssumption DEF Asked, Cancel, Ids
    <2>4. Promise!ArrivesGranting
      BY <1>1, <1>3, <1>4, <2>1, <2>3, PromisedGrant DEF Asked
    <2>. QED  BY <1>3, <1>4, <2>4 DEF Keeps, HandshakeDue, Promise!Ticks, Asked
  <1>5. CASE Steady(s, fsm')
    <2>1. Promise!Arrives \/ Promise!Aborts
      BY <1>1, <1>2, <1>3, <1>5, ForgottenCommands, PromisedAway, PromisedMission DEF Steady
    <2>. QED  BY <1>3, <1>5, <2>1 DEF Keeps, HandshakeDue, Promise!Ticks, Steady
  <1>. QED
    BY <1>3, <1>4, <1>5

\* A tick that has lost an input forgets trigger, command and handshake, and
\* tells the planner if there was one.
LEMMA ClearedMessages ==
    ASSUME fsm \in Fsms, fsm.published = <<>>
    PROVE  /\ Cleared.cmd = NoCommand /\ Cleared.generation = fsm.generation
           /\ Cleared.published \in {<<>>, <<Cancel>>}
           /\ Cleared.published = <<>> => fsm.expected_id = 0
  <1> DEFINE s == [InvalidateCmd(CancelPending(Deactivate(fsm))) EXCEPT
                      !.takeoff_trigger = FALSE, !.land_trigger = FALSE]
  <1>1. InvalidateCmd(CancelPending(Deactivate(fsm))) \in Fsms
    BY SmallStepsType
  <1>2. /\ s \in Fsms /\ s.cmd = NoCommand /\ s.generation = fsm.generation
        /\ s.published = <<>> /\ s.expected_id = fsm.expected_id
    BY <1>1 DEF Fsms, InvalidateCmd, CancelPending, Deactivate
  <1>3. Cleared = IF s.expected_id # 0 THEN CancelHandshake(s) ELSE s
    BY DEF Cleared
  <1>. HIDE DEF s
  <1>4. Append(<<>>, Cancel) = <<Cancel>>
    BY TwoMessages
  <1>5. CASE s.expected_id = 0
    BY <1>2, <1>3, <1>5
  <1>6. CASE s.expected_id # 0
    <2>1. Cleared.published = <<Cancel>> /\ Cleared.cmd = NoCommand
          /\ Cleared.generation = fsm.generation
      BY <1>2, <1>3, <1>4, <1>6, StepFields
    <2>2. <<Cancel>> # <<>>
      OBVIOUS
    <2>. QED  BY <2>1, <2>2
  <1>. QED
    BY <1>5, <1>6

\* A tick that has lost a critical input, or lands for it, keeps the promise.
LEMMA CriticalKeeps ==
    ASSUME IInv, TickReleases \/ TickForcesLanding, fsm' \in Fsms
    PROVE  Keeps
  <1>1. fsm \in Fsms /\ fsm.cmd \in Commands /\ fsm.published = <<>>
    BY DEF IInv, FsmTypeOK, Fsms, TickReleases, TickForcesLanding, ForceLanding, CriticalTick
  <1>2. fsm.current_state \notin {"HOVER", "MISSION"} => fsm.expected_id = 0
    BY DEF IInv, Consistent, MissionKept
  <1>3. /\ Cleared \in Fsms /\ Cleared.expected_id = 0 /\ Cleared.pending = "none"
        /\ Cleared.cmd = NoCommand /\ Cleared.generation = fsm.generation
        /\ Cleared.published \in {<<>>, <<Cancel>>}
        /\ Cleared.published = <<>> => fsm.expected_id = 0
    BY <1>1, ClearedFields, ClearedMessages
  <1>4. /\ fsm'.current_state \in {"MANUAL", "LAND"}
        /\ fsm'.expected_id = 0 /\ fsm'.pending = "none"
        /\ fsm'.cmd = NoCommand /\ fsm'.generation = fsm.generation
        /\ fsm'.published = Cleared.published
    <2>. HIDE DEF Cleared
    <2> DEFINE released == [Enter(Cleared, "MANUAL") EXCEPT !.failsafe = FALSE]
               landing == [Enter(Cleared, "LAND") EXCEPT !.failsafe = TRUE]
               again == [landing EXCEPT !.land_gate = ResetGate]
               Fits(u) == /\ u \in Fsms /\ u.current_state \in {"MANUAL", "LAND"}
                          /\ u.expected_id = 0 /\ u.pending = "none"
                          /\ u.cmd = NoCommand /\ u.generation = fsm.generation
                          /\ u.published = Cleared.published
    <2>1. Fits(released) /\ Fits(landing)
      BY <1>3 DEF Enter, Fsms, States
    <2>2. Fits(again)
      <3>. HIDE DEF landing
      <3>1. ResetGate \in Gates
        BY DEF ResetGate, Gates
      <3>. QED  BY <2>1, <3>1 DEF Fsms
    <2>3. \E u \in {released, landing, again} :
             EndQuietly(u, "none") \/ EndRequesting(u, "none", "AutoLand")
      BY DEF TickReleases, TickForcesLanding, ForceLanding, Released, ForcedLanding
    <2>. HIDE DEF Fits, released, landing, again
    <2>4. PICK u \in {released, landing, again} :
             EndQuietly(u, "none") \/ EndRequesting(u, "none", "AutoLand")
      BY <2>3
    <2>5. Fits(u)
      BY <2>1, <2>2
    <2>6. fsm'.current_state = u.current_state /\ Steady(u, fsm')
      BY <2>4, <2>5, EndFields DEF Setpoints, Kinds, Fits
    <2>. QED
      BY <2>5, <2>6 DEF Fits, Steady
  <1>5. CASE fsm.current_state \in {"HOVER", "MISSION"}
    <2>1. Promise!Leaves
      BY <1>1, <1>3, <1>4, <1>5, ForgottenCommands, PromisedEnd
         DEF Promise!Cancels, Promise!Cancel, Cancel
    <2>. QED  BY <1>4, <2>1 DEF Keeps, HandshakeDue, Promise!Ticks
  <1>6. CASE fsm.current_state \notin {"HOVER", "MISSION"}
    <2>1. Promise!StaysAway
      BY <1>1, <1>2, <1>3, <1>4, <1>6, ForgottenCommands, PromisedAway
         DEF Promise!Cancels, Promise!Cancel, Cancel
    <2>. QED  BY <1>4, <2>1 DEF Keeps, HandshakeDue, Promise!Ticks
  <1>. QED
    BY <1>5, <1>6

\* Every tick of the machine is a tick of the promise.
LEMMA TickKeeps ==
    ASSUME IInv, HandshakeDue, Tick
    PROVE  Keeps
  <1>1. fsm' \in Fsms
    BY TickInv DEF IInv, FsmTypeOK
  <1>2. CASE TickReleases \/ TickForcesLanding
    BY <1>1, <1>2, CriticalKeeps
  <1>3. CASE TickManual \/ TickTakeoff \/ TickHover \/ TickMission \/ TickLand
    <2>1. PICK healthy \in BOOLEAN, still \in BOOLEAN :
             SwitchMakes(Prepared(healthy, still), healthy, fsm')
      BY <1>3, NormalTickMakes
    <2>2. step = "landTaken" /\ ~fsm.failsafe
      BY <1>3, NormalTickMakes
    <2> DEFINE s == Prepared(healthy, still)
    <2>3. s \in Fsms /\ PreparedMakes(s) /\ fsm.published = <<>>
      BY <2>2, PreparedKeeps, PreparedResult DEF IInv
    <2>4. SwitchMakes(s, healthy, fsm')
      BY <2>1
    <2>. HIDE DEF s
    <2>5. CASE s.current_state = fsm.current_state /\ SteadyBut(fsm, s)
      BY <1>1, <2>3, <2>4, <2>5, SteadyKeeps
    <2>6. CASE /\ s.current_state \in {"MANUAL", "LAND"}
               /\ s.current_state = "MANUAL" => ~InOffboard
               /\ s.expected_id = 0 /\ s.pending = "none" /\ s.cmd \in {fsm.cmd, NoCommand}
               /\ s.generation = fsm.generation /\ s.delay = fsm.delay
               /\ s.published \in {<<Cancel>>, <<Cancel, Cancel>>}
      BY <1>1, <2>3, <2>4, <2>6, EndedKeeps
    <2>7. CASE /\ fsm.current_state \in {"TAKEOFF", "MISSION"} /\ s.current_state = "HOVER"
               /\ InOffboard /\ observed.armed
               /\ s.expected_id = 0 /\ s.pending = "none" /\ s.cmd = NoCommand
               /\ s.generation = fsm.generation /\ s.delay = fsm.delay
               /\ s.published = <<Cancel>>
      BY <1>1, <2>3, <2>4, <2>7, AbortedKeeps
    <2>. QED
      BY <2>3, <2>5, <2>6, <2>7 DEF PreparedMakes
  <1>. QED
    BY <1>2, <1>3 DEF Tick

\* The steps that neither the planner nor the user could notice.
LEMMA UnseenKeeps ==
    ASSUME IInv, HandshakeDue, fsm' \in Fsms,
           fsm'.current_state = fsm.current_state,
           fsm'.expected_id = fsm.expected_id, fsm'.generation = fsm.generation,
           fsm'.pending = fsm.pending, fsm'.cmd = fsm.cmd,
           fsm'.delay \in {fsm.delay, "off"} \/ fsm.delay # "off"
    PROVE  /\ HandshakeDue'
           /\ fsm'.published = fsm.published => UNCHANGED Promise!promiseVars
           /\ fsm'.published = <<>> => Promise!Begins
  <1>1. Phase' = Phase
    BY Phases, PhasesNext
  <1>2. fsm'.published = fsm.published => UNCHANGED Promise!promiseVars
    BY <1>1 DEF Promise!promiseVars
  <1>3. fsm'.published = <<>> => Promise!Begins
    BY <1>1 DEF Promise!Begins
  <1>4. HandshakeDue'
    BY DEF HandshakeDue
  <1>. QED
    BY <1>2, <1>3, <1>4

\* The trigger, the commands and their age.
LEMMA MessagesKeep ==
    ASSUME IInv, HandshakeDue,
           MissionTriggerFeed \/ (\E id \in Ids : CommandFeed(id)) \/ CommandStale \/ TriggerExpires
    PROVE  Promise!PromiseNext /\ HandshakeDue'
  <1> DEFINE m == Shown(Phase, fsm)
             n == m'
  <1>1. fsm \in Fsms
    BY DEF IInv, FsmTypeOK
  <1>2. /\ fsm' \in Fsms
        /\ fsm'.current_state = fsm.current_state /\ fsm'.expected_id = fsm.expected_id
        /\ fsm'.generation = fsm.generation /\ fsm'.delay = fsm.delay
        /\ fsm'.published = fsm.published
        /\ \/ /\ fsm'.pending = "fresh" /\ fsm'.cmd = fsm.cmd
           \/ \E id \in Ids : fsm'.cmd = [stamp |-> "fresh", id |-> id]
                              /\ fsm'.pending = fsm.pending
           \/ /\ fsm.cmd.stamp = "fresh" /\ fsm'.cmd = [fsm.cmd EXCEPT !.stamp = "stale"]
              /\ fsm'.pending = fsm.pending
           \/ /\ fsm.pending = "fresh" /\ fsm'.pending = "expired" /\ fsm'.cmd = fsm.cmd
    <2>1. CASE MissionTriggerFeed
      BY <1>1, <2>1 DEF MissionTriggerFeed, Callback, Fsms
    <2>2. CASE \E id \in Ids : CommandFeed(id)
      BY <1>1, <2>2 DEF CommandFeed, Callback, Fsms, Commands
    <2>3. CASE CommandStale
      BY <1>1, <2>3 DEF CommandStale, Pass, Fsms, Commands
    <2>4. CASE TriggerExpires
      BY <1>1, <2>4 DEF TriggerExpires, Pass, Fsms
    <2>. QED  BY <2>1, <2>2, <2>3, <2>4
  <1>3. Phase' = Phase
    BY <1>2, Phases, PhasesNext
  <1>4. /\ m \in Promise!Machines /\ n \in Promise!Machines
        /\ m.phase = Phase /\ m.expected_id = fsm.expected_id
        /\ m.generation = fsm.generation /\ m.pending = fsm.pending /\ m.cmd = fsm.cmd
        /\ n.phase = m.phase /\ n.expected_id = m.expected_id /\ n.generation = m.generation
        /\ n.pending = fsm'.pending /\ n.cmd = fsm'.cmd
    BY <1>1, <1>2, <1>3, PromisedFields
  <1>5. HandshakeDue'
    BY <1>2 DEF HandshakeDue
  <1>6. ASSUME fsm'.pending = "fresh", fsm'.cmd = fsm.cmd PROVE Promise!GetsTrigger
    <2>1. n = [m EXCEPT !.pending = "fresh"]
      <3>. HIDE DEF m, n
      <3>. QED  BY <1>4, <1>6 DEF Promise!Machines
    <2>. QED  BY Zenon, <1>2, <2>1 DEF Promise!GetsTrigger, Promise!Gets, Shown
  <1>7. ASSUME NEW id \in Ids, fsm'.cmd = [stamp |-> "fresh", id |-> id],
               fsm'.pending = fsm.pending
        PROVE  Promise!GetsCommand(id)
    <2>1. n = [m EXCEPT !.cmd = [stamp |-> "fresh", id |-> id]]
      <3>. HIDE DEF m, n
      <3>. QED  BY <1>4, <1>7 DEF Promise!Machines
    <2>. QED  BY Zenon, <1>2, <2>1 DEF Promise!GetsCommand, Promise!Gets, Shown
  <1>8. ASSUME fsm.cmd.stamp = "fresh", fsm'.cmd = [fsm.cmd EXCEPT !.stamp = "stale"],
               fsm'.pending = fsm.pending
        PROVE  Promise!CommandStale
    <2>1. n = [m EXCEPT !.cmd.stamp = "stale"]
      <3>. HIDE DEF m, n
      <3>. QED  BY <1>4, <1>8 DEF Promise!Machines
    <2>2. m.cmd.stamp = "fresh"
      <3>. HIDE DEF m, n
      <3>. QED  BY <1>4, <1>8
    <2>. QED  BY Zenon, <1>2, <2>1, <2>2 DEF Promise!CommandStale, Promise!Gets, Shown
  <1>9. ASSUME fsm.pending = "fresh", fsm'.pending = "expired", fsm'.cmd = fsm.cmd
        PROVE  Promise!TriggerExpires
    <2>1. n = [m EXCEPT !.pending = "expired"] /\ m.pending = "fresh"
      <3>. HIDE DEF m, n
      <3>. QED  BY <1>4, <1>9 DEF Promise!Machines
    <2>. QED  BY Zenon, <1>2, <2>1 DEF Promise!TriggerExpires, Promise!Gets, Shown
  <1>10. \A id \in Ids : id \in Promise!Ids
    BY DEF Ids, Promise!Ids
  <1>. QED
    BY <1>2, <1>5, <1>6, <1>7, <1>8, <1>9, <1>10 DEF Promise!PromiseNext

\* Every step of the machine is a step of the promise, or none.
LEMMA StepKeeps ==
    ASSUME IInv, HandshakeDue, [Next]_vars
    PROVE  [Promise!PromiseNext]_(Promise!promiseVars) /\ HandshakeDue'
  <1>1. fsm \in Fsms /\ fsm' \in Fsms
    BY StepInv DEF IInv, FsmTypeOK
  <1>2. CASE Tick
    BY <1>2, TickKeeps DEF Keeps, Promise!PromiseNext
  <1>3. CASE MissionTriggerFeed \/ (\E id \in Ids : CommandFeed(id)) \/ CommandStale \/ TriggerExpires
    BY <1>3, MessagesKeep
  <1>4. CASE TakeArmResult
    BY <1>1, <1>4, UnseenKeeps DEF TakeArmResult, Fsms, Promise!PromiseNext
  <1>5. CASE TakeLandResult
    BY <1>1, <1>5, UnseenKeeps DEF TakeLandResult, Fsms
  <1>6. CASE TakeoffCallback \/ LandCallback \/ ArmIntervalOver \/ LandIntervalOver
    BY <1>1, <1>6, UnseenKeeps
       DEF TakeoffCallback, LandCallback, Callback, ArmIntervalOver, LandIntervalOver, Pass, Fsms
  <1>7. CASE DelayOver
    BY <1>1, <1>7, UnseenKeeps DEF DelayOver, Pass, Fsms
  <1>8. CASE TakeoffTimer \/ UnhealthyLonger
    BY <1>1, <1>8, UnseenKeeps DEF TakeoffTimer, UnhealthyLonger, Pass, Fsms
  <1>9. CASE \/ StateFeed \/ WorkerStep \/ Px4Disarms
             \/ \E mode \in Modes : PilotMode(mode)
             \/ \E r \in Results : ArmCallReturns(r)
             \/ \E r \in Results : LandCallReturns(r)
             \/ UNCHANGED vars
    <2>1. fsm' = fsm
      BY <1>9 DEF StateFeed, WorkerStep, Px4Disarms, PilotMode, Px4Changes, ArmCallReturns,
                  LandCallReturns, vars
    <2>. QED  BY <1>1, <2>1, UnseenKeeps
  <1>. QED
    BY <1>2, <1>3, <1>4, <1>5, <1>6, <1>7, <1>8, <1>9 DEF Next, Tick

\* The node starts as the promise starts.
LEMMA InitKeeps ==
    ASSUME Init PROVE Promise!PromiseInit /\ HandshakeDue
  <1>1. fsm \in Fsms /\ fsm.current_state = "MANUAL"
    BY InitInv DEF IInv, FsmTypeOK, Init
  <1>2. Phase = "away"
    BY <1>1, Phases
  <1>3. HandshakeDue
    BY DEF Init, HandshakeDue
  <1>4. /\ fsm.expected_id = 0 /\ fsm.generation \in Ids \ {0} /\ fsm.pending = "none"
        /\ fsm.cmd = NoCommand /\ fsm.published = <<>>
    BY DEF Init
  <1>5. Promise!PromiseInit
    BY <1>2, <1>4 DEF Promise!PromiseInit, Promise!Ids, Ids, Promise!NoCommand, NoCommand
  <1>. QED
    BY <1>3, <1>5

\* While a handshake is in force no other one falls due: no handshake of a
\* hover is ever replaced by another before it is cancelled.
THEOREM NoHandshakeReplaced == Spec => []HandshakeDue
  <1>1. IInv /\ HandshakeDue /\ [Next]_vars => HandshakeDue'
    BY StepKeeps
  <1>2. Init => HandshakeDue
    BY InitKeeps
  <1>. QED
    BY <1>1, <1>2, FlightInvariant, PTL DEF Spec

\* The state machine keeps its promise to the planner.
THEOREM MissionPromiseKept == Spec => KeepsMissionPromise
  <1>1. IInv /\ HandshakeDue /\ [Next]_vars => [Promise!PromiseNext]_(Promise!promiseVars)
    BY StepKeeps
  <1>2. Init => Promise!PromiseInit
    BY InitKeeps
  <1>. QED
    BY <1>1, <1>2, FlightInvariant, NoHandshakeReplaced, PTL
       DEF Spec, KeepsMissionPromise, Promise!PromiseSpec

\* A mission takes a trigger of the user and a command of the handshake in
\* force, both in hand before the tick and both used up by it.
THEOREM MissionNeedsTriggerAndCommand == Spec => MissionNeedsBoth
  <1>1. ASSUME IInv, [Next]_vars,
               fsm.current_state # "MISSION", fsm'.current_state = "MISSION"
        PROVE  /\ fsm.current_state = "HOVER" /\ fsm.pending = "fresh"
               /\ fsm.cmd.id = fsm.expected_id /\ fsm.expected_id # 0
               /\ fsm'.pending = "none"
    <2>1. TickManual \/ TickTakeoff \/ TickHover \/ TickMission \/ TickLand
      <3>1. ~TickReleases
        BY <1>1, ClearedFields
           DEF TickReleases, EndQuietly, EndTick, Released, Enter, IInv, FsmTypeOK, Fsms
      <3>2. ~TickForcesLanding
        BY <1>1, ClearedFields, GateTypes
           DEF TickForcesLanding, ForceLanding, EndQuietly, EndRequesting, EndTick,
               ForcedLanding, Enter, IInv, FsmTypeOK, Fsms
      <3>. QED  BY <1>1, <3>1, <3>2, OnlyTicks DEF Tick
    <2>2. step = "landTaken" /\ ~fsm.failsafe
      BY <1>1, <2>1, NormalTickMakes
    <2>3. PICK healthy \in BOOLEAN, still \in BOOLEAN :
             SwitchMakes(Prepared(healthy, still), healthy, fsm')
      BY <1>1, <2>1, NormalTickMakes
    <2> DEFINE s == Prepared(healthy, still)
    <2>4. s \in Fsms /\ PreparedMakes(s) /\ fsm \in Fsms
      BY <1>1, <2>2, PreparedKeeps, PreparedResult DEF IInv, FsmTypeOK
    <2>5. SwitchMakes(s, healthy, fsm')
      BY <2>3
    <2>. HIDE DEF s
    <2>6. s.current_state # "MISSION"
      BY <1>1, <2>4 DEF PreparedMakes
    <2>7. /\ s.current_state = "HOVER" /\ CmdIsReceived(s) /\ s.pending = "fresh"
          /\ Steady([s EXCEPT !.pending = "none"], fsm')
      BY <1>1, <2>5, <2>6
         DEF SwitchMakes, ManualMakes, TakeoffMakes, HoverMakes, LandMakes
    <2>8. fsm.current_state = "HOVER" /\ SteadyBut(fsm, s)
      BY <2>4, <2>7 DEF PreparedMakes, CmdIsReceived
    <2>9. s.cmd = fsm.cmd /\ s.expected_id = fsm.expected_id /\ s.pending = fsm.pending
      BY <2>4, <2>8 DEF SteadyBut, Steady, Fsms
    <2>10. fsm'.pending = "none"
      BY <2>4, <2>7 DEF Steady, Fsms
    <2>. QED
      BY <2>7, <2>8, <2>9, <2>10 DEF CmdIsReceived
  <1>. QED
    BY <1>1, FlightInvariant, PTL DEF Spec, MissionNeedsBoth

-----------------------------------------------------------------------------
(* The results that wait for the control loop.                             *)

\* The positions of the results of one kind.
OfKind(s, kind) == {i \in 1 .. Len(s) : s[i].kind = kind}

\* The results of one kind in a queue are finitely many.
LEMMA OfKindFinite ==
    ASSUME NEW s \in Seq(Completions), NEW kind
    PROVE  IsFiniteSet(OfKind(s, kind)) /\ Cardinality(OfKind(s, kind)) \in Nat
  <1>1. Len(s) \in Nat /\ IsFiniteSet(1 .. Len(s))
    BY LenProperties, FS_Interval
  <1>2. OfKind(s, kind) \in SUBSET (1 .. Len(s))
    BY DEF OfKind
  <1>. QED  BY <1>1, <1>2, FS_Subset, FS_CardinalityType

\* A result that joins the queue adds one to its own kind only.
LEMMA AppendOfKind ==
    ASSUME NEW s \in Seq(Completions), NEW e \in Completions, NEW kind \in Kinds
    PROVE  /\ e.kind # kind => Cardinality(OfKind(Append(s, e), kind)) = Cardinality(OfKind(s, kind))
           /\ Cardinality(OfKind(Append(s, e), kind)) <= Cardinality(OfKind(s, kind)) + 1
  <1>1. /\ Len(s) \in Nat /\ Len(Append(s, e)) = Len(s) + 1
        /\ \A i \in 1 .. Len(s) : Append(s, e)[i] = s[i]
        /\ Append(s, e)[Len(s) + 1] = e
    BY AppendElements, LenProperties
  <1>2. CASE e.kind # kind
    <2>1. OfKind(Append(s, e), kind) = OfKind(s, kind)
      BY <1>1, <1>2 DEF OfKind
    <2>. QED  BY <1>2, <2>1, OfKindFinite
  <1>3. CASE e.kind = kind
    <2>1. OfKind(Append(s, e), kind) = OfKind(s, kind) \cup {Len(s) + 1}
      BY <1>1, <1>3 DEF OfKind
    <2>2. Len(s) + 1 \notin OfKind(s, kind)
      BY <1>1 DEF OfKind
    <2>3. /\ IsFiniteSet(OfKind(s, kind)) /\ Cardinality(OfKind(s, kind)) \in Nat
      BY OfKindFinite
    <2>4. Cardinality(OfKind(s, kind) \cup {Len(s) + 1}) = Cardinality(OfKind(s, kind)) + 1
      BY <2>2, <2>3, FS_AddElement
    <2>. QED  BY <1>3, <2>1, <2>3, <2>4
  <1>. QED  BY <1>2, <1>3

\* What is left of a queue without one of its elements.
LEMMA RemoveAtElements ==
    ASSUME NEW S, NEW s \in Seq(S), NEW i \in 1 .. Len(s)
    PROVE  /\ Len(RemoveAt(s, i)) = Len(s) - 1
           /\ \A j \in 1 .. Len(s) - 1 : RemoveAt(s, i)[j] = IF j < i THEN s[j] ELSE s[j + 1]
  <1> DEFINE a == SubSeq(s, 1, i - 1)
             b == SubSeq(s, i + 1, Len(s))
  <1>1. Len(s) \in Nat /\ i \in Nat /\ 1 <= i /\ i <= Len(s)
        /\ \A j \in 1 .. Len(s) : s[j] \in S
    BY ElementOfSeq, LenProperties
  <1>2. /\ a \in Seq(S) /\ Len(a) = i - 1
        /\ \A j \in 1 .. i - 1 : a[j] = s[j]
    <2>1. \A j \in 1 .. i - 1 : s[j] \in S
      BY <1>1
    <2>2. i - 1 \in Int
      BY <1>1
    <2>3. /\ a \in Seq(S)
          /\ Len(a) = (IF 1 <= i - 1 THEN (i - 1) - 1 + 1 ELSE 0)
          /\ \A j \in 1 .. (i - 1) - 1 + 1 : a[j] = s[1 + j - 1]
      BY <2>1, <2>2, SubSeqProperties
    <2>. QED  BY <1>1, <2>3
  <1>3. /\ b \in Seq(S) /\ Len(b) = Len(s) - i
        /\ \A j \in 1 .. Len(s) - i : b[j] = s[i + j]
    <2>1. \A j \in i + 1 .. Len(s) : s[j] \in S
      BY <1>1
    <2>2. i + 1 \in Int /\ Len(s) \in Int
      BY <1>1
    <2>3. /\ b \in Seq(S)
          /\ Len(b) = (IF i + 1 <= Len(s) THEN Len(s) - (i + 1) + 1 ELSE 0)
          /\ \A j \in 1 .. Len(s) - (i + 1) + 1 : b[j] = s[(i + 1) + j - 1]
      BY <2>1, <2>2, SubSeqProperties
    <2>. QED  BY <1>1, <2>3
  <1>. HIDE DEF a, b
  <1>4. /\ Len(a \o b) = Len(a) + Len(b)
        /\ \A j \in 1 .. Len(a) + Len(b) : (a \o b)[j] = IF j <= Len(a) THEN a[j] ELSE b[j - Len(a)]
    BY <1>2, <1>3, ConcatProperties
  <1>5. RemoveAt(s, i) = a \o b
    BY DEF RemoveAt, a, b
  <1>6. Len(a) + Len(b) = Len(s) - 1
    BY <1>1, <1>2, <1>3
  <1>7. ASSUME NEW j \in 1 .. Len(s) - 1
        PROVE  (a \o b)[j] = IF j < i THEN s[j] ELSE s[j + 1]
    <2>1. CASE j < i
      BY <1>1, <1>2, <1>4, <1>6, <1>7, <2>1
    <2>2. CASE ~(j < i)
      <3>1. j - (i - 1) \in 1 .. Len(s) - i /\ i + (j - (i - 1)) = j + 1
        BY <1>1, <1>7, <2>2
      <3>2. j \in 1 .. Len(a) + Len(b) /\ ~(j <= Len(a))
        BY <1>1, <1>2, <1>6, <1>7, <2>2
      <3>3. (a \o b)[j] = b[j - (i - 1)]
        BY <1>2, <1>4, <3>2
      <3>4. b[j - (i - 1)] = s[j + 1]
        BY <1>3, <3>1
      <3>. QED  BY <2>2, <3>3, <3>4
    <2>. QED  BY <2>1, <2>2
  <1>. QED  BY <1>4, <1>5, <1>6, <1>7

\* A result taken out of the queue leaves one fewer of its kind, and no more of
\* any other.
LEMMA RemoveAtOfKind ==
    ASSUME NEW s \in Seq(Completions), NEW i \in 1 .. Len(s), NEW kind \in Kinds
    PROVE  /\ Cardinality(OfKind(RemoveAt(s, i), kind)) <= Cardinality(OfKind(s, kind))
           /\ s[i].kind = kind =>
                Cardinality(OfKind(RemoveAt(s, i), kind)) <= Cardinality(OfKind(s, kind)) - 1
  <1> DEFINE r == RemoveAt(s, i)
             S == OfKind(r, kind)
             T == OfKind(s, kind) \ {i}
             f == [j \in S |-> IF j < i THEN j ELSE j + 1]
  <1>1. /\ Len(s) \in Nat /\ r \in Seq(Completions) /\ Len(r) = Len(s) - 1
        /\ \A j \in 1 .. Len(s) - 1 : r[j] = IF j < i THEN s[j] ELSE s[j + 1]
    BY RemoveAtSeq, RemoveAtElements, LenProperties
  <1>. HIDE DEF r
  <1>2. ASSUME NEW j \in S
        PROVE  f[j] \in T
    BY <1>1 DEF OfKind
  <1>3. ASSUME NEW j \in S, NEW k \in S, f[j] = f[k]
        PROVE  j = k
    BY <1>1, <1>3 DEF OfKind
  <1>4. f \in Injection(S, T)
    <2>. HIDE DEF S, T
    <2>1. f \in [S -> T]
      BY <1>2
    <2>. HIDE DEF f
    <2>. QED  BY <1>3, <2>1 DEF Injection, IsInjective
  <1>5. IsFiniteSet(T) /\ Cardinality(T) <= Cardinality(OfKind(s, kind))
        /\ (i \in OfKind(s, kind) => Cardinality(T) = Cardinality(OfKind(s, kind)) - 1)
    <2>. HIDE DEF S, f
    <2>1. IsFiniteSet(OfKind(s, kind)) /\ Cardinality(OfKind(s, kind)) \in Nat
      BY OfKindFinite
    <2>2. /\ IsFiniteSet(T)
          /\ Cardinality(T) = IF i \in OfKind(s, kind) THEN Cardinality(OfKind(s, kind)) - 1
                              ELSE Cardinality(OfKind(s, kind))
      BY <2>1, FS_RemoveElement
    <2>. QED  BY <2>1, <2>2
  <1>6. Cardinality(S) <= Cardinality(T)
    <2>. HIDE DEF S, T, f
    <2>. QED  BY <1>4, <1>5, FS_Injection
  <1>7. Cardinality(S) \in Nat /\ Cardinality(T) \in Nat /\ Cardinality(OfKind(s, kind)) \in Nat
    BY <1>1, <1>5, OfKindFinite, FS_CardinalityType
  <1>8. s[i].kind = kind => i \in OfKind(s, kind)
    BY DEF OfKind
  <1>. QED
    <2>. HIDE DEF S, T
    <2>1. S = OfKind(RemoveAt(s, i), kind)
      BY DEF S, r
    <2>. QED  BY <1>5, <1>6, <1>7, <1>8, <2>1

\* Whether the tick in progress has had its chance of taking a result.
Taken(kind) == IF kind = "Arm" THEN step # "idle" ELSE step = "landTaken"

Outstanding(kind) ==
    Cardinality(Untaken(kind)) + (IF service_pending[kind] THEN 1 ELSE 0)

\* A request is queued by the tick that has just taken a result of its kind, or
\* found none: there was at most one on the way then.
FewResults == \A k \in Kinds : Outstanding(k) <= (IF Taken(k) THEN 1 ELSE 2)

\* The results of a kind that wait, as a number.
LEMMA UntakenIsNatural ==
    ASSUME WorkerTypeOK, NEW kind \in Kinds
    PROVE  Cardinality(Untaken(kind)) \in Nat /\ Untaken(kind) = OfKind(service_completions, kind)
  <1>1. Untaken(kind) = OfKind(service_completions, kind)
    BY DEF Untaken, OfKind
  <1>. QED  BY <1>1, OfKindFinite DEF WorkerTypeOK

\* Taking a result, or finding none to take, keeps the bound.
LEMMA BacklogTakes ==
    ASSUME IInv, FewResults, NEW kind \in Kinds, WorkerTypeOK',
           IF ResultReady(kind) THEN TakeResult(kind) ELSE UNCHANGED serviceVars,
           \A k \in Kinds \ {kind} : Taken(k)' = Taken(k)
    PROVE  FewResults'
  <1>1. /\ WorkerTypeOK /\ service_completions \in Seq(Completions)
        /\ service_pending \in [Kinds -> BOOLEAN] /\ service_pending' = service_pending
    BY DEF IInv, WorkerInv, WorkerTypeOK, TakeResult, serviceVars
  <1>2. \A k \in Kinds : /\ Cardinality(Untaken(k)) \in Nat
                         /\ Cardinality(Untaken(k))' \in Nat
    <2>. TAKE k \in Kinds
    <2>1. Cardinality(Untaken(k)) \in Nat
      BY <1>1, UntakenIsNatural
    <2>2. Untaken(k)' = OfKind(service_completions', k)
      BY DEF Untaken, OfKind
    <2>3. Cardinality(OfKind(service_completions', k)) \in Nat
      BY OfKindFinite DEF WorkerTypeOK
    <2>. QED  BY <2>1, <2>2, <2>3
  <1>3. \A k \in Kinds : /\ Untaken(k) = OfKind(service_completions, k)
                         /\ Untaken(k)' = OfKind(service_completions', k)
    BY DEF Untaken, OfKind
  <1>4. CASE ResultReady(kind)
    <2>1. /\ service_completions' = RemoveAt(service_completions, OldestResult(kind))
          /\ OldestResult(kind) \in 1 .. Len(service_completions)
          /\ service_completions[OldestResult(kind)].kind = kind
      BY <1>1, <1>4, OldestResultExists DEF TakeResult
    <2>2. \A k \in Kinds : Cardinality(Untaken(k))' <= Cardinality(Untaken(k))
      BY <1>1, <1>3, <2>1, RemoveAtOfKind
    <2>3. Cardinality(Untaken(kind))' <= Cardinality(Untaken(kind)) - 1
      BY <1>1, <1>3, <2>1, RemoveAtOfKind
    <2>. QED  BY <1>1, <1>2, <2>2, <2>3 DEF FewResults, Outstanding
  <1>5. CASE ~ResultReady(kind)
    <2>1. service_completions' = service_completions
      BY <1>5 DEF serviceVars
    <2>2. \A k \in Kinds : Cardinality(Untaken(k))' = Cardinality(Untaken(k))
      BY <1>3, <2>1
    <2>3. Cardinality(Untaken(kind)) = 0
      BY <1>5, FS_EmptySet DEF Untaken, ResultReady
    <2>. QED  BY <1>1, <1>2, <2>2, <2>3 DEF FewResults, Outstanding
  <1>. QED  BY <1>4, <1>5

\* Every step keeps the bound of results and requests together.
LEMMA BacklogKept ==
    ASSUME IInv, FewResults, [Next]_vars
    PROVE  FewResults'
  <1>0. /\ WorkerTypeOK /\ WorkerTypeOK' /\ WorkerInv
        /\ service_pending \in [Kinds -> BOOLEAN] /\ service_pending' \in [Kinds -> BOOLEAN]
        /\ service_completions \in Seq(Completions)
    BY StepInv DEF IInv, WorkerInv, WorkerTypeOK
  <1>1. CASE TakeArmResult
    <2>1. "Arm" \in Kinds /\ step = "idle" /\ step' = "armTaken"
          /\ IF ResultReady("Arm") THEN TakeResult("Arm") ELSE UNCHANGED serviceVars
      BY <1>1 DEF TakeArmResult, Kinds
    <2>2. \A k \in Kinds \ {"Arm"} : Taken(k)' = Taken(k)
      BY <2>1 DEF Taken
    <2>. QED  BY <1>0, <2>1, <2>2, BacklogTakes
  <1>2. CASE TakeLandResult
    <2>1. "AutoLand" \in Kinds /\ step = "armTaken" /\ step' = "landTaken"
          /\ IF ResultReady("AutoLand") THEN TakeResult("AutoLand") ELSE UNCHANGED serviceVars
      BY <1>2 DEF TakeLandResult, Kinds
    <2>2. \A k \in Kinds \ {"AutoLand"} : Taken(k)' = Taken(k)
      BY <2>1 DEF Taken, Kinds
    <2>. QED  BY <1>0, <2>1, <2>2, BacklogTakes
  <1>3. CASE Tick
    <2>1. EndsWell
      BY <1>3, NormalTickEnds, CriticalTickEndsWell DEF Tick, NormallyEnds
    <2>2. step = "landTaken" /\ step' = "idle"
          /\ (UNCHANGED serviceVars \/ \E k \in Kinds : EnqueueRequest(k))
      BY <2>1 DEF EndsWell
    <2>3. service_completions' = service_completions
      BY <2>2 DEF serviceVars, EnqueueRequest
    <2>4. \A k \in Kinds : Untaken(k)' = Untaken(k) /\ Cardinality(Untaken(k)) \in Nat
      BY <1>0, <2>3, UntakenIsNatural DEF Untaken
    <2>5. \A k \in Kinds : Outstanding(k) <= 1 /\ (service_pending[k] => Cardinality(Untaken(k)) <= 0)
      BY <1>0, <2>2, <2>4 DEF FewResults, Outstanding, Taken
    <2>6. \A k \in Kinds : Outstanding(k)' <= 2
      BY <1>0, <2>4, <2>5 DEF Outstanding
    <2>. QED  BY <2>2, <2>6 DEF FewResults, Taken
  <1>4. CASE WorkerStep
    <2>1. step' = step
      BY <1>4 DEF WorkerStep
    <2>2. CASE WorkerReport
      <3>1. /\ worker.kind \in Kinds /\ worker.result \in Results
            /\ service_pending[worker.kind]
            /\ service_pending' = [service_pending EXCEPT ![worker.kind] = FALSE]
            /\ service_completions' =
                 Append(service_completions, [kind |-> worker.kind, result |-> worker.result])
        BY <1>0, <2>2, WorkerShape DEF WorkerReport, WorkerInv, PendingExact
      <3>2. [kind |-> worker.kind, result |-> worker.result] \in Completions
        BY <3>1 DEF Completions
      <3>3. ASSUME NEW k \in Kinds
            PROVE  Outstanding(k)' <= Outstanding(k)
        <4>1. /\ Cardinality(Untaken(k)) \in Nat
              /\ Untaken(k) = OfKind(service_completions, k)
              /\ Untaken(k)' = OfKind(service_completions', k)
              /\ Cardinality(Untaken(k)') \in Nat
          BY <1>0, OfKindFinite, UntakenIsNatural DEF WorkerTypeOK, Untaken, OfKind
        <4>2. CASE k = worker.kind
          <5>1. Cardinality(Untaken(k)') <= Cardinality(Untaken(k)) + 1
            BY <1>0, <3>1, <3>2, <4>1, AppendOfKind
          <5>. QED  BY <1>0, <3>1, <4>1, <4>2, <5>1 DEF Outstanding
        <4>3. CASE k # worker.kind
          <5>1. Cardinality(Untaken(k)') = Cardinality(Untaken(k))
            BY <1>0, <3>1, <3>2, <4>1, <4>3, AppendOfKind
          <5>. QED  BY <1>0, <3>1, <4>1, <4>3, <5>1 DEF Outstanding
        <4>. QED  BY <4>2, <4>3
      <3>4. \A k \in Kinds : Outstanding(k) \in Int /\ Outstanding(k)' \in Int
        <4>. TAKE k \in Kinds
        <4>1. /\ Cardinality(Untaken(k)) \in Nat
              /\ Untaken(k)' = OfKind(service_completions', k)
              /\ Cardinality(OfKind(service_completions', k)) \in Nat
          BY <1>0, OfKindFinite, UntakenIsNatural DEF WorkerTypeOK, Untaken, OfKind
        <4>. QED  BY <1>0, <4>1 DEF Outstanding
      <3>. QED  BY <2>1, <3>3, <3>4 DEF FewResults, Taken
    <2>3. CASE WorkerSleep \/ WorkerTake
      BY <2>1, <2>3 DEF WorkerSleep, WorkerTake, FewResults, Outstanding, Untaken, Taken
    <2>. QED  BY <1>4, <2>2, <2>3 DEF WorkerStep
  <1>5. ASSUME UNCHANGED <<step, service_completions, service_pending>>
        PROVE  FewResults'
    BY <1>5 DEF FewResults, Outstanding, Untaken, Taken
  <1>6. CASE (\E r \in Results : ArmCallReturns(r)) \/ (\E r \in Results : LandCallReturns(r))
    BY <1>5, <1>6 DEF ArmCallReturns, LandCallReturns, CallReturns
  <1>7. CASE \/ TakeoffCallback \/ LandCallback \/ MissionTriggerFeed
             \/ \E id \in Ids : CommandFeed(id)
    BY <1>5, <1>7 DEF TakeoffCallback, LandCallback, MissionTriggerFeed, CommandFeed, Callback,
                      serviceVars
  <1>8. CASE CommandStale \/ TriggerExpires \/ ArmIntervalOver \/ LandIntervalOver
             \/ DelayOver \/ TakeoffTimer \/ UnhealthyLonger
    BY <1>5, <1>8 DEF CommandStale, TriggerExpires, ArmIntervalOver, LandIntervalOver,
                      DelayOver, TakeoffTimer, UnhealthyLonger, Pass, serviceVars
  <1>9. CASE \/ StateFeed \/ Px4Disarms
             \/ \E mode \in Modes : PilotMode(mode)
             \/ UNCHANGED vars
    BY <1>5, <1>9 DEF StateFeed, Px4Disarms, PilotMode, Px4Changes, serviceVars, vars
  <1>. QED
    BY <1>1, <1>2, <1>3, <1>4, <1>6, <1>7, <1>8, <1>9 DEF Next, Tick

\* No results and no requests at the start.
LEMMA BacklogInit == ASSUME Init PROVE FewResults
  <1>1. \A k \in Kinds : Untaken(k) = {} /\ ~service_pending[k]
    BY DEF Init, WorkerInit, Untaken
  <1>2. step = "idle"
    BY DEF Init
  <1>. QED
    BY <1>1, <1>2, FS_EmptySet DEF FewResults, Outstanding, Taken

\* A second request may be queued while the first result waits, never a third.
THEOREM BacklogIsBounded == Spec => []ResultBacklogBounded
  <1>1. Init => FewResults
    BY BacklogInit
  <1>2. IInv /\ FewResults /\ [Next]_vars => FewResults'
    BY BacklogKept
  <1>3. IInv /\ FewResults => ResultBacklogBounded
    <2>. SUFFICES ASSUME IInv, FewResults, NEW k \in Kinds
                  PROVE  Outstanding(k) <= 2
      BY DEF ResultBacklogBounded, Outstanding
    <2>1. Outstanding(k) \in Int
      BY UntakenIsNatural DEF Outstanding, IInv, WorkerInv
    <2>. QED  BY <2>1 DEF FewResults
  <1>. QED
    BY <1>1, <1>2, <1>3, FlightInvariant, PTL DEF Spec

-----------------------------------------------------------------------------
(* The state machine as a client of the service worker.                    *)

\* A queue is as long as its results of the two kinds are many.
LEMMA QueueOfBothKinds ==
    ASSUME NEW s \in Seq(Completions)
    PROVE  Len(s) = Cardinality(OfKind(s, "Arm")) + Cardinality(OfKind(s, "AutoLand"))
  <1> DEFINE A == OfKind(s, "Arm")
             L == OfKind(s, "AutoLand")
  <1>1. Len(s) \in Nat /\ Cardinality(1 .. Len(s)) = Len(s)
    BY LenProperties, FS_Interval
  <1>2. \A i \in 1 .. Len(s) : s[i].kind \in {"Arm", "AutoLand"}
    <2>1. \A i \in 1 .. Len(s) : s[i] \in Completions
      BY ElementOfSeq
    <2>. QED  BY <2>1 DEF Completions, Kinds
  <1>3. A \cup L = 1 .. Len(s) /\ A \cap L = {}
    BY <1>2 DEF OfKind
  <1>4. IsFiniteSet(A) /\ IsFiniteSet(L) /\ Cardinality(A) \in Nat /\ Cardinality(L) \in Nat
    BY OfKindFinite DEF Kinds
  <1>. HIDE DEF A, L
  <1>5. Cardinality(A \cup L) = Cardinality(A) + Cardinality(L) - Cardinality(A \cap L)
    BY <1>4, FS_Union
  <1>6. Cardinality(A \cap L) = 0 /\ Cardinality(A \cup L) = Cardinality(1 .. Len(s))
    BY <1>3, FS_EmptySet
  <1>7. Len(s) = Cardinality(A) + Cardinality(L)
    BY <1>1, <1>4, <1>5, <1>6
  <1>. QED  BY <1>7 DEF A, L

\* A tick queues a request with at most two results untaken.
LEMMA TickAsks ==
    ASSUME IInv, FewResults, Tick, Backlog >= 3, NEW kind \in Kinds, EnqueueRequest(kind)
    PROVE  ClientRequests(kind)
  <1>1. EndsWell
    BY NormalTickEnds, CriticalTickEndsWell DEF Tick, NormallyEnds
  <1>2. step = "landTaken"
    BY <1>1 DEF EndsWell
  <1>3. WorkerTypeOK /\ service_completions \in Seq(Completions)
    BY DEF IInv, WorkerInv, WorkerTypeOK
  <1>4. \A k \in Kinds : /\ Untaken(k) = OfKind(service_completions, k)
                         /\ Cardinality(Untaken(k)) \in Nat
    BY <1>3, UntakenIsNatural
  <1>5. \A k \in Kinds : Cardinality(Untaken(k)) <= 1
    BY <1>2, <1>4 DEF FewResults, Outstanding, Taken
  <1>6. Len(service_completions) < 3
    BY <1>3, <1>4, <1>5, QueueOfBothKinds DEF Kinds
  <1>7. Len(service_completions) < Backlog
    BY <1>3, <1>6, BacklogAssumption, LenProperties
  <1>. QED  BY <1>7 DEF ClientRequests

\* All that a step of the state machine or of its environment does to the
\* worker, its queues and its flags.
LEMMA FlightServes ==
    ASSUME IInv, [Next]_vars
    PROVE  \/ UNCHANGED serviceVars
           \/ \E k \in Kinds : TakeResult(k)
           \/ WorkerSleep \/ WorkerTake \/ WorkerReport
           \/ \E r \in Results : CallReturns(r)
           \/ Tick /\ \E k \in Kinds : EnqueueRequest(k)
  <1>0. Kinds = {"Arm", "AutoLand"}
    BY DEF Kinds
  <1>1. CASE TakeArmResult \/ TakeLandResult
    BY <1>0, <1>1 DEF TakeArmResult, TakeLandResult
  <1>2. CASE Tick
    <2>1. EndsWell
      BY <1>2, NormalTickEnds, CriticalTickEndsWell DEF Tick, NormallyEnds
    <2>. QED  BY <1>2, <2>1 DEF EndsWell
  <1>3. CASE WorkerStep
    BY <1>3 DEF WorkerStep
  <1>4. CASE (\E r \in Results : ArmCallReturns(r)) \/ (\E r \in Results : LandCallReturns(r))
    BY <1>4 DEF ArmCallReturns, LandCallReturns
  <1>5. CASE \/ TakeoffCallback \/ LandCallback \/ MissionTriggerFeed
             \/ \E id \in Ids : CommandFeed(id)
    BY <1>5 DEF TakeoffCallback, LandCallback, MissionTriggerFeed, CommandFeed, Callback
  <1>6. CASE CommandStale \/ TriggerExpires \/ ArmIntervalOver \/ LandIntervalOver
             \/ DelayOver \/ TakeoffTimer \/ UnhealthyLonger
    BY <1>6 DEF CommandStale, TriggerExpires, ArmIntervalOver, LandIntervalOver,
                DelayOver, TakeoffTimer, UnhealthyLonger, Pass
  <1>7. CASE \/ StateFeed \/ Px4Disarms
             \/ \E mode \in Modes : PilotMode(mode)
             \/ UNCHANGED vars
    BY <1>7 DEF StateFeed, Px4Disarms, PilotMode, Px4Changes, vars
  <1>. QED
    BY <1>1, <1>2, <1>3, <1>4, <1>5, <1>6, <1>7 DEF Next, Tick

\* The state machine is a client of its worker as ServiceClient describes one,
\* with any backlog that is no less than the one of its run.
THEOREM FlightIsAClient == ASSUME Backlog >= 3 PROVE Spec => SafeClientSpec
  <1>1. Init => WorkerInit
    BY DEF Init
  <1>2. Init => FewResults
    BY BacklogInit
  <1>3. IInv /\ FewResults /\ [Next]_vars => FewResults'
    BY BacklogKept
  <1>4. IInv /\ FewResults /\ [Next]_vars => [ClientNext]_serviceVars
    <2>. SUFFICES ASSUME IInv, FewResults, [Next]_vars PROVE [ClientNext]_serviceVars
      OBVIOUS
    <2>1. \A k \in Kinds : Tick /\ EnqueueRequest(k) => ClientRequests(k)
      BY TickAsks
    <2>. QED  BY <2>1, FlightServes DEF ClientNext
  <1>. QED
    BY <1>1, <1>2, <1>3, <1>4, FlightInvariant, PTL DEF Spec, SafeClientSpec

\* In flight each request of the state machine is answered at most once, and the
\* answers wait in the order they were made: the promise of the worker holds
\* under this client, whatever backlog it leaves.
THEOREM ServicePromiseInFlight == Spec => Service!SafeSpec
  <1>1. Init => Service!Init
    BY DEF Init, WorkerInit, Service!Init
  <1>2. IInv /\ [Next]_vars => [Service!Next]_(Service!vars)
    <2>. SUFFICES ASSUME IInv, [Next]_vars PROVE [Service!Next]_(Service!vars)
      OBVIOUS
    <2>1. [AnyClientNext]_serviceVars
      BY FlightServes DEF AnyClientNext
    <2>. QED  BY <2>1, ClientStepSimulation DEF IInv
  <1>. QED
    BY <1>1, <1>2, FlightInvariant, PTL DEF Spec, Service!SafeSpec
=============================================================================
