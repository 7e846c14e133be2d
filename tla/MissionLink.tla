---------------------------- MODULE MissionLink ----------------------------
(***************************************************************************)
(* The mission as the two nodelets fly it: the flight state machine, as    *)
(* MissionPromise, and the trajectory planner (SimOdom).  They run in two  *)
(* nodelet managers, that is two processes, and talk over ROS topics.      *)
(*                                                                         *)
(*   /landing_trigger      user -> planner and state machine               *)
(*   /traj_start_trigger   state machine -> planner: "cancel", "world:id"  *)
(*   planning/cmd          planner -> state machine                        *)
(*                                                                         *)
(* Every subscriber keeps one message: a message that is followed by       *)
(* another before it is handled may be lost, but none overtakes another.   *)
(* The user's trigger reaches its two subscribers at different times.      *)
(***************************************************************************)
EXTENDS MissionPromise

CONSTANT
    TrajectoryTime    \* Duration of the planner

ASSUME TrajectoryTimeAssumption == TrajectoryTime \in Nat \ {0}

VARIABLES
    planner, odom, timer,   \* of the planner, see SimOdom
    user_topic,     \* subscribers that have not received the user's trigger
    ready_topic,    \* /traj_start_trigger
    cmd_topic,      \* planning/cmd
    received,       \* where the state machine's command comes from, while fresh
    started         \* history: the handshakes whose trajectory was started

plannerVars == <<planner, odom, timer>>
linkVars == <<promiseVars, plannerVars, user_topic, ready_topic, cmd_topic, received, started>>

Planner == INSTANCE SimOdom WITH
    HandshakeIds <- Ids \ {0}, Duration <- TrajectoryTime, Places <- Ids

\* Where an origin that is frozen now lies: the hover of which handshake.
Place == IF machine.phase = "hover" THEN machine.expected_id ELSE 0

NoMessage == [origin |-> 0, yaw |-> "own"]

LinkInit ==
    /\ PromiseInit
    /\ machine.generation = 1
    /\ Planner!PlannerInit(0)
    /\ user_topic = {}
    /\ ready_topic = <<>>
    /\ cmd_topic = <<>>
    /\ received = NoMessage
    /\ started = {}

-----------------------------------------------------------------------------
(* Topics.                                                                 *)

\* At most two messages of a topic are on their way (bound).
Sending(topic, messages) ==
    LET all == topic \o messages
    IN SubSeq(all, IF Len(all) > 2 THEN Len(all) - 1 ELSE 1, Len(all))

\* A full queue of one drops the older message.
ReadyOverwritten ==
    /\ Len(ready_topic) = 2
    /\ ready_topic' = Tail(ready_topic)
    /\ UNCHANGED <<promiseVars, plannerVars, user_topic, cmd_topic, received, started>>

UserTriggers ==
    /\ user_topic' = {"planner", "fsm"}
    /\ UNCHANGED <<promiseVars, plannerVars, ready_topic, cmd_topic, received, started>>

-----------------------------------------------------------------------------
(* The state machine.                                                      *)

SendsHandshake == sent' # <<>> /\ sent'[Len(sent')] # Cancel

\* A handshake is granted takeoff_state.DELAY_TRIGGER_TIME after the hover was
\* reached, which is far longer than a message of an earlier tick takes.
Prompt == SendsHandshake => ready_topic = <<>>

\* Bound: an id is not used again (after 2^32 - 1 handshakes it would be).
NoWrap == SendsHandshake => machine.generation # MaxId

TickAlone ==
    /\ Prompt
    /\ NoWrap
    /\ received' = IF machine'.cmd.stamp = "fresh" THEN received ELSE NoMessage
    /\ UNCHANGED <<plannerVars, user_topic, ready_topic, cmd_topic, started>>

FsmTicks == Ticks /\ TickAlone

\* The messages of a tick are on their way before anything else happens.
FsmSends ==
    /\ sent # <<>>
    /\ Begins
    /\ ready_topic' = Sending(ready_topic, sent)
    /\ UNCHANGED <<plannerVars, user_topic, cmd_topic, received, started>>

FsmGetsTrigger ==
    /\ "fsm" \in user_topic
    /\ GetsTrigger
    /\ user_topic' = user_topic \ {"fsm"}
    /\ UNCHANGED <<plannerVars, ready_topic, cmd_topic, received, started>>

FsmGetsCommand ==
    /\ cmd_topic # <<>>
    /\ GetsCommand(Head(cmd_topic).id)
    /\ received' = [origin |-> Head(cmd_topic).origin, yaw |-> Head(cmd_topic).yaw]
    /\ cmd_topic' = Tail(cmd_topic)
    /\ UNCHANGED <<plannerVars, user_topic, ready_topic, started>>

FsmAlone == UNCHANGED <<plannerVars, user_topic, ready_topic, cmd_topic, received, started>>

CommandGetsStale ==
    /\ CommandStale
    /\ received' = NoMessage
    /\ UNCHANGED <<plannerVars, user_topic, ready_topic, cmd_topic, started>>

FsmTime == CommandGetsStale \/ (TriggerExpires /\ FsmAlone)

-----------------------------------------------------------------------------
(* The planner.                                                            *)

PlannerGetsTrigger ==
    /\ "planner" \in user_topic
    /\ Planner!TriggerCallback(Place)
    /\ user_topic' = user_topic \ {"planner"}
    /\ UNCHANGED <<promiseVars, ready_topic, cmd_topic, received, started>>

PlannerGetsReady ==
    /\ ready_topic # <<>>
    /\ IF Head(ready_topic) = Cancel
       THEN Planner!CancelCallback
       ELSE Planner!ReadyCallback(Head(ready_topic), Place)
    /\ ready_topic' = Tail(ready_topic)
    /\ UNCHANGED <<promiseVars, user_topic, cmd_topic, received, started>>

PlannerStarts ==
    /\ Planner!TimerStarts
    /\ started' = started \cup {planner'.active_id}
    /\ UNCHANGED <<promiseVars, user_topic, ready_topic, cmd_topic, received>>

\* Publisher and subscriber keep the newest command only.
PlannerPublishes ==
    /\ Planner!TimerPublishes
    /\ cmd_topic' = <<Planner!Command>>
    /\ UNCHANGED <<promiseVars, user_topic, ready_topic, received, started>>

PlannerAlone ==
    UNCHANGED <<promiseVars, user_topic, ready_topic, cmd_topic, received, started>>

\* Odometry, once there, is valid and slow, but may be late: the rest is in the
\* planner's own runs.
PlannerGetsOdom == Planner!OdomCallback(TRUE, TRUE) /\ PlannerAlone

PlannerAdvances(dt) == Planner!TimerAdvances(dt) /\ PlannerAlone

PlannerStops == Planner!TimerStops /\ PlannerAlone

PlannerTime ==
    /\ Planner!OdomTimeout \/ Planner!HandshakeTimeout \/ Planner!TimerReturns
    /\ PlannerAlone

LinkNext ==
    \/ FsmSends
    \/ /\ sent = <<>>
       /\ \/ ReadyOverwritten
          \/ UserTriggers
          \/ FsmTicks
          \/ FsmGetsTrigger
          \/ FsmGetsCommand
          \/ FsmTime
          \/ PlannerGetsTrigger
          \/ PlannerGetsReady
          \/ PlannerStarts
          \/ PlannerPublishes
          \/ PlannerGetsOdom
          \/ \E dt \in {0, 1} : PlannerAdvances(dt)
          \/ PlannerStops
          \/ PlannerTime

LinkSpec == LinkInit /\ [][LinkNext]_linkVars

(***************************************************************************)
(* The two timers run, messages arrive, the last command of a planner that *)
(* has stopped gets stale, odometry is received again and again and the    *)
(* planner's clock does not always jump.                                   *)
(***************************************************************************)
LinkFairness ==
    /\ WF_linkVars(FsmSends)
    /\ WF_linkVars(Pauses /\ TickAlone)
    /\ WF_linkVars(FsmGetsCommand)
    /\ WF_linkVars(~planner.active /\ CommandGetsStale)
    /\ WF_linkVars(PlannerPublishes)
    /\ WF_linkVars(PlannerStops)
    /\ WF_linkVars(PlannerGetsOdom)
    /\ SF_linkVars(PlannerAdvances(1))

LinkFairSpec == LinkSpec /\ LinkFairness

-----------------------------------------------------------------------------
(* Properties.                                                             *)

\* The mission follows only a trajectory whose origin was frozen in the hover
\* of its own handshake, never one from the ground or from an earlier flight,
\* and never a command whose yaw is of another origin.
OwnTrajectoryFlown ==
    machine.phase = "mission" /\ Matches =>
        received.origin = machine.expected_id /\ received.yaw = "own"

\* A handshake flies at most one trajectory, whatever is delayed or lost.
HandshakeFliesOnce ==
    [][~planner.active /\ planner'.active => planner'.active_id \notin started]_linkVars

\* A trajectory that the state machine does not follow any more is going to be
\* stopped: there is a message on the way.
StrayIsTold ==
    planner.active /\ planner.active_id # machine.expected_id => sent # <<>> \/ ready_topic # <<>>

\* A mission ends, without anybody telling the state machine: the planner stops
\* after its final point, and what it has sent gets stale.
MissionEnds == machine.phase = "mission" ~> machine.phase # "mission"
=============================================================================
