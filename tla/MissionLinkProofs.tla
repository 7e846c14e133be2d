-------------------------- MODULE MissionLinkProofs --------------------------
(***************************************************************************)
(* The mission that two processes fly over topics that lose and delay      *)
(* messages, for every number of handshake ids and every duration of a     *)
(* trajectory.                                                             *)
(*                                                                         *)
(* The argument follows one id, the newest one: every older id has been    *)
(* given up by both sides.  Its message is on the way at most once; once   *)
(* it has arrived, the planner either holds it or has started it; and a    *)
(* trajectory with that id has its origin in the hover that granted it.    *)
(* The last message on its way always says what the state machine expects. *)
(***************************************************************************)
EXTENDS MissionLink, SequenceTheorems, TLAPS

Newest == machine.generation

\* A message on its way to the planner carries a handshake.
Carried(messages) == \E i \in 1 .. Len(messages) : messages[i] # Cancel

\* And at most one does.
CarriedOnce(messages) ==
    \A i, j \in 1 .. Len(messages) : i < j /\ messages[i] # Cancel => messages[j] = Cancel

LinkTypeOK ==
    /\ machine \in Machines
    /\ sent \in Seq({Cancel, Newest})
    /\ ready_topic \in Seq({Cancel, Newest})
    /\ planner \in Planner!Planners
    /\ timer \in Planner!Timers
    /\ cmd_topic \in Seq([id : Ids, origin : Ids, yaw : {"own", "other"}])
    /\ started \subseteq 1 .. Newest

\* A mission is flown only after the trajectory of its handshake has started.
ExpectsNewest ==
    /\ machine.expected_id \in {0, Newest}
    /\ machine.phase = "away" => machine.expected_id = 0
    /\ machine.phase = "mission" => machine.expected_id # 0 /\ Newest \in started

\* The last message says what the state machine expects.
InOrder ==
    /\ sent # <<>> => sent[Len(sent)] = machine.expected_id
    /\ sent = <<>> /\ ready_topic # <<>> => ready_topic[Len(ready_topic)] = machine.expected_id
    /\ Carried(sent) => ready_topic = <<>>
    /\ CarriedOnce(sent) /\ CarriedOnce(ready_topic)

\* What the planner can know of the newest handshake.
Informed ==
    /\ planner.ready => planner.id = Newest /\ Newest \notin started
    /\ planner.active => planner.active_id = Newest /\ Newest \in started
    /\ Carried(sent) \/ Carried(ready_topic) =>
         ~planner.ready /\ ~planner.active /\ Newest \notin started
    /\ sent = <<>> /\ ready_topic = <<>> /\ machine.expected_id = 0 =>
         ~planner.ready /\ ~planner.active

FrozenInHover ==
    machine.expected_id # 0 =>
        /\ planner.ready /\ planner.trigger = "fresh" => planner.origin = machine.expected_id
        /\ planner.active => planner.origin = machine.expected_id

\* A command is of a trajectory that was started and, if that is the one which
\* the state machine expects, of its own origin.
Own(id, origin, yaw) ==
    /\ id \in started
    /\ id = machine.expected_id => origin = machine.expected_id /\ yaw = "own"

\* A command on its way from the timer to the state machine.
OwnCommands ==
    /\ timer.at = "publishing" =>
         /\ Own(timer.id, timer.origin, timer.yaw)
         /\ timer.id = machine.expected_id => planner.active
    /\ \A i \in 1 .. Len(cmd_topic) : Own(cmd_topic[i].id, cmd_topic[i].origin, cmd_topic[i].yaw)
    /\ machine.cmd.stamp = "fresh" => Own(machine.cmd.id, received.origin, received.yaw)

LinkInv == LinkTypeOK /\ ExpectsNewest /\ InOrder /\ Informed /\ FrozenInHover /\ OwnCommands

USE MaxIdIsPositive, TrajectoryTimeAssumption

-----------------------------------------------------------------------------
(* The planner's parts.                                                    *)

\* Expiring a trigger changes nothing else, and leaves none that was fresh.
LEMMA LinkExpireKeeps ==
  ASSUME planner \in Planner!Planners
  PROVE  LET p == Planner!Expire(planner)
         IN /\ p \in Planner!Planners
            /\ p.ready = planner.ready /\ p.id = planner.id
            /\ p.active = planner.active /\ p.active_id = planner.active_id
            /\ p.elapsed = planner.elapsed /\ p.origin = planner.origin
            /\ p.trigger = "fresh" => planner.trigger = "fresh"
  BY DEF Planner!Expire, Planner!Planners

\* Freezing an origin changes the origin and the clock only.
LEMMA LinkFreezeKeeps ==
  ASSUME NEW p \in Planner!Planners, NEW place \in Ids
  PROVE  LET q == Planner!Freeze(p, place)
         IN /\ q \in Planner!Planners
            /\ q.ready = p.ready /\ q.id = p.id /\ q.active = p.active
            /\ q.active_id = p.active_id /\ q.trigger = p.trigger /\ q.origin = place
  <1>1. 0 \in 0 .. TrajectoryTime
    OBVIOUS
  <1>. QED  BY <1>1 DEF Planner!Freeze, Planner!Planners

\* A tick that is being published loses its own yaw, and nothing else.
LEMMA LinkFreezeTimerKeeps ==
  ASSUME timer \in Planner!Timers
  PROVE  LET t == Planner!FreezeTimer
         IN /\ t \in Planner!Timers
            /\ t.at = timer.at /\ t.id = timer.id /\ t.origin = timer.origin
  BY DEF Planner!FreezeTimer, Planner!Timers

\* Between two ticks the timer carries nothing.
LEMMA LinkIdleTimer == Planner!IdleTimer \in Planner!Timers /\ Planner!IdleTimer.at = "idle"
  <1>1. 0 \in Ids
    BY DEF Ids
  <1>2. (CHOOSE place \in Ids : TRUE) \in Ids
    BY <1>1
  <1>. HIDE DEF Ids
  <1>. QED  BY <1>2 DEF Planner!IdleTimer, Planner!Timers

\* What the first critical section hands over to the second.
LEMMA LinkComputed ==
  ASSUME NEW p \in Planner!Planners, NEW stop \in BOOLEAN
  PROVE  LET t == Planner!Computed(p, stop)
         IN /\ t \in Planner!Timers
            /\ t.at = "publishing" /\ t.id = p.active_id /\ t.origin = p.origin /\ t.yaw = "own"
  BY DEF Planner!Computed, Planner!Planners, Planner!Timers

-----------------------------------------------------------------------------
(* The ticks of the state machine.                                         *)

\* A tick says nothing, cancels, or grants the next handshake.
Quiet ==
    /\ sent' = <<>>
    /\ machine'.generation = machine.generation
    /\ machine'.expected_id = machine.expected_id

Cancelling ==
    /\ sent' \in Cancels
    /\ machine'.generation = machine.generation
    /\ machine'.expected_id = 0

Granting ==
    /\ ready_topic = <<>>
    /\ machine.expected_id = 0
    /\ machine'.generation = machine.generation + 1
    /\ machine'.expected_id = machine'.generation
    /\ sent' \in {<<machine'.generation>>, <<Cancel, machine'.generation>>}

\* A tick does not make a command fresh, and takes off for a mission only
\* with the command of the newest handshake.
TickEffect ==
    /\ machine' \in Machines
    /\ machine'.cmd.stamp = "fresh" => machine'.cmd = machine.cmd
    /\ machine'.phase = "away" => machine'.expected_id = 0
    /\ machine'.phase = "mission" =>
         machine.phase = "mission" \/ (Matches /\ machine.expected_id # 0)
    /\ \/ Quiet
       \/ Cancelling /\ machine'.phase # "mission"
       \/ Granting /\ machine'.phase = "hover"

\* A command that is forgotten is not fresh.
LEMMA ForgottenIsNotFresh ==
  ASSUME NEW cmd \in Commands, NEW c \in Forgotten(cmd)
  PROVE  c \in Commands /\ (c.stamp = "fresh" => c = cmd)
  BY DEF Forgotten, Commands, NoCommand, Ids

\* The record that grants a handshake, field by field.
LEMMA GrantedFields ==
  ASSUME NEW m \in Machines, m.generation # MaxId
  PROVE  LET n == Granted(m)
         IN /\ n \in Machines /\ n.phase = "hover" /\ n.cmd = m.cmd
            /\ n.generation = m.generation + 1 /\ n.expected_id = n.generation
            /\ n.generation # Cancel
  <1> DEFINE id == IF m.generation = MaxId THEN 1 ELSE m.generation + 1
  <1>1. id = m.generation + 1 /\ id \in Ids \ {0}
    BY DEF Machines, Ids
  <1>2. Granted(m) = [m EXCEPT !.phase = "hover", !.generation = id, !.expected_id = id]
    BY DEF Granted
  <1>. HIDE DEF id
  <1>. QED  BY <1>1, <1>2 DEF Machines, Cancel

\* What a tick that sends these messages grants, or does not.
LEMMA SendsWhat ==
  /\ sent' = <<>> => ~SendsHandshake
  /\ sent' \in Cancels => ~SendsHandshake
  /\ \A id \in Ids \ {0} : sent' \in {<<id>>, <<Cancel, id>>} => SendsHandshake
  BY DEF SendsHandshake, Cancels, Cancel, Ids

\* Every tick is one of the three kinds.
LEMMA TickMakes ==
  ASSUME machine \in Machines, ExpectsNewest, Ticks, Prompt, NoWrap
  PROVE  TickEffect
  <1> USE DEF Tick
  <1>0. /\ machine.phase \in {"away", "hover", "mission"} /\ machine.cmd \in Commands
        /\ NoCommand \in Commands /\ NoCommand.stamp = "zero" /\ 0 \in Ids
    BY DEF Machines, Commands, NoCommand, Ids
  <1>1. CASE StaysAway
    <2>1. PICK pending \in {machine.pending, "none"}, cmd \in Forgotten(machine.cmd),
               messages \in Cancels \cup {<<>>} :
            Tick("away", [machine EXCEPT !.pending = pending, !.cmd = cmd], messages)
      BY <1>1 DEF StaysAway
    <2>2. cmd \in Commands /\ (cmd.stamp = "fresh" => cmd = machine.cmd)
      BY <1>0, ForgottenIsNotFresh
    <2>3. machine.expected_id = 0
      BY <2>1 DEF ExpectsNewest
    <2>. QED
      BY <2>1, <2>2, <2>3 DEF TickEffect, Machines, Quiet, Cancelling
  <1>2. CASE Arrives
    <2>1. PICK pending \in {machine.pending, "none"}, cmd \in Forgotten(machine.cmd),
               messages \in {<<>>, <<Cancel>>} :
            Tick("away", [machine EXCEPT !.phase = "hover", !.pending = pending, !.cmd = cmd],
                 messages)
      BY <1>2 DEF Arrives
    <2>2. cmd \in Commands /\ (cmd.stamp = "fresh" => cmd = machine.cmd)
      BY <1>0, ForgottenIsNotFresh
    <2>3. machine.expected_id = 0
      BY <2>1 DEF ExpectsNewest
    <2>. QED
      BY <2>1, <2>2, <2>3 DEF TickEffect, Machines, Quiet, Cancelling, Cancels
  <1>3. CASE Leaves
    <2>1. PICK before \in {"hover", "mission"}, cmd \in Forgotten(machine.cmd),
               messages \in Cancels \cup {<<>>} :
            /\ messages = <<>> => machine.expected_id = 0
            /\ Tick(before, [machine EXCEPT !.phase = "away", !.expected_id = 0,
                                            !.pending = "none", !.cmd = cmd], messages)
      BY <1>3 DEF Leaves
    <2>2. cmd \in Commands /\ (cmd.stamp = "fresh" => cmd = machine.cmd)
      BY <1>0, ForgottenIsNotFresh
    <2> DEFINE m == [machine EXCEPT !.phase = "away", !.expected_id = 0,
                                    !.pending = "none", !.cmd = cmd]
    <2>3. /\ m \in Machines /\ m.generation = machine.generation /\ m.phase = "away"
          /\ m.expected_id = 0 /\ m.cmd = cmd
      BY <2>2, <1>0 DEF Machines
    <2>4. machine' = m /\ sent' = messages
      BY <2>1
    <2>. HIDE DEF m
    <2>5. Quiet \/ (Cancelling /\ machine'.phase # "mission")
      BY <2>1, <2>3, <2>4 DEF Quiet, Cancelling
    <2>. QED
      BY <2>2, <2>3, <2>4, <2>5 DEF TickEffect
  <1>4. CASE Grants
    <2>1. /\ machine.expected_id = 0
          /\ machine' = Granted(machine) /\ sent' = <<Granted(machine).generation>>
      BY <1>4 DEF Grants
    <2>2. machine.generation # MaxId /\ ready_topic = <<>>
      <3>1. Granted(machine).generation \in Ids \ {0}
        BY DEF Granted, Machines, Ids
      <3>. QED  BY <3>1, <2>1, SendsWhat DEF Prompt, NoWrap
    <2>. QED
      BY <2>1, <2>2, GrantedFields DEF TickEffect, Granting
  <1>5. CASE ArrivesGranting
    <2> DEFINE m == [machine EXCEPT !.pending = "none", !.cmd = NoCommand]
    <2>1. /\ machine.phase = "away"
          /\ machine' = Granted(m) /\ sent' = <<Cancel, Granted(machine).generation>>
      BY <1>5 DEF ArrivesGranting
    <2>2. m \in Machines /\ m.generation = machine.generation /\ m.cmd = NoCommand
      BY <1>0 DEF Machines
    <2>3. Granted(m).generation = Granted(machine).generation
          /\ Granted(machine).generation \in Ids \ {0}
      BY <2>2 DEF Granted, Machines, Ids
    <2>4. machine.generation # MaxId /\ ready_topic = <<>>
      BY <2>1, <2>3, SendsWhat DEF Prompt, NoWrap
    <2>5. machine.expected_id = 0
      BY <2>1 DEF ExpectsNewest
    <2>. HIDE DEF m
    <2>. QED
      BY <2>1, <2>2, <2>3, <2>4, <2>5, <1>0, GrantedFields DEF TickEffect, Granting
  <1>6. CASE Hovers
    BY <1>6, <1>0 DEF Hovers, TickEffect, Quiet, ExpectsNewest
  <1>7. CASE Refuses
    BY <1>7, <1>0 DEF Refuses, TickEffect, Cancelling, Cancels, Machines
  <1>8. CASE Accepts
    BY <1>8, <1>0 DEF Accepts, TickEffect, Quiet, Machines, Matches
  <1>9. CASE Flies
    BY <1>9, <1>0 DEF Flies, TickEffect, Quiet, ExpectsNewest
  <1>10. CASE Pauses
    BY <1>10, <1>0 DEF Pauses, TickEffect, Quiet, Machines
  <1>11. CASE Aborts
    BY <1>11, <1>0 DEF Aborts, TickEffect, Cancelling, Cancels, Machines
  <1>. QED
    BY <1>1, <1>2, <1>3, <1>4, <1>5, <1>6, <1>7, <1>8, <1>9, <1>10, <1>11 DEF Ticks

\* The messages of one tick: at most one handshake, and it is the last.
LEMMA SentShape ==
  ASSUME TickEffect, machine \in Machines
  PROVE  /\ sent' \in Seq({Cancel, machine'.generation})
         /\ CarriedOnce(sent')
         /\ sent' # <<>> => sent'[Len(sent')] = machine'.expected_id
         /\ Carried(sent') => Granting
  <1>1. CASE Quiet
    BY <1>1 DEF Quiet, CarriedOnce, Carried
  <1>2. CASE Cancelling
    <2>1. CASE sent' = <<Cancel>>
      BY <1>2, <2>1 DEF Cancelling, CarriedOnce, Carried, Cancel
    <2>2. CASE sent' = <<Cancel, Cancel>>
      BY <1>2, <2>2 DEF Cancelling, CarriedOnce, Carried, Cancel
    <2>. QED  BY <1>2, <2>1, <2>2 DEF Cancelling, Cancels
  <1>3. CASE Granting
    BY <1>3 DEF Granting, CarriedOnce, Carried, Cancel
  <1>. QED  BY <1>1, <1>2, <1>3 DEF TickEffect

\* A tick of the state machine, of whichever kind.
LEMMA TickKeepsLink ==
  ASSUME LinkInv, sent = <<>>, FsmTicks
  PROVE  LinkInv'
  <1>1. /\ TickEffect
        /\ planner' = planner /\ odom' = odom /\ timer' = timer
        /\ user_topic' = user_topic /\ ready_topic' = ready_topic /\ cmd_topic' = cmd_topic
        /\ started' = started
        /\ machine'.cmd.stamp = "fresh" => received' = received
    BY TickMakes DEF LinkInv, LinkTypeOK, FsmTicks, TickAlone, plannerVars
  <1>2. /\ machine \in Machines /\ machine' \in Machines
        /\ machine.generation \in Nat /\ machine.expected_id \in Nat
        /\ machine'.generation \in Nat /\ machine.generation # 0
        /\ started \subseteq 1 .. machine.generation
    BY <1>1 DEF LinkInv, LinkTypeOK, TickEffect, Machines, Ids, Newest
  <1>3. \/ /\ machine'.generation = machine.generation
           /\ machine'.expected_id = machine.expected_id \/ machine'.expected_id = 0
        \/ /\ machine'.generation = machine.generation + 1
           /\ machine'.expected_id = machine'.generation
           /\ ~planner.ready /\ ~planner.active /\ ready_topic = <<>>
           /\ machine'.phase = "hover"
    BY <1>1 DEF TickEffect, Quiet, Cancelling, Granting, LinkInv, Informed
  <1>4. LinkTypeOK'
    <2>1. ready_topic \in Seq({Cancel, machine'.generation})
      BY <1>3, EmptySeq DEF LinkInv, LinkTypeOK, Newest
    <2>2. started \subseteq 1 .. machine'.generation
      BY <1>2, <1>3
    <2>. QED
      BY <1>1, <1>2, <2>1, <2>2, SentShape DEF LinkInv, LinkTypeOK, Newest
  <1>5. ExpectsNewest'
    <2>1. machine'.expected_id \in {0, machine'.generation}
      BY <1>3 DEF LinkInv, ExpectsNewest, Newest
    <2>2. machine'.phase = "away" => machine'.expected_id = 0
      BY <1>1 DEF TickEffect
    <2>3. ASSUME machine'.phase = "mission"
          PROVE  machine'.expected_id # 0 /\ machine'.generation \in started
      <3>1. Quiet /\ (machine.phase = "mission" \/ (Matches /\ machine.expected_id # 0))
        BY <1>1, <2>3 DEF TickEffect
      <3>2. Matches => machine.expected_id \in started
        BY DEF Matches, LinkInv, OwnCommands, Own
      <3>. QED  BY <3>1, <3>2 DEF Quiet, LinkInv, ExpectsNewest, Newest
    <2>. QED  BY <1>1, <2>1, <2>2, <2>3 DEF ExpectsNewest, Newest
  <1>6. InOrder'
    <2>1. CarriedOnce(ready_topic)' /\ CarriedOnce(sent)'
      BY <1>1, <1>2, SentShape DEF LinkInv, InOrder, CarriedOnce
    <2>2. Carried(sent)' => ready_topic' = <<>>
      BY <1>1, <1>2, SentShape DEF Granting, Carried
    <2>3. sent' = <<>> /\ ready_topic' # <<>> => machine'.expected_id = machine.expected_id
      BY <1>1, <2>2 DEF TickEffect, Quiet, Cancelling, Cancels, Granting
    <2>. QED  BY <1>1, <1>2, <2>1, <2>2, <2>3, SentShape DEF LinkInv, InOrder
  <1>7. Informed'
    <2>1. Carried(ready_topic)' <=> Carried(ready_topic)
      BY <1>1 DEF Carried
    <2>2. CASE Quiet \/ Cancelling
      <3>1. ~Carried(sent)' /\ Newest' = Newest
        BY <1>1, <1>2, <2>2, SentShape DEF Quiet, Cancelling, Granting, Carried, Newest
      <3>2. sent' = <<>> => machine'.expected_id = machine.expected_id
        BY <2>2 DEF Quiet, Cancelling, Cancels
      <3>. QED  BY <1>1, <2>1, <3>1, <3>2 DEF LinkInv, Informed
    <2>3. CASE Granting
      <3>1. ~planner'.ready /\ ~planner'.active
        BY <1>1, <2>3 DEF Granting, LinkInv, Informed
      <3>2. Newest' \notin started'
        BY <1>1, <1>2, <2>3 DEF Granting, Newest
      <3>. QED  BY <3>1, <3>2 DEF Informed
    <2>. QED  BY <1>1, <2>2, <2>3 DEF TickEffect
  <1>8. FrozenInHover'
    BY <1>1, <1>3 DEF LinkInv, FrozenInHover
  <1>9. OwnCommands'
    <2>1. timer'.at = "publishing" =>
            /\ Own(timer.id, timer.origin, timer.yaw)'
            /\ timer'.id = machine'.expected_id => planner'.active
      <3> SUFFICES ASSUME timer.at = "publishing"
                   PROVE  /\ Own(timer.id, timer.origin, timer.yaw)'
                          /\ timer.id = machine'.expected_id => planner.active
        BY <1>1
      <3>1. Own(timer.id, timer.origin, timer.yaw) /\ timer.id \in started
            /\ (timer.id = machine.expected_id => planner.active)
        BY DEF LinkInv, OwnCommands, Own
      <3>2. Own(timer.id, timer.origin, timer.yaw)'
        BY <1>1, <1>2, <1>3, <3>1 DEF Own
      <3>. QED  BY <1>2, <1>3, <3>1, <3>2
    <2>2. \A i \in 1 .. Len(cmd_topic') :
            Own(cmd_topic[i].id, cmd_topic[i].origin, cmd_topic[i].yaw)'
      BY <1>1, <1>2, <1>3 DEF LinkInv, OwnCommands, Own
    <2>3. machine'.cmd.stamp = "fresh" => Own(machine.cmd.id, received.origin, received.yaw)'
      BY <1>1, <1>2, <1>3 DEF LinkInv, OwnCommands, Own, TickEffect
    <2>. QED  BY <2>1, <2>2, <2>3 DEF OwnCommands
  <1>. QED  BY <1>4, <1>5, <1>6, <1>7, <1>8, <1>9 DEF LinkInv

-----------------------------------------------------------------------------
(* The topic to the planner.                                               *)

\* What is left of the older messages, with the new ones after them.
LEMMA SendingProperties ==
  ASSUME NEW S, NEW s \in Seq(S), NEW t \in Seq(S), t # <<>>
  PROVE  LET r == Sending(s, t)
         IN /\ r \in Seq(S) /\ Len(r) > 0
            /\ \E lost \in Nat :
                 /\ Len(r) + lost = Len(s) + Len(t)
                 /\ \A i \in 1 .. Len(r) :
                      r[i] = IF i + lost <= Len(s) THEN s[i + lost] ELSE t[i + lost - Len(s)]
  <1> DEFINE all == s \o t
             first == IF Len(all) > 2 THEN Len(all) - 1 ELSE 1
             r == SubSeq(all, first, Len(all))
  <1>1. Len(s) \in Nat /\ Len(t) \in Nat /\ Len(t) > 0
    BY EmptySeq, LenProperties
  <1>2. /\ all \in Seq(S) /\ Len(all) = Len(s) + Len(t)
        /\ \A i \in 1 .. Len(all) : all[i] = IF i <= Len(s) THEN s[i] ELSE t[i - Len(s)]
    BY <1>1, ConcatProperties
  <1>. HIDE DEF all
  <1>3. first \in 1 .. Len(all)
    BY <1>1, <1>2
  <1>. HIDE DEF first
  <1>4. \A i \in first .. Len(all) : all[i] \in S
    BY <1>2, <1>3, ElementOfSeq
  <1>5. /\ r \in Seq(S) /\ Len(r) = Len(all) - first + 1
        /\ \A i \in 1 .. Len(r) : r[i] = all[first + i - 1]
    BY <1>1, <1>2, <1>3, <1>4, SubSeqProperties
  <1>6. Sending(s, t) = r
    BY DEF Sending, all, first
  <1>. HIDE DEF r
  <1>7. PICK lost \in Nat : lost = first - 1
    BY <1>3
  <1>8. Len(r) > 0 /\ Len(r) + lost = Len(s) + Len(t)
    BY <1>1, <1>2, <1>3, <1>5, <1>7
  <1>9. ASSUME NEW i \in 1 .. Len(r)
        PROVE  r[i] = IF i + lost <= Len(s) THEN s[i + lost] ELSE t[i + lost - Len(s)]
    <2>1. i + lost \in 1 .. Len(all) /\ first + i - 1 = i + lost
      BY <1>1, <1>2, <1>3, <1>5, <1>7
    <2>2. r[i] = all[i + lost]
      BY <2>1, <1>5
    <2>. QED  BY <2>1, <2>2, <1>2
  <1>. QED  BY <1>5, <1>6, <1>8, <1>9

\* The messages of a tick enter the topic.
LEMMA FsmSendsKeeps == ASSUME LinkInv, FsmSends PROVE LinkInv'
  <1> DEFINE r == Sending(ready_topic, sent)
             S == {Cancel, Newest}
  <1>1. /\ sent # <<>> /\ sent' = <<>> /\ ready_topic' = r
        /\ machine' = machine /\ planner' = planner /\ odom' = odom /\ timer' = timer
        /\ cmd_topic' = cmd_topic /\ received' = received /\ started' = started
    BY DEF FsmSends, Begins, plannerVars
  <1>2. ready_topic \in Seq(S) /\ sent \in Seq(S) /\ Len(ready_topic) \in Nat /\ Len(sent) \in Nat
    BY LenProperties DEF LinkInv, LinkTypeOK
  <1>. HIDE DEF S
  <1>3. /\ r \in Seq(S) /\ Len(r) \in Nat /\ Len(r) > 0
        /\ \E lost \in Nat :
             /\ Len(r) + lost = Len(ready_topic) + Len(sent)
             /\ \A i \in 1 .. Len(r) :
                  r[i] = IF i + lost <= Len(ready_topic) THEN ready_topic[i + lost]
                         ELSE sent[i + lost - Len(ready_topic)]
    BY <1>1, <1>2, SendingProperties, LenProperties
  <1>. HIDE DEF r
  <1>4. PICK lost \in Nat :
             /\ Len(r) + lost = Len(ready_topic) + Len(sent)
             /\ \A i \in 1 .. Len(r) :
                  r[i] = IF i + lost <= Len(ready_topic) THEN ready_topic[i + lost]
                         ELSE sent[i + lost - Len(ready_topic)]
    BY <1>3
  <1>5. /\ Carried(sent) => ready_topic = <<>>
        /\ CarriedOnce(sent) /\ CarriedOnce(ready_topic)
        /\ sent[Len(sent)] = machine.expected_id
    BY <1>1 DEF LinkInv, InOrder
  <1>6. r[Len(r)] = machine.expected_id
    <2>1. Len(sent) > 0
      BY <1>1, <1>2, EmptySeq
    <2>. QED  BY <1>2, <1>3, <1>4, <1>5, <2>1
  <1>7. Carried(r) => Carried(sent) \/ Carried(ready_topic)
    <2>. SUFFICES ASSUME NEW i \in 1 .. Len(r), r[i] # Cancel
                  PROVE  Carried(sent) \/ Carried(ready_topic)
      BY DEF Carried
    <2>1. CASE i + lost <= Len(ready_topic)
      BY <1>2, <1>3, <1>4, <2>1 DEF Carried
    <2>2. CASE i + lost > Len(ready_topic)
      <3>1. i + lost - Len(ready_topic) \in 1 .. Len(sent)
            /\ sent[i + lost - Len(ready_topic)] # Cancel
        BY <1>2, <1>3, <1>4, <2>2
      <3>. QED  BY <3>1 DEF Carried
    <2>. QED  BY <1>2, <1>3, <2>1, <2>2
  <1>8. CarriedOnce(r)
    <2>. SUFFICES ASSUME NEW i \in 1 .. Len(r), NEW j \in 1 .. Len(r), i < j, r[i] # Cancel
                  PROVE  r[j] = Cancel
      BY DEF CarriedOnce
    <2> DEFINE n == Len(ready_topic)
    <2>0. n \in Nat /\ i + lost \in Nat /\ j + lost \in Nat /\ i + lost < j + lost
      BY <1>2, <1>3
    <2>1. CASE j + lost <= n
      <3>1. /\ i + lost \in 1 .. n /\ j + lost \in 1 .. n
            /\ ready_topic[i + lost] # Cancel /\ r[j] = ready_topic[j + lost]
        BY <1>3, <1>4, <2>0, <2>1
      <3>. QED  BY <1>5, <2>0, <3>1 DEF CarriedOnce
    <2>2. CASE j + lost > n /\ i + lost <= n
      <3>1. i + lost \in 1 .. n /\ j + lost - n \in 1 .. Len(sent) /\ r[j] = sent[j + lost - n]
        BY <1>2, <1>3, <1>4, <2>0, <2>2
      <3>2. ready_topic # <<>>
        BY <3>1, EmptySeq
      <3>. QED  BY <1>5, <3>1, <3>2 DEF Carried
    <2>3. CASE i + lost > n
      <3>1. /\ i + lost - n \in 1 .. Len(sent) /\ j + lost - n \in 1 .. Len(sent)
            /\ i + lost - n < j + lost - n
            /\ sent[i + lost - n] # Cancel /\ r[j] = sent[j + lost - n]
        BY <1>2, <1>3, <1>4, <2>0, <2>3
      <3>. QED  BY <1>5, <3>1 DEF CarriedOnce
    <2>. QED  BY <2>0, <2>1, <2>2, <2>3
  <1>9. ~Carried(sent') /\ CarriedOnce(sent') /\ sent' \in Seq(S)
    BY <1>1, EmptySeq DEF Carried, CarriedOnce
  <1>10. r # <<>>
    BY <1>3, EmptySeq
  <1>11. LinkTypeOK'
    BY <1>1, <1>3, <1>9 DEF LinkInv, LinkTypeOK, S, Newest
  <1>12. ExpectsNewest' /\ FrozenInHover' /\ OwnCommands'
    BY <1>1 DEF LinkInv, ExpectsNewest, Newest, FrozenInHover, OwnCommands, Own
  <1>13. InOrder'
    <2>1. Carried(sent)' = Carried(sent') /\ CarriedOnce(sent)' = CarriedOnce(sent')
          /\ CarriedOnce(ready_topic)' = CarriedOnce(r)
      BY <1>1 DEF Carried, CarriedOnce
    <2>. QED  BY <1>1, <1>6, <1>8, <1>9, <2>1 DEF InOrder
  <1>14. Informed'
    <2>1. Carried(sent)' = Carried(sent') /\ Carried(ready_topic)' = Carried(r)
      BY <1>1 DEF Carried
    <2>. QED  BY <1>1, <1>7, <1>9, <1>10, <2>1 DEF LinkInv, Informed, Newest
  <1>. QED  BY <1>11, <1>12, <1>13, <1>14 DEF LinkInv

\* The rest of the messages, when the oldest is lost or handled.
LEMMA TailKeeps ==
  ASSUME NEW S, NEW s \in Seq(S), s # <<>>, CarriedOnce(s)
  PROVE  /\ Tail(s) \in Seq(S) /\ Head(s) = s[1] /\ s[1] \in S
         /\ CarriedOnce(Tail(s))
         /\ Carried(Tail(s)) => Carried(s) /\ s[1] = Cancel
         /\ s[1] # Cancel => Carried(s)
         /\ Tail(s) = <<>> <=> Len(s) = 1
         /\ Tail(s) # <<>> => Tail(s)[Len(Tail(s))] = s[Len(s)]
  <1>1. /\ Tail(s) \in Seq(S) /\ Len(Tail(s)) = Len(s) - 1
        /\ \A i \in 1 .. Len(Tail(s)) : Tail(s)[i] = s[i + 1]
    BY HeadTailProperties
  <1>2. Len(s) \in Nat /\ Len(s) > 0
    BY EmptySeq, LenProperties
  <1>3. s[1] \in S /\ Head(s) = s[1]
    BY <1>2, ElementOfSeq
  <1> DEFINE r == Tail(s)
  <1>4. r = <<>> <=> Len(s) = 1
    <2>. HIDE DEF r
    <2>1. r \in Seq(S) /\ Len(r) = Len(s) - 1
      BY <1>1 DEF r
    <2>2. Len(<<>>) = 0 /\ (r # <<>> => Len(r) \in Nat \ {0})
      BY <2>1, EmptySeq
    <2>. QED  BY <1>2, <2>1, <2>2
  <1>5. \A i \in 1 .. Len(r) : i + 1 \in 1 .. Len(s) /\ r[i] = s[i + 1] /\ 1 < i + 1
    BY <1>1, <1>2
  <1>6. Len(r) \in Nat /\ (r # <<>> => r[Len(r)] = s[Len(s)])
    BY <1>1, <1>2, <1>4, <1>5
  <1>. HIDE DEF r
  <1>7. CarriedOnce(r)
    BY <1>2, <1>5, <1>6 DEF CarriedOnce
  <1>8. Carried(r) => Carried(s) /\ s[1] = Cancel
    BY <1>2, <1>5, <1>6 DEF CarriedOnce, Carried
  <1>9. s[1] # Cancel => Carried(s)
    BY <1>2 DEF Carried
  <1>. QED  BY <1>1, <1>3, <1>4, <1>6, <1>7, <1>8, <1>9 DEF r

\* A message of the state machine is overwritten by a later one.
LEMMA ReadyOverwrittenKeeps == ASSUME LinkInv, sent = <<>>, ReadyOverwritten PROVE LinkInv'
  <1>1. /\ ready_topic # <<>> /\ Len(ready_topic) = 2 /\ ready_topic' = Tail(ready_topic)
        /\ machine' = machine /\ sent' = sent /\ planner' = planner /\ timer' = timer
        /\ cmd_topic' = cmd_topic /\ received' = received /\ started' = started
    BY DEF ReadyOverwritten, plannerVars, promiseVars
  <1>2. ready_topic \in Seq({Cancel, Newest}) /\ CarriedOnce(ready_topic)
    BY DEF LinkInv, LinkTypeOK, InOrder
  <1>3. /\ ready_topic' \in Seq({Cancel, Newest}) /\ CarriedOnce(ready_topic')
        /\ Carried(ready_topic') => Carried(ready_topic)
        /\ ready_topic' # <<>>
        /\ ready_topic'[Len(ready_topic')] = ready_topic[Len(ready_topic)]
    <2> DEFINE S == {Cancel, Newest}
    <2>. HIDE DEF S
    <2>1. ready_topic \in Seq(S)
      BY <1>2 DEF S
    <2>2. ready_topic' # <<>>
      <3>1. Len(ready_topic') = 1
        BY <1>1, <2>1, HeadTailProperties
      <3>2. Len(<<>>) = 0
        BY EmptySeq
      <3>. QED  BY <3>1, <3>2
    <2>3. /\ ready_topic' \in Seq(S) /\ CarriedOnce(ready_topic')
          /\ Carried(ready_topic') => Carried(ready_topic)
          /\ ready_topic'[Len(ready_topic')] = ready_topic[Len(ready_topic)]
      BY <1>1, <1>2, <2>1, <2>2, TailKeeps
    <2>. QED  BY <2>2, <2>3 DEF S
  <1>4. ~Carried(sent) /\ ~Carried(sent)' /\ (Carried(ready_topic)' <=> Carried(ready_topic'))
        /\ (CarriedOnce(ready_topic)' <=> CarriedOnce(ready_topic'))
        /\ (CarriedOnce(sent)' <=> CarriedOnce(sent))
    BY <1>1 DEF Carried, CarriedOnce
  <1>5. LinkTypeOK'
    BY <1>1, <1>3 DEF LinkInv, LinkTypeOK, Newest
  <1>6. ExpectsNewest' /\ FrozenInHover' /\ OwnCommands'
    BY <1>1 DEF LinkInv, ExpectsNewest, Newest, FrozenInHover, OwnCommands, Own
  <1>7. InOrder'
    BY <1>1, <1>3, <1>4 DEF LinkInv, InOrder
  <1>8. Informed'
    BY <1>1, <1>3, <1>4 DEF LinkInv, Informed, Newest
  <1>. QED  BY <1>5, <1>6, <1>7, <1>8 DEF LinkInv

-----------------------------------------------------------------------------
(* Messages and time of the state machine.                                 *)

\* Triggers of the user, odometry and its age: nothing of the newest handshake.
LEMMA ApartKeeps ==
  ASSUME LinkInv,
         machine' = machine, sent' = sent, ready_topic' = ready_topic, planner' = planner,
         timer' = timer, cmd_topic' = cmd_topic, received' = received, started' = started
  PROVE  LinkInv'
  BY DEF LinkInv, LinkTypeOK, ExpectsNewest, InOrder, Informed, FrozenInHover, OwnCommands,
         Own, Newest, Carried, CarriedOnce

\* What the state machine gets is not a handshake: the trigger, and a command
\* that is its own, if it is fresh.
LEMMA MachineGets ==
  ASSUME LinkInv, machine' \in Machines,
         machine'.generation = machine.generation,
         machine'.expected_id = machine.expected_id, machine'.phase = machine.phase,
         machine'.cmd.stamp = "fresh" =>
            Own(machine'.cmd.id, received'.origin, received'.yaw),
         sent' = sent, ready_topic' = ready_topic, planner' = planner, timer' = timer,
         \A i \in 1 .. Len(cmd_topic') :
            Own(cmd_topic'[i].id, cmd_topic'[i].origin, cmd_topic'[i].yaw),
         cmd_topic' \in Seq([id : Ids, origin : Ids, yaw : {"own", "other"}]),
         started' = started
  PROVE  LinkInv'
  <1>1. LinkTypeOK'
    BY DEF LinkInv, LinkTypeOK, Newest
  <1>2. ExpectsNewest' /\ FrozenInHover'
    BY DEF LinkInv, ExpectsNewest, FrozenInHover, Newest
  <1>3. InOrder' /\ Informed'
    BY DEF LinkInv, InOrder, Informed, Newest, Carried, CarriedOnce
  <1>4. OwnCommands'
    BY DEF LinkInv, OwnCommands, Own
  <1>. QED  BY <1>1, <1>2, <1>3, <1>4 DEF LinkInv

\* The user's trigger, and the age of what was received.
LEMMA MachineAgesKeeps == ASSUME LinkInv, FsmGetsTrigger \/ FsmTime PROVE LinkInv'
  <1>0. /\ machine \in Machines /\ machine.cmd \in Commands
        /\ cmd_topic \in Seq([id : Ids, origin : Ids, yaw : {"own", "other"}])
        /\ \A i \in 1 .. Len(cmd_topic) :
             Own(cmd_topic[i].id, cmd_topic[i].origin, cmd_topic[i].yaw)
        /\ machine.cmd.stamp = "fresh" => Own(machine.cmd.id, received.origin, received.yaw)
    BY DEF LinkInv, LinkTypeOK, OwnCommands, Machines
  <1>1. /\ sent' = sent /\ ready_topic' = ready_topic /\ planner' = planner /\ timer' = timer
        /\ cmd_topic' = cmd_topic /\ started' = started
    BY DEF FsmGetsTrigger, GetsTrigger, FsmTime, CommandGetsStale, CommandStale, TriggerExpires,
           FsmAlone, Gets, plannerVars
  <1>2. \/ machine' = [machine EXCEPT !.pending = "fresh"] /\ received' = received
        \/ machine' = [machine EXCEPT !.pending = "expired"] /\ received' = received
        \/ machine' = [machine EXCEPT !.cmd.stamp = "stale"]
    BY DEF FsmGetsTrigger, GetsTrigger, FsmTime, CommandGetsStale, CommandStale, TriggerExpires,
           FsmAlone, Gets
  <1>3. /\ machine' \in Machines /\ machine'.generation = machine.generation
        /\ machine'.expected_id = machine.expected_id /\ machine'.phase = machine.phase
        /\ machine'.cmd.stamp = "fresh" => machine'.cmd = machine.cmd /\ received' = received
    BY <1>0, <1>2 DEF Machines, Commands
  <1>. QED  BY <1>0, <1>1, <1>3, MachineGets

\* The next command arrives.
LEMMA FsmGetsCommandKeeps == ASSUME LinkInv, FsmGetsCommand PROVE LinkInv'
  <1> DEFINE C == [id : Ids, origin : Ids, yaw : {"own", "other"}]
             c == Head(cmd_topic)
  <1>0. /\ machine \in Machines /\ cmd_topic \in Seq(C)
        /\ \A i \in 1 .. Len(cmd_topic) :
             Own(cmd_topic[i].id, cmd_topic[i].origin, cmd_topic[i].yaw)
    BY DEF LinkInv, LinkTypeOK, OwnCommands
  <1>1. /\ sent' = sent /\ ready_topic' = ready_topic /\ planner' = planner /\ timer' = timer
        /\ cmd_topic # <<>> /\ cmd_topic' = Tail(cmd_topic) /\ started' = started
        /\ machine' = [machine EXCEPT !.cmd = [stamp |-> "fresh", id |-> c.id]]
        /\ received' = [origin |-> c.origin, yaw |-> c.yaw]
    BY DEF FsmGetsCommand, GetsCommand, Gets, plannerVars
  <1>2. c = cmd_topic[1] /\ Len(cmd_topic) \in Nat /\ Len(cmd_topic) > 0
    BY <1>0, <1>1, EmptySeq, LenProperties
  <1>3. c \in C /\ Own(c.id, c.origin, c.yaw)
    <2>. HIDE DEF C, c
    <2>1. 1 \in 1 .. Len(cmd_topic)
      BY <1>2
    <2>. QED  BY <1>0, <1>2, <2>1, ElementOfSeq
  <1>4. /\ Tail(cmd_topic) \in Seq(C) /\ Len(Tail(cmd_topic)) = Len(cmd_topic) - 1
        /\ \A i \in 1 .. Len(Tail(cmd_topic)) : Tail(cmd_topic)[i] = cmd_topic[i + 1]
    <2>. HIDE DEF C
    <2>. QED  BY <1>0, <1>1, HeadTailProperties
  <1>5. \A i \in 1 .. Len(cmd_topic') :
            Own(cmd_topic'[i].id, cmd_topic'[i].origin, cmd_topic'[i].yaw)
    <2>. SUFFICES ASSUME NEW i \in 1 .. Len(cmd_topic')
                  PROVE  Own(cmd_topic'[i].id, cmd_topic'[i].origin, cmd_topic'[i].yaw)
      OBVIOUS
    <2>1. i + 1 \in 1 .. Len(cmd_topic) /\ cmd_topic'[i] = cmd_topic[i + 1]
      BY <1>1, <1>2, <1>4
    <2>. QED  BY <1>0, <2>1
  <1>6. c.id \in Ids
    BY <1>3
  <1>. HIDE DEF c
  <1>7. /\ machine' \in Machines /\ machine'.generation = machine.generation
        /\ machine'.expected_id = machine.expected_id /\ machine'.phase = machine.phase
        /\ machine'.cmd.id = c.id
    BY <1>0, <1>1, <1>6 DEF Machines, Commands
  <1>8. Own(machine'.cmd.id, received'.origin, received'.yaw)
    BY <1>1, <1>3, <1>7
  <1>. QED  BY <1>1, <1>4, <1>5, <1>7, <1>8, MachineGets

-----------------------------------------------------------------------------
(* The planner, and its timer.                                             *)

\* Nothing new: no handshake and no trajectory that the planner did not have,
\* and whatever is being published is its own.
LEMMA PlannerHas ==
  ASSUME LinkInv, planner' \in Planner!Planners, timer' \in Planner!Timers,
         planner'.ready => planner.ready /\ planner'.id = planner.id,
         planner'.active => /\ planner.active /\ planner'.active_id = planner.active_id
                            /\ planner'.origin = planner.origin,
         machine.expected_id # 0 /\ planner'.ready /\ planner'.trigger = "fresh" =>
            planner'.origin = machine.expected_id,
         timer'.at = "publishing" =>
            /\ Own(timer'.id, timer'.origin, timer'.yaw)
            /\ timer'.id = machine.expected_id => planner'.active,
         machine' = machine, sent' = sent, ready_topic' = ready_topic,
         cmd_topic' = cmd_topic, received' = received, started' = started
  PROVE  LinkInv'
  <1>1. LinkTypeOK' /\ ExpectsNewest'
    BY DEF LinkInv, LinkTypeOK, ExpectsNewest, Newest
  <1>2. InOrder'
    BY DEF LinkInv, InOrder, Carried, CarriedOnce
  <1>3. Informed'
    BY DEF LinkInv, Informed, Carried, Newest
  <1>4. FrozenInHover'
    BY DEF LinkInv, FrozenInHover
  <1>5. OwnCommands'
    BY DEF LinkInv, OwnCommands, Own
  <1>. QED  BY <1>1, <1>2, <1>3, <1>4, <1>5 DEF LinkInv

\* While the planner holds the newest handshake and the state machine expects
\* it, the vehicle hovers, and what is frozen now is frozen in that hover.
LEMMA PlaceIsHover ==
  ASSUME LinkInv, machine.expected_id # 0, Newest \notin started
  PROVE  Place = machine.expected_id
  BY DEF LinkInv, LinkTypeOK, ExpectsNewest, Machines, Place

\* The place where an origin is frozen is named by an id.
LEMMA PlaceIsId == ASSUME LinkInv PROVE Place \in Ids
  BY DEF LinkInv, LinkTypeOK, Machines, Place, Ids

\* A tick that is being published is of a trajectory that is still active, if
\* the state machine expects it: so no origin is frozen under it.
LEMMA FrozenTimer ==
  ASSUME LinkInv, ~planner.active, timer' = Planner!FreezeTimer
  PROVE  /\ timer' \in Planner!Timers
         /\ timer'.at = "publishing" =>
              /\ Own(timer'.id, timer'.origin, timer'.yaw)
              /\ timer'.id # machine.expected_id
  <1>1. /\ timer' \in Planner!Timers
        /\ timer'.at = timer.at /\ timer'.id = timer.id /\ timer'.origin = timer.origin
    BY LinkFreezeTimerKeeps DEF LinkInv, LinkTypeOK
  <1>. QED  BY <1>1 DEF LinkInv, OwnCommands, Own

\* The user's trigger, at the planner.
LEMMA PlannerGetsTriggerKeeps == ASSUME LinkInv, PlannerGetsTrigger PROVE LinkInv'
  <1> DEFINE p == Planner!Expire(planner)
             q == Planner!Freeze(p, Place)
             accepted == Planner!OdomValid /\ ~p.active
  <1>1. /\ machine' = machine /\ sent' = sent /\ ready_topic' = ready_topic
        /\ cmd_topic' = cmd_topic /\ received' = received /\ started' = started
        /\ planner' = IF accepted THEN [q EXCEPT !.trigger = "fresh"] ELSE p
        /\ timer' = IF accepted THEN Planner!FreezeTimer ELSE timer
    BY DEF PlannerGetsTrigger, Planner!TriggerCallback, promiseVars
  <1>2. /\ planner \in Planner!Planners /\ timer \in Planner!Timers
        /\ p \in Planner!Planners
        /\ p.ready = planner.ready /\ p.id = planner.id
        /\ p.active = planner.active /\ p.active_id = planner.active_id
        /\ p.origin = planner.origin /\ (p.trigger = "fresh" => planner.trigger = "fresh")
    BY LinkExpireKeeps DEF LinkInv, LinkTypeOK
  <1>. HIDE DEF p
  <1>3. /\ q \in Planner!Planners /\ q.ready = p.ready /\ q.id = p.id /\ q.active = p.active
        /\ q.origin = Place
    BY <1>2, PlaceIsId, LinkFreezeKeeps
  <1>. HIDE DEF q
  <1>4. CASE accepted
    <2>1. /\ planner' \in Planner!Planners /\ planner'.ready = planner.ready
          /\ planner'.id = planner.id /\ ~planner'.active /\ planner'.origin = Place
      BY <1>1, <1>2, <1>3, <1>4 DEF Planner!Planners
    <2>2. planner.ready /\ machine.expected_id # 0 => Place = machine.expected_id
      BY PlaceIsHover DEF LinkInv, Informed
    <2>3. timer' = Planner!FreezeTimer /\ ~planner.active
      BY <1>1, <1>2, <1>4
    <2>. QED  BY <1>1, <2>1, <2>2, <2>3, FrozenTimer, PlannerHas
  <1>5. CASE ~accepted
    <2>1. planner' = p /\ timer' = timer
      BY <1>1, <1>5
    <2>2. machine.expected_id # 0 /\ planner.ready /\ planner.trigger = "fresh" =>
            planner.origin = machine.expected_id
      BY DEF LinkInv, FrozenInHover
    <2>3. timer.at = "publishing" =>
            /\ Own(timer.id, timer.origin, timer.yaw)
            /\ timer.id = machine.expected_id => planner.active
      BY DEF LinkInv, OwnCommands
    <2>. QED  BY <1>1, <1>2, <2>1, <2>2, <2>3, PlannerHas
  <1>. QED  BY <1>4, <1>5

\* A trajectory goes on.
LEMMA PlannerAdvancesKeeps ==
  ASSUME LinkInv, NEW dt \in {0, 1}, PlannerAdvances(dt)
  PROVE  LinkInv'
  <1> DEFINE e == Planner!Expire(planner)
             time == planner.elapsed + dt
             reached == IF time > TrajectoryTime THEN TrajectoryTime ELSE time
             p == [e EXCEPT !.elapsed = reached]
             stop == time >= TrajectoryTime
  <1>1. /\ machine' = machine /\ sent' = sent /\ ready_topic' = ready_topic
        /\ cmd_topic' = cmd_topic /\ received' = received /\ started' = started
        /\ planner.active /\ planner' = p /\ timer' = Planner!Computed(p, stop)
    BY DEF PlannerAdvances, Planner!TimerAdvances, PlannerAlone, promiseVars
  <1>2. /\ planner \in Planner!Planners /\ e \in Planner!Planners
        /\ e.ready = planner.ready /\ e.id = planner.id
        /\ e.active = planner.active /\ e.active_id = planner.active_id
        /\ e.origin = planner.origin /\ (e.trigger = "fresh" => planner.trigger = "fresh")
    BY LinkExpireKeeps DEF LinkInv, LinkTypeOK
  <1>3. reached \in 0 .. TrajectoryTime /\ stop \in BOOLEAN
    BY <1>2 DEF Planner!Planners
  <1>. HIDE DEF e, reached, stop
  <1>4. /\ p \in Planner!Planners
        /\ p.ready = e.ready /\ p.id = e.id /\ p.active = e.active /\ p.active_id = e.active_id
        /\ p.origin = e.origin /\ p.trigger = e.trigger
    BY <1>2, <1>3 DEF Planner!Planners
  <1>. HIDE DEF p
  <1>5. /\ timer' \in Planner!Timers /\ timer'.id = planner.active_id
        /\ timer'.origin = planner.origin /\ timer'.yaw = "own"
    BY <1>1, <1>2, <1>3, <1>4, LinkComputed
  <1>6. planner.active_id = Newest /\ Newest \in started
    BY <1>1 DEF LinkInv, Informed
  <1>7. Newest # 0
    BY DEF LinkInv, LinkTypeOK, Machines, Ids, Newest
  <1>8. machine.expected_id # 0 => planner.origin = machine.expected_id
    BY <1>1 DEF LinkInv, FrozenInHover
  <1>9. Own(timer'.id, timer'.origin, timer'.yaw)
    BY <1>5, <1>6, <1>7, <1>8 DEF Own
  <1>. QED  BY <1>1, <1>2, <1>4, <1>5, <1>8, <1>9, PlannerHas

\* After the final point.
LEMMA PlannerStopsKeeps == ASSUME LinkInv, PlannerStops PROVE LinkInv'
  <1>1. /\ machine' = machine /\ sent' = sent /\ ready_topic' = ready_topic
        /\ cmd_topic' = cmd_topic /\ received' = received /\ started' = started
        /\ planner' = [planner EXCEPT !.active = FALSE, !.active_id = 0]
        /\ timer' = Planner!IdleTimer
    BY DEF PlannerStops, Planner!TimerStops, PlannerAlone, promiseVars
  <1>2. /\ planner' \in Planner!Planners /\ planner'.ready = planner.ready
        /\ planner'.id = planner.id /\ planner'.trigger = planner.trigger
        /\ planner'.origin = planner.origin /\ ~planner'.active
    BY <1>1 DEF LinkInv, LinkTypeOK, Planner!Planners
  <1>3. machine.expected_id # 0 /\ planner.ready /\ planner.trigger = "fresh" =>
            planner.origin = machine.expected_id
    BY DEF LinkInv, FrozenInHover
  <1>. QED  BY <1>1, <1>2, <1>3, LinkIdleTimer, PlannerHas

\* The rest of the planner's clock.
LEMMA PlannerTimeKeeps == ASSUME LinkInv, PlannerTime \/ PlannerGetsOdom PROVE LinkInv'
  <1> DEFINE p == Planner!Expire(planner)
  <1>1. /\ machine' = machine /\ sent' = sent /\ ready_topic' = ready_topic /\ timer' = timer
        /\ cmd_topic' = cmd_topic /\ received' = received /\ started' = started
        /\ \/ planner' = planner
           \/ planner' = p
           \/ planner' = [planner EXCEPT !.trigger = "expired"]
    BY DEF PlannerTime, PlannerGetsOdom, Planner!OdomCallback, Planner!OdomTimeout,
           Planner!HandshakeTimeout, Planner!TimerReturns, PlannerAlone, promiseVars
  <1>2. /\ planner \in Planner!Planners /\ p \in Planner!Planners /\ timer \in Planner!Timers
        /\ p.ready = planner.ready /\ p.id = planner.id
        /\ p.active = planner.active /\ p.active_id = planner.active_id
        /\ p.origin = planner.origin /\ (p.trigger = "fresh" => planner.trigger = "fresh")
    BY LinkExpireKeeps DEF LinkInv, LinkTypeOK
  <1>. HIDE DEF p
  <1>3. /\ planner' \in Planner!Planners
        /\ planner'.ready = planner.ready /\ planner'.id = planner.id
        /\ planner'.active = planner.active /\ planner'.active_id = planner.active_id
        /\ planner'.origin = planner.origin
        /\ planner'.trigger = "fresh" => planner.trigger = "fresh"
    BY <1>1, <1>2 DEF Planner!Planners
  <1>4. machine.expected_id # 0 /\ planner.ready /\ planner.trigger = "fresh" =>
            planner.origin = machine.expected_id
    BY DEF LinkInv, FrozenInHover
  <1>5. timer.at = "publishing" =>
            /\ Own(timer.id, timer.origin, timer.yaw)
            /\ timer.id = machine.expected_id => planner.active
    BY DEF LinkInv, OwnCommands
  <1>. QED  BY <1>1, <1>2, <1>3, <1>4, <1>5, PlannerHas

\* A trajectory starts, with the handshake that the planner holds.
LEMMA PlannerStartsKeeps == ASSUME LinkInv, PlannerStarts PROVE LinkInv'
  <1> DEFINE e == Planner!Expire(planner)
             q == [e EXCEPT !.active = TRUE, !.active_id = e.id, !.elapsed = 0,
                            !.ready = FALSE, !.id = 0, !.trigger = "none"]
  <1>1. /\ machine' = machine /\ sent' = sent /\ ready_topic' = ready_topic
        /\ cmd_topic' = cmd_topic /\ received' = received
        /\ started' = started \cup {planner'.active_id}
        /\ e.ready /\ e.trigger = "fresh" /\ ~e.active
        /\ planner' = q /\ timer' = Planner!Computed(q, FALSE)
    BY DEF PlannerStarts, Planner!TimerStarts, promiseVars
  <1>2. /\ e \in Planner!Planners /\ planner.ready /\ e.id = planner.id
        /\ e.origin = planner.origin /\ planner.trigger = "fresh"
    BY <1>1, LinkExpireKeeps DEF LinkInv, LinkTypeOK
  <1>3. 0 \in 0 .. TrajectoryTime
    OBVIOUS
  <1>. HIDE DEF e
  <1>4. /\ q \in Planner!Planners /\ ~q.ready /\ q.active /\ q.active_id = planner.id
        /\ q.origin = planner.origin
    BY <1>2, <1>3 DEF Planner!Planners
  <1>. HIDE DEF q
  <1>5. /\ timer' \in Planner!Timers /\ timer'.id = planner.id
        /\ timer'.origin = planner.origin /\ timer'.yaw = "own"
    BY <1>1, <1>4, LinkComputed
  <1>6. /\ planner.id = Newest /\ Newest \notin started
        /\ ~Carried(sent) /\ ~Carried(ready_topic)
    BY <1>2 DEF LinkInv, Informed
  <1>7. /\ machine.expected_id # 0 =>
             machine.expected_id = Newest /\ planner.origin = machine.expected_id
        /\ Newest \in Nat /\ Newest # 0 /\ Newest \in 1 .. Newest
    BY <1>2 DEF LinkInv, FrozenInHover, ExpectsNewest, LinkTypeOK, Machines, Ids, Newest
  <1>8. started' = started \cup {Newest} /\ Newest' = Newest
    BY <1>1, <1>4, <1>6 DEF Newest
  <1>9. LinkTypeOK' /\ ExpectsNewest'
    BY <1>1, <1>4, <1>5, <1>7, <1>8 DEF LinkInv, LinkTypeOK, ExpectsNewest
  <1>10. InOrder'
    BY <1>1 DEF LinkInv, InOrder, Carried, CarriedOnce
  <1>11. Informed'
    <2>1. ~Carried(sent)' /\ ~Carried(ready_topic)'
      BY <1>1, <1>6 DEF Carried
    <2>2. ~(sent' = <<>> /\ ready_topic' = <<>> /\ machine'.expected_id = 0)
      BY <1>1, <1>2 DEF LinkInv, Informed
    <2>. QED  BY <1>1, <1>4, <1>6, <1>8, <2>1, <2>2 DEF Informed
  <1>12. FrozenInHover'
    BY <1>1, <1>4, <1>7 DEF FrozenInHover
  <1>13. OwnCommands'
    <2>1. \A id, origin, yaw : Own(id, origin, yaw) =>
            id \in started' /\ (id = machine'.expected_id =>
              origin = machine'.expected_id /\ yaw = "own")
      BY <1>1, <1>8 DEF Own
    <2>2. /\ timer'.id \in started'
          /\ timer'.id = machine'.expected_id =>
               timer'.origin = machine'.expected_id /\ timer'.yaw = "own"
      BY <1>1, <1>5, <1>6, <1>7, <1>8
    <2>. QED  BY <1>1, <1>4, <2>1, <2>2 DEF LinkInv, OwnCommands, Own
  <1>. QED  BY <1>9, <1>10, <1>11, <1>12, <1>13 DEF LinkInv

\* The command that was computed is published.
LEMMA PlannerPublishesKeeps == ASSUME LinkInv, PlannerPublishes PROVE LinkInv'
  <1> DEFINE c == Planner!Command
  <1>1. /\ machine' = machine /\ sent' = sent /\ ready_topic' = ready_topic
        /\ cmd_topic' = <<c>> /\ received' = received /\ started' = started
        /\ planner' = planner /\ timer.at = "publishing"
        /\ timer' = IF timer.stop THEN [timer EXCEPT !.at = "stopping"] ELSE Planner!IdleTimer
    BY DEF PlannerPublishes, Planner!TimerPublishes, promiseVars
  <1>2. timer' \in Planner!Timers /\ timer'.at # "publishing"
    BY <1>1, LinkIdleTimer DEF LinkInv, LinkTypeOK, Planner!Timers
  <1>3. /\ c \in [id : Ids, origin : Ids, yaw : {"own", "other"}]
        /\ Own(c.id, c.origin, c.yaw)
    <2>1. 0 \in Ids
      BY DEF Ids
    <2>2. c = [id |-> timer.id, origin |-> timer.origin, yaw |-> timer.yaw]
      BY DEF Planner!Command
    <2>3. timer.id \in Ids /\ timer.origin \in Ids /\ timer.yaw \in {"own", "other"}
      BY <2>1 DEF LinkInv, LinkTypeOK, Planner!Timers
    <2>4. Own(timer.id, timer.origin, timer.yaw)
      BY <1>1 DEF LinkInv, OwnCommands
    <2>. QED  BY <2>2, <2>3, <2>4
  <1>. HIDE DEF c
  <1>4. /\ cmd_topic' \in Seq([id : Ids, origin : Ids, yaw : {"own", "other"}])
        /\ \A i \in 1 .. Len(cmd_topic') : cmd_topic'[i] = c
    BY <1>1, <1>3
  <1>5. LinkTypeOK' /\ ExpectsNewest'
    BY <1>1, <1>2, <1>4 DEF LinkInv, LinkTypeOK, ExpectsNewest, Newest
  <1>6. InOrder' /\ Informed' /\ FrozenInHover'
    BY <1>1 DEF LinkInv, InOrder, Informed, FrozenInHover, Carried, CarriedOnce, Newest
  <1>7. OwnCommands'
    BY <1>1, <1>2, <1>3, <1>4 DEF LinkInv, OwnCommands, Own
  <1>. QED  BY <1>5, <1>6, <1>7 DEF LinkInv

\* A handshake is accepted, ignored or dropped with the user's trigger; the
\* planner may have been asked to start nothing else.
LEMMA HandshakeMakes ==
  ASSUME LinkInv, ~planner.active, Newest \notin started,
         Planner!ReadyCallback(Newest, Place)
  PROVE  /\ planner' \in Planner!Planners /\ ~planner'.active
         /\ planner'.ready => planner'.id = Newest \/ (planner.ready /\ planner'.id = planner.id)
         /\ machine.expected_id # 0 /\ planner'.ready /\ planner'.trigger = "fresh" =>
              planner'.origin = machine.expected_id
         /\ timer' = timer \/ timer' = Planner!FreezeTimer
  <1> DEFINE p == Planner!Expire(planner)
             q == Planner!Freeze(p, Place)
  <1>1. /\ ~p.active => planner' =
             IF p.trigger # "fresh" THEN [p EXCEPT !.id = Newest, !.ready = TRUE]
             ELSE IF Planner!OdomValid THEN [q EXCEPT !.id = Newest, !.ready = TRUE]
             ELSE [p EXCEPT !.trigger = "none", !.ready = FALSE]
        /\ timer' = timer \/ timer' = Planner!FreezeTimer
    BY DEF Planner!ReadyCallback
  <1>2. planner \in Planner!Planners /\ p \in Planner!Planners /\ p.active = planner.active
    BY LinkExpireKeeps DEF LinkInv, LinkTypeOK
  <1>. HIDE DEF p
  <1>3. q \in Planner!Planners /\ q.active = p.active /\ q.origin = Place
    BY <1>2, PlaceIsId, LinkFreezeKeeps
  <1>. HIDE DEF q
  <1>4. Newest \in Ids \ {0}
    BY DEF LinkInv, LinkTypeOK, Machines, Newest
  <1>5. machine.expected_id # 0 => Place = machine.expected_id
    BY PlaceIsHover
  <1>6. CASE p.trigger # "fresh"
    <2>1. planner' = [p EXCEPT !.id = Newest, !.ready = TRUE]
      BY <1>1, <1>2, <1>6
    <2>2. /\ planner' \in Planner!Planners /\ ~planner'.active /\ planner'.id = Newest
          /\ planner'.trigger # "fresh"
      BY <1>2, <1>4, <1>6, <2>1 DEF Planner!Planners
    <2>. QED  BY <1>1, <2>2
  <1>7. CASE p.trigger = "fresh" /\ Planner!OdomValid
    <2>1. planner' = [q EXCEPT !.id = Newest, !.ready = TRUE]
      BY <1>1, <1>2, <1>7
    <2>2. /\ planner' \in Planner!Planners /\ ~planner'.active /\ planner'.id = Newest
          /\ planner'.origin = Place
      BY <1>2, <1>3, <1>4, <2>1 DEF Planner!Planners
    <2>. QED  BY <1>1, <1>5, <2>2
  <1>8. CASE p.trigger = "fresh" /\ ~Planner!OdomValid
    <2>1. planner' = [p EXCEPT !.trigger = "none", !.ready = FALSE]
      BY <1>1, <1>2, <1>8
    <2>2. planner' \in Planner!Planners /\ ~planner'.active /\ ~planner'.ready
      BY <1>2, <2>1 DEF Planner!Planners
    <2>. QED  BY <1>1, <2>2
  <1>. QED  BY <1>6, <1>7, <1>8

\* The oldest message reaches the planner.
LEMMA PlannerGetsReadyKeeps == ASSUME LinkInv, sent = <<>>, PlannerGetsReady PROVE LinkInv'
  <1> DEFINE S == {Cancel, Newest}
  <1>1. /\ ready_topic # <<>> /\ ready_topic' = Tail(ready_topic)
        /\ IF Head(ready_topic) = Cancel THEN Planner!CancelCallback
           ELSE Planner!ReadyCallback(Head(ready_topic), Place)
        /\ machine' = machine /\ sent' = sent
        /\ cmd_topic' = cmd_topic /\ received' = received /\ started' = started
    BY DEF PlannerGetsReady, promiseVars
  <1>2. /\ ready_topic \in Seq(S) /\ CarriedOnce(ready_topic)
        /\ planner \in Planner!Planners /\ timer \in Planner!Timers
        /\ ready_topic[Len(ready_topic)] = machine.expected_id
    BY <1>1 DEF LinkInv, LinkTypeOK, InOrder
  <1>. HIDE DEF S
  <1>3. /\ ready_topic' \in Seq(S) /\ Head(ready_topic) \in S
        /\ CarriedOnce(ready_topic')
        /\ Carried(ready_topic') => Carried(ready_topic) /\ Head(ready_topic) = Cancel
        /\ Head(ready_topic) # Cancel => Carried(ready_topic)
        /\ ready_topic' = <<>> => machine.expected_id = Head(ready_topic)
        /\ ready_topic' # <<>> => ready_topic'[Len(ready_topic')] = machine.expected_id
    <2>1. /\ Tail(ready_topic) \in Seq(S) /\ Head(ready_topic) = ready_topic[1]
          /\ ready_topic[1] \in S
          /\ CarriedOnce(Tail(ready_topic))
          /\ Carried(Tail(ready_topic)) => Carried(ready_topic) /\ ready_topic[1] = Cancel
          /\ ready_topic[1] # Cancel => Carried(ready_topic)
          /\ Tail(ready_topic) = <<>> <=> Len(ready_topic) = 1
          /\ Tail(ready_topic) # <<>> =>
               Tail(ready_topic)[Len(Tail(ready_topic))] = ready_topic[Len(ready_topic)]
      BY <1>1, <1>2, TailKeeps
    <2>. QED  BY <1>1, <1>2, <2>1
  <1>4. ~Carried(sent) /\ ~Carried(sent)' /\ (Carried(ready_topic)' <=> Carried(ready_topic'))
        /\ CarriedOnce(sent)' /\ CarriedOnce(ready_topic)'
    BY <1>1, <1>3 DEF Carried, CarriedOnce
  <1>5. ExpectsNewest'
    BY <1>1 DEF LinkInv, ExpectsNewest, Newest
  <1>6. InOrder'
    BY <1>1, <1>3, <1>4 DEF InOrder
  <1>7. \A i \in 1 .. Len(cmd_topic') :
          Own(cmd_topic[i].id, cmd_topic[i].origin, cmd_topic[i].yaw)'
    BY <1>1 DEF LinkInv, OwnCommands, Own
  <1>8. machine'.cmd.stamp = "fresh" => Own(machine.cmd.id, received.origin, received.yaw)'
    BY <1>1 DEF LinkInv, OwnCommands, Own
  <1>9. CASE Head(ready_topic) = Cancel
    <2>1. /\ planner' = [planner EXCEPT !.ready = FALSE, !.id = 0, !.trigger = "none",
                                        !.active = FALSE, !.active_id = 0]
          /\ timer' = timer
      BY <1>1, <1>9 DEF Planner!CancelCallback
    <2>2. planner' \in Planner!Planners /\ ~planner'.ready /\ ~planner'.active
      BY <1>2, <2>1 DEF Planner!Planners
    <2>3. LinkTypeOK'
      BY <1>1, <1>2, <1>3, <2>1, <2>2 DEF LinkInv, LinkTypeOK, S, Newest
    <2>4. Informed'
      BY <1>1, <1>3, <1>4, <2>2 DEF LinkInv, Informed, Newest
    <2>5. FrozenInHover'
      BY <2>2 DEF FrozenInHover
    <2>6. timer.at = "publishing" => timer.id # machine.expected_id
      <3>1. CASE machine.expected_id = 0
        BY <3>1 DEF LinkInv, LinkTypeOK, OwnCommands, Own, Newest
      <3>2. CASE machine.expected_id # 0
        <4>1. Carried(ready_topic)
          <5>1. Len(ready_topic) \in 1 .. Len(ready_topic)
            BY <1>1, <1>2, EmptySeq
          <5>. QED  BY <1>2, <3>2, <5>1 DEF Carried, Cancel
        <4>2. machine.expected_id = Newest /\ Newest \notin started
          BY <3>2, <4>1 DEF LinkInv, ExpectsNewest, Informed
        <4>. QED  BY <4>2 DEF LinkInv, OwnCommands, Own
      <3>. QED  BY <3>1, <3>2
    <2>7. OwnCommands'
      BY <1>1, <1>7, <1>8, <2>1, <2>6 DEF LinkInv, OwnCommands, Own
    <2>. QED  BY <1>5, <1>6, <2>3, <2>4, <2>5, <2>7 DEF LinkInv
  <1>10. CASE Head(ready_topic) # Cancel
    <2>1. /\ Head(ready_topic) = Newest /\ Carried(ready_topic) /\ ~Carried(ready_topic')
          /\ ~planner.ready /\ ~planner.active /\ Newest \notin started
      BY <1>3, <1>10 DEF LinkInv, Informed, S
    <2>2. /\ planner' \in Planner!Planners /\ ~planner'.active
          /\ planner'.ready => planner'.id = Newest
          /\ machine.expected_id # 0 /\ planner'.ready /\ planner'.trigger = "fresh" =>
               planner'.origin = machine.expected_id
          /\ timer' = timer \/ timer' = Planner!FreezeTimer
      BY <1>1, <1>10, <2>1, HandshakeMakes
    <2>3. /\ timer' \in Planner!Timers
          /\ timer'.at = "publishing" =>
               /\ Own(timer'.id, timer'.origin, timer'.yaw)
               /\ timer'.id # machine.expected_id
      BY <1>2, <2>1, <2>2, FrozenTimer DEF LinkInv, OwnCommands
    <2>4. LinkTypeOK'
      BY <1>1, <1>3, <2>2, <2>3 DEF LinkInv, LinkTypeOK, S, Newest
    <2>5. Informed'
      BY <1>1, <1>3, <1>4, <1>10, <2>1, <2>2 DEF Informed, Newest, Cancel
    <2>6. FrozenInHover'
      BY <1>1, <2>2 DEF FrozenInHover
    <2>7. OwnCommands'
      BY <1>1, <1>7, <1>8, <2>3 DEF OwnCommands, Own
    <2>. QED  BY <1>5, <1>6, <2>4, <2>5, <2>6, <2>7 DEF LinkInv
  <1>. QED  BY <1>9, <1>10

-----------------------------------------------------------------------------
(* The two together.                                                       *)

\* At first nothing is granted, on its way or flown.
LEMMA LinkInitInv == ASSUME LinkInit PROVE LinkInv
  <1>1. /\ machine.phase = "away" /\ machine.expected_id = 0 /\ machine.generation \in Ids \ {0}
        /\ machine \in Machines /\ machine.cmd.stamp = "zero" /\ sent = <<>>
    BY DEF LinkInit, PromiseInit, Machines, Commands, NoCommand, Ids
  <1>2. /\ ready_topic = <<>> /\ cmd_topic = <<>> /\ started = {}
        /\ planner \in Planner!Planners /\ ~planner.ready /\ ~planner.active
        /\ timer \in Planner!Timers /\ timer.at = "idle"
    <2>1. 0 \in Ids /\ 0 \in 0 .. TrajectoryTime
      BY DEF Ids
    <2>. QED
      BY <2>1, LinkIdleTimer DEF LinkInit, Planner!PlannerInit, Planner!Planners
  <1>3. ~Carried(sent) /\ ~Carried(ready_topic) /\ CarriedOnce(sent) /\ CarriedOnce(ready_topic)
    BY <1>1, <1>2 DEF Carried, CarriedOnce
  <1>4. LinkTypeOK
    BY <1>1, <1>2, EmptySeq DEF LinkTypeOK
  <1>5. ExpectsNewest /\ InOrder /\ Informed /\ FrozenInHover
    BY <1>1, <1>2, <1>3 DEF ExpectsNewest, InOrder, Informed, FrozenInHover
  <1>6. OwnCommands
    BY <1>1, <1>2 DEF OwnCommands
  <1>. QED  BY <1>4, <1>5, <1>6 DEF LinkInv

\* Every step of either process, or of what is between them.
LEMMA LinkStepInv == ASSUME LinkInv, [LinkNext]_linkVars PROVE LinkInv'
  <1>1. CASE FsmSends
    BY <1>1, FsmSendsKeeps
  <1>2. CASE sent = <<>> /\ ReadyOverwritten
    BY <1>2, ReadyOverwrittenKeeps
  <1>3. CASE UserTriggers \/ UNCHANGED linkVars
    BY <1>3, ApartKeeps DEF UserTriggers, linkVars, promiseVars, plannerVars
  <1>4. CASE sent = <<>> /\ FsmTicks
    BY <1>4, TickKeepsLink
  <1>5. CASE FsmGetsTrigger \/ FsmTime
    BY <1>5, MachineAgesKeeps
  <1>6. CASE FsmGetsCommand
    BY <1>6, FsmGetsCommandKeeps
  <1>7. CASE PlannerGetsTrigger
    BY <1>7, PlannerGetsTriggerKeeps
  <1>8. CASE sent = <<>> /\ PlannerGetsReady
    BY <1>8, PlannerGetsReadyKeeps
  <1>9. CASE PlannerStarts
    BY <1>9, PlannerStartsKeeps
  <1>10. CASE PlannerPublishes
    BY <1>10, PlannerPublishesKeeps
  <1>11. CASE \E dt \in {0, 1} : PlannerAdvances(dt)
    BY <1>11, PlannerAdvancesKeeps
  <1>12. CASE PlannerStops
    BY <1>12, PlannerStopsKeeps
  <1>13. CASE PlannerTime \/ PlannerGetsOdom
    BY <1>13, PlannerTimeKeeps
  <1>. QED
    BY <1>1, <1>2, <1>3, <1>4, <1>5, <1>6, <1>7, <1>8, <1>9, <1>10, <1>11, <1>12, <1>13
    DEF LinkNext

\* The inductive invariant of the two processes and the topics between them.
THEOREM LinkInvariant == LinkSpec => []LinkInv
  <1>1. LinkInit => LinkInv
    BY LinkInitInv
  <1>2. LinkInv /\ [LinkNext]_linkVars => LinkInv'
    BY LinkStepInv
  <1>. QED  BY <1>1, <1>2, PTL DEF LinkSpec

\* A mission follows only the trajectory of its own handshake, from the origin
\* of its own hover, whatever the topics delay, lose or deliver twice.
THEOREM MissionFliesItsOwnTrajectory == LinkSpec => []OwnTrajectoryFlown
  <1>1. LinkInv => OwnTrajectoryFlown
    BY DEF LinkInv, OwnCommands, Own, OwnTrajectoryFlown, Matches
  <1>. QED  BY <1>1, LinkInvariant, PTL

\* A trajectory that the state machine has given up is going to be told so.
THEOREM StrayTrajectoryIsTold == LinkSpec => []StrayIsTold
  <1>1. LinkInv => StrayIsTold
    BY DEF LinkInv, ExpectsNewest, Informed, StrayIsTold
  <1>. QED  BY <1>1, LinkInvariant, PTL

\* Only the timer starts a trajectory.
LEMMA OnlyTheTimerStarts ==
  ASSUME LinkInv, [LinkNext]_linkVars, ~planner.active, planner'.active
  PROVE  PlannerStarts
  <1> SUFFICES ASSUME ~PlannerStarts, planner' # planner PROVE FALSE
    OBVIOUS
  <1> DEFINE p == Planner!Expire(planner)
             q == Planner!Freeze(p, Place)
  <1>0. /\ planner \in Planner!Planners /\ p \in Planner!Planners /\ ~p.active
        /\ q \in Planner!Planners /\ ~q.active
    BY LinkExpireKeeps, LinkFreezeKeeps, PlaceIsId DEF LinkInv, LinkTypeOK
  <1>1. \/ PlannerGetsTrigger \/ PlannerGetsReady
        \/ \E dt \in {0, 1} : PlannerAdvances(dt)
        \/ PlannerStops \/ PlannerTime
    BY DEF LinkNext, linkVars, plannerVars, FsmSends, ReadyOverwritten, UserTriggers, FsmTicks,
           TickAlone, FsmGetsTrigger, FsmGetsCommand, FsmTime, CommandGetsStale, FsmAlone,
           PlannerPublishes, Planner!TimerPublishes, PlannerGetsOdom, Planner!OdomCallback
  <1>2. CASE PlannerGetsTrigger
    <2>1. planner' = p \/ planner' = [q EXCEPT !.trigger = "fresh"]
      BY <1>2 DEF PlannerGetsTrigger, Planner!TriggerCallback
    <2>. HIDE DEF p, q
    <2>. QED  BY <1>0, <2>1 DEF Planner!Planners
  <1>3. CASE PlannerGetsReady
    <2>1. CASE Planner!CancelCallback
      BY <1>0, <2>1 DEF Planner!CancelCallback, Planner!Planners
    <2>2. CASE Planner!ReadyCallback(Head(ready_topic), Place)
      <3> DEFINE id == Head(ready_topic)
      <3>1. \/ planner' = p
            \/ planner' = [p EXCEPT !.id = id, !.ready = TRUE]
            \/ planner' = [q EXCEPT !.id = id, !.ready = TRUE]
            \/ planner' = [p EXCEPT !.trigger = "none", !.ready = FALSE]
        BY <2>2 DEF Planner!ReadyCallback
      <3>. HIDE DEF p, q, id
      <3>. QED  BY <1>0, <3>1 DEF Planner!Planners
    <2>. QED  BY <1>3, <2>1, <2>2 DEF PlannerGetsReady
  <1>4. ~\E dt \in {0, 1} : PlannerAdvances(dt)
    BY DEF PlannerAdvances, Planner!TimerAdvances
  <1>5. CASE PlannerStops
    BY <1>0, <1>5 DEF PlannerStops, Planner!TimerStops, Planner!Planners
  <1>6. CASE PlannerTime
    <2>1. planner' = p \/ planner' = [planner EXCEPT !.trigger = "expired"]
      BY <1>6 DEF PlannerTime, Planner!OdomTimeout, Planner!HandshakeTimeout,
                  Planner!TimerReturns
    <2>. HIDE DEF p
    <2>. QED  BY <1>0, <2>1 DEF Planner!Planners
  <1>. QED  BY <1>1, <1>2, <1>3, <1>4, <1>5, <1>6

\* No handshake flies two trajectories, whatever is delayed or lost.
THEOREM NoHandshakeFliesTwice == LinkSpec => HandshakeFliesOnce
  <1> DEFINE Once == ~planner.active /\ planner'.active => planner'.active_id \notin started
  <1>1. ASSUME LinkInv, [LinkNext]_linkVars PROVE [Once]_linkVars
    <2>. SUFFICES ASSUME ~planner.active, planner'.active
                  PROVE  planner'.active_id \notin started
      OBVIOUS
    <2> DEFINE e == Planner!Expire(planner)
               q == [e EXCEPT !.active = TRUE, !.active_id = e.id, !.elapsed = 0,
                              !.ready = FALSE, !.id = 0, !.trigger = "none"]
    <2>1. planner' = q /\ e.ready
      BY <1>1, OnlyTheTimerStarts DEF PlannerStarts, Planner!TimerStarts
    <2>2. e \in Planner!Planners /\ planner.ready /\ e.id = planner.id
      BY <1>1, <2>1, LinkExpireKeeps DEF LinkInv, LinkTypeOK
    <2>. HIDE DEF e
    <2>3. q.active_id = e.id
      BY <2>2 DEF Planner!Planners
    <2>. QED  BY <1>1, <2>1, <2>2, <2>3 DEF LinkInv, Informed
  <1>. QED  BY <1>1, LinkInvariant, PTL DEF LinkSpec, HandshakeFliesOnce

-----------------------------------------------------------------------------
(* What either side does in the link, it may do alone.                     *)

\* The state machine of the link keeps within its promise, and the planner of
\* the link within SimOdom: what is proved of SimOdom holds here too.
THEOREM LinkRunsBoth == LinkSpec => PromiseSpec /\ Planner!Spec
  <1>1. LinkInit => PromiseInit /\ Planner!Init
    BY DEF LinkInit, Planner!Init, Ids
  <1>2. ASSUME LinkInv, [LinkNext]_linkVars PROVE [PromiseNext]_promiseVars
    <2>1. CASE FsmGetsCommand
      <3> DEFINE C == [id : Ids, origin : Ids, yaw : {"own", "other"}]
      <3>1. cmd_topic # <<>> /\ cmd_topic \in Seq(C)
        BY <1>2, <2>1 DEF FsmGetsCommand, LinkInv, LinkTypeOK
      <3>. HIDE DEF C
      <3>2. Head(cmd_topic) \in C
        BY <3>1, HeadTailProperties
      <3>3. Head(cmd_topic).id \in Ids
        BY <3>2 DEF C
      <3>. QED  BY <2>1, <3>3 DEF FsmGetsCommand, PromiseNext
    <2>2. CASE FsmSends \/ FsmTicks \/ FsmGetsTrigger \/ FsmTime
      BY <2>2 DEF FsmSends, FsmTicks, FsmGetsTrigger, FsmTime, CommandGetsStale, PromiseNext
    <2>. QED
      BY <1>2, <2>1, <2>2
      DEF LinkNext, linkVars, promiseVars, ReadyOverwritten, UserTriggers, PlannerGetsTrigger,
          PlannerGetsReady, PlannerStarts, PlannerPublishes, PlannerGetsOdom, PlannerAdvances,
          PlannerStops, PlannerTime, PlannerAlone
  <1>3. ASSUME LinkInv, [LinkNext]_linkVars PROVE [Planner!Next]_(Planner!plannerVars)
    <2> USE DEF Planner!Next, Planner!TimerComputes
    <2>0. Place \in Ids
      BY <1>3, PlaceIsId
    <2>1. CASE PlannerGetsTrigger
      BY <2>0, <2>1 DEF PlannerGetsTrigger
    <2>2. CASE PlannerGetsReady
      <3>1. CASE Head(ready_topic) = Cancel
        BY <2>2, <3>1 DEF PlannerGetsReady
      <3>2. CASE Head(ready_topic) # Cancel
        <4>1. ready_topic # <<>> /\ ready_topic \in Seq({Cancel, Newest}) /\ Newest \in Ids
          BY <1>3, <2>2 DEF PlannerGetsReady, LinkInv, LinkTypeOK, Machines, Newest
        <4>2. Head(ready_topic) \in Ids \ {0}
          BY <3>2, <4>1, HeadTailProperties DEF Cancel
        <4>. QED  BY <2>0, <2>2, <3>2, <4>2 DEF PlannerGetsReady
      <3>. QED  BY <3>1, <3>2
    <2>3. CASE PlannerStarts \/ PlannerPublishes \/ PlannerStops \/ PlannerTime
      BY <2>3 DEF PlannerStarts, PlannerPublishes, PlannerStops, PlannerTime
    <2>4. CASE \E dt \in {0, 1} : PlannerAdvances(dt)
      BY <2>4 DEF PlannerAdvances
    <2>5. CASE PlannerGetsOdom
      BY <2>5 DEF PlannerGetsOdom
    <2>. QED
      BY <1>3, <2>1, <2>2, <2>3, <2>4, <2>5
      DEF LinkNext, linkVars, plannerVars, Planner!plannerVars, FsmSends, ReadyOverwritten,
          UserTriggers, FsmTicks, TickAlone, FsmGetsTrigger, FsmGetsCommand, FsmTime,
          CommandGetsStale, FsmAlone
  <1>. QED
    BY <1>1, <1>2, <1>3, LinkInvariant, PTL DEF LinkSpec, PromiseSpec, Planner!Spec
=============================================================================
