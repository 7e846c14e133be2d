--------------------------- MODULE MissionPromise ---------------------------
(***************************************************************************)
(* What the flight state machine promises to whoever starts missions: an   *)
(* abstract specification of FlightFsm, for its mission handshake alone.   *)
(* FlightProperties shows that FlightFsm implements it; MissionLink        *)
(* composes it with the planner.                                           *)
(*                                                                         *)
(* "away" is every state in which no mission can start (MANUAL, TAKEOFF,   *)
(* LAND).  An action of the first group is one tick of the control timer;  *)
(* sent is what that tick has published on /traj_start_trigger.            *)
(***************************************************************************)
EXTENDS Naturals, Sequences

CONSTANT MaxId      \* largest trajectory generation

ASSUME MaxIdIsPositive == MaxId \in Nat \ {0}

VARIABLES machine, sent

promiseVars == <<machine, sent>>

Ids == 0 .. MaxId
Cancel == 0

Commands == [stamp : {"zero", "fresh", "stale"}, id : Ids]
NoCommand == [stamp |-> "zero", id |-> 0]

Machines == [
    phase       : {"away", "hover", "mission"},
    expected_id : Ids,
    generation  : Ids \ {0},
    pending     : {"none", "fresh", "expired"},
    cmd         : Commands ]

PromiseInit ==
    /\ machine \in [phase : {"away"}, expected_id : {0}, generation : Ids \ {0},
                    pending : {"none"}, cmd : {NoCommand}]
    /\ sent = <<>>

-----------------------------------------------------------------------------
(* Ticks.                                                                  *)

\* A flight may be ended by two of the handlers of one tick.
Cancels == {<<Cancel>>, <<Cancel, Cancel>>}

Forgotten(cmd) == {cmd, [cmd EXCEPT !.stamp = "zero"], NoCommand}

Tick(before, after, messages) ==
    /\ machine.phase = before
    /\ machine' = after
    /\ sent' = messages

Matches ==
    /\ machine.cmd.stamp = "fresh"
    /\ machine.expected_id # 0
    /\ machine.cmd.id = machine.expected_id

StaysAway ==
    \E pending \in {machine.pending, "none"}, cmd \in Forgotten(machine.cmd),
       messages \in Cancels \cup {<<>>} :
        Tick("away", [machine EXCEPT !.pending = pending, !.cmd = cmd], messages)

Arrives ==
    \E pending \in {machine.pending, "none"}, cmd \in Forgotten(machine.cmd),
       messages \in {<<>>, <<Cancel>>} :
        Tick("away", [machine EXCEPT !.phase = "hover", !.pending = pending, !.cmd = cmd],
             messages)

\* Whatever ends the flight drops the trigger and the handshake, and tells the
\* planner if there was one.
Leaves ==
    \E before \in {"hover", "mission"}, cmd \in Forgotten(machine.cmd),
       messages \in Cancels \cup {<<>>} :
        /\ messages = <<>> => machine.expected_id = 0
        /\ Tick(before, [machine EXCEPT !.phase = "away", !.expected_id = 0,
                                        !.pending = "none", !.cmd = cmd], messages)

Granted(m) ==
    LET id == IF m.generation = MaxId THEN 1 ELSE m.generation + 1
    IN [m EXCEPT !.phase = "hover", !.generation = id, !.expected_id = id]

\* No handshake replaces another.
Grants ==
    /\ machine.expected_id = 0
    /\ Tick("hover", Granted(machine), <<Granted(machine).generation>>)

\* A takeoff that the navigation failsafe turns into a hover, with the delay of
\* an earlier takeoff over: cancel and grant in one tick.
ArrivesGranting ==
    Tick("away", Granted([machine EXCEPT !.pending = "none", !.cmd = NoCommand]),
         <<Cancel, Granted(machine).generation>>)

Hovers == Tick("hover", machine, <<>>)

\* A command without a trigger of the user, or with bad navigation.
Refuses ==
    /\ Matches
    /\ Tick("hover", [machine EXCEPT !.expected_id = 0, !.pending = "none", !.cmd = NoCommand],
            <<Cancel>>)

Accepts ==
    /\ Matches
    /\ machine.pending = "fresh"
    /\ Tick("hover", [machine EXCEPT !.phase = "mission", !.pending = "none"], <<>>)

Flies == Matches /\ Tick("mission", machine, <<>>)

\* No command any more; the handshake stays.
Pauses == ~Matches /\ Tick("mission", [machine EXCEPT !.phase = "hover"], <<>>)

\* The navigation failsafe.
Aborts ==
    Tick("mission", [machine EXCEPT !.phase = "hover", !.expected_id = 0, !.pending = "none",
                                    !.cmd = NoCommand], <<Cancel>>)

\* The next tick begins.
Begins == sent' = <<>> /\ UNCHANGED machine

Ticks == StaysAway \/ Arrives \/ Leaves \/ Grants \/ ArrivesGranting \/ Hovers
           \/ Refuses \/ Accepts \/ Flies \/ Pauses \/ Aborts

-----------------------------------------------------------------------------
(* Messages and time.                                                      *)

Gets(m) == machine' = m /\ UNCHANGED sent

GetsTrigger == Gets([machine EXCEPT !.pending = "fresh"])

GetsCommand(id) == Gets([machine EXCEPT !.cmd = [stamp |-> "fresh", id |-> id]])

CommandStale == machine.cmd.stamp = "fresh" /\ Gets([machine EXCEPT !.cmd.stamp = "stale"])

TriggerExpires == machine.pending = "fresh" /\ Gets([machine EXCEPT !.pending = "expired"])

PromiseNext ==
    \/ Ticks
    \/ Begins
    \/ GetsTrigger
    \/ \E id \in Ids : GetsCommand(id)
    \/ CommandStale
    \/ TriggerExpires

PromiseSpec == PromiseInit /\ [][PromiseNext]_promiseVars
=============================================================================
