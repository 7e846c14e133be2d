---------------------------- MODULE TaskPromise ----------------------------
(***************************************************************************)
(* What one task of sh_utils/RTK_whole_traj.sh promises to the people at   *)
(* the field, seen from the topics it publishes on: at most one takeoff,   *)
(* then at most one trajectory trigger, then at most two land commands,    *)
(* and success is reported only for a flight that was told to land.        *)
(***************************************************************************)
EXTENDS Naturals

VARIABLES sent,      \* how often this task published each command
          status     \* "running", or how the last task ended

vars == <<sent, status>>

Commands == {"takeoff", "trigger", "land"}
NothingSent == [c \in Commands |-> 0]
MaxLands == 2

Init == sent = NothingSent /\ status = "none"

\* A new task may begin after any end of the one before.
Begins == status # "running" /\ status' = "running" /\ sent' = NothingSent

Publishes(c) == /\ status = "running"
                /\ sent' = [sent EXCEPT ![c] = @ + 1]
                /\ UNCHANGED status

Takeoff == sent = NothingSent /\ Publishes("takeoff")

Trigger == sent = [NothingSent EXCEPT !["takeoff"] = 1] /\ Publishes("trigger")

Land == sent["trigger"] = 1 /\ sent["land"] < MaxLands /\ Publishes("land")

\* A task ends whenever it likes, but not as a success before it has landed.
Ends == /\ status = "running"
        /\ status' # "running"
        /\ status' = "complete" => sent["land"] > 0
        /\ UNCHANGED sent

Next == Begins \/ Takeoff \/ Trigger \/ Land \/ Ends

Spec == Init /\ [][Next]_vars
=============================================================================
