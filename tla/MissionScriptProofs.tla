------------------------ MODULE MissionScriptProofs ------------------------
(***************************************************************************)
(* The supervisor of a real flight for every number of frames and every    *)
(* length of the trajectory: its invariant, what it implies, and that the  *)
(* script implements TaskPromise.                                          *)
(***************************************************************************)
EXTENDS MissionScript, TLAPS

USE DEF Idle

\* The functions of main() by what has been published when they begin.
Before == {"preflight", "fork", "forked", "recording", "offboard", "takeoff"}
TakingOff == {"arm", "hover", "recheck", "trigger"}
Following == {"start", "finish"}
Landing == {"still", "land", "confirm", "disarm", "ground"}

\* Commands and phases belong together, and so do status and phase.
Order ==
    /\ pc \in Before => sent = Task!NothingSent
    /\ pc \in TakingOff => sent = [Task!NothingSent EXCEPT !["takeoff"] = 1]
    /\ pc \in Following => sent["trigger"] = 1 /\ sent["land"] = 0
    /\ pc \in Landing => sent["trigger"] = 1
    /\ pc \in {"still", "land"} => sent["land"] < Task!MaxLands
    /\ pc \in {"confirm", "disarm", "ground"} => sent["land"] > 0
    /\ pc \in Phases => status = "running"
    /\ pc \notin Phases => status # "running"
    /\ status = "complete" => sent["land"] > 0

\* What the script believes about the vehicle and the trajectory is so.
Beliefs ==
    /\ pc \in {"hover", "recheck", "trigger", "start", "finish", "still", "land",
               "confirm", "disarm"} => AIRBORNE
    /\ sent["trigger"] > 0 /\ ~AIRBORNE => since.disarmed
    /\ pc \in {"still", "land", "confirm", "disarm"} => px4.armed \/ since.disarmed
    /\ pc = "finish" /\ clock = Total => since.flown
    /\ pc \in Landing => since.flown
    /\ pc = "ground" => since.disarmed
    /\ status = "complete" => since.flown /\ since.disarmed

\* The recorder belongs to the script that runs, or to one that is gone.
Recording ==
    /\ pc = "off" => rec = "none"
    /\ pc # "off" => orphan = "none"

\* OFFBOARD before the takeoff is the pilot's choice during this task.
PilotChose ==
    /\ pc \in {"fork", "forked", "recording", "offboard"} /\ px4.mode = "OFFBOARD"
          => since.offboard
    /\ pc = "takeoff" => since.offboard

IInv == TypeOK /\ Order /\ Beliefs /\ Recording /\ PilotChose

LEMMA InitIInv == Init => IInv
  <1>. SUFFICES ASSUME Init PROVE IInv  OBVIOUS
  <1>. USE DEF Init, Task!NothingSent, Task!Commands, Task!MaxLands, Phases, Exiting
  <1>1. TypeOK
    <2>1. px4 \in [mode : Modes, armed : BOOLEAN]
      OBVIOUS
    <2>2. sent \in [Task!Commands -> 0 .. Task!MaxLands] /\ accepted \subseteq Task!Commands
      OBVIOUS
    <2>3. clock \in Idle .. Total
      BY TotalAssumption
    <2>. QED  BY <2>1, <2>2, <2>3 DEF TypeOK, Ended, Recorders
  <1>2. Order
    BY DEF Order, Before, TakingOff, Following, Landing
  <1>3. Beliefs
    BY DEF Beliefs, Landing
  <1>4. Recording /\ PilotChose
    BY DEF Recording, PilotChose
  <1>. QED  BY <1>1, <1>2, <1>3, <1>4 DEF IInv

-----------------------------------------------------------------------------
(* Ending the process. *)

LEMMA ExitPreserves ==
    ASSUME IInv, pc \in Phases,
           NEW how \in {"fatal", "interrupted", "complete"}, ExitsWith(how),
           how = "complete" => pc = "ground"
    PROVE  IInv'
  <1>. USE DEF IInv, ExitsWith, recorder, world, Task!MaxLands, Ended, Phases, Exiting
  <1>1. TypeOK'
    BY DEF TypeOK
  <1>2. Order'
    BY DEF Order, TypeOK, Before, TakingOff, Following, Landing
  <1>3. Beliefs'
    BY DEF Beliefs, Order, Landing
  <1>4. Recording' /\ PilotChose'
    BY DEF Recording, PilotChose
  <1>. QED  BY <1>1, <1>2, <1>3, <1>4

LEMMA GonePreserves ==
    ASSUME IInv, pc # "off", NEW how \in Ended, Gone(how), how = "complete" => status = how
    PROVE  IInv'
  <1>. USE DEF IInv, Gone, world, Task!MaxLands, Ended, Phases, Exiting
  <1>1. TypeOK'
    BY DEF TypeOK, Recorders
  <1>2. Order'
    BY DEF Order, TypeOK, Before, TakingOff, Following, Landing
  <1>3. Beliefs'
    BY DEF Beliefs, Order, Landing
  <1>4. Recording' /\ PilotChose'
    BY DEF Recording, PilotChose
  <1>. QED  BY <1>1, <1>2, <1>3, <1>4

-----------------------------------------------------------------------------
LEMMA ScriptPreserves ==
    ASSUME IInv, Script PROVE IInv'
  <1>. USE DEF IInv, Enters, script, recorder, world, Phases, Exiting, Task!MaxLands
  <1>1. CASE Start
    <2>1. TypeOK'
      <3>1. sent' \in [Task!Commands -> 0 .. Task!MaxLands]
        BY <1>1 DEF Start, LockFree, Task!NothingSent, Task!Commands, TypeOK
      <3>2. AIRBORNE' \in BOOLEAN /\ recPid' \in BOOLEAN
        BY <1>1 DEF Start, LockFree, Task!NothingSent, Task!Commands, TypeOK
      <3>. QED  BY <1>1, <3>1, <3>2 DEF Start, LockFree, Task!NothingSent, Task!Commands, TypeOK
    <2>2. Order'
      BY <1>1 DEF Start, LockFree, Task!NothingSent, Task!Commands, TypeOK, Order, Before, TakingOff, Following, Landing
    <2>3. Beliefs'
      BY <1>1 DEF Start, LockFree, Task!NothingSent, Task!Commands, TypeOK, Order, Beliefs, Landing
    <2>4. Recording' /\ PilotChose'
      BY <1>1 DEF Start, LockFree, Task!NothingSent, Task!Commands, TypeOK, Recording, PilotChose
    <2>. QED  BY <2>1, <2>2, <2>3, <2>4
  <1>2. CASE Preflight
    <2>1. CASE Fatal
      BY <1>2, <2>1, ExitPreserves DEF Fatal, Preflight
    <2>2. CASE ~Fatal
      <3>1. TypeOK'
        <4>1. since' \in [offboard : BOOLEAN, flown : BOOLEAN, disarmed : BOOLEAN]
          BY <1>2, <2>2 DEF Preflight, SafeOnGround, TypeOK
        <4>. QED  BY <1>2, <2>2, <4>1 DEF Preflight, SafeOnGround, TypeOK
      <3>2. Order'
        BY <1>2, <2>2 DEF Preflight, SafeOnGround, TypeOK, Order, Before, TakingOff, Following, Landing
      <3>3. Beliefs'
        BY <1>2, <2>2 DEF Preflight, SafeOnGround, TypeOK, Order, Beliefs, Landing
      <3>4. Recording' /\ PilotChose'
        BY <1>2, <2>2 DEF Preflight, SafeOnGround, TypeOK, Recording, PilotChose
      <3>. QED  BY <3>1, <3>2, <3>3, <3>4
    <2>. QED  BY <2>1, <2>2
  <1>3. CASE ForkRecorder
    <2>1. TypeOK'
      BY <1>3 DEF ForkRecorder, Recorders, TypeOK
    <2>2. Order'
      BY <1>3 DEF ForkRecorder, Recorders, TypeOK, Order, Before, TakingOff, Following, Landing
    <2>3. Beliefs'
      BY <1>3 DEF ForkRecorder, Recorders, TypeOK, Order, Beliefs, Landing
    <2>4. Recording' /\ PilotChose'
      BY <1>3 DEF ForkRecorder, Recorders, TypeOK, Recording, PilotChose
    <2>. QED  BY <2>1, <2>2, <2>3, <2>4
  <1>4. CASE AssignPid
    <2>1. TypeOK'
      BY <1>4 DEF AssignPid, TypeOK
    <2>2. Order'
      BY <1>4 DEF AssignPid, TypeOK, Order, Before, TakingOff, Following, Landing
    <2>3. Beliefs'
      BY <1>4 DEF AssignPid, TypeOK, Order, Beliefs, Landing
    <2>4. Recording' /\ PilotChose'
      BY <1>4 DEF AssignPid, TypeOK, Recording, PilotChose
    <2>. QED  BY <2>1, <2>2, <2>3, <2>4
  <1>5. CASE CheckRecorder
    <2>1. CASE Fatal
      BY <1>5, <2>1, ExitPreserves DEF Fatal, CheckRecorder
    <2>2. CASE ~Fatal
      <3>1. TypeOK'
        BY <1>5, <2>2 DEF CheckRecorder, TypeOK
      <3>2. Order'
        BY <1>5, <2>2 DEF CheckRecorder, TypeOK, Order, Before, TakingOff, Following, Landing
      <3>3. Beliefs'
        BY <1>5, <2>2 DEF CheckRecorder, TypeOK, Order, Beliefs, Landing
      <3>4. Recording' /\ PilotChose'
        BY <1>5, <2>2 DEF CheckRecorder, TypeOK, Recording, PilotChose
      <3>. QED  BY <3>1, <3>2, <3>3, <3>4
    <2>. QED  BY <2>1, <2>2
  <1>6. CASE WaitOffboard
    <2>1. CASE Fatal
      BY <1>6, <2>1, ExitPreserves DEF Fatal, WaitOffboard
    <2>2. CASE ~Fatal
      <3>1. TypeOK'
        BY <1>6, <2>2 DEF WaitOffboard, TypeOK
      <3>2. Order'
        BY <1>6, <2>2 DEF WaitOffboard, TypeOK, Order, Before, TakingOff, Following, Landing
      <3>3. Beliefs'
        BY <1>6, <2>2 DEF WaitOffboard, TypeOK, Order, Beliefs, Landing
      <3>4. Recording' /\ PilotChose'
        BY <1>6, <2>2 DEF WaitOffboard, TypeOK, Recording, PilotChose
      <3>. QED  BY <3>1, <3>2, <3>3, <3>4
    <2>. QED  BY <2>1, <2>2
  <1>7. CASE PublishTakeoff
    <2>1. CASE Fatal
      BY <1>7, <2>1, ExitPreserves DEF Fatal, PublishTakeoff
    <2>2. CASE ~Fatal
      <3>1. TypeOK'
        <4>1. sent' \in [Task!Commands -> 0 .. Task!MaxLands]
          BY <1>7, <2>2 DEF PublishTakeoff, Publishes, Task!NothingSent, Task!Commands, TypeOK, Order, Before
        <4>2. accepted' \subseteq Task!Commands
          BY <1>7, <2>2 DEF PublishTakeoff, Publishes, Task!NothingSent, Task!Commands, TypeOK
        <4>. QED  BY <1>7, <2>2, <4>1, <4>2 DEF PublishTakeoff, Publishes, Task!NothingSent, Task!Commands, TypeOK
      <3>2. Order'
        BY <1>7, <2>2 DEF PublishTakeoff, Publishes, Task!NothingSent, Task!Commands, TypeOK, Order, Before, TakingOff, Following, Landing
      <3>3. Beliefs'
        BY <1>7, <2>2 DEF PublishTakeoff, Publishes, Task!NothingSent, Task!Commands, TypeOK, Order, Beliefs, Landing
      <3>4. Recording' /\ PilotChose'
        BY <1>7, <2>2 DEF PublishTakeoff, Publishes, Task!NothingSent, Task!Commands, TypeOK, Recording, PilotChose
      <3>. QED  BY <3>1, <3>2, <3>3, <3>4
    <2>. QED  BY <2>1, <2>2
  <1>8. CASE WaitArmed
    <2>1. CASE Fatal
      BY <1>8, <2>1, ExitPreserves DEF Fatal, WaitArmed
    <2>2. CASE ~Fatal
      <3>1. TypeOK'
        <4>1. AIRBORNE' \in BOOLEAN
          BY <1>8, <2>2 DEF WaitArmed, Flying, TypeOK
        <4>. QED  BY <1>8, <2>2, <4>1 DEF WaitArmed, Flying, TypeOK
      <3>2. Order'
        BY <1>8, <2>2 DEF WaitArmed, Flying, TypeOK, Order, Before, TakingOff, Following, Landing
      <3>3. Beliefs'
        BY <1>8, <2>2 DEF WaitArmed, Flying, TypeOK, Order, Beliefs, Landing
      <3>4. Recording' /\ PilotChose'
        BY <1>8, <2>2 DEF WaitArmed, Flying, TypeOK, Recording, PilotChose
      <3>. QED  BY <3>1, <3>2, <3>3, <3>4
    <2>. QED  BY <2>1, <2>2
  <1>9. CASE WaitHover
    <2>1. CASE Fatal
      BY <1>9, <2>1, ExitPreserves DEF Fatal, WaitHover
    <2>2. CASE ~Fatal
      <3>1. TypeOK'
        BY <1>9, <2>2 DEF WaitHover, Frame, TypeOK
      <3>2. Order'
        BY <1>9, <2>2 DEF WaitHover, Frame, TypeOK, Order, Before, TakingOff, Following, Landing
      <3>3. Beliefs'
        BY <1>9, <2>2 DEF WaitHover, Frame, TypeOK, Order, Beliefs, Landing
      <3>4. Recording' /\ PilotChose'
        BY <1>9, <2>2 DEF WaitHover, Frame, TypeOK, Recording, PilotChose
      <3>. QED  BY <3>1, <3>2, <3>3, <3>4
    <2>. QED  BY <2>1, <2>2
  <1>10. CASE Recheck
    <2>1. CASE Fatal
      BY <1>10, <2>1, ExitPreserves DEF Fatal, Recheck
    <2>2. CASE ~Fatal
      <3>1. TypeOK'
        BY <1>10, <2>2 DEF Recheck, TypeOK
      <3>2. Order'
        BY <1>10, <2>2 DEF Recheck, TypeOK, Order, Before, TakingOff, Following, Landing
      <3>3. Beliefs'
        BY <1>10, <2>2 DEF Recheck, TypeOK, Order, Beliefs, Landing
      <3>4. Recording' /\ PilotChose'
        BY <1>10, <2>2 DEF Recheck, TypeOK, Recording, PilotChose
      <3>. QED  BY <3>1, <3>2, <3>3, <3>4
    <2>. QED  BY <2>1, <2>2
  <1>11. CASE PublishTrigger
    <2>1. CASE Fatal
      BY <1>11, <2>1, ExitPreserves DEF Fatal, PublishTrigger
    <2>2. CASE ~Fatal
      <3>1. TypeOK'
        <4>1. sent' \in [Task!Commands -> 0 .. Task!MaxLands]
          BY <1>11, <2>2 DEF PublishTrigger, Publishes, Task!NothingSent, Task!Commands, TypeOK, Order, TakingOff
        <4>2. accepted' \subseteq Task!Commands
          BY <1>11, <2>2 DEF PublishTrigger, Publishes, Task!NothingSent, Task!Commands, TypeOK
        <4>3. since' \in [offboard : BOOLEAN, flown : BOOLEAN, disarmed : BOOLEAN]
          BY <1>11, <2>2 DEF PublishTrigger, Publishes, Task!NothingSent, Task!Commands, TypeOK
        <4>. QED  BY <1>11, <2>2, <4>1, <4>2, <4>3 DEF PublishTrigger, Publishes, Task!NothingSent, Task!Commands, TypeOK
      <3>2. Order'
        BY <1>11, <2>2 DEF PublishTrigger, Publishes, Task!NothingSent, Task!Commands, TypeOK, Order, Before, TakingOff, Following, Landing
      <3>3. Beliefs'
        BY <1>11, <2>2 DEF PublishTrigger, Publishes, Task!NothingSent, Task!Commands, TypeOK, Order, Beliefs, Landing
      <3>4. Recording' /\ PilotChose'
        BY <1>11, <2>2 DEF PublishTrigger, Publishes, Task!NothingSent, Task!Commands, TypeOK, Recording, PilotChose
      <3>. QED  BY <3>1, <3>2, <3>3, <3>4
    <2>. QED  BY <2>1, <2>2
  <1>12. CASE WaitStart
    <2>1. CASE Fatal
      BY <1>12, <2>1, ExitPreserves DEF Fatal, WaitStart
    <2>2. CASE ~Fatal
      <3>1. TypeOK'
        BY TotalAssumption, <1>12, <2>2 DEF WaitStart, TypeOK
      <3>2. Order'
        BY TotalAssumption, <1>12, <2>2 DEF WaitStart, TypeOK, Order, Before, TakingOff, Following, Landing
      <3>3. Beliefs'
        <4>1. clock # Total
          BY TotalAssumption, <1>12, <2>2 DEF WaitStart
        <4>2. UNCHANGED <<clock, since, AIRBORNE, sent, px4>>
          BY <1>12, <2>2 DEF WaitStart
        <4>. QED  BY TotalAssumption, <1>12, <2>2, <4>1, <4>2 DEF WaitStart, TypeOK, Order, Beliefs, Landing
      <3>4. Recording' /\ PilotChose'
        BY TotalAssumption, <1>12, <2>2 DEF WaitStart, TypeOK, Recording, PilotChose
      <3>. QED  BY <3>1, <3>2, <3>3, <3>4
    <2>. QED  BY <2>1, <2>2
  <1>13. CASE WaitFinish
    <2>1. CASE Fatal
      BY <1>13, <2>1, ExitPreserves DEF Fatal, WaitFinish
    <2>2. CASE ~Fatal
      <3>1. TypeOK'
        BY <1>13, <2>2 DEF WaitFinish, Flying, TypeOK
      <3>2. Order'
        BY <1>13, <2>2 DEF WaitFinish, Flying, TypeOK, Order, Before, TakingOff, Following, Landing
      <3>3. Beliefs'
        <4>1. clock = Total
          BY TotalAssumption, <1>13, <2>2 DEF WaitFinish, TypeOK
        <4>2. px4.armed /\ since.flown
          BY <1>13, <2>2, <4>1 DEF WaitFinish, Flying, Beliefs
        <4>3. UNCHANGED <<clock, since, AIRBORNE, sent, px4>>
          BY <1>13, <2>2 DEF WaitFinish
        <4>. QED  BY <1>13, <2>2, <4>1, <4>2, <4>3 DEF WaitFinish, Flying, TypeOK, Order, Beliefs, Landing
      <3>4. Recording' /\ PilotChose'
        BY <1>13, <2>2 DEF WaitFinish, Flying, TypeOK, Recording, PilotChose
      <3>. QED  BY <3>1, <3>2, <3>3, <3>4
    <2>. QED  BY <2>1, <2>2
  <1>14. CASE WaitStationary
    <2>1. CASE Fatal
      BY <1>14, <2>1, ExitPreserves DEF Fatal, WaitStationary
    <2>2. CASE ~Fatal
      <3>1. TypeOK'
        BY <1>14, <2>2 DEF WaitStationary, Frame, Flying, TypeOK
      <3>2. Order'
        BY <1>14, <2>2 DEF WaitStationary, Frame, Flying, TypeOK, Order, Before, TakingOff, Following, Landing
      <3>3. Beliefs'
        BY <1>14, <2>2 DEF WaitStationary, Frame, Flying, TypeOK, Order, Beliefs, Landing
      <3>4. Recording' /\ PilotChose'
        BY <1>14, <2>2 DEF WaitStationary, Frame, Flying, TypeOK, Recording, PilotChose
      <3>. QED  BY <3>1, <3>2, <3>3, <3>4
    <2>. QED  BY <2>1, <2>2
  <1>15. CASE PublishLand
    <2>1. CASE Fatal
      BY <1>15, <2>1, ExitPreserves DEF Fatal, PublishLand
    <2>2. CASE ~Fatal
      <3>1. TypeOK'
        <4>1. sent["land"] < Task!MaxLands
          BY <1>15 DEF PublishLand, Order
        <4>2. sent' \in [Task!Commands -> 0 .. Task!MaxLands]
          BY <1>15, <2>2, <4>1 DEF PublishLand, Publishes, Task!Commands, TypeOK
        <4>3. accepted' \subseteq Task!Commands
          BY <1>15, <2>2 DEF PublishLand, Publishes, Task!Commands, TypeOK
        <4>. QED  BY <1>15, <2>2, <4>1, <4>2, <4>3 DEF PublishLand, Publishes, Task!Commands, TypeOK
      <3>2. Order'
        BY <1>15, <2>2 DEF PublishLand, Publishes, Task!Commands, TypeOK, Order, Before, TakingOff, Following, Landing
      <3>3. Beliefs'
        BY <1>15, <2>2 DEF PublishLand, Publishes, Task!Commands, TypeOK, Order, Beliefs, Landing
      <3>4. Recording' /\ PilotChose'
        BY <1>15, <2>2 DEF PublishLand, Publishes, Task!Commands, TypeOK, Recording, PilotChose
      <3>. QED  BY <3>1, <3>2, <3>3, <3>4
    <2>. QED  BY <2>1, <2>2
  <1>16. CASE ConfirmLanding
    <2>1. CASE Fatal
      BY <1>16, <2>1, ExitPreserves DEF Fatal, ConfirmLanding
    <2>2. CASE ~Fatal
      <3>1. TypeOK'
        BY <1>16, <2>2 DEF ConfirmLanding, TypeOK
      <3>2. Order'
        BY <1>16, <2>2 DEF ConfirmLanding, TypeOK, Order, Before, TakingOff, Following, Landing
      <3>3. Beliefs'
        BY <1>16, <2>2 DEF ConfirmLanding, TypeOK, Order, Beliefs, Landing
      <3>4. Recording' /\ PilotChose'
        BY <1>16, <2>2 DEF ConfirmLanding, TypeOK, Recording, PilotChose
      <3>. QED  BY <3>1, <3>2, <3>3, <3>4
    <2>. QED  BY <2>1, <2>2
  <1>17. CASE LandingUnconfirmed
    <2>1. CASE Fatal
      BY <1>17, <2>1, ExitPreserves DEF Fatal, LandingUnconfirmed
    <2>2. CASE ~Fatal
      <3>1. TypeOK'
        BY <1>17, <2>2 DEF LandingUnconfirmed, TypeOK
      <3>2. Order'
        BY <1>17, <2>2 DEF LandingUnconfirmed, TypeOK, Order, Before, TakingOff, Following, Landing
      <3>3. Beliefs'
        BY <1>17, <2>2 DEF LandingUnconfirmed, TypeOK, Order, Beliefs, Landing
      <3>4. Recording' /\ PilotChose'
        BY <1>17, <2>2 DEF LandingUnconfirmed, TypeOK, Recording, PilotChose
      <3>. QED  BY <3>1, <3>2, <3>3, <3>4
    <2>. QED  BY <2>1, <2>2
  <1>18. CASE WaitDisarmed
    <2>1. CASE Fatal
      BY <1>18, <2>1, ExitPreserves DEF Fatal, WaitDisarmed
    <2>2. CASE ~Fatal
      <3>1. TypeOK'
        <4>1. AIRBORNE' \in BOOLEAN
          BY <1>18, <2>2 DEF WaitDisarmed, TypeOK
        <4>. QED  BY <1>18, <2>2, <4>1 DEF WaitDisarmed, TypeOK
      <3>2. Order'
        BY <1>18, <2>2 DEF WaitDisarmed, TypeOK, Order, Before, TakingOff, Following, Landing
      <3>3. Beliefs'
        BY <1>18, <2>2 DEF WaitDisarmed, TypeOK, Order, Beliefs, Landing
      <3>4. Recording' /\ PilotChose'
        BY <1>18, <2>2 DEF WaitDisarmed, TypeOK, Recording, PilotChose
      <3>. QED  BY <3>1, <3>2, <3>3, <3>4
    <2>. QED  BY <2>1, <2>2
  <1>19. CASE WaitGround
    BY <1>19, ExitPreserves DEF WaitGround
  <1>20. CASE TimesOut
    BY <1>20, ExitPreserves DEF TimesOut, Fatal, FatalWaits
  <1>21. CASE Interrupted
    BY <1>21, ExitPreserves DEF Interrupted
  <1>22. CASE CutShort
    BY <1>22, GonePreserves DEF CutShort, Ended
  <1>23. CASE Killed
    BY <1>23, GonePreserves DEF Killed, Ended
  <1>24. CASE Cleanup
    <2>1. CASE MayStop
      <3>1. TypeOK'
        BY <1>24, <2>1 DEF Cleanup, MayStop, Recorders, TypeOK
      <3>2. Order'
        BY <1>24, <2>1 DEF Cleanup, MayStop, Recorders, TypeOK, Order, Before, TakingOff, Following, Landing
      <3>3. Beliefs'
        BY <1>24, <2>1 DEF Cleanup, MayStop, Recorders, TypeOK, Order, Beliefs, Landing
      <3>4. Recording' /\ PilotChose'
        BY <1>24, <2>1 DEF Cleanup, MayStop, Recorders, TypeOK, Recording, PilotChose
      <3>. QED  BY <3>1, <3>2, <3>3, <3>4
    <2>2. CASE ~MayStop
      BY <1>24, <2>2, GonePreserves DEF Cleanup, Order, TypeOK
    <2>. QED  BY <2>1, <2>2
  <1>25. CASE Stopped
    BY <1>25, GonePreserves DEF Stopped, Order, TypeOK
  <1>. QED  BY <1>1, <1>2, <1>3, <1>4, <1>5, <1>6, <1>7, <1>8, <1>9, <1>10, <1>11, <1>12, <1>13, <1>14, <1>15, <1>16, <1>17, <1>18, <1>19, <1>20, <1>21, <1>22, <1>23, <1>24, <1>25 DEF Script

-----------------------------------------------------------------------------
LEMMA WorldPreserves ==
    ASSUME IInv, World PROVE IInv'
  <1>. USE DEF IInv, Enters, script, recorder, world, Phases, Exiting, Task!MaxLands
  <1>1. CASE RecorderDies
    <2>1. TypeOK'
      BY <1>1 DEF RecorderDies, Recorders, TypeOK
    <2>2. Order'
      BY <1>1 DEF RecorderDies, Recorders, TypeOK, Order, Before, TakingOff, Following, Landing
    <2>3. Beliefs'
      BY <1>1 DEF RecorderDies, Recorders, TypeOK, Order, Beliefs, Landing
    <2>4. Recording' /\ PilotChose'
      BY <1>1 DEF RecorderDies, Recorders, TypeOK, Recording, PilotChose
    <2>. QED  BY <2>1, <2>2, <2>3, <2>4
  <1>2. CASE RecorderStops
    <2>1. TypeOK'
      BY <1>2 DEF RecorderStops, Recorders, TypeOK
    <2>2. Order'
      BY <1>2 DEF RecorderStops, Recorders, TypeOK, Order, Before, TakingOff, Following, Landing
    <2>3. Beliefs'
      BY <1>2 DEF RecorderStops, Recorders, TypeOK, Order, Beliefs, Landing
    <2>4. Recording' /\ PilotChose'
      BY <1>2 DEF RecorderStops, Recorders, TypeOK, Recording, PilotChose
    <2>. QED  BY <2>1, <2>2, <2>3, <2>4
  <1>3. CASE OrphanStops
    <2>1. TypeOK'
      BY <1>3 DEF OrphanStops, Recorders, TypeOK
    <2>2. Order'
      BY <1>3 DEF OrphanStops, Recorders, TypeOK, Order, Before, TakingOff, Following, Landing
    <2>3. Beliefs'
      BY <1>3 DEF OrphanStops, Recorders, TypeOK, Order, Beliefs, Landing
    <2>4. Recording' /\ PilotChose'
      BY <1>3 DEF OrphanStops, Recorders, TypeOK, Recording, PilotChose
    <2>. QED  BY <2>1, <2>2, <2>3, <2>4
  <1>4. CASE PilotMode
    <2>1. TypeOK'
      BY <1>4 DEF PilotMode, Modes, TypeOK
    <2>2. Order'
      BY <1>4 DEF PilotMode, Modes, TypeOK, Order, Before, TakingOff, Following, Landing
    <2>3. Beliefs'
      BY <1>4 DEF PilotMode, Modes, TypeOK, Order, Beliefs, Landing
    <2>4. Recording' /\ PilotChose'
      BY <1>4 DEF PilotMode, Modes, TypeOK, Recording, PilotChose
    <2>. QED  BY <2>1, <2>2, <2>3, <2>4
  <1>5. CASE PilotArms
    <2>1. TypeOK'
      BY <1>5 DEF PilotArms, Arms, TypeOK
    <2>2. Order'
      BY <1>5 DEF PilotArms, Arms, TypeOK, Order, Before, TakingOff, Following, Landing
    <2>3. Beliefs'
      BY <1>5 DEF PilotArms, Arms, TypeOK, Order, Beliefs, Landing
    <2>4. Recording' /\ PilotChose'
      BY <1>5 DEF PilotArms, Arms, TypeOK, Recording, PilotChose
    <2>. QED  BY <2>1, <2>2, <2>3, <2>4
  <1>6. CASE PilotDisarms
    <2>1. TypeOK'
      BY <1>6 DEF PilotDisarms, Disarms, TypeOK
    <2>2. Order'
      BY <1>6 DEF PilotDisarms, Disarms, TypeOK, Order, Before, TakingOff, Following, Landing
    <2>3. Beliefs'
      BY <1>6 DEF PilotDisarms, Disarms, TypeOK, Order, Beliefs, Landing
    <2>4. Recording' /\ PilotChose'
      BY <1>6 DEF PilotDisarms, Disarms, TypeOK, Recording, PilotChose
    <2>. QED  BY <2>1, <2>2, <2>3, <2>4
  <1>7. CASE ControllerArms
    <2>1. TypeOK'
      BY <1>7 DEF ControllerArms, Arms, Handled, TypeOK
    <2>2. Order'
      BY <1>7 DEF ControllerArms, Arms, Handled, TypeOK, Order, Before, TakingOff, Following, Landing
    <2>3. Beliefs'
      BY <1>7 DEF ControllerArms, Arms, Handled, TypeOK, Order, Beliefs, Landing
    <2>4. Recording' /\ PilotChose'
      BY <1>7 DEF ControllerArms, Arms, Handled, TypeOK, Recording, PilotChose
    <2>. QED  BY <2>1, <2>2, <2>3, <2>4
  <1>8. CASE ControllerLands
    <2>1. TypeOK'
      BY <1>8 DEF ControllerLands, Handled, Modes, TypeOK
    <2>2. Order'
      BY <1>8 DEF ControllerLands, Handled, Modes, TypeOK, Order, Before, TakingOff, Following, Landing
    <2>3. Beliefs'
      BY <1>8 DEF ControllerLands, Handled, Modes, TypeOK, Order, Beliefs, Landing
    <2>4. Recording' /\ PilotChose'
      BY <1>8 DEF ControllerLands, Handled, Modes, TypeOK, Recording, PilotChose
    <2>. QED  BY <2>1, <2>2, <2>3, <2>4
  <1>9. CASE Dropped
    <2>1. TypeOK'
      BY <1>9 DEF Dropped, Handled, TypeOK
    <2>2. Order'
      BY <1>9 DEF Dropped, Handled, TypeOK, Order, Before, TakingOff, Following, Landing
    <2>3. Beliefs'
      BY <1>9 DEF Dropped, Handled, TypeOK, Order, Beliefs, Landing
    <2>4. Recording' /\ PilotChose'
      BY <1>9 DEF Dropped, Handled, TypeOK, Recording, PilotChose
    <2>. QED  BY <2>1, <2>2, <2>3, <2>4
  <1>10. CASE TouchesDown
    <2>1. TypeOK'
      BY <1>10 DEF TouchesDown, Disarms, TypeOK
    <2>2. Order'
      BY <1>10 DEF TouchesDown, Disarms, TypeOK, Order, Before, TakingOff, Following, Landing
    <2>3. Beliefs'
      BY <1>10 DEF TouchesDown, Disarms, TypeOK, Order, Beliefs, Landing
    <2>4. Recording' /\ PilotChose'
      BY <1>10 DEF TouchesDown, Disarms, TypeOK, Recording, PilotChose
    <2>. QED  BY <2>1, <2>2, <2>3, <2>4
  <1>11. CASE PlannerStarts
    <2>1. TypeOK'
      BY TotalAssumption, <1>11 DEF PlannerStarts, TypeOK
    <2>2. Order'
      BY TotalAssumption, <1>11 DEF PlannerStarts, TypeOK, Order, Before, TakingOff, Following, Landing
    <2>3. Beliefs'
      BY TotalAssumption, <1>11 DEF PlannerStarts, TypeOK, Order, Beliefs, Landing
    <2>4. Recording' /\ PilotChose'
      BY TotalAssumption, <1>11 DEF PlannerStarts, TypeOK, Recording, PilotChose
    <2>. QED  BY <2>1, <2>2, <2>3, <2>4
  <1>12. CASE PlannerAdvances
    <2>1. TypeOK'
      <3>1. since' \in [offboard : BOOLEAN, flown : BOOLEAN, disarmed : BOOLEAN]
        BY <1>12 DEF PlannerAdvances, TypeOK
      <3>2. clock' \in Idle .. Total
        BY TotalAssumption, <1>12 DEF PlannerAdvances, TypeOK
      <3>. QED  BY <1>12, <3>1, <3>2 DEF PlannerAdvances, TypeOK
    <2>2. Order'
      BY <1>12 DEF PlannerAdvances, TypeOK, Order, Before, TakingOff, Following, Landing
    <2>3. Beliefs'
      BY <1>12 DEF PlannerAdvances, TypeOK, Order, Beliefs, Landing
    <2>4. Recording' /\ PilotChose'
      BY <1>12 DEF PlannerAdvances, TypeOK, Recording, PilotChose
    <2>. QED  BY <2>1, <2>2, <2>3, <2>4
  <1>13. CASE PlannerEnds
    <2>1. TypeOK'
      BY TotalAssumption, <1>13 DEF PlannerEnds, TypeOK
    <2>2. Order'
      BY TotalAssumption, <1>13 DEF PlannerEnds, TypeOK, Order, Before, TakingOff, Following, Landing
    <2>3. Beliefs'
      BY TotalAssumption, <1>13 DEF PlannerEnds, TypeOK, Order, Beliefs, Landing
    <2>4. Recording' /\ PilotChose'
      BY TotalAssumption, <1>13 DEF PlannerEnds, TypeOK, Recording, PilotChose
    <2>. QED  BY <2>1, <2>2, <2>3, <2>4
  <1>. QED  BY <1>1, <1>2, <1>3, <1>4, <1>5, <1>6, <1>7, <1>8, <1>9, <1>10, <1>11, <1>12, <1>13 DEF World

-----------------------------------------------------------------------------
LEMMA StepIInv == IInv /\ [Next]_vars => IInv'
  <1>. SUFFICES ASSUME IInv, [Next]_vars PROVE IInv'  OBVIOUS
  <1>1. CASE Script
    BY <1>1, ScriptPreserves
  <1>2. CASE World
    BY <1>2, WorldPreserves
  <1>3. CASE UNCHANGED vars
    <2>. USE <1>3 DEF vars, script, recorder, world
    <2>1. TypeOK' /\ Order'
      BY DEF IInv, TypeOK, Order
    <2>2. Beliefs' /\ Recording' /\ PilotChose'
      BY DEF IInv, Beliefs, Recording, PilotChose
    <2>. QED  BY <2>1, <2>2 DEF IInv
  <1>. QED  BY <1>1, <1>2, <1>3 DEF Next

\* The invariant of the supervisor: phase, commands, flag, recorder and what has
\* happened to the vehicle belong together (RTK_whole_traj.sh:599-694).
THEOREM TaskInvariant == Spec => []IInv
  BY InitIInv, StepIInv, PTL DEF Spec

\* Two recorders never run side by side (RTK_whole_traj.sh:37-41).
THEOREM TaskOneRecorder == Spec => []OneRecorder
  <1>1. IInv => OneRecorder
    BY DEF IInv, Recording, OneRecorder
  <1>. QED  BY <1>1, TaskInvariant, PTL

\* Success is reported only for a trajectory flown and a vehicle disarmed since
\* the trigger (RTK_whole_traj.sh:671-693).
THEOREM TaskCompleteMeansFlown == Spec => []CompleteMeansFlown
  <1>1. IInv => CompleteMeansFlown
    BY DEF IInv, Beliefs, CompleteMeansFlown
  <1>. QED  BY <1>1, TaskInvariant, PTL

\* Every step of the script that publishes, and the one that stops the recorder.
LEMMA SendsTakeoff ==
    ASSUME IInv, [Next]_vars, sent'["takeoff"] > sent["takeoff"]
    PROVE  pc = "takeoff"
  <1>. USE DEF IInv, TypeOK, Task!MaxLands, Task!Commands
  <1>1. CASE Start
    BY <1>1 DEF Start, Task!NothingSent, Task!Commands
  <1>2. CASE PublishTakeoff
    BY <1>2 DEF PublishTakeoff
  <1>3. CASE PublishTrigger \/ PublishLand
    BY <1>3 DEF PublishTrigger, PublishLand, Publishes, Fatal, ExitsWith, Task!Commands
  <1>4. CASE Script /\ ~(Start \/ PublishTakeoff \/ PublishTrigger \/ PublishLand)
    <2>1. UNCHANGED sent
      BY <1>4 DEF Script, Preflight, ForkRecorder, AssignPid, CheckRecorder, WaitOffboard,
         WaitArmed, WaitHover, Frame, Recheck, WaitStart, WaitFinish, WaitStationary,
         ConfirmLanding, LandingUnconfirmed, WaitDisarmed, WaitGround, TimesOut,
         Interrupted, CutShort, Killed, Cleanup, Stopped, Fatal, ExitsWith, Gone
    <2>. QED  BY <2>1
  <1>5. CASE World
    <2>1. UNCHANGED sent
      BY <1>5 DEF World, RecorderDies, RecorderStops, OrphanStops, PilotMode, PilotArms,
         PilotDisarms, ControllerArms, ControllerLands, Dropped, TouchesDown,
         PlannerStarts, PlannerAdvances, PlannerEnds, script
    <2>. QED  BY <2>1
  <1>6. CASE UNCHANGED vars
    BY <1>6 DEF vars, script
  <1>. QED  BY <1>1, <1>2, <1>3, <1>4, <1>5, <1>6 DEF Next

\* The takeoff is commanded only after the pilot's own switch to OFFBOARD in
\* this task (RTK_whole_traj.sh:5, 189, 267-292).
THEOREM TaskTakeoffAfterPilot == Spec => TakeoffAfterPilot
  <1>1. IInv /\ [Next]_vars => [sent'["takeoff"] > sent["takeoff"] => since.offboard]_vars
    BY SendsTakeoff DEF IInv, PilotChose
  <1>. QED  BY <1>1, TaskInvariant, PTL DEF Spec, TakeoffAfterPilot

LEMMA StopsInCleanup ==
    ASSUME [Next]_vars, StopsRecorder
    PROVE  ~AIRBORNE
  <1>. USE DEF StopsRecorder
  <1>1. CASE Cleanup
    BY <1>1 DEF Cleanup, MayStop, Gone
  <1>2. CASE Script /\ ~Cleanup
    <2>1. rec' \in {rec, "none", "running"}
      BY <1>2 DEF Script, Start, Preflight, ForkRecorder, AssignPid, CheckRecorder,
         WaitOffboard, PublishTakeoff, WaitArmed, WaitHover, Frame, Recheck,
         PublishTrigger, WaitStart, WaitFinish, WaitStationary, PublishLand, Publishes,
         ConfirmLanding, LandingUnconfirmed, WaitDisarmed, WaitGround, TimesOut,
         Interrupted, CutShort, Killed, Stopped, Fatal, ExitsWith, Gone, recorder
    <2>. QED  BY <2>1
  <1>3. CASE World
    <2>1. rec' \in {rec, "none"}
      BY <1>3 DEF World, RecorderDies, RecorderStops, OrphanStops, PilotMode, PilotArms,
         PilotDisarms, ControllerArms, ControllerLands, Dropped, TouchesDown,
         PlannerStarts, PlannerAdvances, PlannerEnds, recorder
    <2>. QED  BY <2>1
  <1>4. CASE UNCHANGED vars
    BY <1>4 DEF vars, recorder
  <1>. QED  BY <1>1, <1>2, <1>3, <1>4 DEF Next

\* Once a trajectory has been triggered, the recorder is stopped only after the
\* vehicle was disarmed (RTK_whole_traj.sh:84-98).
THEOREM TaskRecordsWholeFlight == Spec => RecordsWholeFlight
  <1>1. IInv /\ [Next]_vars => [StopsRecorder /\ sent["trigger"] > 0 => since.disarmed]_vars
    BY StopsInCleanup DEF IInv, Beliefs
  <1>. QED  BY <1>1, TaskInvariant, PTL DEF Spec, RecordsWholeFlight

-----------------------------------------------------------------------------
(* The script implements TaskPromise. *)

\* For those outside the task runs until its process is gone.
Outcome == IF pc \in {"cleanup", "stopping"} THEN "running" ELSE status

LEMMA GoneEnds ==
    ASSUME IInv, pc # "off", NEW how \in Ended, Gone(how), how = "complete" => status = how
    PROVE  Task!Ends
  <1>. USE DEF IInv, Order, Gone, Ended, Phases
  <1>1. Outcome = "running" /\ Outcome' # "running"
    BY DEF Outcome, TypeOK, Exiting
  <1>2. Outcome' = "complete" => sent["land"] > 0
    BY DEF Outcome
  <1>. QED  BY <1>1, <1>2 DEF Task!Ends, Outcome

LEMMA CommandRefines ==
    ASSUME IInv, NEW c \in Task!Commands, NEW next \in Phases, Publishes(c, next),
           pc \in Phases
    PROVE  Task!Publishes(c)
  <1>1. Outcome = "running" /\ Outcome' = "running"
    BY DEF IInv, Order, Outcome, Publishes, Enters, Phases
  <1>. QED  BY <1>1 DEF Task!Publishes, Publishes, Outcome

LEMMA QuietRefines ==
    ASSUME IInv, pc \in Phases, UNCHANGED sent,
           (pc' \in Phases /\ UNCHANGED status) \/ pc' = "cleanup"
    PROVE  UNCHANGED Task!vars
  <1>1. Outcome = "running" /\ Outcome' = "running"
    BY DEF IInv, Order, Outcome, Phases
  <1>. QED  BY <1>1 DEF Task!vars, Outcome

LEMMA ScriptRefines ==
    ASSUME IInv, Script
    PROVE  Task!Next \/ UNCHANGED Task!vars
  <1>1. CASE Start
    <2>1. Outcome # "running" /\ Outcome' = "running"
      BY <1>1 DEF Start, LockFree, IInv, Order, Phases, Outcome
    <2>. QED  BY <1>1, <2>1 DEF Start, Task!Begins, Outcome, Task!Next
  <1>2. CASE \E phase \in Phases :
                pc = phase /\ UNCHANGED sent
                  /\ ((pc' \in Phases /\ UNCHANGED status) \/ pc' = "cleanup")
    BY <1>2, QuietRefines
  <1>3. CASE PublishTakeoff /\ ~Fatal
    <2>1. Publishes("takeoff", "arm") /\ sent = Task!NothingSent /\ pc \in Phases
      BY <1>3 DEF PublishTakeoff, IInv, Order, Before, Phases
    <2>2. Task!Publishes("takeoff")
      BY <2>1, CommandRefines DEF Task!Commands, Phases
    <2>. QED  BY <2>1, <2>2 DEF Task!Takeoff, Task!Next
  <1>4. CASE PublishTrigger /\ ~Fatal
    <2>1. /\ Publishes("trigger", "start") /\ pc \in Phases
          /\ sent = [Task!NothingSent EXCEPT !["takeoff"] = 1]
      BY <1>4 DEF PublishTrigger, IInv, Order, TakingOff, Phases
    <2>2. Task!Publishes("trigger")
      BY <2>1, CommandRefines DEF Task!Commands, Phases
    <2>. QED  BY <2>1, <2>2 DEF Task!Trigger, Task!Next
  <1>5. CASE PublishLand /\ ~Fatal
    <2>1. /\ Publishes("land", "confirm") /\ pc \in Phases
          /\ sent["trigger"] = 1 /\ sent["land"] < Task!MaxLands
      BY <1>5 DEF PublishLand, IInv, Order, Landing, Phases
    <2>2. Task!Publishes("land")
      BY <2>1, CommandRefines DEF Task!Commands, Phases
    <2>. QED  BY <2>1, <2>2 DEF Task!Land, Task!Next
  <1>6. CASE CutShort \/ Killed
    BY <1>6, GoneEnds DEF CutShort, Killed, Exiting, Phases, Ended, Task!Next
  <1>7. CASE (Cleanup \/ Stopped) /\ Gone(status)
    <2>1. pc # "off" /\ status \in Ended
      BY <1>7 DEF Cleanup, Stopped, IInv, Order, TypeOK, Phases
    <2>. QED  BY <1>7, <2>1, GoneEnds DEF Task!Next
  <1>8. CASE Cleanup /\ MayStop
    BY <1>8 DEF Cleanup, Task!vars
  <1>9. CASE Preflight \/ ForkRecorder \/ AssignPid \/ CheckRecorder \/ WaitOffboard
             \/ WaitArmed \/ Recheck \/ WaitStart \/ WaitFinish
    BY <1>2, <1>9 DEF Phases, Enters, ExitsWith, Fatal,
       Preflight, ForkRecorder, AssignPid, CheckRecorder, WaitOffboard,
       WaitArmed, Recheck, WaitStart, WaitFinish
  <1>10. CASE WaitHover \/ WaitStationary
    <2>1. /\ pc \in {"hover", "still"} /\ UNCHANGED sent
          /\ (pc' \in Phases /\ UNCHANGED status) \/ pc' = "cleanup"
      BY <1>10 DEF Phases, Enters, ExitsWith, Fatal,
       WaitHover, WaitStationary, Frame
    <2>. QED  BY <1>2, <2>1 DEF Phases
  <1>11. CASE ConfirmLanding \/ LandingUnconfirmed \/ WaitDisarmed \/ WaitGround
              \/ Interrupted
    BY <1>2, <1>11 DEF Phases, Enters, ExitsWith, Fatal,
       ConfirmLanding, LandingUnconfirmed, WaitDisarmed, WaitGround,
       Interrupted
  <1>12. CASE TimesOut \/ ((PublishTakeoff \/ PublishTrigger \/ PublishLand) /\ Fatal)
    BY <1>2, <1>12 DEF Phases, Enters, ExitsWith, Fatal,
       TimesOut, FatalWaits, PublishTakeoff, PublishTrigger, PublishLand
  <1>13. CASE Cleanup \/ Stopped
    BY <1>7, <1>8, <1>13 DEF Cleanup, Stopped
  <1>14. CASE PublishTakeoff \/ PublishTrigger \/ PublishLand
    BY <1>3, <1>4, <1>5, <1>12, <1>14
  <1>15. CASE TimesOut
    BY <1>12, <1>15
  <1>. QED  BY <1>1, <1>6, <1>9, <1>10, <1>11, <1>13, <1>14, <1>15 DEF Script

LEMMA WorldRefines ==
    ASSUME World PROVE UNCHANGED Task!vars
  <1>1. UNCHANGED script
    BY DEF World, RecorderDies, RecorderStops, OrphanStops, PilotMode, PilotArms,
       PilotDisarms, ControllerArms, ControllerLands, Dropped, TouchesDown,
       PlannerStarts, PlannerAdvances, PlannerEnds
  <1>. QED  BY <1>1 DEF script, Task!vars

\* The commands of a task are those TaskPromise allows, in its order
\* (RTK_whole_traj.sh:599-694).
THEOREM TaskKeepsPromise == Spec => KeepsTaskPromise
  <1>1. Init => Task!Init
    BY DEF Init, Task!Init
  <1>2. IInv /\ [Next]_vars => [Task!Next]_(Task!vars)
    <2>1. ASSUME IInv, UNCHANGED vars PROVE UNCHANGED Task!vars
      BY <2>1 DEF vars, script, Task!vars
    <2>. QED  BY <2>1, ScriptRefines, WorldRefines DEF Next
  <1>. QED  BY <1>1, <1>2, TaskInvariant, PTL DEF Spec, KeepsTaskPromise, Task!Spec
=============================================================================
