# HAM_Flight in TLA+

Models, model-checking configurations and machine-checked proofs for the offboard
flight controller of a lift-wing quadrotor: the nodelet that flies the vehicle
through PX4 (`src/src/ctrl_node`), the planner that feeds it trajectories
(`src/src/utils/trajectory_utils`), the link between them, the source of their
odometry (`src/src/utils/realflight_utils`), the estimators of the attitude
controller, the script that supervises a real flight (`src/sh_utils`), and the
Python classes of the messages (`src/src/utils/quadrotor_msgs`).

## 1. The system

| Part | State it keeps | Operations | Talks to |
|---|---|---|---|
| Flight state machine `ctrl_node::FSM` (`ctrl_fsm.cc`, `ctrl_nodelet.cpp`, `input.cpp`) | one of MANUAL, TAKEOFF, HOVER, MISSION, LAND; triggers; handshake id; failsafe latch; two retry gates; timers | `fsm_timer` (100 Hz), callbacks for takeoff/landing, mission trigger, commands, PX4 state, odometry, IMU | PX4 by setpoints and services; planner by `/traj_start_trigger` and `planning/cmd` |
| Service worker (`ctrl_nodelet.cpp:18-101`) | request queue, result queue, one pending flag per kind, stop flag | `enqueue_service_request`, `take_service_result`, `service_worker_loop`, `stop_service_worker` | the timer (mutex, condition variable); PX4 services, which block |
| Retry gates (`fsm_nodelet.hpp:93-148`) | retries, refusal, time of the last result | `should_attempt`, `update`, `reset`, `exhausted` | members of the state machine |
| Planner `sim_odom::SimOdom` (`add_traj.cpp`) | handshake (trigger, ready, id), trajectory (active, id, clock, origin), last odometry | trigger, ready/cancel and odometry callbacks; `timer_callback` | state machine, user |
| Localization source `odomRemap` (`odom_remap.cpp`) | newest pose and IMU message, calibration sums, watchdog times | frame callbacks, publishing timer, in one of three modes | feeds odometry to both |
| RC remapping `rcRemap` | latched switches, last frame, lock request | RC and lock callbacks | nothing in the repository subscribes to its topic |
| Disturbance estimators of `Attitude_Angular_Control` (`controller.cpp`) | per loop: first-tick flags, reference, integral, clock; last mission sequence | `handleMissionTrigger`, `computePositionLoopAccel`, attitude loop of `calculateControlCMD`, `getSafeControlDt` | called by each `fsm_timer` that gets as far; driven by `Mission_Trigger_t` |
| Control laws, thrust and aerodynamic model | parameters, samples | `calculateControl`, `estimateThrustModel` ... | called by `fsm_timer` |
| Whole-task script `RTK_whole_traj.sh` | phase, `AIRBORNE`, `RECORD_PID`, lock on descriptor 9, recorder process | the phases of `main`, EXIT and signal traps | PX4, controller, planner by topics; rosbag as a child |
| Launch and helper scripts (`sh_utils`) | none | launches, single publications | start everything |
| Message classes of `quadrotor_msgs` (Python) | the fields of one message | constructor, `serialize`, `deserialize`, both also `_numpy` | rospy programs |
| CHCNAV driver, NTRIP, serial library, C++ conversions, geometry | | | vendored or stateless |

### How the parts run

* Everything of the state machine - callbacks and timer - runs on one thread with
  a queue of its own (`ctrl_nodelet.cpp:177-187`). A tick therefore never overlaps
  a callback. The worker thread runs beside it; they share four fields under
  `service_mutex_`.
* A tick takes that mutex in three places (ARM result, AUTO.LAND result, pending
  flag or a new request), and the worker may report between any two of them.
* The planner runs on a manager with 16 threads, in another process. Its callbacks
  and its timer hold `state_mutex_`; the timer gives it up to publish and takes it
  again to stop.
* The localization source runs on the same manager; one mutex is held throughout by
  each of its callbacks and its 200 Hz timer.
* The estimators run inside the tick of the state machine, on its thread. A tick with
  a critical input lost returns before them, so intervals between their ticks vary.
* The whole-task script is one shell process that polls topics about once a second and
  publishes commands; the recorder it forks inherits the descriptor that carries its
  lock. A signal may come between any two commands; a crash leaves the recorder.
* Every subscriber of the link keeps one message. The user's trigger is a topic
  with two subscribers, one in each process.

### What is hard

The ARM call that is answered while the vehicle has lost an input; a result taken
by a tick that cannot use it; a landing that must go on for ever and be silent; the
failsafe that must not resume the flight when the input comes back; a mission
trigger, a command or a handshake of one flight that is still there in the next; a
trajectory that is cancelled between being computed and being published; a cancel
overwritten in a queue of one; a mission nobody ends but time; an integral that
remembers another mission, or spans a gap; a script that ends in the air and is started
again; a message read from a buffer that is too short. `PROJECT.json` lists
each of these hazards at its line together with the properties that watch it.

### What makes each part correct

* Worker: flags say exactly what is outstanding, at most one request of a kind,
  no lost wake-up, one answer per request in order, destruction returns.
* State machine: a landing is final, silent when forced, unbounded in retries and
  eventually happens; the mission flag is the state MISSION; nothing survives a
  flight; bad navigation stops takeoff and mission; a lost input never stands down
  over an outstanding ARM call; outside OFFBOARD the vehicle belongs to the pilot.
* Planner: one final point, ids that belong to the trajectory they are sent with,
  every trajectory ends.
* Link: the mission follows its own trajectory only, one flight per handshake, a
  trajectory nobody follows is being cancelled, missions end.
* Localization source: a bias of as many different poses as it was last divided by (a
  mean, unless one was refused before, see section 5), no message used twice or stale, an
  output that never dries up while frames arrive.
* Estimators: during a mission nothing is felt of what was before it, no integral and no
  derivative spans a gap.
* Script: no takeoff without the pilot, no third landing command, success only for a
  flown mission, one recorder that outlives the flight, an end, and a lock that is free.
* Messages: what is read is what was written, by whichever method; short buffers are
  noticed; a failed read leaves a prefix of the new message.

## 2. The modules

| Module | Models |
|---|---|
| `RetryGate` | class `RetryGate`, as operators on a record |
| `ServiceWorker` | worker thread, queues, flags, stop; one action per critical section or call |
| `ServiceClient` | the worker under an arbitrary client that may be destroyed at any time |
| `ServicePromise` | abstract: each request answered once, answers in order. `ServiceClient` implements it |
| `FlightFsm` | the state machine, PX4 and the worker |
| `FlightProperties` | properties of `FlightFsm`, fairness, its refinement of `MissionPromise` |
| `MissionPromise` | abstract: the state machine as a planner sees it (away, hover, mission; handshakes, cancels) |
| `SimOdom` | the planner under any user, controller and odometry |
| `MissionLink` | `MissionPromise` and `SimOdom` over topics |
| `OdomRemap` | the localization source in mocap, GPS and simulation mode |
| `Estimators` | the estimators of both loops, under missions, flights and gaps |
| `MissionScript` | the whole-task script, its recorder, and what it sees of the world |
| `TaskPromise` | abstract: the commands one task publishes. `MissionScript` implements it |
| `MessageCodec` | the Python message classes, as operators, and a program that uses them |
| `MCFlight`, `MCPlanner` | values of constants for TLC |
| `ServiceClientProofs`, `FlightProofs`, `PlannerProofs`, `MissionLinkProofs`, `OdomRemapProofs`, `EstimatorProofs`, `MissionScriptProofs`, `MessageCodecProofs` | proofs |

`M_...` definitions are plausible bugs of the definition that follows them. Nothing
uses them; they exist to show that each property would notice.

### FlightFsm

The C++ members are the fields of the record `fsm`, under their names. A tick is
three actions, `TakeArmResult`, `TakeLandResult`, and one of the `Tick...` actions,
each the whole rest of `fsm_timer` for its case: critical inputs
(`TickReleases`, `TickForcesLanding`) or, with all inputs fresh, mode following,
navigation failsafe, landing trigger and the case of the current state
(`NormalTick`). The handlers are operators from record to record, composed in the
order of the code; where the worker's queue matters they come with a request.

What is abstracted, and why it is not lost:

* Timers become stages (`delay`, `takeoff_timer`, `unhealthy`, the gates' `last`, the
  stamps of commands and triggers) that time moves forward between ticks, in any
  order the code's comparisons allow. `pending_sequence` is none/fresh/expired.
* The set of inputs found stale is chosen anew in each tick from `Losses`. A
  message may lag behind the vehicle: `observed` changes only in `StateFeed`.
* Geometry, thrust and attitude are dropped; `setpoint` says where the published
  setpoint comes from. `setpoint` and `published` are observations of the last tick
  and are cleared when the next one begins.
* The reads of the pending flags in the last part of a tick are taken together; the
  two takes of results before it are separate actions.
* Consecutive repetitions of the same "cancel" within one handler are one message.
* `delay_trigger` survives a flight, as in the code.

### SimOdom

Each callback is an action, as it holds the mutex throughout. The timer is
`TimerReturns`, or `TimerStarts`/`TimerAdvances` (first critical section), then
`TimerPublishes`, then perhaps `TimerStops` (second critical section); any callback
may run between them. `last_yaw_ref_` is read without the mutex: `timer.yaw` becomes
"other" when another origin is frozen in the meantime. The evaluated trajectory is
abstracted to its origin, time to steps of 0 (a jump, frozen by the code) or 1.

### MissionLink

The state machine is `MissionPromise`; run `fsm_navigation` shows that `FlightFsm` is
one, and `MissionPromiseKept` proves it. Messages of one tick are on their way before
anything else happens (`FsmSends`).
A topic is a sequence of at most two messages, of which the older may be lost.

Two assumptions are stated as operators. `Prompt`: a handshake is granted only when
earlier messages of that topic have arrived (`DELAY_TRIGGER_TIME` after the
hover began, against milliseconds of latency). Nothing enforces it: without it
a lost cancel leaves the planner on an old trajectory, and it ignores the new
handshake. `NoWrap`: an id is not reused. Both say something of the steps that grant a
handshake (`SendsHandshake`) and of no other: a cancel is never held back.

### OdomRemap

Callbacks and the parts of the two timers are actions; a timer tick that returns
early changes nothing and is left out. A pose is abstracted to whether its
quaternion has norm 0, the sums to how many samples they hold and how often they
were divided, the time delay of mocap mode to stable or not. The counters stop at
`Cap`, which is past every comparison of the code. `used`, `output`, `samples` (different
poses in the sums) and `divided` are history, which no guard reads.
The window of velocities (`imuvel_cal`) and the rotation of poses are numbers only.

### Estimators

A step is a tick of the state machine (`Departs` ... `Lands`, with the trigger and the
target it leaves behind), a trigger of the user (`Feed`), its ageing, or a tick that
returns early (`LosesInput`). Each tick runs `Control`: `handleMissionTrigger`
(`Triggered`), the position loop, and with controller type 3 the attitude loop. Numbers
are replaced by where they come from: a tick has a tag (flight, mission, run of regular
intervals), an integral is the set of the tags summed up in it, a reference the tag of
its tick, `rate` the tick the derivative of the attitude error goes back to. What
`getSafeControlDt` refuses (no tick before, a time that stands still, goes back or is
too far) is an irregular interval and starts a new run. `used` and `base` are what the
output of the last tick rests on. The branches of UDE, TVUDE and TTVUDE differ only in
their numbers and are one, `Observers`. States of the machine are three phases, since
`trigger.active` and the target are all the estimators see of it.

### MissionScript

`pc` is the function of `main` the script is in; the preflight checks and the typed
confirmation, which change nothing, are one step. A poll that decides nothing is a
stutter, a wait may time out whenever it likes, and each reason to be fatal is one
disjunct; `WaitFinish` sees state and clock at one moment, which the script reads one after
the other (439, 446). The traps are steps of their own: `Cleanup` (EXIT), `Interrupted` (INT, TERM),
`CutShort` (a signal during the clean-up), `Killed`. Between `ForkRecorder` and
`AssignPid` the recorder runs while `RECORD_PID` is empty (lines 254, 255). When the
script's process is gone its recorder becomes `orphan` and keeps the inherited lock.
The world is what the script could see of it: the pilot switches and arms at will, the
recorder may die, a command may be lost, refused or acted on late (`accepted` survives
the script), the planner may fly for somebody else. `since` is history: what happened
since the preflight checks and since the trigger.

### MessageCodec

The ten generated classes repeat one scheme, so a class is its sequence of blocks
(`Layout`), a block being what one `pack`, `tostring` or slice writes; the methods are
operators over blocks. Kept are the widths, the number of elements, how a field is
stored (number, list, string, bytes, array of numpy) and the exceptions, because the
methods branch on them; the values are abstract. An array of numpy is taken to have the
type its message declares: `tostring` (`_AuxCommand.py:110`) would write any other as it is. A buffer is its size and the set of the
runs of bytes written to it, each at its place, so that a slice finds a run only where it
is and as long as it is; anything else is `Garbage`. `Writes` and `Reads` are recursive
functions over the blocks: where the buffer, or the reader, is after each. The classes are taken as Python 3 runs them, where
`type(_x) == unicode` is not reached and `chr(0)*8` is text.

## 3. Runs

| Run | Question | Bounds |
|---|---|---|
| `service_client` | Is the worker correct under any client and any moment of destruction? | 3 untaken results, the state machine never leaves more (`FlightIsAClient`) |
| `fsm_landing` | Is a landing final, silent, relentless, and does it happen? | retries 1 and 2; any one input lost; 3 modes |
| `fsm_arming` | Does a late, failed or refused ARM leave the vehicle unattended? | loss of the state message; 1 retry |
| `fsm_mission` | Do trigger, handshake, command and mission flag agree over a flight and the next? | 2 ids, so commands of the previous handshake exist |
| `fsm_navigation` | Does bad navigation stop the flight, and is the machine a `MissionPromise`? | 1 id |
| `planner` | Is each trajectory ended once, with the right id, and does it end? | 2 ids, duration 2, 2 origins |
| `mission_link` | Does the mission follow its own trajectory over delayed and lost messages, and does it end? | 3 ids, duration 1 |
| `odom_remap` | Is the bias of as many different poses as it is divided by, and in mocap mode of those since the restart; is each message used once; does the output go on? | 3 samples, counters to 6 |
| `mission_script` | Does the script keep its promise, its recording and its lock, and end? | 2 frames, a trajectory of 2 steps |
| `messages` | Is every message read as it was written, and a short buffer noticed? | 1 field edited, text of at most 2 bytes |
| `estimators` | What do the outputs rest on after missions, flights and gaps? | 2 flights, 3 missions, 3 gaps, 4 triggers |
| `late_arm` | *Expected violation*, see 5 | |

Why the bounds suffice. The retry counters only matter relative to their limit:
1 or 2 reaches below, at and after it. Two ids distinguish this handshake from the
last; in `mission_link`, where ids start at 2 and are not reused, three make two
handshakes. A wrap of the generation is reached in
`fsm_mission`, where the counter starts at any value. Two origins distinguish the
hover from elsewhere. The environment of each flight run (`Stimuli`, `Losses`,
`Modes`) is what its question is about; together they contain every stimulus and
loss. Two frames are the
least for which a count can be interrupted, two steps the least trajectory with a start, a
middle and an end. A message differs from a constructed one in at most one field per
edit, and all blocks are handled one by one, so one edited block meets every
case; text of 0, 1 and 2 bytes is empty, complete and cut. Three missions in two
flights put a mission before, in the same flight as, and in the flight after another,
and a fourth trigger is there to be cancelled. Deadlock is checked everywhere but in
`service_client`, where destruction ends the system.

Fairness. The timer, the worker and the planner's timer are threads the
scheduler runs (weak). Calls return, since ROS service calls are bounded by
PX4's answer or a transport error (weak). Intervals elapse; this is strong fairness as
time is observed between ticks only. PX4 is assumed not to refuse AUTO.LAND
for ever when asked for ever (strong): no code can land otherwise. In the link, odometry comes
again and again, sent commands arrive, and the planner's clock does not jump in
every cycle. In `OdomRemap` proper
poses arrive again and again and a tick meets one before it is stale (5 ms against
200 ms). In `MissionScript` the shell runs, its waits have a deadline and rosbag obeys
SIGINT (weak): `kill -INT` goes to its process group, and rosbag handles the signal
although the shell that started it ignores it. No fairness is assumed of users, pilots
or lost messages.

## 4. Proofs

All proofs are of the specification with every value of the constants, under the
`ASSUME`s named in the modules (positive bounds, sets of inputs and modes inside the ones the
code knows).

* `ServiceClientProofs`, on the steps of the worker first and then with a client:
  `WorkerInv` - types, `PendingExact`, `OneOutstanding`,
  `NoLostWakeup`, and "a stopped worker has an empty queue" - is inductive under any client
  that respects the interface; and each step of client and worker is a step or
  a stutter of `ServicePromise` (`ClientImplementsPromise`).
* `FlightProofs`: the invariant `IInv` is types, `WorkerInv` and `Consistent(fsm)`, which
  relates mission flag, handshake, failsafe, mode, last message and gate. The properties
  are not inductive one by one: that the failsafe is silent needs that a cancelled
  handshake leaves no id, that flight is in OFFBOARD needs the mode of the last normal
  tick, that the gate of AUTO.LAND is open needs what the result just taken did to
  it. As the machine is one record, most lemmas are about operators on records:
  each handler keeps a record well-typed and either `Consistent` or `Underway` (inside a
  tick); the last part of a tick brings `Underway` back to `Consistent`. The action
  properties `LandingIsFinal`, `FlightEndDropsMission`, `HandsOver`,
  `PendingArmForcesLanding`, `BadNavigationStops` and `MissionNeedsBoth` follow from the
  invariant and the lemma that only ticks change these fields.
* The refinement (`MissionPromiseKept`): every step of `FlightFsm` is a step or a stutter of
  `MissionPromise`. A normal tick is described twice, by what is done before the switch over
  the state (`PreparedMakes`: mode, navigation, landing trigger) and by what the switch
  does (`SwitchMakes`); the lemmas `Promised...` map each pair to one abstract tick. It
  needs one invariant more, `HandshakeDue`: while a handshake is in force no other one falls
  due. Without it a tick could replace a handshake without a cancel, which the abstract
  machine never does.
* The worker as the state machine uses it: `FewResults` says that once a tick has taken the
  results of a kind, at most one is untaken or outstanding, and otherwise at most two.
  `ResultBacklogBounded` follows, and so does `FlightIsAClient`: the state machine is a client in
  the sense of `ServiceClient` for every backlog of at least three, so what run
  `service_client` and `ServiceClientProofs` show of the worker holds in flight. That its
  promise does too is a theorem of its own, `ServicePromiseInFlight`: `FlightFsm`
  implements `ServicePromise`, step by step.
* `PlannerProofs`: `PlannerInv` adds to the properties what the locals of the timer
  carry from one critical section to the next: a tick that has left the first
  section with an active trajectory at its end knows that it must stop it.

* `MissionLinkProofs`: `LinkInv` follows one id, the newest, through two processes and three
  topics; every older one has been given up by both sides. The last message on its way says
  what the state machine expects (`InOrder`); the newest handshake is on its way at most
  once, and while it is, the planner has neither accepted nor started it; afterwards it
  holds it or has started it, never both (`Informed`); what it freezes while the state
  machine expects it is frozen in the hover of that handshake (`FrozenInHover`); and every
  command on its way is of a started trajectory with its own origin and yaw
  (`OwnCommands`). `OwnTrajectoryFlown`, `StrayIsTold` and `HandshakeFliesOnce` follow for every
  number of ids and every duration. `Prompt` and `NoWrap` are conjuncts of the specification,
  so these theorems hold under them. `LinkRunsBoth`: the link is a behaviour of
  `MissionPromise` and of `SimOdom`, so that no assumption on either is hidden in the coupling.
* `OdomRemapProofs`: `RemapInv` says where the calibration of each mode is (in mocap mode
  its end is a value of `seq`, else a flag), that each count of `bias_c` is another pose,
  which holds because a new message is unused, and that with GPS and in simulation poses
  and divisions go together once there are `BiasSamples` (`Attempts`).
* `EstimatorProofs`: the controllers and the trigger agree on the last sequence between
  any two steps (`Synced`), so a tick finds another one exactly when it has just started
  a mission; that tick clears both loops, and from then on only ticks of the mission,
  and for an observer of the present run, are added (`Sums`). The last error is of the last
  tick (`LastError`), and the attitude loop leaves its first tick with the first mission
  (`FirstTick`). What a tick does to a loop is a lemma about an operator on records; all
  actions but three are a tick, so the step lemma is proved once for ticks.
* `MissionScriptProofs`: `IInv` says for each phase what has been published (`Order`),
  what of the script's beliefs about vehicle and trajectory is so (`Beliefs`), that
  the recorder of the running script and an orphan exclude each other (`Recording`), and
  that OFFBOARD before the takeoff was chosen after the preflight checks (`PilotChose`).
  `TaskKeepsPromise` is a refinement: every step maps to a step or a stutter of
  `TaskPromise`.
* `MessageCodecProofs`: what the methods do to a message is an induction over its blocks.
  `BlockInduction` states the principle for sets of numbers, and follows from the
  well-foundedness of the naturals (`LeastOf`); the library's own induction theorems take
  an operator, which the provers cannot instantiate. With it, `WritesBlockwise` and
  `ReadsBlockwise` show that the recursive functions satisfy their equations, and the rest
  speaks of one block. No two runs that hold a byte begin at one place (`Tiled`), so
  what is read where a run is, is the run (`ContentOfRun`); a block of a message whose arrays have
  their sizes lies in the buffer from the end of the block before it, at the length it is
  read with (`BlockWritten`, `SerializedHolds`); and reading a block stores it, fails, or
  finds that an earlier one failed (`BlockRead`). `ReadsWhatWasWritten` puts them together:
  after k blocks the method has either read k blocks as sent and stands where the
  writer stood, or has stopped before the first block that is not there. `WholeIsRead`,
  `CutIsNoticed` and `TornReads` are its three cases. That only Serial can be
  shortened unnoticed rests on `LayoutShape`: every other class ends with a block that is read
  whole. The invariant `CodecInv` adds that the buffer was made of `source` and that
  what was read is stored as the method stores it, which `ForwardsWhatItReceived` needs.
  All of it holds for every number of edits and every length of text.

Only model-checked is liveness (`DestructorReturns`, `LandingHappens`, `TrajectoryEnds`,
`MissionEnds`, `OutputNeverStops`, `TaskEnds`, `LockComesBack`) and the fair part of
`KeepsPromise`: they need fairness, and ENABLED is beyond the provers. Every safety
property of every passing run, and the step part of every refinement, is a theorem. Only
proved, and in no run, are type correctness and the auxiliary invariants of `FlightProofs`,
`ServiceClientProofs`, `PlannerProofs` and `MessageCodecProofs` (`HandsOver`,
`FlightInOffboard`, `HandshakeInFlight`, `CancelEndsMission`, `HandshakeDue`,
`OneOutstanding`, `CommandsCarryId`),
`DampingFromLastTick`, and `FlightIsAClient`, `ServicePromiseInFlight` and `LinkRunsBoth`.
`CodecInv` was checked by TLC with `messages.cfg` before it was proved.

Two statements were corrected by the attempt to prove them. `BadNavigationStops` spoke of all
ticks, but one that has lost a critical input stands down without looking at navigation,
and TLC finds one in `fsm_navigation.cfg` with `Losses <- OdomLoss`; it now speaks of ticks
that publish a setpoint. `NoWrap` let an id be used again when `MaxId` is 1.

## 5. Where code and comments disagree

* `late_arm`: an ARM accepted between the take of results and the test of the
  pending flag in one tick looks like none, so a lost input stands the tick
  down; `ctrl_fsm.cc:109-111` says AUTO.LAND is queued behind it.

The following are definitions beside the properties of their module; TLC refutes each
when it is added to the configuration named.

* `TakeoffCanRetry` (`fsm_arming.cfg`): a refusal taken by a tick outside the branch that
  resets the gate closes it for good; `ctrl_fsm.cc:607` says the trigger is kept to retry.
* `DisarmEndsForcedLanding` (`fsm_landing.cfg`, with `Losses <- OdomLoss`): the latched
  failsafe counts its own LAND as flight and goes on requesting AUTO.LAND after
  disarming; `ctrl_fsm.cc:250-251` says it stops.
* `MeansAreOfSamples` (`odom_remap.cfg`): a refused mean quaternion leaves the sums
  divided and the counters running, so the next attempt adds one pose to a mean and
  divides by `BiasSamples` + 1, which is a wrong position bias;
  `odom_remap.cpp:695-699` says the counters must equal the number of samples there.
  `BiasOfItsPoses` states what does hold then: one pose and one division per refusal.
* `RecordsInAir` (`mission_script.cfg`): `AIRBORNE` is set by the poll that sees the
  vehicle armed. A signal, a lost connection or the timeout between the takeoff command
  and that poll ends the script as if on the ground and stops the recording of a flight
  that has begun; `RTK_whole_traj.sh:56` says it is kept.

Read off while modelling, of no property:

* The planner publishes the final time once and then falls silent
  (`add_traj.cpp:829-849`), while the script subscribes anew for every poll
  (`RTK_whole_traj.sh:146-155`), about once a second, and is fatal when nothing comes (447).
  It sees the end of a trajectory only if its subscription happens to begin with the last
  message; `WaitFinish` and `PlannerEnds` may therefore be in either order.
* PID without attitude loop integrates in TAKEOFF and LAND too, and carries its integral
  from one flight into the next; the comment at `controller.cpp:515` speaks of HOVER and
  MISSION. `FlightsDoNotMix` states the exception.
* `last_att_time` is set to the present at every tick until the first tick in a mission
  is over (`controller.cpp:750-754`), so the derivative term of the attitude loop is zero
  before the first mission, and always with PD. `DampedAfterMission` states when it is not.
* A default `OutputData` or `Serial` cannot be serialized under Python 3, since
  `chr(0)*8` and `''` are text there; `serialize_numpy` of a message built from lists raises an
  AttributeError, and `deserialize_numpy` of a short array a ValueError, that no handler
  of these methods converts. `_PositionCommand.py` is older than `msg/PositionCommand.msg`.

## 6. Not modelled

Control laws, thrust mapping, aerodynamics, filters and trajectory evaluation are
floating-point functions without control flow that the properties depend on; in them
TLC can neither enumerate the inputs nor evaluate the functions. Parameter loading
happens once. The CHCNAV driver, NTRIP code and serial library are a vendor's or third-party, as
is `chcnav/scripts/get-pip.py`, the bootstrap script of pip: 27,000 lines that are one
encoded archive, by far the most of the Python in the repository. The C++ conversions of
messages scale fields one by one. `rcRemap`'s topic has no subscriber, and the scripts of
`uav_utils` are started by nothing. The other shell scripts are launches and single
publications in a straight line. The destruction of the planner while a callback runs is
left to the nodelet library. The planner's topics of velocities are not modelled: the
controllers store them and compute nothing from them (`controller.cpp:757`); its topic
of times is modelled as the script reads it.

## 7. Plan

Done: worker and gates, state machine, planner, link, localization source, estimators,
whole-task script and message classes; the proofs of every safety property that a run
checks; and the refinements of the worker, alone and in flight, of the state machine and
of the script. What is left, in this order:

1. That `OutputNeverStops` and `MissionEnds` rest on safety facts worth stating alone: after
   its last point the planner is inactive, and a stale command leaves the mission.
2. Pure operators against reference definitions: parsing of handshake ids, acceptance of
   parameters.
