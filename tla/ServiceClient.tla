--------------------------- MODULE ServiceClient ---------------------------
(***************************************************************************)
(* The service worker under an arbitrary client: requests of both kinds at *)
(* any time, results taken at any time or never, and the destruction of    *)
(* the nodelet at any moment.  The flight state machine is one such        *)
(* client (module FlightFsm).                                              *)
(***************************************************************************)
EXTENDS ServiceWorker

CONSTANT Backlog    \* bound: untaken results a client lets accumulate

ASSUME BacklogAssumption == Backlog \in Nat \ {0}

ClientRequests(kind) ==
    /\ Len(service_completions) < Backlog
    /\ EnqueueRequest(kind)

ClientNext ==
    \/ \E k \in Kinds : ClientRequests(k)
    \/ \E k \in Kinds : TakeResult(k)
    \/ StopWorker
    \/ NotifyStop
    \/ WorkerSleep
    \/ WorkerTake
    \/ \E r \in Results : CallReturns(r)
    \/ WorkerReport
    \/ WorkerExit

SafeClientSpec == WorkerInit /\ [][ClientNext]_serviceVars

(***************************************************************************)
(* The worker thread is scheduled; a MAVROS call returns (roscpp fails it  *)
(* when the connection is lost or the client is shut down); the destructor *)
(* runs to its join.  The client is under no obligation.                   *)
(***************************************************************************)
ClientFairness ==
    /\ WF_serviceVars(WorkerSleep \/ WorkerTake \/ WorkerReport \/ WorkerExit)
    /\ WF_serviceVars(\E r \in Results : CallReturns(r))
    /\ WF_serviceVars(NotifyStop)

ClientSpec == SafeClientSpec /\ ClientFairness

-----------------------------------------------------------------------------
\* service_worker_loop and its queues implement the promise, liveness
\* included: each accepted request is answered once, in order.
Service == INSTANCE ServicePromise WITH
    Kind <- Kinds, Answer <- Results,
    asked <- service_pending, answers <- service_completions,
    closed <- stop_service_worker

KeepsPromise == Service!Spec

\* ~FSM: the destructor's join returns, whatever the worker was doing, even
\* asleep, when stop_service_worker was called.
DestructorReturns == stop_service_worker ~> worker.at = "exited"
=============================================================================
