--------------------------- MODULE ServiceWorker ---------------------------
(***************************************************************************)
(* The thread of the flight state machine that makes the blocking MAVROS   *)
(* calls (FSM::service_worker_loop), and the mutex-protected queues it     *)
(* shares with the control loop.                                           *)
(*                                                                         *)
(* Every action is one critical section under service_mutex_, or the call  *)
(* made between two of them.  The condition variable is explicit: an idle  *)
(* worker sleeps until a notification, so a wake-up can be lost if a       *)
(* caller forgets to notify.                                               *)
(***************************************************************************)
EXTENDS Naturals, Sequences, SequencesExt, RetryGate

Kinds == {"Arm", "AutoLand"}

VARIABLES
    service_requests,      \* kinds waiting for the worker, oldest first
    service_completions,   \* results the control loop has not taken yet
    service_pending,       \* kind -> a request was queued and has no result yet
    stop_service_worker,   \* the nodelet is being destroyed
    worker                 \* what the worker thread is doing: see Workers

serviceVars == <<service_requests, service_completions, service_pending,
                 stop_service_worker, worker>>

NoKind == "none"

(***************************************************************************)
(* at = "checking" evaluates the wait predicate, "sleeping" waits for a    *)
(* notification, "calling" is inside toggle_arm_disarm or                  *)
(* request_auto_land for kind, "returned" has that call's result and not   *)
(* yet reported it, "exited" has left the loop.                            *)
(***************************************************************************)
Workers ==
    [at : {"checking", "sleeping", "exited"}, kind : {NoKind}, result : {NoKind}]
      \cup [at : {"calling"}, kind : Kinds, result : {NoKind}]
      \cup [at : {"returned"}, kind : Kinds, result : Results]

Idle(at) == [at |-> at, kind |-> NoKind, result |-> NoKind]

Completions == [kind : Kinds, result : Results]

WorkerInit ==
    /\ service_requests = <<>>
    /\ service_completions = <<>>
    /\ service_pending = [k \in Kinds |-> FALSE]
    /\ stop_service_worker = FALSE
    /\ worker = Idle("checking")

\* Mutant: notify_one is missing.
M_Notified_Silent == worker

Notified == IF worker.at = "sleeping" THEN Idle("checking") ELSE worker

-----------------------------------------------------------------------------
(* What the control loop calls.                                            *)

\* enqueue_service_request returns TRUE exactly under this condition.
CanEnqueue(kind) == ~stop_service_worker /\ ~service_pending[kind]

EnqueueRequest(kind) ==
    /\ CanEnqueue(kind)
    /\ service_pending' = [service_pending EXCEPT ![kind] = TRUE]
    /\ service_requests' = Append(service_requests, kind)
    /\ worker' = Notified
    /\ UNCHANGED <<service_completions, stop_service_worker>>

ResultReady(kind) ==
    \E i \in 1 .. Len(service_completions) : service_completions[i].kind = kind

\* Mutant: the newest result of that kind is taken.
M_OldestResult_Newest(kind) ==
    CHOOSE i \in 1 .. Len(service_completions) :
        /\ service_completions[i].kind = kind
        /\ \A j \in i + 1 .. Len(service_completions) : service_completions[j].kind # kind

\* Position of the oldest untaken result of that kind.
OldestResult(kind) ==
    CHOOSE i \in 1 .. Len(service_completions) :
        /\ service_completions[i].kind = kind
        /\ \A j \in 1 .. i - 1 : service_completions[j].kind # kind

\* take_service_result: at most one result per call, out of the middle of the
\* queue when the other kind completed earlier.
TakeResult(kind) ==
    /\ ResultReady(kind)
    /\ service_completions' = RemoveAt(service_completions, OldestResult(kind))
    /\ UNCHANGED <<service_requests, service_pending, stop_service_worker, worker>>

\* stop_service_worker, first half: the flag is set and the queue cleared
\* under the mutex; service_pending keeps its value.
StopWorker ==
    /\ ~stop_service_worker
    /\ stop_service_worker' = TRUE
    /\ service_requests' = <<>>
    /\ UNCHANGED <<service_completions, service_pending, worker>>

\* Mutant: the destructor joins without notify_all.
M_NotifyStop_Silent == FALSE

\* Second half, outside the mutex: notify_all before the join.
NotifyStop ==
    /\ stop_service_worker
    /\ worker.at = "sleeping"
    /\ worker' = Notified
    /\ UNCHANGED <<service_requests, service_completions, service_pending,
                   stop_service_worker>>

-----------------------------------------------------------------------------
(* The worker thread.                                                      *)

WorkerSleep ==
    /\ worker.at = "checking"
    /\ ~stop_service_worker
    /\ service_requests = <<>>
    /\ worker' = Idle("sleeping")
    /\ UNCHANGED <<service_requests, service_completions, service_pending,
                   stop_service_worker>>

\* Mutant: the flag is cleared when the request is taken, not when it is done.
M_WorkerTake_ClearsPending ==
    /\ worker.at = "checking"
    /\ ~stop_service_worker
    /\ service_requests # <<>>
    /\ worker' = [at |-> "calling", kind |-> Head(service_requests), result |-> NoKind]
    /\ service_requests' = Tail(service_requests)
    /\ service_pending' = [service_pending EXCEPT ![Head(service_requests)] = FALSE]
    /\ UNCHANGED <<service_completions, stop_service_worker>>

WorkerTake ==
    /\ worker.at = "checking"
    /\ ~stop_service_worker
    /\ service_requests # <<>>
    /\ worker' = [at |-> "calling", kind |-> Head(service_requests), result |-> NoKind]
    /\ service_requests' = Tail(service_requests)
    /\ UNCHANGED <<service_completions, service_pending, stop_service_worker>>

\* toggle_arm_disarm refuses for good on DENIED and NOT_SUPPORTED;
\* request_auto_land has no such answer.
CallResults(kind) ==
    IF kind = "Arm" THEN Results ELSE Results \ {"Rejected"}

CallReturns(result) ==
    /\ worker.at = "calling"
    /\ result \in CallResults(worker.kind)
    /\ worker' = [worker EXCEPT !.at = "returned", !.result = result]
    /\ UNCHANGED <<service_requests, service_completions, service_pending,
                   stop_service_worker>>

\* Mutant: the flag is never cleared.
M_WorkerReport_KeepsPending ==
    /\ worker.at = "returned"
    /\ service_completions' =
         Append(service_completions, [kind |-> worker.kind, result |-> worker.result])
    /\ worker' = Idle("checking")
    /\ UNCHANGED <<service_requests, service_pending, stop_service_worker>>

WorkerReport ==
    /\ worker.at = "returned"
    /\ service_pending' = [service_pending EXCEPT ![worker.kind] = FALSE]
    /\ service_completions' =
         Append(service_completions, [kind |-> worker.kind, result |-> worker.result])
    /\ worker' = Idle("checking")
    /\ UNCHANGED <<service_requests, stop_service_worker>>

WorkerExit ==
    /\ worker.at = "checking"
    /\ stop_service_worker
    /\ worker' = Idle("exited")
    /\ UNCHANGED <<service_requests, service_completions, service_pending,
                   stop_service_worker>>

-----------------------------------------------------------------------------
(***************************************************************************)
(* Type invariant, and what ties the queue, the thread and the flags       *)
(* together.  service_pending is not a copy of the queue: it is written in *)
(* three critical sections of two threads, and the control loop's          *)
(* decisions (wait, arm again, land) read only it.                         *)
(***************************************************************************)
WorkerTypeOK ==
    /\ service_requests \in Seq(Kinds)
    /\ service_completions \in Seq(Completions)
    /\ service_pending \in [Kinds -> BOOLEAN]
    /\ stop_service_worker \in BOOLEAN
    /\ worker \in Workers

Waiting(kind) ==
    \E i \in 1 .. Len(service_requests) : service_requests[i] = kind

\* A request is queued or being executed exactly while service_pending says
\* so (destruction clears the queue but not the flags).
PendingExact ==
    \A k \in Kinds :
        /\ Waiting(k) \/ worker.kind = k => service_pending[k]
        /\ service_pending[k] => Waiting(k) \/ worker.kind = k \/ stop_service_worker

\* Never two requests of one kind outstanding: neither twice in the queue nor
\* one in the queue behind the one being executed.
OneOutstanding ==
    /\ \A i, j \in 1 .. Len(service_requests) :
           service_requests[i] = service_requests[j] => i = j
    /\ ~Waiting(worker.kind)

\* Destruction leaves nothing in the queue, so no call starts after it.
StoppedIsEmpty == stop_service_worker => service_requests = <<>>

\* No lost wake-up: a worker never sleeps while a request is queued.
NoLostWakeup == worker.at = "sleeping" => service_requests = <<>>

WorkerInv ==
    WorkerTypeOK /\ PendingExact /\ OneOutstanding /\ StoppedIsEmpty /\ NoLostWakeup
=============================================================================
