------------------------ MODULE ServiceClientProofs ------------------------
(***************************************************************************)
(* For every backlog: the worker's queues and flags stay consistent under  *)
(* an arbitrary client, and the worker implements the safety part of       *)
(* ServicePromise.                                                         *)
(*                                                                         *)
(* WorkerInv is inductive for every action of the worker, whoever its      *)
(* client is: one lemma per action.  The lemmas on sequences replace the   *)
(* recursive reading of the queue by what the invariants see of it: which  *)
(* elements it holds and where.                                            *)
(***************************************************************************)
EXTENDS ServiceClient, SequenceTheorems, WellFoundedInduction, TLAPS

\* What Append does to the elements of a queue.
LEMMA AppendElements ==
    ASSUME NEW S, NEW s \in Seq(S), NEW e \in S
    PROVE  /\ Append(s, e) \in Seq(S)
           /\ Len(Append(s, e)) = Len(s) + 1
           /\ \A i \in 1 .. Len(s) : Append(s, e)[i] = s[i]
           /\ Append(s, e)[Len(s) + 1] = e
           /\ Append(s, e) # <<>>
  BY SMT

\* Removing a position of a queue leaves a queue of the same elements.
LEMMA RemoveAtSeq ==
    ASSUME NEW S, NEW s \in Seq(S), NEW i \in 1 .. Len(s)
    PROVE  RemoveAt(s, i) \in Seq(S)
  <1>1. Len(s) \in Nat /\ \A j \in 1 .. Len(s) : s[j] \in S
    BY ElementOfSeq, LenProperties
  <1>2. SubSeq(s, 1, i - 1) \in Seq(S)
    <2>1. \A j \in 1 .. i - 1 : s[j] \in S
      BY <1>1
    <2>2. i - 1 \in Int
      BY <1>1
    <2>. QED  BY <2>1, <2>2, SubSeqProperties
  <1>3. SubSeq(s, i + 1, Len(s)) \in Seq(S)
    <2>1. \A j \in i + 1 .. Len(s) : s[j] \in S
      BY <1>1
    <2>2. i + 1 \in Int /\ Len(s) \in Int
      BY <1>1
    <2>. QED  BY <2>1, <2>2, SubSeqProperties
  <1>. QED  BY <1>2, <1>3, ConcatProperties DEF RemoveAt

\* A non-empty set of naturals has a least element.
LEMMA LeastNatural ==
    ASSUME NEW T, T \subseteq Nat, T # {}
    PROVE  \E n \in T : \A m \in T : n <= m
  <1> DEFINE R == {ss \in Nat \X Nat : ss[1] < ss[2]}
  <1>1. IsWellFoundedOn(R, Nat)
    BY NatLessThanWellFounded DEF OpToRel
  <1>2. PICK n \in T : \A m \in T : <<m, n>> \notin R
    <2>. HIDE DEF R
    <2>. QED  BY <1>1, WFMin
  <1>3. \A m \in T : ~(m < n)
    BY <1>2
  <1>. QED  BY <1>3

\* The position take_service_result erases is the first one that holds the kind
\* asked for.
LEMMA OldestResultExists ==
    ASSUME WorkerTypeOK, NEW kind \in Kinds, ResultReady(kind)
    PROVE  /\ OldestResult(kind) \in 1 .. Len(service_completions)
           /\ service_completions[OldestResult(kind)].kind = kind
           /\ \A j \in 1 .. OldestResult(kind) - 1 : service_completions[j].kind # kind
  <1> DEFINE T == {i \in 1 .. Len(service_completions) : service_completions[i].kind = kind}
  <1>1. Len(service_completions) \in Nat
    BY LenProperties DEF WorkerTypeOK
  <1>2. T \subseteq Nat /\ T # {}
    BY <1>1 DEF ResultReady
  <1>3. PICK n \in T : \A m \in T : n <= m
    BY <1>2, LeastNatural
  <1>4. \A j \in 1 .. n - 1 : service_completions[j].kind # kind
    BY <1>1, <1>3
  <1>. QED  BY <1>3, <1>4 DEF OldestResult

-----------------------------------------------------------------------------
(* What every action of the worker and of its client preserves.            *)

\* Nothing is queued, executing or answered when the nodelet starts.
LEMMA WorkerInitInv == WorkerInit => WorkerInv
  <1>. SUFFICES ASSUME WorkerInit PROVE WorkerInv
    OBVIOUS
  <1>1. WorkerTypeOK
    BY EmptySeq DEF WorkerInit, WorkerTypeOK, Workers, Idle
  <1>2. PendingExact /\ OneOutstanding
    BY DEF WorkerInit, PendingExact, OneOutstanding, Waiting, Idle, Kinds, NoKind
  <1>3. StoppedIsEmpty /\ NoLostWakeup
    BY DEF WorkerInit, StoppedIsEmpty, NoLostWakeup
  <1>. QED  BY <1>1, <1>2, <1>3 DEF WorkerInv

\* Where the thread is tells what it carries.
LEMMA WorkerShape ==
    ASSUME WorkerTypeOK
    PROVE  /\ worker.at \in {"checking", "sleeping", "exited"} =>
                  worker = Idle(worker.at) /\ worker.kind = NoKind
           /\ worker.at = "calling" => worker.kind \in Kinds /\ worker.result = NoKind
           /\ worker.at = "returned" => worker.kind \in Kinds /\ worker.result \in Results
           /\ worker.at \in {"checking", "sleeping", "exited", "calling", "returned"}
           /\ worker = [at |-> worker.at, kind |-> worker.kind, result |-> worker.result]
           /\ NoKind \notin Kinds
  BY DEF WorkerTypeOK, Workers, Idle, NoKind, Kinds

\* A request joins the queue only when none of its kind is queued or executing,
\* and the notification wakes a worker that sleeps.
LEMMA EnqueueInv ==
    ASSUME WorkerInv, NEW kind \in Kinds, EnqueueRequest(kind)
    PROVE  WorkerInv'
  <1>1. /\ WorkerTypeOK /\ PendingExact /\ OneOutstanding
        /\ ~stop_service_worker /\ ~service_pending[kind]
        /\ service_pending' = [service_pending EXCEPT ![kind] = TRUE]
        /\ service_requests' = Append(service_requests, kind)
        /\ worker' = Notified
        /\ UNCHANGED <<service_completions, stop_service_worker>>
    BY DEF WorkerInv, EnqueueRequest, CanEnqueue
  <1>2. /\ service_requests \in Seq(Kinds) /\ Len(service_requests) \in Nat
        /\ service_requests' \in Seq(Kinds)
        /\ Len(service_requests') = Len(service_requests) + 1
        /\ \A i \in 1 .. Len(service_requests) : service_requests'[i] = service_requests[i]
        /\ service_requests'[Len(service_requests) + 1] = kind
    BY <1>1, AppendElements, LenProperties DEF WorkerTypeOK
  <1>3. /\ worker'.at # "sleeping" /\ worker'.kind = worker.kind /\ worker' \in Workers
    BY <1>1, WorkerShape DEF Notified, Idle, Workers, WorkerTypeOK
  <1>4. ~Waiting(kind) /\ worker.kind # kind
    BY <1>1 DEF PendingExact
  <1>5. \A k \in Kinds : Waiting(k)' <=> Waiting(k) \/ k = kind
    BY <1>2 DEF Waiting
  <1>6. WorkerTypeOK'
    BY <1>1, <1>2, <1>3 DEF WorkerTypeOK
  <1>7. PendingExact'
    BY <1>1, <1>3, <1>5 DEF PendingExact, WorkerTypeOK
  <1>8. OneOutstanding'
    <2>1. ASSUME NEW i \in 1 .. Len(service_requests'), NEW j \in 1 .. Len(service_requests'),
                 service_requests'[i] = service_requests'[j]
          PROVE  i = j
      BY <1>1, <1>2, <1>4, <2>1 DEF OneOutstanding, Waiting
    <2>2. ~Waiting(worker.kind)'
      <3>1. ~Waiting(worker.kind)
        BY <1>1 DEF OneOutstanding
      <3>. QED  BY <1>2, <1>3, <1>4, <3>1 DEF Waiting
    <2>. QED  BY <2>1, <2>2 DEF OneOutstanding
  <1>9. StoppedIsEmpty' /\ NoLostWakeup'
    BY <1>1, <1>3 DEF StoppedIsEmpty, NoLostWakeup
  <1>. QED  BY <1>6, <1>7, <1>8, <1>9 DEF WorkerInv

\* Taking a result touches neither the queue nor the thread.
LEMMA TakeResultInv ==
    ASSUME WorkerInv, NEW kind \in Kinds, TakeResult(kind)
    PROVE  WorkerInv'
  <1>1. service_completions' \in Seq(Completions)
    <2>1. OldestResult(kind) \in 1 .. Len(service_completions)
      BY OldestResultExists DEF WorkerInv, TakeResult
    <2>. QED  BY <2>1, RemoveAtSeq DEF WorkerInv, WorkerTypeOK, TakeResult
  <1>2. UNCHANGED <<service_requests, service_pending, stop_service_worker, worker>>
    BY DEF TakeResult
  <1>. QED
    BY <1>1, <1>2 DEF WorkerInv, WorkerTypeOK, PendingExact, OneOutstanding,
                      StoppedIsEmpty, NoLostWakeup, Waiting

\* Stopping empties the queue and keeps the flags, which from now on may say
\* more than there is.
LEMMA StopInv == ASSUME WorkerInv, StopWorker PROVE WorkerInv'
  <1>1. /\ service_requests' = <<>> /\ stop_service_worker' = TRUE
        /\ UNCHANGED <<service_completions, service_pending, worker>>
    BY DEF StopWorker
  <1>2. service_requests' \in Seq(Kinds) /\ Len(service_requests') = 0
    BY <1>1, EmptySeq
  <1>3. \A k : ~Waiting(k)'
    BY <1>2 DEF Waiting
  <1>4. WorkerTypeOK'
    BY <1>1, <1>2 DEF WorkerInv, WorkerTypeOK
  <1>5. PendingExact'
    BY <1>1, <1>3 DEF WorkerInv, PendingExact
  <1>6. OneOutstanding'
    BY <1>2, <1>3 DEF OneOutstanding
  <1>. QED  BY <1>1, <1>4, <1>5, <1>6 DEF WorkerInv, StoppedIsEmpty, NoLostWakeup

\* The steps that only move an idle thread.
LEMMA IdleStepsInv ==
    ASSUME WorkerInv, NotifyStop \/ WorkerSleep \/ WorkerExit
    PROVE  WorkerInv'
  <1>1. UNCHANGED <<service_requests, service_completions, service_pending,
                    stop_service_worker>>
    BY DEF NotifyStop, WorkerSleep, WorkerExit
  <1>2. /\ worker'.kind = worker.kind /\ worker' \in Workers
        /\ worker'.at = "sleeping" => service_requests = <<>>
    BY WorkerShape DEF WorkerInv, NotifyStop, WorkerSleep, WorkerExit, Notified, Idle, Workers
  <1>. QED
    BY <1>1, <1>2 DEF WorkerInv, WorkerTypeOK, PendingExact, OneOutstanding,
                      StoppedIsEmpty, NoLostWakeup, Waiting

\* The request at the head moves into the worker: still outstanding, and the
\* queue behind it holds no other of its kind.
LEMMA WorkerTakeInv == ASSUME WorkerInv, WorkerTake PROVE WorkerInv'
  <1>0. PICK kind \in Kinds : kind = Head(service_requests)
    BY HeadTailProperties DEF WorkerInv, WorkerTypeOK, WorkerTake
  <1>1. /\ WorkerTypeOK /\ PendingExact /\ OneOutstanding /\ StoppedIsEmpty
        /\ worker.at = "checking" /\ ~stop_service_worker /\ service_requests # <<>>
        /\ worker' = [at |-> "calling", kind |-> kind, result |-> NoKind]
        /\ service_requests' = Tail(service_requests)
        /\ UNCHANGED <<service_completions, service_pending, stop_service_worker>>
    BY <1>0 DEF WorkerInv, WorkerTake
  <1>2. /\ kind \in Kinds /\ kind = service_requests[1]
        /\ Len(service_requests) \in Nat \ {0}
        /\ service_requests' \in Seq(Kinds)
        /\ Len(service_requests') = Len(service_requests) - 1
        /\ \A i \in 1 .. Len(service_requests') : service_requests'[i] = service_requests[i + 1]
    BY <1>0, <1>1, HeadTailProperties, EmptySeq DEF WorkerTypeOK
  <1>3. worker.kind = NoKind /\ NoKind \notin Kinds
    BY <1>1, WorkerShape
  <1>4. ~Waiting(kind)'
    <2>. SUFFICES ASSUME NEW i \in 1 .. Len(service_requests'), service_requests'[i] = kind
                  PROVE  FALSE
      BY DEF Waiting
    <2>1. /\ i + 1 \in 1 .. Len(service_requests) /\ 1 \in 1 .. Len(service_requests)
          /\ service_requests[i + 1] = service_requests[1]
      BY <1>2
    <2>. QED  BY <1>1, <1>2, <2>1 DEF OneOutstanding
  <1>5. \A k \in Kinds : Waiting(k) <=> Waiting(k)' \/ k = kind
    <2>. TAKE k \in Kinds
    <2>1. ASSUME Waiting(k), k # kind PROVE Waiting(k)'
      <3>1. PICK i \in 1 .. Len(service_requests) : service_requests[i] = k
        BY <2>1 DEF Waiting
      <3>2. i - 1 \in 1 .. Len(service_requests') /\ service_requests'[i - 1] = k
        BY <1>2, <2>1, <3>1
      <3>. QED  BY <3>2 DEF Waiting
    <2>2. ASSUME Waiting(k)' PROVE Waiting(k)
      BY <1>2, <2>2 DEF Waiting
    <2>3. ASSUME k = kind PROVE Waiting(k)
      BY <1>2, <2>3 DEF Waiting
    <2>. QED  BY <2>1, <2>2, <2>3
  <1>6. WorkerTypeOK'
    BY <1>1, <1>2 DEF WorkerTypeOK, Workers
  <1>7. PendingExact'
    BY <1>1, <1>3, <1>5 DEF PendingExact
  <1>8. OneOutstanding'
    <2>1. ASSUME NEW i \in 1 .. Len(service_requests'), NEW j \in 1 .. Len(service_requests'),
                 service_requests'[i] = service_requests'[j]
          PROVE  i = j
      <3>1. /\ i + 1 \in 1 .. Len(service_requests) /\ j + 1 \in 1 .. Len(service_requests)
            /\ service_requests[i + 1] = service_requests[j + 1]
        BY <1>2, <2>1
      <3>2. i + 1 = j + 1
        BY <1>1, <3>1 DEF OneOutstanding
      <3>. QED  BY <1>2, <3>2
    <2>2. ~Waiting(worker.kind)'
      BY <1>1, <1>4
    <2>. QED  BY <2>1, <2>2 DEF OneOutstanding
  <1>9. StoppedIsEmpty' /\ NoLostWakeup'
    BY <1>1 DEF StoppedIsEmpty, NoLostWakeup
  <1>. QED  BY <1>6, <1>7, <1>8, <1>9 DEF WorkerInv

\* A call's return changes what the thread carries, not the request.
LEMMA CallReturnsInv ==
    ASSUME WorkerInv, NEW result \in Results, CallReturns(result)
    PROVE  WorkerInv'
  <1>1. /\ UNCHANGED <<service_requests, service_completions, service_pending,
                       stop_service_worker>>
        /\ worker.at = "calling" /\ worker' = [worker EXCEPT !.at = "returned", !.result = result]
    BY DEF CallReturns
  <1>2. /\ worker'.kind = worker.kind /\ worker' \in Workers /\ worker'.at = "returned"
    BY <1>1, WorkerShape DEF WorkerInv, Workers
  <1>. QED
    BY <1>1, <1>2 DEF WorkerInv, WorkerTypeOK, PendingExact, OneOutstanding,
                      StoppedIsEmpty, NoLostWakeup, Waiting

\* The flag falls in the critical section that publishes the result, and only
\* that kind's: no other request of the kind is behind it.
LEMMA WorkerReportInv == ASSUME WorkerInv, WorkerReport PROVE WorkerInv'
  <1>1. /\ WorkerTypeOK /\ PendingExact /\ OneOutstanding /\ StoppedIsEmpty
        /\ worker.at = "returned"
        /\ service_pending' = [service_pending EXCEPT ![worker.kind] = FALSE]
        /\ service_completions' =
             Append(service_completions, [kind |-> worker.kind, result |-> worker.result])
        /\ worker' = Idle("checking")
        /\ UNCHANGED <<service_requests, stop_service_worker>>
    BY DEF WorkerInv, WorkerReport
  <1>2. worker.kind \in Kinds /\ worker.result \in Results /\ NoKind \notin Kinds
    BY <1>1, WorkerShape
  <1>3. service_completions' \in Seq(Completions)
    BY <1>1, <1>2, AppendElements DEF WorkerTypeOK, Completions
  <1>4. worker' \in Workers /\ worker'.kind = NoKind /\ worker'.at = "checking"
    BY <1>1 DEF Idle, Workers
  <1>5. ~Waiting(worker.kind)
    BY <1>1 DEF OneOutstanding
  <1>6. WorkerTypeOK'
    BY <1>1, <1>2, <1>3, <1>4 DEF WorkerTypeOK
  <1>7. PendingExact'
    BY <1>1, <1>2, <1>4, <1>5 DEF PendingExact, WorkerTypeOK, Waiting
  <1>8. OneOutstanding'
    <2>1. ~Waiting(NoKind)
      BY <1>1, <1>2, ElementOfSeq DEF Waiting, WorkerTypeOK
    <2>. QED  BY <1>1, <1>4, <2>1 DEF OneOutstanding, Waiting
  <1>9. StoppedIsEmpty' /\ NoLostWakeup'
    BY <1>1, <1>4 DEF StoppedIsEmpty, NoLostWakeup
  <1>. QED  BY <1>6, <1>7, <1>8, <1>9 DEF WorkerInv

\* A step that leaves the worker's variables alone.
LEMMA WorkerStutterInv == ASSUME WorkerInv, UNCHANGED serviceVars PROVE WorkerInv'
  BY DEF WorkerInv, WorkerTypeOK, PendingExact, OneOutstanding, StoppedIsEmpty,
         NoLostWakeup, Waiting, serviceVars

-----------------------------------------------------------------------------
(* The worker and its client.                                              *)

\* The invariant of the service worker (queues, flags, wake-ups) holds whatever
\* the client does, the nodelet's destruction included.
THEOREM ClientInvariant == SafeClientSpec => []WorkerInv
  <1>1. WorkerInit => WorkerInv
    BY WorkerInitInv
  <1>2. WorkerInv /\ [ClientNext]_serviceVars => WorkerInv'
    <2>. SUFFICES ASSUME WorkerInv, [ClientNext]_serviceVars PROVE WorkerInv'
      OBVIOUS
    <2>1. ASSUME NEW k \in Kinds, ClientRequests(k) PROVE WorkerInv'
      BY <2>1, EnqueueInv DEF ClientRequests
    <2>2. ASSUME NEW k \in Kinds, TakeResult(k) PROVE WorkerInv'
      BY <2>2, TakeResultInv
    <2>3. CASE StopWorker
      BY <2>3, StopInv
    <2>4. CASE NotifyStop \/ WorkerSleep \/ WorkerExit
      BY <2>4, IdleStepsInv
    <2>5. CASE WorkerTake
      BY <2>5, WorkerTakeInv
    <2>6. ASSUME NEW r \in Results, CallReturns(r) PROVE WorkerInv'
      BY <2>6, CallReturnsInv
    <2>7. CASE WorkerReport
      BY <2>7, WorkerReportInv
    <2>8. CASE UNCHANGED serviceVars
      BY <2>8, WorkerStutterInv
    <2>. QED
      BY <2>1, <2>2, <2>3, <2>4, <2>5, <2>6, <2>7, <2>8 DEF ClientNext
  <1>. QED  BY <1>1, <1>2, PTL DEF SafeClientSpec

\* service_pending tells the control loop exactly what is queued or executing.
THEOREM PendingIsExact == SafeClientSpec => []PendingExact
  BY ClientInvariant, PTL DEF WorkerInv

\* No request is ever queued behind, or executed beside, another of its kind.
THEOREM OneRequestOutstanding == SafeClientSpec => []OneOutstanding
  BY ClientInvariant, PTL DEF WorkerInv

\* A sleeping worker has nothing to do: no notification was lost.
THEOREM NoWakeupLost == SafeClientSpec => []NoLostWakeup
  BY ClientInvariant, PTL DEF WorkerInv

-----------------------------------------------------------------------------
\* What a client may do that leaves any number of results untaken.
AnyClientNext ==
    \/ \E k \in Kinds : EnqueueRequest(k)
    \/ \E k \in Kinds : TakeResult(k)
    \/ StopWorker
    \/ NotifyStop
    \/ WorkerSleep
    \/ WorkerTake
    \/ \E r \in Results : CallReturns(r)
    \/ WorkerReport
    \/ WorkerExit

\* Every step of the worker and its client is a step of the promise, or none of
\* its business: asking, answering once and in order, taking, closing.
LEMMA ClientStepSimulation ==
    ASSUME WorkerInv, [AnyClientNext]_serviceVars
    PROVE  [Service!Next]_(Service!vars)
  <1>1. ASSUME NEW k \in Kinds, EnqueueRequest(k) PROVE Service!Next
    <2>1. Service!Ask(k)
      BY <1>1 DEF EnqueueRequest, CanEnqueue, Service!Ask
    <2>. QED  BY <2>1 DEF Service!Next
  <1>2. ASSUME NEW k \in Kinds, TakeResult(k) PROVE Service!Next
    <2>1. /\ OldestResult(k) \in 1 .. Len(service_completions)
          /\ service_completions[OldestResult(k)].kind = k
          /\ \A j \in 1 .. OldestResult(k) - 1 : service_completions[j].kind # k
      BY <1>2, OldestResultExists DEF TakeResult, WorkerInv
    <2>2. Service!Take(k, OldestResult(k))
      BY <1>2, <2>1 DEF TakeResult, RemoveAt, Service!Take
    <2>. QED  BY <2>1, <2>2 DEF Service!Next
  <1>3. CASE StopWorker
    BY <1>3 DEF StopWorker, Service!Next, Service!Close
  <1>4. CASE NotifyStop \/ WorkerSleep \/ WorkerExit \/ WorkerTake
    BY <1>4 DEF NotifyStop, WorkerSleep, WorkerExit, WorkerTake, Service!vars
  <1>5. ASSUME NEW r \in Results, CallReturns(r)
        PROVE  UNCHANGED Service!vars
    BY <1>5 DEF CallReturns, Service!vars
  <1>6. CASE WorkerReport
    <2>1. worker.kind \in Kinds /\ worker.result \in Results
      BY <1>6, WorkerShape DEF WorkerReport, WorkerInv
    <2>2. service_pending[worker.kind]
      BY <2>1 DEF WorkerInv, PendingExact
    <2>3. Service!Reply(worker.kind, worker.result)
      BY <1>6, <2>2 DEF WorkerReport, Service!Reply
    <2>. QED  BY <2>1, <2>3 DEF Service!Next
  <1>7. CASE UNCHANGED serviceVars
    BY <1>7 DEF serviceVars, Service!vars
  <1>. QED
    BY <1>1, <1>2, <1>3, <1>4, <1>5, <1>6, <1>7 DEF AnyClientNext

\* The worker, its queues and its condition variable implement the promise:
\* every accepted request is answered at most once, answers wait in the order
\* they were made, and nothing is asked after the destructor.
THEOREM ClientImplementsPromise == SafeClientSpec => Service!SafeSpec
  <1>1. WorkerInit => Service!Init
    BY DEF WorkerInit, Service!Init
  <1>2. [ClientNext]_serviceVars => [AnyClientNext]_serviceVars
    BY DEF ClientNext, ClientRequests, AnyClientNext
  <1>3. WorkerInv /\ [AnyClientNext]_serviceVars => [Service!Next]_(Service!vars)
    BY ClientStepSimulation
  <1>. QED
    BY <1>1, <1>2, <1>3, ClientInvariant, PTL DEF SafeClientSpec, Service!SafeSpec
=============================================================================
