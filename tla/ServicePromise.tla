--------------------------- MODULE ServicePromise ---------------------------
(***************************************************************************)
(* What the service worker promises to the control loop, without threads,  *)
(* queue of requests or wake-ups: every accepted request of a kind gets    *)
(* exactly one answer, answers are kept in the order they were made until  *)
(* they are taken, and while the nodelet lives every request is answered.  *)
(***************************************************************************)
EXTENDS Naturals, Sequences

CONSTANTS Kind, Answer

VARIABLES asked, answers, closed

vars == <<asked, answers, closed>>

Init ==
    /\ asked = [k \in Kind |-> FALSE]
    /\ answers = <<>>
    /\ closed = FALSE

Ask(k) ==
    /\ ~closed
    /\ ~asked[k]
    /\ asked' = [asked EXCEPT ![k] = TRUE]
    /\ UNCHANGED <<answers, closed>>

\* The request is settled and its answer becomes visible in one step.
Reply(k, a) ==
    /\ asked[k]
    /\ asked' = [asked EXCEPT ![k] = FALSE]
    /\ answers' = Append(answers, [kind |-> k, result |-> a])
    /\ UNCHANGED closed

\* The oldest answer of kind k, the i-th of all, leaves.
Take(k, i) ==
    /\ i \in 1 .. Len(answers)
    /\ answers[i].kind = k
    /\ \A j \in 1 .. i - 1 : answers[j].kind # k
    /\ answers' = SubSeq(answers, 1, i - 1) \o SubSeq(answers, i + 1, Len(answers))
    /\ UNCHANGED <<asked, closed>>

Close ==
    /\ ~closed
    /\ closed' = TRUE
    /\ UNCHANGED <<asked, answers>>

Next ==
    \/ \E k \in Kind : Ask(k)
    \/ \E k \in Kind, a \in Answer : Reply(k, a)
    \/ \E k \in Kind : \E i \in 1 .. Len(answers) : Take(k, i)
    \/ Close

SafeSpec == Init /\ [][Next]_vars

\* After Close a request may stay unanswered; before, it may not.
ReplyOpen(k) == ~closed /\ \E a \in Answer : Reply(k, a)

Spec == SafeSpec /\ \A k \in Kind : WF_vars(ReplyOpen(k))
=============================================================================
