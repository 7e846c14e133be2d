----------------------------- MODULE RetryGate -----------------------------
(***************************************************************************)
(* The retry throttle of the flight state machine (class RetryGate): a     *)
(* service may be called again only when the last result is old enough,    *)
(* the retries are not used up and PX4 has not refused for good.           *)
(*                                                                         *)
(* Time is abstracted to what should_attempt tells apart: "last" says      *)
(* whether a result was ever recorded since the last reset ("zero"), less  *)
(* than min_interval ago ("recent") or earlier ("elapsed").                *)
(***************************************************************************)
EXTENDS Naturals

Results == {"Accepted", "Retryable", "Rejected", "TransportError"}

Gates == [retry : Nat, rejected : BOOLEAN, last : {"zero", "recent", "elapsed"}]

\* RetryGate::reset, and the state a gate is constructed in.
ResetGate == [retry |-> 0, rejected |-> FALSE, last |-> "zero"]

Exhausted(gate, max) == gate.rejected \/ gate.retry >= max

ShouldAttempt(gate, max) == ~Exhausted(gate, max) /\ gate.last # "recent"

\* RetryGate::update: an accepted call forgives the earlier failures, a
\* refusal closes the gate, any other failure uses up one retry.
UpdateGate(gate, result) ==
    [retry    |-> IF result = "Accepted" THEN 0 ELSE gate.retry + 1,
     rejected |-> (result = "Rejected") \/ (result # "Accepted" /\ gate.rejected),
     last     |-> "recent"]

\* min_interval has passed since the last result.
AgeGate(gate) == [gate EXCEPT !.last = "elapsed"]
=============================================================================
