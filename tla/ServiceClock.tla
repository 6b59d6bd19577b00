---------------------------- MODULE ServiceClock ----------------------------
(***************************************************************************)
(* The time the billing service reads, shared by MagicLinks and ApiKeys,   *)
(* and the value of an absent row or request.                              *)
(***************************************************************************)
EXTENDS Naturals

CONSTANTS
  MaxTime,  \* bound on time
  None      \* no value

VARIABLE now

\* Time passes between any two steps.
Tick ==
  /\ now < MaxTime
  /\ now' = now + 1

\* A request has come to this point of its handler.
At(request, phase) == request # None /\ request.phase = phase
=============================================================================
