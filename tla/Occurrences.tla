---------------------------- MODULE Occurrences ----------------------------
(***************************************************************************)
(* What the timer promises of the occurrences of a task: each is taken at  *)
(* most once, starts at most one run, and has one end.  An occurrence may  *)
(* be taken and never end: the process may stop at any moment.             *)
(***************************************************************************)
EXTENDS Naturals

CONSTANT Times
VARIABLES
  stage,   \* of an occurrence: "open", "taken", "ended"
  starts   \* how many runs it has started

Init ==
  /\ stage = [t \in Times |-> "open"]
  /\ starts = [t \in Times |-> 0]

Take(t) ==
  /\ stage[t] = "open"
  /\ stage' = [stage EXCEPT ![t] = "taken"]
  /\ UNCHANGED starts

Start(t) ==
  /\ stage[t] = "taken" /\ starts[t] = 0
  /\ starts' = [starts EXCEPT ![t] = 1]
  /\ UNCHANGED stage

End(t) ==
  /\ stage[t] = "taken"
  /\ stage' = [stage EXCEPT ![t] = "ended"]
  /\ UNCHANGED starts

Next == \E t \in Times : Take(t) \/ Start(t) \/ End(t)

Spec == Init /\ [][Next]_<<stage, starts>>
=============================================================================
