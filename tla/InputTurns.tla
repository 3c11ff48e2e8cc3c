----------------------------- MODULE InputTurns -----------------------------
(***************************************************************************)
(* What the control registry of one target promises to the people and the  *)
(* programs that share its input: input is injected in turns.  A turn may  *)
(* be closed at any moment; it is opened for a kind of injector only when  *)
(* nobody of another kind is still in the middle of an action, so that two *)
(* kinds of injector never act on the target at the same time.             *)
(***************************************************************************)
EXTENDS Naturals

CONSTANT Procs                       \* the tasks of the server

Kinds == {"owned", "manual", "automatic", "cleanup"}

Turns == {"anyone", "agent", "human", "closed"}

(* The kinds of injector a turn lets in.  A sweep of the contacts of a     *)
(* viewer that went away ("cleanup") belongs to the human side.            *)
Lets == [t \in Turns |->
           CASE t = "anyone" -> {"manual", "automatic", "cleanup"}
             [] t = "agent"  -> {"owned"}
             [] t = "human"  -> {"manual", "cleanup"}
             [] OTHER        -> {}]

VARIABLES
  turn,                              \* whose turn it is
  acting                             \* the injections in progress: Procs -> kind or "none"

turnVars == <<turn, acting>>

Acting == { acting[p] : p \in Procs } \ {"none"}

TurnTypeOK ==
  /\ turn \in Turns
  /\ acting \in [Procs -> Kinds \cup {"none"}]

TurnInit ==
  /\ turn = "anyone"
  /\ acting = [p \in Procs |-> "none"]

Begin(p, k) ==
  /\ acting[p] = "none"
  /\ k \in Lets[turn]
  /\ acting' = [acting EXCEPT ![p] = k]
  /\ UNCHANGED turn

(* A worker joins an action that is in progress, even in a closed turn: it *)
(* finishes what was admitted.                                             *)
Join(p, k) ==
  /\ acting[p] = "none"
  /\ k \in Acting
  /\ acting' = [acting EXCEPT ![p] = k]
  /\ UNCHANGED turn

End(p) ==
  /\ acting' = [acting EXCEPT ![p] = "none"]
  /\ UNCHANGED turn

Close ==
  /\ turn' = "closed"
  /\ UNCHANGED acting

Open(t) ==
  /\ turn = "closed"
  /\ Acting \subseteq Lets[t]
  /\ turn' = t
  /\ UNCHANGED acting

TurnNext ==
  \/ \E p \in Procs : End(p) \/ \E k \in Kinds : Begin(p, k) \/ Join(p, k)
  \/ Close
  \/ \E t \in Turns : Open(t)

TurnSpec == TurnInit /\ [][TurnNext]_turnVars
=============================================================================
