--------------------------- MODULE ControlRegistry ---------------------------
(***************************************************************************)
(* server/src/core/control.rs: who may inject input on ONE target (a phone *)
(* or a browser page).  Targets share nothing but the map that holds them, *)
(* so one target is the whole problem.                                     *)
(*                                                                         *)
(* A State behind a short lock names the owning session, a generation, a   *)
(* generation for human tickets and a phase.  An async mutex, the gate, is *)
(* held for the whole of every injected action and is the barrier that a   *)
(* claim, a pause, a resume or a release waits for.  Every await of the    *)
(* code (the gate, the action, the cleanup) is a point where other tasks   *)
(* run and where the calling future may be dropped; the Drop handlers      *)
(* ClaimRecovery and TransitionRecovery are actions here.                  *)
(*                                                                         *)
(* A rejected call changes nothing and is not a step.                      *)
(***************************************************************************)
EXTENDS Naturals, FiniteSets

CONSTANTS
  Procs,        \* tasks that call the registry
  Owners,       \* session ids that claim the target
  NoOwner,      \* owner: None
  MaxGen,       \* bound on generation and on manual_generation
  MaxTickets    \* bound on the human tickets handed out

ASSUME NoOwnerAssumption == NoOwner \notin Owners
ASSUME BoundsAssumption == MaxGen \in Nat /\ MaxTickets \in Nat

VARIABLES
  (* State, behind target.state *)
  owner, generation, manual_generation, phase,
  (* the tasks that share the guard of target.gate; {} when it is free *)
  gate,
  (* one call in progress per task: where it is, the identity it acts     *)
  (* under, and the locals of claim and transition                        *)
  pc, identity, next, original, after, previous,
  (* what the registry has handed out: leases and human tickets           *)
  leases, tickets,
  (* history, read by no guard: leases replaced by a later one, tickets   *)
  (* that a session has superseded, the ticket generation that was valid  *)
  (* when the target was last handed back, a cleanup that is still owed   *)
  retired, superseded, idleTicket, owed

state  == <<owner, generation, manual_generation, phase>>
locals == <<next, original, after, previous>>
ghosts == <<retired, superseded, idleTicket, owed>>
vars   == <<state, gate, pc, identity, locals, leases, tickets, ghosts>>

Phases == {"Idle", "Running", "Pausing", "Paused", "Resuming", "Stopping"}

Lease  == [owner : Owners \cup {NoOwner}, generation : Nat]
NoLease == [owner |-> NoOwner, generation |-> 0]

Identity == [kind : {"owned", "manual", "automatic", "cleanup", "none"},
             owner : Owners \cup {NoOwner}, generation : Nat]

Owned(l)  == [kind |-> "owned", owner |-> l.owner, generation |-> l.generation]
Manual(t) == [kind |-> "manual", owner |-> NoOwner, generation |-> t]
Automatic == [kind |-> "automatic", owner |-> NoOwner, generation |-> 0]
Cleanup   == [kind |-> "cleanup", owner |-> NoOwner, generation |-> 0]
NoIdentity == [kind |-> "none", owner |-> NoOwner, generation |-> 0]

PCs == {"idle", "entering", "sweeping", "inside", "worker",
        "claiming", "switching", "cleaning", "unwinding"}

Init ==
  /\ owner = NoOwner /\ generation = 0 /\ manual_generation = 0 /\ phase = "Idle"
  /\ gate = {}
  /\ pc = [p \in Procs |-> "idle"]
  /\ identity = [p \in Procs |-> NoIdentity]
  /\ next = [p \in Procs |-> NoLease]
  /\ original = [p \in Procs |-> NoLease]
  /\ after = [p \in Procs |-> "Idle"]
  /\ previous = [p \in Procs |-> 0]
  /\ leases = {} /\ tickets = {}
  /\ retired = {} /\ superseded = {} /\ idleTicket = 0 /\ owed = FALSE

-----------------------------------------------------------------------------
(* Admission. *)

(* The lease in the state is l. *)
Holds(l) == owner = l.owner /\ generation = l.generation

(* check: an AI lease acts only while Running, a human only between AI     *)
(* sessions or in a completed pause, automation only on a free target, and *)
(* nothing stops a cleanup.                                                *)
Check(id) ==
  CASE id.kind = "owned"     -> Holds(id) /\ phase = "Running"
    [] id.kind = "manual"    -> /\ manual_generation = id.generation
                                /\ phase \in {"Idle", "Paused"}
    [] id.kind = "automatic" -> phase = "Idle"
    [] OTHER                 -> TRUE

(* manual_lease: a viewer may take its ticket in any phase. *)
ManualLease ==
  /\ Cardinality(tickets) < MaxTickets
  /\ tickets' = tickets \cup {manual_generation}
  /\ UNCHANGED <<state, gate, pc, identity, locals, leases, ghosts>>

(* The identities a task can present. *)
Presentable == { Owned(l) : l \in leases } \cup { Manual(t) : t \in tickets }
                 \cup {Automatic}

(* enter, up to lock_owned().await: the first check rejects at once. *)
Enter(p, id) ==
  /\ pc[p] = "idle"
  /\ Check(id)
  /\ pc' = [pc EXCEPT ![p] = "entering"]
  /\ identity' = [identity EXCEPT ![p] = id]
  /\ UNCHANGED <<state, gate, locals, leases, tickets, ghosts>>

(* cleanup_manual, up to the gate: no check before the wait. *)
Sweep(p, t) ==
  /\ pc[p] = "idle"
  /\ pc' = [pc EXCEPT ![p] = "sweeping"]
  /\ identity' = [identity EXCEPT ![p] = Manual(t)]
  /\ UNCHANGED <<state, gate, locals, leases, tickets, ghosts>>

(* The gate is this task's and the second check passes: the action runs. *)
Acquire(p) ==
  /\ pc[p] \in {"entering", "sweeping"}
  /\ gate = {}
  /\ Check(identity[p])
  /\ gate' = {p}
  /\ pc' = [pc EXCEPT ![p] = "inside"]
  /\ identity' = [identity EXCEPT ![p] =
                    IF pc[p] = "sweeping" THEN Cleanup ELSE @]
  /\ UNCHANGED <<state, locals, leases, tickets, ghosts>>

(* The second check fails, or the future is dropped while it waits. *)
Turned(p) ==
  /\ pc[p] \in {"entering", "sweeping"}
  /\ pc' = [pc EXCEPT ![p] = "idle"]
  /\ identity' = [identity EXCEPT ![p] = NoIdentity]
  /\ UNCHANGED <<state, gate, locals, leases, tickets, ghosts>>

(* ControlIdentity::current and scope: an admitted action hands its guard  *)
(* to a worker, which keeps the gate closed when its caller is gone.       *)
Transfer(p, q) ==
  /\ pc[p] = "inside" /\ pc[q] = "idle"
  /\ pc' = [pc EXCEPT ![q] = "worker"]
  /\ identity' = [identity EXCEPT ![q] = identity[p]]
  /\ gate' = gate \cup {q}
  /\ UNCHANGED <<state, locals, leases, tickets, ghosts>>

(* Fault: a worker's clone of the guard is never dropped. *)
Leave_LeaksGuard(p) ==
  /\ pc[p] \in {"inside", "worker"}
  /\ gate' = IF pc[p] = "worker" THEN gate ELSE gate \ {p}
  /\ pc' = [pc EXCEPT ![p] = "idle"]
  /\ identity' = [identity EXCEPT ![p] = NoIdentity]
  /\ UNCHANGED <<state, locals, leases, tickets, ghosts>>

(* The permit (one clone of the guard) is dropped: done, failed, aborted. *)
Leave(p) ==
  /\ pc[p] \in {"inside", "worker"}
  /\ gate' = gate \ {p}
  /\ pc' = [pc EXCEPT ![p] = "idle"]
  /\ identity' = [identity EXCEPT ![p] = NoIdentity]
  /\ UNCHANGED <<state, locals, leases, tickets, ghosts>>

-----------------------------------------------------------------------------
(* The locals of a call that has returned are gone. *)
Return(p) ==
  /\ pc' = [pc EXCEPT ![p] = "idle"]
  /\ next' = [next EXCEPT ![p] = NoLease]
  /\ original' = [original EXCEPT ![p] = NoLease]
  /\ after' = [after EXCEPT ![p] = "Idle"]
  /\ previous' = [previous EXCEPT ![p] = 0]

(* claim *)

Claim(p, o) ==
  /\ pc[p] = "idle"
  /\ phase = "Idle"
  /\ generation < MaxGen /\ manual_generation < MaxGen
  /\ owner' = o
  /\ generation' = generation + 1
  /\ manual_generation' = manual_generation + 1
  /\ phase' = "Resuming"
  /\ pc' = [pc EXCEPT ![p] = "claiming"]
  /\ next' = [next EXCEPT ![p] = [owner |-> o, generation |-> generation + 1]]
  /\ previous' = [previous EXCEPT ![p] = manual_generation]
  /\ UNCHANGED <<gate, identity, original, after, leases, tickets, ghosts>>

(* Fault: the grant does not wait for the actions that still run. *)
ClaimGranted_NoBarrier(p) ==
  /\ pc[p] = "claiming"
  /\ phase' = "Running"
  /\ Return(p)
  /\ leases' = leases \cup {next[p]}
  /\ superseded' = superseded \cup { t \in tickets : t < manual_generation }
  /\ UNCHANGED <<owner, generation, manual_generation, gate, identity,
                 tickets, retired, idleTicket, owed>>

(* The gate is free, so every earlier action is over: the lease is given.  *)
ClaimGranted(p) ==
  /\ pc[p] = "claiming"
  /\ gate = {}
  /\ phase' = "Running"
  /\ Return(p)
  /\ leases' = leases \cup {next[p]}
  /\ superseded' = superseded \cup { t \in tickets : t < manual_generation }
  /\ UNCHANGED <<owner, generation, manual_generation, gate, identity,
                 tickets, retired, idleTicket, owed>>

(* Faults: the ticket generation is not put back, or one too many is. *)
ClaimDropped_KeepsTicket(p) ==
  /\ pc[p] = "claiming"
  /\ Return(p)
  /\ owner' = NoOwner /\ phase' = "Idle"
  /\ UNCHANGED <<manual_generation, generation, gate, identity, leases, tickets, ghosts>>

ClaimDropped_OffByOne(p) ==
  /\ pc[p] = "claiming"
  /\ Return(p)
  /\ owner' = NoOwner /\ phase' = "Idle" /\ manual_generation' = previous[p] - 1
  /\ UNCHANGED <<generation, gate, identity, leases, tickets, ghosts>>

(* ClaimRecovery: the claim is dropped while it waits for the gate. *)
ClaimDropped(p) ==
  /\ pc[p] = "claiming"
  /\ Return(p)
  /\ IF Holds(next[p]) /\ phase = "Resuming"
       THEN /\ owner' = NoOwner
            /\ phase' = "Idle"
            /\ manual_generation' = previous[p]
       ELSE UNCHANGED <<owner, phase, manual_generation>>
  /\ UNCHANGED <<generation, gate, identity, leases, tickets, ghosts>>

-----------------------------------------------------------------------------
(* transition, and its three callers *)

(* Fault: a transition keeps the generation of its caller. *)
Transition_SameGeneration(p, l, from, during, to) ==
  /\ pc[p] = "idle"
  /\ Holds(l)
  /\ phase = from
  /\ generation < MaxGen /\ manual_generation < MaxGen
  /\ phase' = during
  /\ manual_generation' = manual_generation + 1
  /\ pc' = [pc EXCEPT ![p] = "switching"]
  /\ next' = [next EXCEPT ![p] = l]
  /\ original' = [original EXCEPT ![p] = l]
  /\ after' = [after EXCEPT ![p] = to]
  /\ owed' = TRUE
  /\ UNCHANGED <<owner, generation, gate, identity, previous, leases, tickets,
                 retired, superseded, idleTicket>>

(* The locked prologue of transition, up to the gate. *)
Transition(p, l, from, during, to) ==
  /\ pc[p] = "idle"
  /\ Holds(l)
  /\ phase = from
  /\ generation < MaxGen /\ manual_generation < MaxGen
  /\ phase' = during
  /\ generation' = generation + 1
  /\ manual_generation' = manual_generation + 1
  /\ pc' = [pc EXCEPT ![p] = "switching"]
  /\ next' = [next EXCEPT ![p] = [l EXCEPT !.generation = generation + 1]]
  /\ original' = [original EXCEPT ![p] = l]
  /\ after' = [after EXCEPT ![p] = to]
  /\ owed' = TRUE
  /\ UNCHANGED <<owner, gate, identity, previous, leases, tickets,
                 retired, superseded, idleTicket>>

Pause(p, l)  == Transition(p, l, "Running", "Pausing", "Paused")
Resume(p, l) == Transition(p, l, "Paused", "Resuming", "Running")

(* release reads the phase and lets transition check it again.  The phase  *)
(* can only have changed between the two together with a refusal, so one   *)
(* step from whatever the phase is has the same outcomes.                  *)
Release(p, l) == Transition(p, l, phase, "Stopping", "Idle")

(* The gate is free: the cleanup runs under it. *)
Switch(p) ==
  /\ pc[p] = "switching"
  /\ gate = {}
  /\ gate' = {p}
  /\ pc' = [pc EXCEPT ![p] = "cleaning"]
  /\ identity' = [identity EXCEPT ![p] = Cleanup]
  /\ UNCHANGED <<state, locals, leases, tickets, ghosts>>

(* Fault: the entry of a target that is idle again is dropped from the map, *)
(* so that its counters start anew.                                         *)
Switched_Forgets(p) ==
  /\ pc[p] = "cleaning"
  /\ Holds(next[p])
  /\ phase' = after[p]
  /\ owner' = IF after[p] = "Idle" THEN NoOwner ELSE owner
  /\ generation' = IF after[p] = "Idle" THEN 0 ELSE generation
  /\ manual_generation' = IF after[p] = "Idle" THEN 0 ELSE manual_generation
  /\ gate' = {}
  /\ Return(p)
  /\ identity' = [identity EXCEPT ![p] = NoIdentity]
  /\ leases' = IF after[p] = "Idle" THEN leases ELSE leases \cup {next[p]}
  /\ retired' = retired \cup {original[p]}
  /\ idleTicket' = IF after[p] = "Idle" THEN manual_generation' ELSE idleTicket
  /\ owed' = FALSE
  /\ UNCHANGED <<tickets, superseded>>

(* The cleanup succeeded and the state is still this transition's.  A      *)
(* completed release gives no lease back.                                  *)
Switched(p) ==
  /\ pc[p] = "cleaning"
  /\ Holds(next[p])
  /\ phase' = after[p]
  /\ owner' = IF after[p] = "Idle" THEN NoOwner ELSE owner
  /\ gate' = {}
  /\ Return(p)
  /\ identity' = [identity EXCEPT ![p] = NoIdentity]
  /\ leases' = IF after[p] = "Idle" THEN leases ELSE leases \cup {next[p]}
  /\ retired' = retired \cup {original[p]}
  /\ superseded' = IF after[p] = "Running"
                     THEN superseded \cup { t \in tickets : t < manual_generation }
                     ELSE superseded
  /\ idleTicket' = IF after[p] = "Idle" THEN manual_generation ELSE idleTicket
  /\ owed' = FALSE
  /\ UNCHANGED <<generation, manual_generation, tickets>>

(* The cleanup failed, the state changed under it, or the future was       *)
(* dropped in it: the guard of the gate goes first.                        *)
SwitchFailed(p) ==
  /\ pc[p] = "cleaning"
  /\ gate' = {}
  /\ pc' = [pc EXCEPT ![p] = "unwinding"]
  /\ identity' = [identity EXCEPT ![p] = NoIdentity]
  /\ UNCHANGED <<state, locals, leases, tickets, ghosts>>

(* Faults: the caller's lease is not restored; or the target is set free   *)
(* as ClaimRecovery does.                                                  *)
SwitchDropped_KeepsGeneration(p) ==
  /\ pc[p] \in {"switching", "unwinding"}
  /\ Return(p)
  /\ UNCHANGED <<state, gate, identity, leases, tickets, ghosts>>

SwitchDropped_Frees(p) ==
  /\ pc[p] \in {"switching", "unwinding"}
  /\ Return(p)
  /\ owner' = NoOwner /\ phase' = "Idle"
  /\ UNCHANGED <<generation, manual_generation, gate, identity,
                 leases, tickets, ghosts>>

(* TransitionRecovery: the closed phase stays, the caller's lease works    *)
(* again so that it can stop or retry.  Also the future dropped while it   *)
(* waits for the gate.                                                     *)
SwitchDropped(p) ==
  /\ pc[p] \in {"switching", "unwinding"}
  /\ Return(p)
  /\ generation' = IF Holds(next[p]) THEN original[p].generation ELSE generation
  /\ UNCHANGED <<owner, manual_generation, phase, gate, identity,
                 leases, tickets, ghosts>>

-----------------------------------------------------------------------------
Next ==
  \/ ManualLease
  \/ \E p \in Procs :
       \/ \E id \in Presentable : Enter(p, id)
       \/ \E t \in tickets : Sweep(p, t)
       \/ \E q \in Procs : Transfer(p, q)
       \/ \E o \in Owners : Claim(p, o)
       \/ \E l \in leases : Pause(p, l) \/ Resume(p, l) \/ Release(p, l)
       \/ Acquire(p) \/ Turned(p) \/ Leave(p)
       \/ ClaimGranted(p) \/ ClaimDropped(p)
       \/ Switch(p) \/ Switched(p) \/ SwitchFailed(p) \/ SwitchDropped(p)

Spec == Init /\ [][Next]_vars

(* An admitted action ends, a cleanup returns and a Drop handler runs; the *)
(* gate is tokio's Mutex, which queues its waiters first in, first out, so *)
(* a waiter that finds it free again and again gets it.  Nobody is obliged *)
(* to call anything, and nothing is obliged to be dropped.                 *)
Fairness ==
  \A p \in Procs :
    /\ WF_vars(Leave(p))
    /\ WF_vars(Switched(p) \/ SwitchFailed(p))
    /\ WF_vars(pc[p] = "unwinding" /\ SwitchDropped(p))
    /\ SF_vars(ClaimGranted(p))
    /\ SF_vars(Switch(p))

FairSpec == Spec /\ Fairness

-----------------------------------------------------------------------------
TypeOK ==
  /\ owner \in Owners \cup {NoOwner}
  /\ generation \in Nat
  /\ manual_generation \in Nat
  /\ phase \in Phases
  /\ gate \subseteq Procs
  /\ pc \in [Procs -> PCs]
  /\ identity \in [Procs -> Identity]
  /\ next \in [Procs -> Lease]
  /\ original \in [Procs -> Lease]
  /\ after \in [Procs -> {"Idle", "Running", "Paused"}]
  /\ previous \in [Procs -> Nat]
  /\ leases \subseteq Lease
  /\ tickets \subseteq Nat
  /\ retired \subseteq Lease
  /\ superseded \subseteq Nat
  /\ idleTicket \in Nat
  /\ owed \in BOOLEAN

Admitted(p) == pc[p] \in {"inside", "worker"}

InFlight(p) == pc[p] \in {"claiming", "switching", "cleaning", "unwinding"}

(* control.rs:1 "The operation gate is also the pause/resume barrier": an  *)
(* action that is still running, its caller gone or not, never overlaps a  *)
(* phase in which somebody else may act, however claims, pauses and their  *)
(* cancellations interleave.                                               *)
NoMixedInput ==
  \A p \in Procs : Admitted(p) =>
    CASE identity[p].kind = "owned"     -> /\ owner = identity[p].owner
                                           /\ phase \in {"Running", "Pausing", "Stopping"}
      [] identity[p].kind = "automatic" -> phase \in {"Idle", "Resuming"}
      [] OTHER -> phase \in {"Idle", "Paused", "Resuming", "Stopping"}

(* Only one claim, pause, resume or release is under way, it still owns    *)
(* the state it will write, and nobody has been given the generation it    *)
(* is about to hand out: the check after the cleanup never fails and the   *)
(* Drop handlers never miss.                                               *)
OneTransition ==
  \A p \in Procs : InFlight(p) =>
    /\ \A q \in Procs : InFlight(q) => q = p
    /\ Holds(next[p])
    /\ next[p] \notin leases

(* A generation that was handed out belongs to one session for ever, even  *)
(* though a failed transition puts the old number back.                    *)
GenerationsUnique ==
  \A k, l \in leases : k.generation = l.generation => k = l

(* A target that is not free can always be stopped: either a transition is *)
(* under way or somebody was given the lease that the state expects.       *)
AlwaysStoppable ==
  \/ phase = "Idle"
  \/ \E p \in Procs : InFlight(p)
  \/ \E l \in leases : Holds(l)

(* After a failed or cancelled cleanup (contacts may still be pressed) the *)
(* target stays closed to everybody until a cleanup succeeds.              *)
ClosedUntilClean == owed => phase \in {"Pausing", "Resuming", "Stopping"}

(* A claim that is dropped before it is granted costs the viewers nothing: *)
(* on a free target the valid ticket is the one of the last hand-back.     *)
TicketsSurviveAbortedClaim == phase = "Idle" => manual_generation = idleTicket

(* Old decisions never execute: an action under a lease that a completed   *)
(* pause, resume or release has replaced, or under a ticket older than the *)
(* last session that ran, is not admitted again, whatever generations the  *)
(* Drop handlers have put back.                                            *)
StaleNeverAdmitted ==
  [][\A p \in Procs : Acquire(p) =>
       /\ identity[p].kind = "owned"
            => \A l \in retired : identity[p] # Owned(l)
       /\ identity[p].kind = "manual" => identity[p].generation \notin superseded]_vars

(* A claim, pause, resume or release that waits for the gate is settled:   *)
(* admitted actions end and no new one can overtake it for ever.           *)
TransitionsSettle == \A p \in Procs : InFlight(p) ~> ~InFlight(p)

-----------------------------------------------------------------------------
(* The turns of InputTurns, read off the phase. *)

Turn ==
  CASE phase = "Idle"    -> "anyone"
    [] phase = "Running" -> "agent"
    [] phase = "Paused"  -> "human"
    [] OTHER             -> "closed"

Turnwise == INSTANCE InputTurns WITH
  turn   <- Turn,
  acting <- [p \in Procs |-> IF Admitted(p) THEN identity[p].kind ELSE "none"]

(* The registry lets input in by turns. *)
TakesTurns == Turnwise!TurnSpec
=============================================================================
