------------------------ MODULE ControlRegistryProofs ------------------------
(***************************************************************************)
(* Proofs about ControlRegistry for every set of tasks and sessions and    *)
(* every bound: the types, the barrier between the kinds of injectors, the *)
(* exclusive transition, and that the registry implements InputTurns.      *)
(***************************************************************************)
EXTENDS ControlRegistry, TLAPS

(* The constant identities and leases have their types. *)
LEMMA Constants ==
  /\ NoLease \in Lease
  /\ NoIdentity \in Identity /\ Cleanup \in Identity /\ Automatic \in Identity
  /\ \A t \in Nat : Manual(t) \in Identity
  /\ \A l \in Lease : Owned(l) \in Identity
  BY DEF NoLease, Lease, NoIdentity, Cleanup, Automatic, Manual, Owned, Identity

(* The type invariant is inductive by itself. *)
LEMMA InitTypes == Init => TypeOK
<1> SUFFICES ASSUME Init PROVE TypeOK
  OBVIOUS
<1>1. /\ identity \in [Procs -> Identity]
      /\ next \in [Procs -> Lease] /\ original \in [Procs -> Lease]
  BY Constants DEF Init
<1>2. /\ pc \in [Procs -> PCs] /\ previous \in [Procs -> Nat]
      /\ after \in [Procs -> {"Idle", "Running", "Paused"}]
  BY DEF Init, PCs
<1>3. /\ owner \in Owners \cup {NoOwner} /\ phase \in Phases /\ gate \subseteq Procs
      /\ generation \in Nat /\ manual_generation \in Nat /\ idleTicket \in Nat
      /\ leases \subseteq Lease /\ tickets \subseteq Nat
      /\ retired \subseteq Lease /\ superseded \subseteq Nat
  BY DEF Init, Phases
<1>4. owed \in BOOLEAN
  BY DEF Init
<1>. QED
  BY <1>1, <1>2, <1>3, <1>4 DEF TypeOK

LEMMA StepTypes == TypeOK /\ [Next]_vars => TypeOK'
<1> SUFFICES ASSUME TypeOK, [Next]_vars PROVE TypeOK'
  OBVIOUS
<1> USE DEF TypeOK, Phases, PCs
<1>1. CASE ManualLease
  BY <1>1 DEF ManualLease, state, locals, ghosts
<1>2. ASSUME NEW p \in Procs, NEW id \in Presentable, Enter(p, id) PROVE TypeOK'
  <2>1. id \in Identity
    BY Constants DEF Presentable
  <2>2. QED BY <1>2, <2>1 DEF Enter, state, locals, ghosts
<1>3. ASSUME NEW p \in Procs, NEW t \in tickets, Sweep(p, t) PROVE TypeOK'
  <2>1. Manual(t) \in Identity
    BY Constants
  <2>2. QED BY <1>3, <2>1 DEF Sweep, state, locals, ghosts
<1>4. ASSUME NEW p \in Procs, NEW q \in Procs, Transfer(p, q) PROVE TypeOK'
  BY <1>4 DEF Transfer, state, locals, ghosts
<1>5. ASSUME NEW p \in Procs, NEW o \in Owners, Claim(p, o) PROVE TypeOK'
  <2>1. [owner |-> o, generation |-> generation + 1] \in Lease
    BY DEF Lease
  <2>2. QED BY <1>5, <2>1 DEF Claim, ghosts
<1>6. ASSUME NEW p \in Procs, NEW l \in leases,
             Pause(p, l) \/ Resume(p, l) \/ Release(p, l) PROVE TypeOK'
  <2>1. [l EXCEPT !.generation = generation + 1] \in Lease
    BY DEF Lease
  <2>2. ASSUME NEW from \in Phases, NEW during \in Phases,
               NEW to \in {"Idle", "Running", "Paused"},
               Transition(p, l, from, during, to) PROVE TypeOK'
    BY <2>1, <2>2 DEF Transition
  <2>3. QED BY <1>6, <2>2 DEF Pause, Resume, Release
<1>7. ASSUME NEW p \in Procs, Acquire(p) PROVE TypeOK'
  BY <1>7, Constants DEF Acquire, state, locals, ghosts
<1>8. ASSUME NEW p \in Procs, Turned(p) \/ Leave(p) PROVE TypeOK'
  BY <1>8, Constants DEF Turned, Leave, state, locals, ghosts
<1>9. ASSUME NEW p \in Procs, ClaimGranted(p) PROVE TypeOK'
  BY <1>9, Constants DEF ClaimGranted, Return, ghosts
<1>10. ASSUME NEW p \in Procs, ClaimDropped(p) PROVE TypeOK'
  BY <1>10, Constants DEF ClaimDropped, Return, ghosts
<1>11. ASSUME NEW p \in Procs, Switch(p) \/ SwitchFailed(p) PROVE TypeOK'
  BY <1>11, Constants DEF Switch, SwitchFailed, state, locals, ghosts
<1>12. ASSUME NEW p \in Procs, Switched(p) PROVE TypeOK'
  BY <1>12, Constants DEF Switched, Return
<1>13. ASSUME NEW p \in Procs, SwitchDropped(p) PROVE TypeOK'
  <2>1. original[p].generation \in Nat
    BY DEF Lease
  <2>2. QED BY <1>13, <2>1, Constants DEF SwitchDropped, Return, ghosts
<1>14. CASE UNCHANGED vars
  BY <1>14 DEF vars, state, locals, ghosts
<1>. QED
  BY <1>1, <1>2, <1>3, <1>4, <1>5, <1>6, <1>7, <1>8, <1>9, <1>10, <1>11,
     <1>12, <1>13, <1>14 DEF Next

(* The registry is a record of well-typed fields, whatever the order of    *)
(* calls, grants, cancellations and failed cleanups.                       *)
THEOREM TypeCorrect == Spec => []TypeOK
  BY InitTypes, StepTypes, PTL DEF Spec
-----------------------------------------------------------------------------
(* The inductive invariant: who holds the gate, what a waiting call may    *)
(* present, and how far the transition in flight is ahead of every lease   *)
(* that was handed out.                                                    *)

FreeInv == phase = "Idle" <=> owner = NoOwner

GateInv ==
  /\ \A p \in Procs : p \in gate <=> Admitted(p) \/ pc[p] = "cleaning"
  /\ \A p \in Procs : pc[p] = "cleaning" => gate = {p}

WaitInv ==
  \A p \in Procs :
    /\ pc[p] = "entering" => identity[p].kind \in {"owned", "manual", "automatic"}
    /\ pc[p] = "sweeping" => identity[p].kind = "manual"
    /\ Admitted(p) => identity[p].kind # "none"

AutomationInv ==
  \A p \in Procs : Admitted(p) /\ identity[p].kind = "automatic" /\ phase = "Resuming"
    => \E q \in Procs : pc[q] = "claiming"

LeaseInv ==
  \A l \in leases : /\ l.owner \in Owners
                    /\ l.generation <= generation
                    /\ \A k \in leases : k.generation = l.generation => k = l

FlightInv ==
  \A p \in Procs : InFlight(p) =>
    /\ \A q \in Procs : InFlight(q) => q = p
    /\ Holds(next[p])
    /\ next[p].owner \in Owners
    /\ phase \in {"Pausing", "Resuming", "Stopping"}
    /\ \A l \in leases : l.generation < next[p].generation
    /\ pc[p] = "claiming" => phase = "Resuming"
    /\ pc[p] # "claiming" =>
         /\ original[p] \in leases
         /\ original[p].owner = next[p].owner
         /\ original[p].generation + 1 = next[p].generation

IInv == /\ TypeOK /\ FreeInv /\ GateInv /\ WaitInv /\ AutomationInv /\ LeaseInv
        /\ FlightInv /\ NoMixedInput /\ AlwaysStoppable

LEMMA InitInv == Init => IInv
<1> SUFFICES ASSUME Init PROVE IInv
  OBVIOUS
<1>1. \A p \in Procs : pc[p] = "idle"
  BY DEF Init
<1>2. phase = "Idle" /\ owner = NoOwner /\ gate = {} /\ leases = {}
  BY DEF Init
<1>. QED
  BY <1>1, <1>2, InitTypes DEF IInv, FreeInv, GateInv, WaitInv, AutomationInv,
     LeaseInv, FlightInv, NoMixedInput, AlwaysStoppable, Admitted, InFlight

LEMMA StepInv == IInv /\ [Next]_vars => IInv'
<1> SUFFICES ASSUME IInv, [Next]_vars PROVE IInv'
  OBVIOUS
<1>0. TypeOK /\ TypeOK'
  BY StepTypes DEF IInv
<1> USE <1>0 DEF IInv, TypeOK
<1>1. CASE ManualLease \/ UNCHANGED vars
  BY <1>1 DEF ManualLease, vars, state, locals, ghosts, FreeInv, GateInv, WaitInv,
     AutomationInv, LeaseInv, FlightInv, NoMixedInput, AlwaysStoppable, Admitted,
     InFlight, Holds
<1>2. ASSUME NEW p \in Procs, NEW id \in Presentable, Enter(p, id) PROVE IInv'
  <2>1. id.kind \in {"owned", "manual", "automatic"}
    BY DEF Presentable, Owned, Manual, Automatic
  <2>. QED
    BY <1>2, <2>1 DEF Enter, state, locals, ghosts, FreeInv, GateInv, WaitInv,
       AutomationInv, LeaseInv, FlightInv, NoMixedInput, AlwaysStoppable, Admitted,
       InFlight, Holds
<1>3. ASSUME NEW p \in Procs, NEW t \in tickets, Sweep(p, t) PROVE IInv'
  BY <1>3 DEF Sweep, Manual, state, locals, ghosts, FreeInv, GateInv, WaitInv,
     AutomationInv, LeaseInv, FlightInv, NoMixedInput, AlwaysStoppable, Admitted,
     InFlight, Holds
<1>4. ASSUME NEW p \in Procs, NEW q \in Procs, Transfer(p, q) PROVE IInv'
  BY <1>4 DEF Transfer, state, locals, ghosts, FreeInv, GateInv, WaitInv,
     AutomationInv, LeaseInv, FlightInv, NoMixedInput, AlwaysStoppable, Admitted,
     InFlight, Holds
<1>5. ASSUME NEW p \in Procs, NEW o \in Owners, Claim(p, o) PROVE IInv'
  <2>1. \A q \in Procs : ~InFlight(q)
    BY <1>5 DEF Claim, FlightInv
  <2>2. /\ phase = "Idle" /\ phase' = "Resuming" /\ owner' = o
        /\ generation' = generation + 1
        /\ pc[p] = "idle" /\ pc' = [pc EXCEPT ![p] = "claiming"]
        /\ next' = [next EXCEPT ![p] = [owner |-> o, generation |-> generation + 1]]
        /\ UNCHANGED <<gate, identity, leases>>
    BY <1>5 DEF Claim
  <2>3. o # NoOwner
    BY NoOwnerAssumption
  <2>4. \A q \in Procs : q # p => pc'[q] = pc[q]
    BY <2>2
  <2>5. pc'[p] = "claiming" /\ next'[p].owner = o /\ next'[p].generation = generation + 1
    BY <2>2
  <2>6. \A q \in Procs : Admitted(q)' <=> Admitted(q)
    BY <2>2, <2>4, <2>5 DEF Admitted
  <2>7. FreeInv' /\ LeaseInv'
    <3>1. FreeInv'
      BY <2>2, <2>3 DEF FreeInv
    <3>2. \A k \in leases : k.generation <= generation + 1
      BY DEF LeaseInv, Lease
    <3>. QED
      BY <2>2, <3>1, <3>2 DEF LeaseInv
  <2>8. GateInv' /\ WaitInv'
    BY <2>2, <2>4, <2>5, <2>6 DEF GateInv, WaitInv, Admitted
  <2>9. AutomationInv' /\ AlwaysStoppable'
    BY <2>5 DEF AutomationInv, AlwaysStoppable, InFlight
  <2>10. FlightInv'
    <3>1. \A q \in Procs : InFlight(q)' => q = p
      BY <2>1, <2>4 DEF InFlight
    <3>2. \A l \in leases' : l.generation < next'[p].generation
      BY <2>2, <2>5 DEF LeaseInv, Lease
    <3>. QED
      BY <2>2, <2>5, <3>1, <3>2 DEF FlightInv, Holds
  <2>11. NoMixedInput'
    BY <2>2, <2>6 DEF NoMixedInput
  <2>. QED
    BY <2>7, <2>8, <2>9, <2>10, <2>11
<1>6. ASSUME NEW p \in Procs, NEW l \in leases,
             Pause(p, l) \/ Resume(p, l) \/ Release(p, l) PROVE IInv'
  <2>1. PICK during \in {"Pausing", "Resuming", "Stopping"},
             to \in {"Idle", "Running", "Paused"} :
          /\ Transition(p, l, phase, during, to)
          /\ during = "Pausing" => phase = "Running"
          /\ during = "Resuming" => phase = "Paused"
    BY <1>6 DEF Pause, Resume, Release, Transition
  <2>2. /\ Holds(l) /\ phase' = during /\ owner' = owner
        /\ generation' = generation + 1
        /\ pc[p] = "idle" /\ pc' = [pc EXCEPT ![p] = "switching"]
        /\ next' = [next EXCEPT ![p] = [l EXCEPT !.generation = generation + 1]]
        /\ original' = [original EXCEPT ![p] = l]
        /\ UNCHANGED <<gate, identity, leases>>
    BY <2>1 DEF Transition
  <2>3. l.owner \in Owners /\ l.owner # NoOwner /\ owner = l.owner /\ generation = l.generation
    BY <2>2, NoOwnerAssumption DEF LeaseInv, Holds
  <2>4. \A q \in Procs : q # p => pc'[q] = pc[q]
    BY <2>2
  <2>5. /\ pc'[p] = "switching" /\ original'[p] = l
        /\ next'[p].owner = l.owner /\ next'[p].generation = generation + 1
    BY <2>2 DEF Lease
  <2>6. \A q \in Procs : Admitted(q)' <=> Admitted(q)
    BY <2>2, <2>4, <2>5 DEF Admitted
  <2>7. \A q \in Procs : ~InFlight(q)
    BY <2>3 DEF FlightInv, Holds
  <2>8. FreeInv' /\ LeaseInv'
    <3>1. FreeInv'
      BY <2>1, <2>2, <2>3 DEF FreeInv
    <3>2. \A k \in leases : k.generation <= generation + 1
      BY DEF LeaseInv, Lease
    <3>. QED
      BY <2>2, <3>1, <3>2 DEF LeaseInv
  <2>9. GateInv' /\ WaitInv'
    BY <2>2, <2>4, <2>5, <2>6 DEF GateInv, WaitInv, Admitted
  <2>10. AlwaysStoppable'
    BY <2>5 DEF AlwaysStoppable, InFlight
  <2>11. FlightInv'
    <3>1. \A q \in Procs : InFlight(q)' => q = p
      BY <2>7, <2>4 DEF InFlight
    <3>2. \A k \in leases' : k.generation < next'[p].generation
      BY <2>2, <2>5 DEF LeaseInv, Lease
    <3>. QED
      BY <2>1, <2>2, <2>3, <2>5, <3>1, <3>2 DEF FlightInv, Holds
  <2>12. phase # "Idle"
    BY <2>3 DEF FreeInv
  <2>13. AutomationInv' /\ NoMixedInput'
    BY <2>1, <2>2, <2>6, <2>7, <2>12 DEF AutomationInv, NoMixedInput, InFlight
  <2>. QED
    BY <2>8, <2>9, <2>10, <2>11, <2>13
<1>7. ASSUME NEW p \in Procs, Acquire(p) PROVE IInv'
  BY <1>7 DEF Acquire, Check, Cleanup, state, locals, ghosts, FreeInv, GateInv, WaitInv,
     AutomationInv, LeaseInv, FlightInv, NoMixedInput, AlwaysStoppable, Admitted,
     InFlight, Holds
<1>8. ASSUME NEW p \in Procs, Turned(p) \/ Leave(p) PROVE IInv'
  BY <1>8 DEF Turned, Leave, state, locals, ghosts, FreeInv, GateInv, WaitInv,
     AutomationInv, LeaseInv, FlightInv, NoMixedInput, AlwaysStoppable, Admitted,
     InFlight, Holds
<1>9. ASSUME NEW p \in Procs, ClaimGranted(p) PROVE IInv'
  BY <1>9 DEF ClaimGranted, Return, ghosts, FreeInv, GateInv, WaitInv,
     AutomationInv, LeaseInv, FlightInv, NoMixedInput, AlwaysStoppable, Admitted,
     InFlight, Holds
<1>10. ASSUME NEW p \in Procs, ClaimDropped(p) PROVE IInv'
  BY <1>10 DEF ClaimDropped, Return, ghosts, FreeInv, GateInv, WaitInv,
     AutomationInv, LeaseInv, FlightInv, NoMixedInput, AlwaysStoppable, Admitted,
     InFlight, Holds
<1>11. ASSUME NEW p \in Procs, Switch(p) \/ SwitchFailed(p) PROVE IInv'
  BY <1>11 DEF Switch, SwitchFailed, state, locals, ghosts, FreeInv, GateInv, WaitInv,
     AutomationInv, LeaseInv, FlightInv, NoMixedInput, AlwaysStoppable, Admitted,
     InFlight, Holds
<1>12. ASSUME NEW p \in Procs, Switched(p) PROVE IInv'
  BY <1>12, NoOwnerAssumption DEF Switched, Return, FreeInv, GateInv, WaitInv,
     AutomationInv, LeaseInv, FlightInv, NoMixedInput, AlwaysStoppable, Admitted,
     InFlight, Holds
<1>13. ASSUME NEW p \in Procs, SwitchDropped(p) PROVE IInv'
  <2>1. /\ InFlight(p) /\ pc[p] # "claiming" /\ ~Admitted(p) /\ pc[p] # "cleaning"
        /\ pc' = [pc EXCEPT ![p] = "idle"]
        /\ UNCHANGED <<owner, phase, gate, identity, leases>>
    BY <1>13 DEF SwitchDropped, Return, InFlight, Admitted
  <2>2. /\ Holds(next[p]) /\ next[p].owner \in Owners
        /\ phase \in {"Pausing", "Resuming", "Stopping"}
        /\ \A q \in Procs : InFlight(q) => q = p
        /\ \A l \in leases : l.generation < next[p].generation
        /\ original[p] \in leases /\ original[p].owner = next[p].owner
        /\ original[p].generation + 1 = next[p].generation
    BY <2>1 DEF FlightInv
  <2>3. generation' = original[p].generation
    BY <1>13, <2>2 DEF SwitchDropped
  <2>4. \A q \in Procs : q # p => pc'[q] = pc[q]
    BY <2>1
  <2>5. pc'[p] = "idle"
    BY <2>1
  <2>6. \A q \in Procs : (Admitted(q)' <=> Admitted(q)) /\ ~InFlight(q)'
    BY <2>1, <2>2, <2>4, <2>5 DEF Admitted, InFlight
  <2>7. FreeInv' /\ NoMixedInput'
    BY <2>1, <2>6 DEF FreeInv, NoMixedInput
  <2>8. GateInv' /\ WaitInv'
    BY <2>1, <2>4, <2>5, <2>6 DEF GateInv, WaitInv, Admitted
  <2>9. AutomationInv'
    <3>1. \A q \in Procs : pc[q] # "claiming"
      BY <2>1, <2>2 DEF InFlight
    <3>. QED
      BY <2>1, <2>6, <3>1 DEF AutomationInv
  <2>10. LeaseInv'
    <3>1. \A l \in leases : l.generation <= original[p].generation
      BY <2>2 DEF Lease
    <3>. QED
      BY <2>1, <2>3, <3>1 DEF LeaseInv
  <2>11. FlightInv'
    BY <2>6 DEF FlightInv
  <2>12. AlwaysStoppable'
    BY <2>1, <2>2, <2>3 DEF AlwaysStoppable, Holds
  <2>. QED
    BY <2>7, <2>8, <2>9, <2>10, <2>11, <2>12
<1>. QED
  BY <1>1, <1>2, <1>3, <1>4, <1>5, <1>6, <1>7, <1>8, <1>9, <1>10, <1>11,
     <1>12, <1>13 DEF Next

LEMMA Invariant == Spec => []IInv
  BY InitInv, StepInv, PTL DEF Spec

(* The gate is a barrier: an admitted action never overlaps a phase in     *)
(* which somebody else may act, for any number of tasks and sessions.      *)
THEOREM Barrier == Spec => []NoMixedInput
<1>1. IInv => NoMixedInput
  BY DEF IInv
<1>. QED
  BY Invariant, <1>1, PTL

(* A claim, pause, resume or release is alone and still owns the state it  *)
(* will write: transition's check after the cleanup and the conditions in  *)
(* the Drop handlers of control.rs always hold.                            *)
THEOREM Exclusive == Spec => []OneTransition
<1>1. IInv => OneTransition
  <2> SUFFICES ASSUME IInv, NEW p \in Procs, InFlight(p)
               PROVE  /\ \A q \in Procs : InFlight(q) => q = p
                      /\ Holds(next[p])
                      /\ next[p] \notin leases
    BY DEF OneTransition
  <2>1. /\ \A q \in Procs : InFlight(q) => q = p
        /\ Holds(next[p])
        /\ \A l \in leases : l.generation < next[p].generation
    BY DEF IInv, FlightInv
  <2>2. next[p].generation \in Nat
    BY DEF IInv, TypeOK, Lease
  <2>. QED
    BY <2>1, <2>2
<1>. QED
  BY Invariant, <1>1, PTL

(* A generation belongs to one session for ever, whatever numbers the      *)
(* failed transitions put back.                                            *)
THEOREM UniqueGenerations == Spec => []GenerationsUnique
<1>1. IInv => GenerationsUnique
  BY DEF IInv, LeaseInv, GenerationsUnique
<1>. QED
  BY Invariant, <1>1, PTL

(* No interleaving of dropped and failed calls leaves a target that nobody *)
(* can release.                                                            *)
THEOREM Stoppable == Spec => []AlwaysStoppable
<1>1. IInv => AlwaysStoppable
  BY DEF IInv
<1>. QED
  BY Invariant, <1>1, PTL
-----------------------------------------------------------------------------
(* The two histories: a cleanup that is owed keeps the phase closed, and a *)
(* claim in progress remembers the ticket of the last hand-back.           *)
OwedInv == /\ ClosedUntilClean
           /\ owed => \A p \in Procs : pc[p] # "claiming"

TicketInv == /\ TicketsSurviveAbortedClaim
             /\ \A p \in Procs : pc[p] = "claiming" => previous[p] = idleTicket

LEMMA InitHistory == Init => OwedInv /\ TicketInv
  BY DEF Init, OwedInv, TicketInv, ClosedUntilClean, TicketsSurviveAbortedClaim

LEMMA StepHistory == IInv /\ OwedInv /\ TicketInv /\ [Next]_vars => OwedInv' /\ TicketInv'
<1> SUFFICES ASSUME IInv, OwedInv, TicketInv, [Next]_vars PROVE OwedInv' /\ TicketInv'
  OBVIOUS
<1> USE DEF IInv, TypeOK, OwedInv, TicketInv, ClosedUntilClean, TicketsSurviveAbortedClaim
<1>1. CASE ManualLease \/ UNCHANGED vars
  BY <1>1 DEF ManualLease, vars, state, locals, ghosts
<1>2. ASSUME NEW p \in Procs,
             \/ \E id \in Presentable : Enter(p, id)
             \/ \E t \in tickets : Sweep(p, t)
             \/ \E q \in Procs : Transfer(p, q)
             \/ Acquire(p) \/ Turned(p) \/ Leave(p) \/ Switch(p) \/ SwitchFailed(p)
      PROVE OwedInv' /\ TicketInv'
  BY <1>2 DEF Enter, Sweep, Transfer, Acquire, Turned, Leave, Switch, SwitchFailed,
     state, locals, ghosts
<1>3. ASSUME NEW p \in Procs, NEW o \in Owners, Claim(p, o) PROVE OwedInv' /\ TicketInv'
  BY <1>3 DEF Claim, ghosts
<1>4. ASSUME NEW p \in Procs, NEW l \in leases,
             Pause(p, l) \/ Resume(p, l) \/ Release(p, l) PROVE OwedInv' /\ TicketInv'
  <2>1. \A q \in Procs : ~InFlight(q)
    <3>1. l.owner # NoOwner /\ l.generation = generation /\ Holds(l)
      BY <1>4, NoOwnerAssumption DEF Pause, Resume, Release, Transition, LeaseInv, Holds
    <3>. QED
      BY <3>1 DEF FlightInv, Holds
  <2>. QED
    BY <1>4, <2>1 DEF Pause, Resume, Release, Transition, InFlight
<1>5. ASSUME NEW p \in Procs, ClaimGranted(p) \/ ClaimDropped(p) \/ SwitchDropped(p)
      PROVE OwedInv' /\ TicketInv'
  BY <1>5 DEF ClaimGranted, ClaimDropped, SwitchDropped, Return, ghosts, FlightInv, InFlight
<1>6. ASSUME NEW p \in Procs, Switched(p) PROVE OwedInv' /\ TicketInv'
  BY <1>6 DEF Switched, Return, FlightInv, InFlight
<1>. QED
  BY <1>1, <1>2, <1>3, <1>4, <1>5, <1>6 DEF Next

LEMMA Histories == Spec => [](OwedInv /\ TicketInv)
  BY InitInv, StepInv, InitHistory, StepHistory, PTL DEF Spec

(* After a failed or cancelled cleanup the target admits nobody until a    *)
(* cleanup has succeeded.                                                  *)
THEOREM CleanBeforeOpen == Spec => []ClosedUntilClean
<1>1. OwedInv => ClosedUntilClean
  BY DEF OwedInv
<1>. QED
  BY Histories, <1>1, PTL

(* A claim that is dropped before it is granted leaves the viewers' ticket *)
(* as valid as it was.                                                     *)
THEOREM TicketsSurvive == Spec => []TicketsSurviveAbortedClaim
<1>1. TicketInv => TicketsSurviveAbortedClaim
  BY DEF TicketInv
<1>. QED
  BY Histories, <1>1, PTL
-----------------------------------------------------------------------------
(* Old leases and old tickets stay old: no Drop handler puts the numbers   *)
(* back as far as one that a completed step has left behind.               *)
StaleInv ==
  /\ \A l \in retired :
       /\ l.generation < generation
       /\ \A p \in Procs : pc[p] \in {"switching", "cleaning", "unwinding"}
                             => l.generation < original[p].generation
  /\ \A t \in superseded :
       /\ t < manual_generation
       /\ \A p \in Procs : pc[p] = "claiming" => t < previous[p]

LEMMA InitStale == Init => StaleInv
  BY DEF Init, StaleInv

LEMMA StepStale == IInv /\ StaleInv /\ [Next]_vars => StaleInv'
<1> SUFFICES ASSUME IInv, StaleInv, [Next]_vars PROVE StaleInv'
  OBVIOUS
<1>0. TypeOK'
  BY StepTypes DEF IInv
<1> USE <1>0 DEF IInv, TypeOK, StaleInv, Lease
<1>1. CASE ManualLease \/ UNCHANGED vars
  BY <1>1 DEF ManualLease, vars, state, locals, ghosts
<1>2. ASSUME NEW p \in Procs,
             \/ \E id \in Presentable : Enter(p, id)
             \/ \E t \in tickets : Sweep(p, t)
             \/ \E q \in Procs : Transfer(p, q)
             \/ Acquire(p) \/ Turned(p) \/ Leave(p) \/ Switch(p) \/ SwitchFailed(p)
      PROVE StaleInv'
  BY <1>2 DEF Enter, Sweep, Transfer, Acquire, Turned, Leave, Switch, SwitchFailed,
     state, locals, ghosts
<1>3. ASSUME NEW p \in Procs, NEW o \in Owners, Claim(p, o) PROVE StaleInv'
  BY <1>3 DEF Claim, ghosts
<1>4. ASSUME NEW p \in Procs, NEW l \in leases,
             Pause(p, l) \/ Resume(p, l) \/ Release(p, l) PROVE StaleInv'
  <2>1. /\ generation = l.generation
        /\ generation' = generation + 1
        /\ manual_generation' = manual_generation + 1
        /\ pc' = [pc EXCEPT ![p] = "switching"]
        /\ original' = [original EXCEPT ![p] = l]
        /\ UNCHANGED <<previous, retired, superseded>>
    BY <1>4 DEF Pause, Resume, Release, Transition, Holds
  <2>. QED
    BY <2>1
<1>5. ASSUME NEW p \in Procs, ClaimGranted(p) \/ ClaimDropped(p) PROVE StaleInv'
  <2>1. pc[p] = "claiming" /\ \A q \in Procs : InFlight(q) => q = p
    BY <1>5 DEF ClaimGranted, ClaimDropped, FlightInv, InFlight
  <2>2. \A q \in Procs : ~InFlight(q)'
    BY <1>5, <2>1 DEF ClaimGranted, ClaimDropped, Return, InFlight
  <2>3. /\ UNCHANGED <<generation, retired>>
        /\ superseded' \subseteq superseded \cup { t \in tickets : t < manual_generation }
        /\ \/ manual_generation' = manual_generation
           \/ manual_generation' = previous[p] /\ superseded' = superseded
    BY <1>5 DEF ClaimGranted, ClaimDropped, ghosts
  <2>. QED
    BY <2>1, <2>2, <2>3 DEF InFlight
<1>6. ASSUME NEW p \in Procs, Switched(p) PROVE StaleInv'
  <2>1. /\ \A q \in Procs : InFlight(q) => q = p
        /\ original[p].generation < generation
    BY <1>6 DEF Switched, FlightInv, InFlight, Holds
  <2>2. \A q \in Procs : ~InFlight(q)'
    BY <1>6, <2>1 DEF Switched, Return, InFlight
  <2>3. /\ retired' = retired \cup {original[p]}
        /\ superseded' \subseteq superseded \cup { t \in tickets : t < manual_generation }
        /\ UNCHANGED <<generation, manual_generation>>
    BY <1>6 DEF Switched
  <2>. QED
    BY <2>1, <2>2, <2>3 DEF InFlight
<1>7. ASSUME NEW p \in Procs, SwitchDropped(p) PROVE StaleInv'
  <2>1. /\ \A q \in Procs : InFlight(q) => q = p
        /\ generation' = original[p].generation
        /\ pc[p] \in {"switching", "unwinding"}
    BY <1>7 DEF SwitchDropped, FlightInv, InFlight
  <2>2. \A q \in Procs : ~InFlight(q)'
    BY <1>7, <2>1 DEF SwitchDropped, Return, InFlight
  <2>3. UNCHANGED <<retired, superseded, manual_generation>>
    BY <1>7 DEF SwitchDropped, ghosts
  <2>. QED
    BY <2>1, <2>2, <2>3 DEF InFlight
<1>. QED
  BY <1>1, <1>2, <1>3, <1>4, <1>5, <1>6, <1>7 DEF Next

(* Old decisions never execute: what a completed pause, resume or release  *)
(* has replaced is never admitted again.                                   *)
THEOREM OldDecisionsRejected == Spec => StaleNeverAdmitted
<1>1. IInv /\ StaleInv /\ [Next]_vars =>
        [\A p \in Procs : Acquire(p) =>
           /\ identity[p].kind = "owned"
                => \A l \in retired : identity[p] # Owned(l)
           /\ identity[p].kind = "manual" => identity[p].generation \notin superseded]_vars
  <2> SUFFICES ASSUME IInv, StaleInv, NEW p \in Procs, Acquire(p)
               PROVE  /\ identity[p].kind = "owned"
                           => \A l \in retired : identity[p] # Owned(l)
                      /\ identity[p].kind = "manual"
                           => identity[p].generation \notin superseded
    OBVIOUS
  <2>1. ASSUME identity[p].kind = "owned", NEW l \in retired, identity[p] = Owned(l)
        PROVE FALSE
    <3>1. generation = l.generation
      BY <2>1 DEF Acquire, Check, Holds, Owned
    <3>. QED
      BY <3>1 DEF StaleInv, IInv, TypeOK
  <2>2. ASSUME identity[p].kind = "manual", identity[p].generation \in superseded
        PROVE FALSE
    <3>1. manual_generation = identity[p].generation
      BY <2>2 DEF Acquire, Check
    <3>. QED
      BY <2>2, <3>1 DEF StaleInv, IInv, TypeOK
  <2>. QED
    BY <2>1, <2>2
<1>. QED
  BY <1>1, InitInv, StepInv, InitStale, StepStale, PTL DEF Spec, StaleNeverAdmitted
-----------------------------------------------------------------------------
(* The refinement of InputTurns. *)

KindOf(p) == IF Admitted(p) THEN identity[p].kind ELSE "none"

ActingNow == [p \in Procs |-> KindOf(p)]

LEMMA TurnStep ==
  IInv /\ [Next]_vars => [Turnwise!TurnNext]_(Turnwise!turnVars)
<1> SUFFICES ASSUME IInv, [Next]_vars
             PROVE  [Turnwise!TurnNext]_(Turnwise!turnVars)
  OBVIOUS
<1> DEFINE same == ActingNow' = ActingNow
<1> USE DEF IInv, TypeOK
<1>0. /\ Turnwise!turnVars = <<Turn, ActingNow>>
      /\ Turnwise!turnVars' = <<Turn', ActingNow'>>
  BY DEF Turnwise!turnVars, ActingNow, KindOf
<1>a. ASSUME \A q \in Procs : KindOf(q)' = KindOf(q) PROVE same
  BY <1>a DEF ActingNow
<1>b. ASSUME same, Turn' = Turn PROVE UNCHANGED Turnwise!turnVars
  BY <1>0, <1>b
<1>c. ASSUME same, Turn' = "closed" PROVE Turnwise!TurnNext
  BY <1>c DEF Turnwise!TurnNext, Turnwise!Close, ActingNow, KindOf
<1>d. ASSUME NEW t \in Turnwise!Turns, same, Turn = "closed", Turn' = t,
             \A q \in Procs : KindOf(q) \in Turnwise!Lets[t] \cup {"none"}
      PROVE  Turnwise!TurnNext
  <2>1. Turnwise!Acting \subseteq Turnwise!Lets[t]
    BY <1>d DEF Turnwise!Acting, KindOf
  <2>. QED
    BY <1>d, <2>1 DEF Turnwise!TurnNext, Turnwise!Open, ActingNow, KindOf
<1>1. CASE ManualLease \/ UNCHANGED vars
  BY <1>1, <1>a, <1>b DEF ManualLease, vars, state, locals, ghosts, KindOf, Admitted, Turn
<1>2. ASSUME NEW p \in Procs,
             \/ \E id \in Presentable : Enter(p, id)
             \/ \E t \in tickets : Sweep(p, t)
             \/ Turned(p) \/ Switch(p) \/ SwitchFailed(p)
      PROVE UNCHANGED Turnwise!turnVars
  <2>1. \A q \in Procs : KindOf(q)' = KindOf(q)
    BY <1>2 DEF Enter, Sweep, Turned, Switch, SwitchFailed, KindOf, Admitted
  <2>2. Turn' = Turn
    BY <1>2 DEF Enter, Sweep, Turned, Switch, SwitchFailed, state, Turn
  <2>. QED
    BY <2>1, <2>2, <1>a, <1>b
<1>3. ASSUME NEW p \in Procs, NEW q \in Procs, Transfer(p, q) PROVE Turnwise!TurnNext
  <2>1. /\ Turn' = Turn
        /\ pc[p] = "inside" /\ pc[q] = "idle"
        /\ pc' = [pc EXCEPT ![q] = "worker"]
        /\ identity' = [identity EXCEPT ![q] = identity[p]]
    BY <1>3 DEF Transfer, state, Turn
  <2>2. /\ ActingNow[q] = "none"
        /\ ActingNow[p] = identity[p].kind
        /\ ActingNow' = [ActingNow EXCEPT ![q] = identity[p].kind]
    BY <2>1 DEF ActingNow, KindOf, Admitted
  <2>3. PICK k \in Turnwise!Kinds : k = identity[p].kind /\ k # "none"
    BY <2>1 DEF WaitInv, Admitted, Identity, Turnwise!Kinds
  <2>4. k \in Turnwise!Acting
    BY <2>1, <2>3 DEF Turnwise!Acting, Admitted
  <2>5. Turnwise!Join(q, k)
    BY <2>1, <2>2, <2>3, <2>4 DEF Turnwise!Join, ActingNow, KindOf
  <2>. QED
    BY <2>5 DEF Turnwise!TurnNext
<1>4. ASSUME NEW p \in Procs, Acquire(p) PROVE Turnwise!TurnNext
  <2>1. PICK k \in {"owned", "manual", "automatic", "cleanup"} :
          k = IF pc[p] = "sweeping" THEN "cleanup" ELSE identity[p].kind
    BY <1>4 DEF Acquire, WaitInv
  <2>2. /\ Turn' = Turn
        /\ ActingNow[p] = "none"
        /\ ActingNow' = [ActingNow EXCEPT ![p] = k]
    BY <1>4, <2>1 DEF Acquire, state, Turn, ActingNow, KindOf, Admitted, Cleanup
  <2>3. k \in Turnwise!Lets[Turn]
    BY <1>4, <2>1 DEF Acquire, Check, WaitInv, Turn, Turnwise!Lets, Turnwise!Turns
  <2>4. Turnwise!Begin(p, k)
    BY <2>2, <2>3 DEF Turnwise!Begin, ActingNow, KindOf
  <2>. QED
    BY <2>4 DEF Turnwise!TurnNext, Turnwise!Kinds
<1>5. ASSUME NEW p \in Procs, Leave(p) PROVE Turnwise!TurnNext
  <2>1. Turn' = Turn
    BY <1>5 DEF Leave, state, Turn
  <2>2. ActingNow' = [ActingNow EXCEPT ![p] = "none"]
    BY <1>5 DEF Leave, ActingNow, KindOf, Admitted
  <2>3. Turnwise!End(p)
    BY <2>1, <2>2 DEF Turnwise!End, ActingNow, KindOf
  <2>. QED
    BY <2>3 DEF Turnwise!TurnNext
<1>6. ASSUME NEW p \in Procs,
             \/ \E o \in Owners : Claim(p, o)
             \/ \E l \in leases : Pause(p, l) \/ Resume(p, l) \/ Release(p, l)
      PROVE Turnwise!TurnNext
  <2>1. same
    BY <1>6, <1>a DEF Claim, Pause, Resume, Release, Transition, KindOf, Admitted
  <2>2. Turn' = "closed"
    BY <1>6 DEF Claim, Pause, Resume, Release, Transition, Turn
  <2>. QED
    BY <2>1, <2>2, <1>c
<1>7. ASSUME NEW p \in Procs, ClaimGranted(p) PROVE Turnwise!TurnNext
  <2>1. same
    BY <1>7, <1>a DEF ClaimGranted, Return, KindOf, Admitted
  <2>2. Turn = "closed" /\ Turn' = "agent"
    BY <1>7 DEF ClaimGranted, FlightInv, InFlight, Turn
  <2>3. \A q \in Procs : KindOf(q) = "none"
    BY <1>7 DEF ClaimGranted, GateInv, KindOf
  <2>. QED
    BY <2>1, <2>2, <2>3, <1>d DEF Turnwise!Turns
<1>8. ASSUME NEW p \in Procs, ClaimDropped(p) PROVE Turnwise!TurnNext
  <2>1. same
    BY <1>8, <1>a DEF ClaimDropped, Return, KindOf, Admitted
  <2>2. phase = "Resuming" /\ Holds(next[p])
    BY <1>8 DEF ClaimDropped, FlightInv, InFlight
  <2>3. Turn = "closed" /\ Turn' = "anyone"
    BY <1>8, <2>2 DEF ClaimDropped, Turn
  <2>4. \A q \in Procs : KindOf(q) \in {"manual", "automatic", "cleanup", "none"}
    BY <2>2 DEF NoMixedInput, KindOf, Identity
  <2>. QED
    BY <2>1, <2>3, <2>4, <1>d DEF Turnwise!Turns, Turnwise!Lets
<1>9. ASSUME NEW p \in Procs, Switched(p) PROVE Turnwise!TurnNext
  <2>1. same
    BY <1>9, <1>a DEF Switched, Return, KindOf, Admitted
  <2>2. \A q \in Procs : KindOf(q) = "none"
    BY <1>9 DEF Switched, GateInv, KindOf, Admitted
  <2>3. Turn = "closed"
    BY <1>9 DEF Switched, FlightInv, InFlight, Turn
  <2>4. Turn' \in Turnwise!Turns
    BY DEF Turn, Turnwise!Turns
  <2>. QED
    BY <2>1, <2>2, <2>3, <2>4, <1>d
<1>10. ASSUME NEW p \in Procs, SwitchDropped(p) PROVE UNCHANGED Turnwise!turnVars
  <2>1. same
    BY <1>10, <1>a DEF SwitchDropped, Return, KindOf, Admitted
  <2>2. Turn' = Turn
    BY <1>10 DEF SwitchDropped, Turn
  <2>. QED
    BY <2>1, <2>2, <1>b
<1>. QED
  BY <1>1, <1>2, <1>3, <1>4, <1>5, <1>6, <1>7, <1>8, <1>9, <1>10 DEF Next

(* The registry lets input in by turns: it implements InputTurns under the *)
(* mapping that reads the turn off the phase.                              *)
THEOREM ImplementsTurns == Spec => TakesTurns
<1>1. Init => Turnwise!TurnInit
  BY DEF Init, Turnwise!TurnInit, Turn, Admitted
<1>. QED
  BY <1>1, Invariant, TurnStep, PTL DEF Spec, TakesTurns, Turnwise!TurnSpec
=============================================================================
