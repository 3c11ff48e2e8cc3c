-------------------------- MODULE ExternalControl --------------------------
(***************************************************************************)
(* server/src/external_control: one session in which an external client    *)
(* controls one target, composed with the ControlRegistry of that target.  *)
(*                                                                         *)
(* The session is a run of the RunManager.  The task of the run claims the *)
(* target, waits in a loop and gives it back; calls of the client and of   *)
(* the user pause, resume, capture, inject, renew and stop meanwhile.  The *)
(* session has two async mutexes of its own, `transition` and `operation`, *)
(* and a record that is read and written without either of them.           *)
(*                                                                         *)
(* An action is the code between two awaits.  Steps on the registry are    *)
(* the actions of ControlRegistry, whose variables are declared here.      *)
(***************************************************************************)
EXTENDS Naturals, Sequences

CONSTANTS
  Callers,      \* tasks of the client, of the user, of the credential store
  Run,          \* the task of the run; after a panic, its Drop fallback
  Watch,        \* start_for_user, then the watcher it spawns
  Session, NoOwner,
  Ops,          \* operation ids
  None,
  MaxCalls,     \* bound on calls
  MaxFrames,    \* bound on captures
  MaxFaults     \* bound on failing cleanups, panics, timeouts, expiries

Procs == Callers \cup {Run, Watch}

ASSUME ProcsAssumption == Run # Watch /\ Run \notin Callers /\ Watch \notin Callers
ASSUME NoneAssumption == None \notin Procs
ASSUME SessionAssumption == Session # NoOwner
ASSUME SessionBounds ==
  MaxCalls \in Nat /\ MaxFrames \in Nat /\ MaxFaults \in Nat

VARIABLES  \* of the registry
  owner, generation, manual_generation, phase, gate, pc, identity, next, original,
  after, previous, leases, tickets, retired, superseded, idleTicket, owed

VARIABLES
  session,     \* the record and the locked fields of Session
  run,         \* what RunManager knows of the run
  transition,  \* holder of the mutex, or None
  operation,
  at,          \* where each task is in its call
  arg,         \* what the call was given
  revoked,     \* the token is inactive
  frames,      \* the generation each captured frame was taken in
  injected,    \* history: what reached the target
  gaveUp,      \* history: who has timed out in the cleanup
  calls, faults

registry == <<owner, generation, manual_generation, phase, gate, pc, identity, next,
              original, after, previous, leases, tickets, retired, superseded,
              idleTicket, owed>>
locks    == <<transition, operation>>
history  == <<frames, injected, gaveUp>>
vars     == <<registry, session, run, locks, at, arg, revoked, history, calls, faults>>

(* Every call, failing cleanup and expiry can take one generation, the     *)
(* claim and the release one each: the bound is never met.                 *)
Registry == INSTANCE ControlRegistry WITH
  Owners <- {Session}, MaxTickets <- 0, MaxGen <- MaxCalls + 2 * MaxFaults + 4

NoLease == Registry!NoLease
NoArg   == [gen |-> 0, op |-> None, frame |-> 0]

Init ==
  /\ Registry!Init
  /\ session = [ phase |-> "Starting", gen |-> 0, lease |-> NoLease, ending |-> FALSE,
                 listed |-> TRUE, run |-> FALSE, package |-> TRUE, expired |-> FALSE,
                 obs |-> 0, receipts |-> {} ]
  /\ run = [stop |-> FALSE, activity |-> FALSE, over |-> FALSE]
  /\ transition = None /\ operation = None
  /\ at = [p \in Procs |-> IF p = Run THEN "submitted" ELSE IF p = Watch THEN "start" ELSE "idle"]
  /\ arg = [p \in Procs |-> NoArg]
  /\ revoked = FALSE
  /\ frames = <<>> /\ injected = <<>> /\ gaveUp = {}
  /\ calls = 0 /\ faults = 0

(* A call that is over leaves nothing behind. *)
Goes(p, place) ==
  /\ at' = [at EXCEPT ![p] = place]
  /\ arg' = [arg EXCEPT ![p] = IF place \in {"idle", "loop"} THEN NoArg ELSE @]

GoesWith(p, place, a) ==
  /\ at' = [at EXCEPT ![p] = place]
  /\ arg' = [arg EXCEPT ![p] = a]

Same     == UNCHANGED <<revoked, history, calls>>
NoFault  == UNCHANGED faults
Fault    == faults < MaxFaults /\ faults' = faults + 1

(* running: the session may be acted in, under the generation of the call. *)
Running(gen) ==
  /\ session.gen = gen /\ session.phase = "Running"
  /\ ~session.ending /\ ~session.expired

Stopped(s) == [s EXCEPT !.ending = TRUE, !.obs = 0, !.phase = "Stopping"]

-----------------------------------------------------------------------------
(* start_for_user and the run (mod.rs:161, runner.rs). *)

(* submit: the run exists, or the session is taken off the list again. *)
Submit ==
  /\ at[Watch] = "start"
  /\ \/ /\ at' = [at EXCEPT ![Watch] = "record", ![Run] = "queued"]
        /\ UNCHANGED <<session, run>>
     \/ /\ at' = [at EXCEPT ![Watch] = "done", ![Run] = "over"]
        /\ session' = [session EXCEPT !.listed = FALSE, !.package = FALSE]
        /\ run' = [run EXCEPT !.over = TRUE]
  /\ UNCHANGED <<registry, locks>> /\ Same /\ NoFault /\ UNCHANGED arg

(* The id of the run is written after the run has begun. *)
Record ==
  /\ at[Watch] = "record"
  /\ session' = [session EXCEPT !.run = TRUE]
  /\ Goes(Watch, "watch")
  /\ UNCHANGED <<registry, run, locks>> /\ Same /\ NoFault

(* The run ends before it holds anything: cancelled, or prepare has failed. *)
RunFails ==
  /\ at[Run] \in {"queued", "prepared"}
  /\ run' = [run EXCEPT !.over = TRUE]
  /\ Goes(Run, "over")
  /\ UNCHANGED <<registry, session, locks>> /\ Same /\ NoFault

Prepare ==
  /\ at[Run] = "queued" /\ transition = None
  /\ ~run.stop
  /\ session.phase = "Starting" /\ ~session.ending /\ ~revoked
  /\ session' = [session EXCEPT !.run = TRUE]
  /\ Goes(Run, "prepared")
  /\ UNCHANGED <<registry, run, locks>> /\ Same /\ NoFault

(* release of the activity lease marks the session before it waits. *)
Leaves ==
  /\ session' = [session EXCEPT !.phase = "Stopping"]
  /\ Goes(Run, "release")

Acquire ==
  /\ at[Run] = "prepared"
  /\ run' = [run EXCEPT !.activity = TRUE]
  /\ IF run.stop THEN Leaves ELSE Goes(Run, "execute") /\ UNCHANGED session
  /\ UNCHANGED <<registry, locks>> /\ Same /\ NoFault

Claim ==
  /\ at[Run] = "execute" /\ transition = None
  /\ \/ /\ ~revoked /\ ~session.ending /\ ~run.stop
        /\ Registry!Claim(Run, Session)
        /\ transition' = Run /\ Goes(Run, "claim")
        /\ UNCHANGED session
     \/ /\ revoked \/ session.ending \/ run.stop
        /\ Leaves
        /\ UNCHANGED <<registry, transition>>
  /\ UNCHANGED <<run, operation>> /\ Same /\ NoFault

(* Fault: the lease is kept by the task and stored when the session runs. *)
Claimed_KeepsLease ==
  /\ at[Run] = "claim"
  /\ Registry!ClaimGranted(Run)
  /\ session' = [session EXCEPT !.gen = next[Run].generation]
  /\ GoesWith(Run, "clean", [NoArg EXCEPT !.gen = next[Run].generation])
  /\ UNCHANGED <<run, locks>> /\ Same /\ NoFault

(* The lease is stored where the cleanup after a panic finds it. *)
Claimed ==
  /\ at[Run] = "claim"
  /\ Registry!ClaimGranted(Run)
  /\ session' = [session EXCEPT !.lease = next[Run], !.gen = next[Run].generation]
  /\ GoesWith(Run, "clean", [NoArg EXCEPT !.gen = next[Run].generation])
  /\ UNCHANGED <<run, locks>> /\ Same /\ NoFault

(* The inputs that are still pressed are released as an action of the      *)
(* session; then the target is prepared, as another one.                   *)
Cleaned ==
  /\ at[Run] = "clean" /\ Registry!Leave(Run)
  /\ Goes(Run, "prepare")
  /\ UNCHANGED <<session, run, locks>> /\ Same /\ NoFault

(* A browser needs no preparation.  Who was stopped meanwhile does not run. *)
Prepared ==
  /\ at[Run] = "prepare"
  /\ Registry!Leave(Run) \/ (pc[Run] = "idle" /\ UNCHANGED registry)
  /\ IF ~revoked /\ ~session.ending /\ ~run.stop
     THEN /\ session' = [session EXCEPT !.phase = "Running"]
          /\ Goes(Run, "trace") /\ UNCHANGED transition
     ELSE Leaves /\ transition' = None
  /\ UNCHANGED <<run, operation>> /\ Same /\ NoFault

(* The snapshot of the trace is written while the session runs already.    *)
Traced ==
  /\ at[Run] = "trace"
  /\ transition' = None /\ Goes(Run, "loop")
  /\ UNCHANGED <<registry, session, run, operation>> /\ Same /\ NoFault

(* Any error on the way ends the run.                                      *)
OpeningFails ==
  /\ \/ at[Run] \in {"clean", "prepare"} /\ Registry!Leave(Run)
     \/ at[Run] \in {"prepare", "trace"} /\ pc[Run] = "idle" /\ UNCHANGED registry
  /\ transition' = None /\ Leaves /\ Fault
  /\ UNCHANGED <<run, operation>> /\ Same

(* The loop looks every 250 ms, or when it is woken.  Breaking out of it   *)
(* marks the session, and then the activity lease is released.             *)
LoopEnds ==
  /\ at[Run] = "loop"
  /\ run.stop \/ session.ending \/ revoked
  /\ session' = Stopped(session)
  /\ run' = [run EXCEPT !.stop = TRUE]
  /\ Goes(Run, "release")
  /\ UNCHANGED <<registry, locks>> /\ Same /\ NoFault

LoopPauses ==
  /\ at[Run] = "loop"
  /\ ~run.stop /\ ~session.ending /\ ~revoked
  /\ session.phase = "Running" /\ session.expired
  /\ GoesWith(Run, "pause", [NoArg EXCEPT !.gen = session.gen])
  /\ UNCHANGED <<registry, session, run, locks>> /\ Same /\ NoFault

(* The activity goes back and the run is terminal. *)
RunEnds ==
  /\ at[Run] = "left"
  /\ run' = [run EXCEPT !.activity = FALSE, !.over = TRUE]
  /\ Goes(Run, "over")
  /\ UNCHANGED <<registry, session, locks>> /\ Same /\ NoFault

(* A panic in the executor unwinds what the task holds; the Drop of the    *)
(* activity lease spawns the fallback, and the run is over without it.     *)
Panic ==
  /\ at[Run] \in {"execute", "claim", "clean", "prepare", "trace", "loop", "pause", "pausing"}
  /\ \/ pc[Run] = "idle" /\ UNCHANGED registry
     \/ Registry!ClaimDropped(Run)
     \/ Registry!SwitchDropped(Run)
     \/ Registry!Turned(Run)
     \/ Registry!Leave(Run)
  /\ transition' = IF transition = Run THEN None ELSE transition
  /\ session' = [session EXCEPT !.ending = TRUE]
  /\ run' = [run EXCEPT !.over = TRUE]
  /\ Goes(Run, "release")
  /\ Fault
  /\ UNCHANGED operation /\ Same

-----------------------------------------------------------------------------
(* Steps on the registry that change nothing else. *)

Own == <<session, run, locks, at, arg, revoked, history, calls, faults>>

(* ControlRegistry::execute under the lease the task has read. *)
EnterGate(p) ==
  /\ at[p] \in {"clean", "prepare", "waking", "act", "frame"}
  /\ Registry!Enter(p, Registry!Owned([owner |-> Session, generation |-> arg[p].gen]))
  /\ UNCHANGED Own

GateOpens(p) == (Registry!Acquire(p) \/ Registry!Switch(p)) /\ UNCHANGED Own

CleanupFails(p) ==
  /\ Registry!SwitchFailed(p)
  /\ Fault
  /\ UNCHANGED <<session, run, locks, at, arg>> /\ Same

-----------------------------------------------------------------------------
(* pause_session, by the client or by the loop. *)

Back(p) == IF p = Run THEN "loop" ELSE "idle"

PauseBegins(p) ==
  /\ at[p] = "pause" /\ transition = None
  /\ IF /\ ~revoked /\ session.gen = arg[p].gen
        /\ session.phase = "Running" /\ ~session.ending
     THEN /\ Registry!Pause(p, session.lease)
          /\ session' = [session EXCEPT !.phase = "Pausing", !.obs = 0]
          /\ transition' = p /\ Goes(p, "pausing")
     ELSE Goes(p, Back(p)) /\ UNCHANGED <<registry, session, transition>>
  /\ UNCHANGED <<run, operation>> /\ Same /\ NoFault

Paused(p) ==
  /\ at[p] = "pausing"
  /\ Registry!Switched(p)
  /\ session' = [session EXCEPT !.lease = next[p], !.gen = next[p].generation,
                                !.obs = 0, !.phase = "Paused"]
  /\ transition' = None /\ Goes(p, Back(p))
  /\ UNCHANGED <<run, operation>> /\ Same /\ NoFault

(* The error leaves the session in its closed phase. *)
SwitchUnwinds(p) ==
  /\ at[p] \in {"pausing", "resuming"} /\ pc[p] = "unwinding"
  /\ Registry!SwitchDropped(p)
  /\ transition' = None /\ Goes(p, Back(p))
  /\ UNCHANGED <<session, run, operation>> /\ Same /\ NoFault

-----------------------------------------------------------------------------
(* resume_for_user *)

ResumeBegins(c) ==
  /\ at[c] = "resume" /\ transition = None
  /\ IF ~revoked /\ ~session.ending /\ session.phase = "Paused"
     THEN /\ Registry!Resume(c, session.lease)
          /\ session' = [session EXCEPT !.phase = "Resuming"]
          /\ transition' = c /\ Goes(c, "resuming")
     ELSE Goes(c, "idle") /\ UNCHANGED <<registry, session, transition>>
  /\ UNCHANGED <<run, operation>> /\ Same /\ NoFault

(* The new lease is stored at once; then the target is prepared again. *)
Resumed(c) ==
  /\ at[c] = "resuming"
  /\ Registry!Switched(c)
  /\ session' = [session EXCEPT !.lease = next[c], !.gen = next[c].generation]
  /\ GoesWith(c, "waking", [NoArg EXCEPT !.gen = next[c].generation])
  /\ UNCHANGED <<run, locks>> /\ Same /\ NoFault

Woken(c, ok) ==
  /\ at[c] = "waking"
  /\ Registry!Leave(c)
  /\ IF ok THEN NoFault ELSE Fault
  /\ session' = IF ~ok THEN Stopped(session)
                ELSE IF revoked \/ session.ending THEN session
                ELSE [session EXCEPT !.phase = "Running", !.obs = 0, !.receipts = {},
                                     !.expired = FALSE]
  /\ run' = [run EXCEPT !.stop = @ \/ ~ok]
  /\ transition' = None /\ Goes(c, "idle")
  /\ UNCHANGED operation /\ Same

-----------------------------------------------------------------------------
(* release_control, by the run, the watcher and wait_finished.  It is       *)
(* repeated until it succeeds; its caller may time out.                     *)

(* What follows the loop of release_control without an await. *)
Released(p, s) ==
  /\ session' = IF p = Run THEN s ELSE [s EXCEPT !.phase = "Finished", !.package = FALSE]
  /\ Goes(p, IF p = Run THEN "left" ELSE IF p = Watch THEN "done" ELSE "idle")

(* Fault: the lease is taken out of the session before it is released. *)
ReleaseBegins_Takes(p) ==
  /\ at[p] = "release" /\ transition = None
  /\ LET ending == [session EXCEPT !.ending = TRUE, !.obs = 0, !.lease = NoLease] IN
     IF Registry!Holds(session.lease) /\ session.lease # NoLease
     THEN /\ Registry!Release(p, session.lease)
          /\ session' = ending
          /\ transition' = p /\ Goes(p, "releasing")
     ELSE /\ Released(p, ending)
          /\ UNCHANGED <<registry, transition>>
  /\ UNCHANGED <<run, operation>> /\ Same /\ NoFault

ReleaseBegins(p) ==
  /\ at[p] = "release" /\ transition = None
  /\ LET ending == [session EXCEPT !.ending = TRUE, !.obs = 0] IN
     IF Registry!Holds(session.lease) /\ session.lease # NoLease
     THEN /\ Registry!Release(p, session.lease)
          /\ session' = ending
          /\ transition' = p /\ Goes(p, "releasing")
     ELSE /\ Released(p, [ending EXCEPT !.lease = NoLease])
          /\ UNCHANGED <<registry, transition>>
  /\ UNCHANGED <<run, operation>> /\ Same /\ NoFault

ReleaseEnds(p) ==
  /\ at[p] = "releasing"
  /\ Registry!Switched(p)
  /\ Released(p, [session EXCEPT !.lease = NoLease])
  /\ transition' = None
  /\ UNCHANGED <<run, operation>> /\ Same /\ NoFault

(* Fault: the first failing cleanup is the last attempt. *)
ReleaseFails_Leaves(p) ==
  /\ at[p] = "releasing" /\ pc[p] = "unwinding"
  /\ Registry!SwitchDropped(p)
  /\ transition' = None
  /\ Released(p, session)
  /\ UNCHANGED <<run, operation>> /\ Same /\ NoFault

ReleaseFails(p) ==
  /\ at[p] = "releasing" /\ pc[p] = "unwinding"
  /\ Registry!SwitchDropped(p)
  /\ transition' = None /\ Goes(p, "failed")
  /\ UNCHANGED <<session, run, operation>> /\ Same /\ NoFault

(* The phase is written after the lock is free, before the next attempt. *)
ReleaseAgain(p) ==
  /\ at[p] = "failed"
  /\ session' = [session EXCEPT !.phase = "Stopping"]
  /\ Goes(p, "release")
  /\ UNCHANGED <<registry, run, locks>> /\ Same /\ NoFault

(* The task of the run waits as long as it takes; the fallback, the watcher *)
(* and a caller time out, and a caller may also be dropped.                 *)
GivesUp(p) ==
  /\ at[p] \in {"wait", "release", "releasing", "failed"}
  /\ p = Run => run.over
  /\ \/ pc[p] = "idle" /\ UNCHANGED registry
     \/ Registry!SwitchDropped(p)
  /\ transition' = IF transition = p THEN None ELSE transition
  /\ session' = IF p = Watch THEN [session EXCEPT !.phase = "Stopping"] ELSE session
  /\ gaveUp' = gaveUp \cup ({p} \cap {Run, Watch})
  /\ Goes(p, IF p = Run THEN "left" ELSE IF p = Watch THEN "done" ELSE "idle")
  /\ Fault
  /\ UNCHANGED <<run, operation, revoked, frames, injected, calls>>

(* The watcher and wait_finished wait for the end of the run first. *)
RunIsOver(p) ==
  /\ at[p] \in {"watch", "wait"} /\ run.over
  /\ Goes(p, "release")
  /\ UNCHANGED <<registry, session, run, locks>> /\ Same /\ NoFault

-----------------------------------------------------------------------------
(* Calls of the client and of the user. *)

(* A client names the generation it was told last and a frame it was given; *)
(* both may be out of date when the call is looked at.                      *)
Call(c) ==
  /\ at[c] = "idle" /\ calls < MaxCalls /\ session.listed
  /\ calls' = calls + 1
  /\ \E place \in {"pause", "ask", "shoot", "input", "resume", "stop"}, op \in Ops,
        f \in 1..Len(frames) \cup {0} :
       /\ (f # 0) = (place = "input")
       /\ place \in {"pause", "ask", "shoot"} => session.gen # 0
       /\ GoesWith(c, place, IF place \in {"resume", "stop"} THEN NoArg
                            ELSE [gen |-> session.gen, op |-> IF f = 0 THEN None ELSE op,
                                  frame |-> f])
  /\ UNCHANGED <<registry, session, run, locks, revoked, history, faults>>

(* The credential store revokes the token and then calls revoke. *)
Revoke(c) ==
  /\ at[c] = "idle" /\ calls < MaxCalls
  /\ calls' = calls + 1
  /\ ~revoked /\ revoked' = TRUE
  /\ Goes(c, IF session.listed THEN "stop" ELSE "idle")
  /\ UNCHANGED <<registry, session, run, locks, history, faults>>

(* request_stop, then wait_finished; the run is cancelled if its id is known. *)
Stops(c) ==
  /\ IF session.phase = "Finished" THEN UNCHANGED <<session, run>>
     ELSE /\ session' = Stopped(session)
          /\ run' = [run EXCEPT !.stop = @ \/ session.run]
  /\ Goes(c, IF session.run THEN "wait" ELSE "release")

(* stop_for_user and revoke *)
Stop(c) ==
  /\ at[c] = "stop"
  /\ Stops(c)
  /\ UNCHANGED <<registry, locks>> /\ Same /\ NoFault

(* release *)
ReleaseAsked(c) ==
  /\ at[c] = "ask" /\ transition = None
  /\ IF ~revoked /\ session.gen = arg[c].gen THEN Stops(c)
     ELSE Goes(c, "idle") /\ UNCHANGED <<session, run>>
  /\ UNCHANGED <<registry, locks>> /\ Same /\ NoFault

(* The deadline passes.  keepalive and a completed input only put it off. *)
Expire ==
  /\ session.phase = "Running" /\ ~session.expired
  /\ session' = [session EXCEPT !.expired = TRUE]
  /\ Fault
  /\ UNCHANGED <<registry, run, locks, at, arg>> /\ Same

-----------------------------------------------------------------------------
(* capture and input, one at a time per session. *)

Allowed(c) ==
  ~revoked /\ Running(arg[c].gen) /\ session.lease.generation = arg[c].gen

OperationBegins(c, from, place) ==
  /\ at[c] = from /\ operation = None
  /\ Allowed(c)
  /\ operation' = c /\ Goes(c, place)
  /\ UNCHANGED <<registry, run, transition>> /\ Same /\ NoFault

CaptureBegins(c) == OperationBegins(c, "shoot", "frame") /\ UNCHANGED session

Receipt(c) == <<arg[c].gen, arg[c].op>>

(* Fault: the receipt is written only when the input has ended. *)
InputBegins_NoReservation(c) ==
  /\ Receipt(c) \notin session.receipts
  /\ OperationBegins(c, "input", "act")
  /\ UNCHANGED session

(* The receipt is reserved before anything may reach the target. *)
InputBegins(c) ==
  /\ Receipt(c) \notin session.receipts
  /\ OperationBegins(c, "input", "act")
  /\ session' = [session EXCEPT !.receipts = @ \cup {Receipt(c)}]

(* Refused, or answered from the receipt. *)
OperationRefused(c) ==
  /\ at[c] \in {"shoot", "input"} /\ operation = None
  /\ \/ ~Allowed(c)
     \/ at[c] = "input" /\ Receipt(c) \in session.receipts
  /\ Goes(c, "idle")
  /\ UNCHANGED <<registry, session, run, locks>> /\ Same /\ NoFault

(* Refused by the registry, a stale frame, or any other error on the way. *)
OperationFails(c) ==
  /\ at[c] \in {"frame", "act", "inject"}
  /\ \/ pc[c] = "idle" /\ UNCHANGED registry
     \/ Registry!Turned(c)
     \/ Registry!Leave(c)
  /\ operation' = None /\ Goes(c, "idle")
  /\ UNCHANGED <<session, run, transition>> /\ Same /\ NoFault

(* The picture is taken, encoded and checked again, outside the gate. *)
Captured(c) ==
  /\ at[c] = "frame" /\ Len(frames) < MaxFrames
  /\ Registry!Leave(c)
  /\ frames' = Append(frames, arg[c].gen)
  /\ GoesWith(c, "check", [arg[c] EXCEPT !.frame = Len(frames')])
  /\ UNCHANGED <<session, run, locks, revoked, injected, gaveUp, calls, faults>>

(* Another thread may run between the check and the write. *)
Checked(c) ==
  /\ at[c] = "check"
  /\ IF ~revoked /\ Running(arg[c].gen)
     THEN Goes(c, "observe") /\ UNCHANGED operation
     ELSE Goes(c, "idle") /\ operation' = None
  /\ UNCHANGED <<registry, session, run, transition>> /\ Same /\ NoFault

Observe(c) ==
  /\ at[c] = "observe"
  /\ session' = [session EXCEPT !.obs = arg[c].frame]
  /\ operation' = None /\ Goes(c, "idle")
  /\ UNCHANGED <<registry, run, transition>> /\ Same /\ NoFault

(* Fault: the frame is compared, its generation is not. *)
Looks_AnyGeneration(c) ==
  /\ at[c] = "act" /\ pc[c] = "inside"
  /\ ~revoked /\ Running(arg[c].gen)
  /\ session.obs # 0 /\ session.obs = arg[c].frame
  /\ Goes(c, "inject")
  /\ UNCHANGED <<registry, session, run, locks>> /\ Same /\ NoFault

(* The frame the input names is the one observed last, in this generation; *)
(* then the coordinate space is asked for.                                 *)
Looks(c) ==
  /\ at[c] = "act" /\ pc[c] = "inside"
  /\ ~revoked /\ Running(arg[c].gen)
  /\ session.obs # 0 /\ session.obs = arg[c].frame /\ frames[session.obs] = arg[c].gen
  /\ Goes(c, "inject")
  /\ UNCHANGED <<registry, session, run, locks>> /\ Same /\ NoFault

(* The observation is consumed and the input injected.  A panic in it, the  *)
(* only way to leave without settling the receipt, counts as a fault.       *)
Inject(c, panics) ==
  /\ at[c] = "inject"
  /\ Registry!Leave(c)
  /\ injected' = Append(injected, arg[c])
  /\ session' = [session EXCEPT !.obs = 0,
                    !.receipts = IF panics THEN @ ELSE @ \cup {Receipt(c)}]
  /\ IF panics THEN Fault ELSE NoFault
  /\ operation' = None /\ Goes(c, "idle")
  /\ UNCHANGED <<run, transition, revoked, frames, gaveUp, calls>>

-----------------------------------------------------------------------------
Opens       == Cleaned \/ Prepared \/ Traced
Pauses(p)   == PauseBegins(p) \/ Paused(p)
Resumes(c)  == ResumeBegins(c) \/ Resumed(c) \/ \E ok \in BOOLEAN : Woken(c, ok)
Releases(p) == ReleaseBegins(p) \/ ReleaseEnds(p) \/ ReleaseFails(p) \/ ReleaseAgain(p)
Operates(c) == \/ CaptureBegins(c) \/ Captured(c) \/ Checked(c) \/ Observe(c)
               \/ InputBegins(c) \/ Looks(c) \/ \E panics \in BOOLEAN : Inject(c, panics)

(* What a task of the server does next, once it may. *)
Step(p) ==
  \/ GateOpens(p)
  \/ Pauses(p) \/ SwitchUnwinds(p) \/ Releases(p) \/ RunIsOver(p)
  \/ EnterGate(p)
  \/ p = Watch /\ (Submit \/ Record)
  \/ p = Run /\ (\/ RunFails \/ Prepare \/ Acquire \/ Claim \/ Claimed
                 \/ Opens \/ LoopEnds \/ LoopPauses \/ RunEnds)
  \/ p \in Callers /\ (\/ Resumes(p) \/ Stop(p) \/ ReleaseAsked(p) \/ Operates(p)
                        \/ OperationRefused(p) \/ OperationFails(p))

Environment ==
  \/ Panic \/ OpeningFails \/ Expire
  \/ \E p \in Procs : CleanupFails(p) \/ GivesUp(p)
  \/ \E c \in Callers : Call(c) \/ Revoke(c)

Next == Environment \/ \E p \in Procs : Step(p)

(* The server does not stand still while one of its tasks can go on: the    *)
(* least its scheduler gives.  Nobody has to call, fail or expire.  Calls   *)
(* and faults are bounded, so no task is passed over for ever.              *)
Fairness == WF_vars(\E p \in Procs : Step(p))

Spec == Init /\ [][Next]_vars /\ Fairness

-----------------------------------------------------------------------------
Places == {"start", "record", "watch", "done", "submitted", "queued", "prepared",
           "execute", "claim", "clean", "prepare", "trace", "loop", "left", "over", "idle", "pause",
           "pausing", "resume", "resuming", "waking", "ask", "stop", "wait",
           "release", "releasing", "failed", "shoot", "input", "frame", "check",
           "observe", "act", "inject"}

TypeOK ==
  /\ Registry!TypeOK
  /\ session \in [ phase : {"Starting", "Running", "Pausing", "Paused", "Resuming",
                            "Stopping", "Finished"},
                   gen : Nat, lease : Registry!Lease, obs : 0..MaxFrames,
                   receipts : SUBSET (Nat \X Ops), ending : BOOLEAN, listed : BOOLEAN,
                   run : BOOLEAN, package : BOOLEAN, expired : BOOLEAN ]
  /\ run \in [stop : BOOLEAN, activity : BOOLEAN, over : BOOLEAN]
  /\ transition \in Procs \cup {None} /\ operation \in Callers \cup {None}
  /\ at \in [Procs -> Places]
  /\ gaveUp \subseteq {Run, Watch}
  /\ \A i \in 1..Len(injected) : injected[i].op \in Ops

Acting(p) == pc[p] = "inside" /\ identity[p].kind = "owned"

(* mod.rs:203 "RunManager has released+Dropped its activity lease ...       *)
(* before this externally visible terminal state": once a session is shown *)
(* as finished, or its package may be replaced, it holds nothing and no    *)
(* input of it is under way, however stops, failures and panics overlap.   *)
FinishedIsReleased ==
  session.phase = "Finished" \/ ~session.package
    => owner = NoOwner /\ \A p \in Procs : ~Acting(p)

(* runner.rs:137 "Release failure deliberately keeps RunManager's slot":    *)
(* the next run of the target begins only when it was given back, unless   *)
(* the cleanup that follows a panic has timed out.                         *)
SlotHeldWhileOwned ==
  run.over /\ ~run.activity /\ Run \notin gaveUp => owner = NoOwner

(* input.rs:43 "retrying never blindly injects twice": whatever is retried, *)
(* paused, resumed or has panicked, an operation reaches the target once.  *)
OperationOnce ==
  \A i, j \in 1..Len(injected) :
    injected[i].gen = injected[j].gen /\ injected[i].op = injected[j].op => i = j

(* capture.rs:67: every input was decided on a picture of its own           *)
(* generation, and no picture is acted on twice; a capture that finishes   *)
(* after a pause or a resume authorises nothing.                           *)
FreshFrame ==
  \A i \in 1..Len(injected) :
    /\ frames[injected[i].frame] = injected[i].gen
    /\ \A j \in 1..Len(injected) : injected[j].frame = injected[i].frame => i = j

(* A session whose end was asked for, or whose token was revoked, gives the *)
(* target back for good, unless the watcher has timed out in the cleanup.  *)
SessionEnds ==
  session.ending \/ revoked ~> [](owner = NoOwner) \/ Watch \in gaveUp

(* The target is owned exactly until the session gives it back: neither the *)
(* session nor the slot of its run is over before (wait_finished, Drop).    *)
HeldToTheEnd == FinishedIsReleased /\ SlotHeldWhileOwned
=============================================================================
