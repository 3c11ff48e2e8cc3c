----------------------------- MODULE TimerCore -----------------------------
(***************************************************************************)
(* server/src/timer_core.rs over server/src/store.rs: one task with one    *)
(* input, its row, its occurrences and its runs.                           *)
(*                                                                         *)
(* The loop reads the row, decides, advances the cursor, claims the        *)
(* occurrence, submits a run and writes what came of it: every write is a  *)
(* request of its own to the database thread, so a user, an extension that *)
(* registers or leaves, the end of a run, or a crash comes between any     *)
(* two.  An action is one such request, or one critical section in memory. *)
(*                                                                         *)
(* Actors share the path from `supports` to the registration of the run:   *)
(* the loop comes to it from a claim, a user from "run now".               *)
(***************************************************************************)
EXTENDS Naturals, FiniteSets, FiniteSetsExt

CONSTANTS
  Users,        \* callers of the task API
  Loop,         \* the task of run_loop
  Runs,         \* run ids, never reused
  Schedules,    \* what a schedule comes to: the instants it names
  Rejected,     \* those the provider does not accept (any more)
  StartTime,    \* when the process is started
  MaxTime,      \* bound on the clock
  Lookback,     \* LOOKBACK, the misfire window
  MaxCalls,     \* bound on calls of the API
  MaxFaults,    \* bound on crashes and failing requests of the loop
  None

Times  == 0..MaxTime
Actors == Users \cup {Loop}

ASSUME ActorsAssumption == Loop \notin Users
ASSUME NoneAssumption == None \notin Runs \cup Times
ASSUME ScheduleAssumption ==
  /\ MaxTime \in Nat /\ StartTime \in Times /\ Lookback \in Nat
  /\ Schedules \subseteq SUBSET Times /\ Rejected \subseteq Schedules
ASSUME TimerBoundsAssumption ==
  MaxCalls \in Nat /\ MaxFaults \in Nat

VARIABLES
  now,
  row,         \* the task in timer_tasks, or None
  slot,        \* scheduled_runs: state and run of each occurrence; "ended"
               \* stands for success, failed and skipped
  registered,  \* the runner of the task is in the registry
  extension,   \* the calls that follow a (de)registration
  act,         \* where each actor is, and what it holds
  runs,
  active,      \* active_runs of the task: a run or None
  early,       \* completed_before_registration
  calls, faults,
  orphaned     \* history: occurrences that were running at a crash

memory   == <<registered, extension, act, active, early>>
counters == <<calls, faults, orphaned>>
vars     == <<now, row, slot, memory, runs, counters>>

-----------------------------------------------------------------------------
(* Schedules (cron_extension.rs). *)

next_after(schedule, t) ==
  LET later == {x \in schedule : x > t}
  IN IF later = {} THEN None ELSE Min(later)

latest_due(schedule, t) ==
  LET window == {x \in schedule : x <= t /\ t < x + Lookback}
  IN IF window = {} THEN None ELSE Max(window)

is_schedulable(task) == task # None /\ task.enabled /\ task.state = "active"

(* No cursor, or one that has outlived the misfire window. *)
Misfired(cursor, t) == cursor = None \/ cursor + Lookback < t

(* Fault: "before", where the code says "not after". *)
Due_Strict(task, t) ==
  IF Misfired(task.cursor, t) THEN latest_due(task.schedule, t)
  ELSE IF task.cursor < t THEN task.cursor ELSE None

(* What the loop makes of a row at an instant: the occurrence to dispatch. *)
Due(task, t) ==
  IF Misfired(task.cursor, t) THEN latest_due(task.schedule, t)
  ELSE IF task.cursor <= t THEN task.cursor ELSE None

-----------------------------------------------------------------------------
(* The requests of store.rs that write timer_tasks; an UPDATE of a row that *)
(* was deleted changes nothing.                                             *)

(* Fault: the row is inserted when it is gone. *)
set_wakeup_Inserts(cursor) ==
  IF row = None THEN [cursor |-> cursor] ELSE [row EXCEPT !.cursor = cursor]

set_wakeup(cursor) ==
  IF row = None THEN None ELSE [row EXCEPT !.cursor = cursor]

set_state(state, enabled, reason) ==
  IF row = None THEN None
  ELSE [row EXCEPT !.state = state, !.enabled = enabled, !.cursor = None, !.reason = reason]

set_dependency_missing(reason) ==
  IF row = None THEN None
  ELSE [row EXCEPT !.state = "dependency_missing", !.cursor = None, !.reason = reason]

suspend_active_for_runner ==
  IF is_schedulable(row) THEN set_dependency_missing("runner") ELSE row

(* The reason a re-registration looks for, "missing_dependency=<runner>". *)
missing_runner(task) ==
  task # None /\ task.state = "dependency_missing" /\ task.reason = "runner"

(* Fault: the resumption enables the task as well. *)
resume_from_missing_Enables(cursor) ==
  IF missing_runner(row)
  THEN [row EXCEPT !.state = "active", !.enabled = TRUE, !.cursor = cursor, !.reason = None]
  ELSE row

resume_from_missing(cursor) ==
  IF missing_runner(row)
  THEN [row EXCEPT !.state = "active", !.cursor = cursor, !.reason = None]
  ELSE row

(* The end of an occurrence, guarded by its state. *)
finish_slot(t, run) ==
  IF t # None /\ slot[t].state = "running"
  THEN [slot EXCEPT ![t] = [state |-> "ended", run |-> IF run = None THEN @.run ELSE run]]
  ELSE slot

-----------------------------------------------------------------------------
Idle == [pc |-> "idle", time |-> None, task |-> None, due |-> None, run |-> None, why |-> None]

Rest == [pc |-> "idle", next |-> None]

(* A process starts on the row the last one has left. *)
Init ==
  /\ now = StartTime
  /\ \/ row = None
     \/ \E schedule \in Schedules : \E cursor \in schedule \cup {None} :
          row = [ schedule |-> schedule, enabled |-> TRUE, cursor |-> cursor,
                  state |-> "active", reason |-> None ]
     \/ \E schedule \in Schedules : \E left \in {<<"suspended", "user">>, <<"cancelled", None>>} :
          row = [ schedule |-> schedule, enabled |-> FALSE, cursor |-> None,
                  state |-> left[1], reason |-> left[2] ]
  /\ slot = [t \in Times |-> [state |-> "open", run |-> None]]
  /\ registered = FALSE /\ extension = Rest
  /\ act = [a \in Actors |-> Idle]
  /\ runs = [r \in Runs |-> [state |-> "none", slot |-> None]]
  /\ active = None /\ early = {}
  /\ calls = 0 /\ faults = 0 /\ orphaned = {}

Goes(a, place) == act' = [act EXCEPT ![a] = place]

At(a, pc) == act[a].pc = pc

Going == {"running", "stopping"}

SameDb     == UNCHANGED <<row, slot>>
SameMemory == UNCHANGED <<registered, extension, active, early>>

-----------------------------------------------------------------------------
(* The loop. *)

(* The clock is read before the list of tasks. *)
LoopNow ==
  /\ At(Loop, "idle")
  /\ Goes(Loop, [Idle EXCEPT !.pc = "list", !.time = now])
  /\ SameDb /\ SameMemory
  /\ UNCHANGED <<now, runs, counters>>

LoopList ==
  /\ At(Loop, "list")
  /\ IF is_schedulable(row)
     THEN Goes(Loop, [Idle EXCEPT !.pc = "decide", !.time = act[Loop].time, !.task = row])
     ELSE Goes(Loop, Idle)
  /\ SameDb /\ SameMemory
  /\ UNCHANGED <<now, runs, counters>>

Rejects(task, t) == task.schedule \in Rejected /\ (task.cursor # None => task.cursor <= t)

reject_schedule ==
  /\ At(Loop, "decide")
  /\ Rejects(act[Loop].task, act[Loop].time)
  /\ row' = set_dependency_missing("schedule")
  /\ Goes(Loop, Idle)
  /\ SameMemory
  /\ UNCHANGED <<now, slot, runs, counters>>

(* Nothing is due: a cursor that is missing or too old is computed anew. *)
LoopPass ==
  LET seen == act[Loop].task
      next == next_after(seen.schedule, act[Loop].time)
  IN
  /\ At(Loop, "decide")
  /\ ~Rejects(seen, act[Loop].time) /\ Due(seen, act[Loop].time) = None
  /\ row' = IF Misfired(seen.cursor, act[Loop].time) /\ next # None THEN set_wakeup(next) ELSE row
  /\ Goes(Loop, Idle)
  /\ SameMemory
  /\ UNCHANGED <<now, slot, runs, counters>>

(* The cursor is advanced in the row before the occurrence is claimed. *)
LoopAdvance ==
  LET seen == act[Loop].task
      due  == Due(seen, act[Loop].time)
  IN
  /\ At(Loop, "decide")
  /\ ~Rejects(seen, act[Loop].time) /\ due # None
  /\ row' = set_wakeup(next_after(seen.schedule, act[Loop].time))
  /\ Goes(Loop, [Idle EXCEPT !.pc = "claim", !.due = due])
  /\ SameMemory
  /\ UNCHANGED <<now, slot, runs, counters>>

(* Fault: the claim replaces the row that is there. *)
Claim_Replaces(a) ==
  /\ At(a, "claim")
  /\ slot' = [slot EXCEPT ![act[a].due].state = "running"]
  /\ Goes(a, [act[a] EXCEPT !.pc = "check"])
  /\ SameMemory
  /\ UNCHANGED <<now, row, runs, counters>>

(* The unique key of scheduled_runs lets one claim through. *)
Claim(a) ==
  LET t == act[a].due IN
  /\ At(a, "claim")
  /\ IF slot[t].state = "open"
     THEN /\ slot' = [slot EXCEPT ![t].state = "running"]
          /\ Goes(a, [act[a] EXCEPT !.pc = "check"])
     ELSE /\ slot' = slot
          /\ Goes(a, Idle)
  /\ SameMemory
  /\ UNCHANGED <<now, row, runs, counters>>

(* The list, the advance or the claim fails: the loop goes on with the next pass. *)
LoopError ==
  /\ faults < MaxFaults
  /\ act[Loop].pc \in {"list", "decide", "claim"}
  /\ faults' = faults + 1
  /\ Goes(Loop, Idle)
  /\ SameDb /\ SameMemory
  /\ UNCHANGED <<now, runs, calls, orphaned>>

-----------------------------------------------------------------------------
(* From `supports` to the registration of the run. *)

Check(a) ==
  /\ At(a, "check")
  /\ Goes(a, IF registered THEN [act[a] EXCEPT !.pc = "submit"]
             ELSE [act[a] EXCEPT !.pc = "missing", !.why = "runner"])
  /\ SameDb /\ SameMemory
  /\ UNCHANGED <<now, runs, counters>>

(* The runner accepts, under an id not used before: which does not matter.  *)
(* The run goes on by itself from here.                                     *)
SubmitAccepted(a, r) ==
  /\ At(a, "submit") /\ registered
  /\ runs[r].state = "none"
  /\ r = CHOOSE x \in Runs : runs[x].state = "none"
  /\ runs' = [runs EXCEPT ![r].state = "running", ![r].slot = act[a].due]
  /\ Goes(a, [act[a] EXCEPT !.pc = "register", !.run = r])
  /\ SameDb /\ SameMemory
  /\ UNCHANGED <<now, counters>>

(* The device is busy, the service stops or the request is invalid, or the *)
(* runner misses something itself ("resource").                            *)
(* The registry looks the runner up again: gone, it is "unavailable", a    *)
(* reason other than the one a registration looks for.                     *)
SubmitRefused(a) ==
  /\ At(a, "submit")
  /\ IF registered
     THEN \/ Goes(a, [act[a] EXCEPT !.pc = "reject"])
          \/ Goes(a, [act[a] EXCEPT !.pc = "missing", !.why = "resource"])
     ELSE Goes(a, [act[a] EXCEPT !.pc = "missing", !.why = "unavailable"])
  /\ SameDb /\ SameMemory
  /\ UNCHANGED <<now, runs, counters>>

WriteMissing(a) ==
  /\ At(a, "missing")
  /\ row' = set_dependency_missing(act[a].why)
  /\ Goes(a, [act[a] EXCEPT !.pc = "reject", !.why = None])
  /\ SameMemory
  /\ UNCHANGED <<now, slot, runs, counters>>

(* Fault: the occurrence is left as it was claimed. *)
finish_rejected_Returns(a) ==
  /\ At(a, "reject")
  /\ Goes(a, Idle)
  /\ SameDb /\ SameMemory
  /\ UNCHANGED <<now, runs, counters>>

finish_rejected(a) ==
  /\ At(a, "reject")
  /\ slot' = finish_slot(act[a].due, None)
  /\ Goes(a, Idle)
  /\ SameMemory
  /\ UNCHANGED <<now, row, runs, counters>>

(* Fault: the run is registered although it is over. *)
register_active_run_Always(a) ==
  /\ At(a, "register")
  /\ active' = act[a].run
  /\ Goes(a, IF act[a].due = None THEN Idle ELSE [act[a] EXCEPT !.pc = "attach"])
  /\ SameDb
  /\ UNCHANGED <<now, registered, extension, early, runs, counters>>

(* A run that completed before it is registered is only struck off. *)
register_active_run(a) ==
  LET r == act[a].run IN
  /\ At(a, "register")
  /\ IF r \in early
     THEN early' = early \ {r} /\ active' = active
     ELSE early' = early /\ active' = r
  /\ Goes(a, IF act[a].due = None THEN Idle ELSE [act[a] EXCEPT !.pc = "attach"])
  /\ SameDb
  /\ UNCHANGED <<now, registered, extension, runs, counters>>

attach_scheduled_run(a) ==
  LET t == act[a].due IN
  /\ At(a, "attach")
  /\ slot' = IF slot[t].state = "running" THEN [slot EXCEPT ![t].run = act[a].run] ELSE slot
  /\ Goes(a, Idle)
  /\ SameMemory
  /\ UNCHANGED <<now, row, runs, counters>>

-----------------------------------------------------------------------------
(* The users: api/tasks.rs and the operations of TimerCore it calls. *)

Calls(u) == At(u, "idle") /\ calls < MaxCalls /\ calls' = calls + 1

NotYet == UNCHANGED <<faults, orphaned>>

(* api_save_task writes the whole row: an edit drops the cursor. *)
SaveTask(u) ==
  /\ Calls(u)
  /\ \E schedule \in Schedules \ Rejected, enabled \in BOOLEAN :
       row' = [ schedule |-> schedule, enabled |-> enabled, cursor |-> None,
                state  |-> IF enabled THEN "active" ELSE "suspended",
                reason |-> IF enabled THEN None ELSE "user" ]
  /\ SameMemory
  /\ UNCHANGED <<now, slot, act, runs>> /\ NotYet

DeleteTask(u) ==
  /\ Calls(u)
  /\ row # None /\ row' = None
  /\ SameMemory
  /\ UNCHANGED <<now, slot, act, runs>> /\ NotYet

(* suspend_task, and the suspension of the tasks of a package. *)
SuspendTask(u) ==
  /\ Calls(u)
  /\ row # None /\ row' = set_state("suspended", FALSE, "user")
  /\ SameMemory
  /\ UNCHANGED <<now, slot, act, runs>> /\ NotYet

(* resume_task: read, set active, set the cursor. *)
ResumeGet(u) ==
  /\ Calls(u)
  /\ row # None /\ row.state # "cancelled" /\ row.schedule \notin Rejected
  /\ Goes(u, [Idle EXCEPT !.pc = "resuming", !.due = next_after(row.schedule, now)])
  /\ SameDb /\ SameMemory
  /\ UNCHANGED <<now, runs>> /\ NotYet

ResumeState(u) ==
  /\ At(u, "resuming")
  /\ row' = set_state("active", TRUE, None)
  /\ Goes(u, [act[u] EXCEPT !.pc = "waking"])
  /\ SameMemory
  /\ UNCHANGED <<now, slot, runs, counters>>

ResumeWakeup(u) ==
  /\ At(u, "waking")
  /\ row' = set_wakeup(act[u].due)
  /\ Goes(u, Idle)
  /\ SameMemory
  /\ UNCHANGED <<now, slot, runs, counters>>

(* cancel_task: read the active run, stop it, write the state. *)
CancelGet(u) ==
  /\ Calls(u)
  /\ Goes(u, IF active = None THEN [Idle EXCEPT !.pc = "cancelled"]
             ELSE [Idle EXCEPT !.pc = "cancelling", !.run = active])
  /\ SameDb /\ SameMemory
  /\ UNCHANGED <<now, runs>> /\ NotYet

(* Through the runners that are registered; a failure ends the call.  A run *)
(* that is over is refused, or accepted by a runner that does not mind.     *)
CancelRun(u) ==
  LET r == act[u].run IN
  /\ At(u, "cancelling")
  /\ \/ /\ registered
        /\ runs' = [runs EXCEPT ![r].state = IF @ = "running" THEN "stopping" ELSE @]
        /\ Goes(u, [Idle EXCEPT !.pc = "cancelled"])
     \/ /\ ~registered \/ runs[r].state \notin Going
        /\ runs' = runs
        /\ Goes(u, Idle)
  /\ SameDb /\ SameMemory
  /\ UNCHANGED <<now, counters>>

CancelState(u) ==
  /\ At(u, "cancelled")
  /\ row' = set_state("cancelled", FALSE, None)
  /\ Goes(u, Idle)
  /\ SameMemory
  /\ UNCHANGED <<now, slot, runs, counters>>

(* api_run_task_now: the row, then submit_now. *)
RunNow(u) ==
  /\ Calls(u)
  /\ row # None
  /\ Goes(u, [Idle EXCEPT !.pc = "now", !.task = row])
  /\ SameDb /\ SameMemory
  /\ UNCHANGED <<now, runs>> /\ NotYet

CheckNow(u) ==
  /\ At(u, "now")
  /\ Goes(u, IF ~registered THEN [Idle EXCEPT !.pc = "missing", !.why = "runner"]
             ELSE IF is_schedulable(act[u].task) THEN [Idle EXCEPT !.pc = "submit"]
             ELSE Idle)
  /\ SameDb /\ SameMemory
  /\ UNCHANGED <<now, runs, counters>>

-----------------------------------------------------------------------------
(* The extension that owns the runner (scheduler.rs). *)

Register ==
  /\ extension.pc = "idle" /\ ~registered
  /\ registered' = TRUE
  /\ extension' = [pc |-> "listing", next |-> None]
  /\ SameDb
  /\ UNCHANGED <<now, act, active, early, runs, counters>>

ListMissing ==
  /\ extension.pc = "listing"
  /\ extension' = IF missing_runner(row) /\ row.schedule \notin Rejected
                  THEN [pc |-> "resuming", next |-> next_after(row.schedule, now)]
                  ELSE Rest
  /\ SameDb
  /\ UNCHANGED <<now, registered, act, active, early, runs, counters>>

ResumeMissing ==
  /\ extension.pc = "resuming"
  /\ row' = resume_from_missing(extension.next)
  /\ extension' = Rest
  /\ UNCHANGED <<now, slot, registered, act, active, early, runs, counters>>

Unregister ==
  /\ extension.pc = "idle" /\ registered
  /\ registered' = FALSE
  /\ extension' = [pc |-> "suspending", next |-> None]
  /\ SameDb
  /\ UNCHANGED <<now, act, active, early, runs, counters>>

SuspendMissing ==
  /\ extension.pc = "suspending"
  /\ row' = suspend_active_for_runner
  /\ extension' = Rest
  /\ UNCHANGED <<now, slot, registered, act, active, early, runs, counters>>

-----------------------------------------------------------------------------
(* The runs. *)

(* A run ends and its hook is called: the maps at once, the rows later. *)
RunEnds(r) ==
  /\ runs[r].state \in Going
  /\ runs' = [runs EXCEPT ![r].state = "over"]
  /\ IF active = r THEN active' = None /\ early' = early
     ELSE active' = active /\ early' = early \cup {r}
  /\ SameDb
  /\ UNCHANGED <<now, registered, extension, act, counters>>

Book(r) ==
  /\ runs[r].state = "over"
  /\ slot' = finish_slot(runs[r].slot, r)
  /\ runs' = [runs EXCEPT ![r].state = "gone"]
  /\ SameMemory
  /\ UNCHANGED <<now, row, act, counters>>

-----------------------------------------------------------------------------
Tick ==
  /\ now < MaxTime
  /\ now' = now + 1
  /\ SameDb /\ SameMemory
  /\ UNCHANGED <<act, runs, counters>>

(* The rows survive; runs and what was to be written of them do not. *)
Crash ==
  /\ faults < MaxFaults
  /\ faults' = faults + 1
  /\ orphaned' = orphaned \cup {t \in Times : slot[t].state = "running"}
  /\ registered' = FALSE /\ extension' = Rest
  /\ act' = [a \in Actors |-> Idle]
  /\ active' = None /\ early' = {}
  /\ runs' = [r \in Runs |->
       IF runs[r].state = "none" THEN runs[r] ELSE [runs[r] EXCEPT !.state = "gone"]]
  /\ SameDb
  /\ UNCHANGED <<now, calls>>

Dispatch(a) ==
  \/ Claim(a) \/ Check(a) \/ SubmitRefused(a) \/ (\E r \in Runs : SubmitAccepted(a, r))
  \/ WriteMissing(a) \/ finish_rejected(a) \/ register_active_run(a) \/ attach_scheduled_run(a)

(* One more step of what an actor has begun. *)
RunLoop == LoopNow \/ LoopList \/ reject_schedule \/ LoopPass \/ LoopAdvance \/ Dispatch(Loop)
UserGoes(u) == \/ ResumeState(u) \/ ResumeWakeup(u) \/ CancelRun(u) \/ CancelState(u)
               \/ CheckNow(u) \/ Dispatch(u)
UserCalls(u) == \/ SaveTask(u) \/ DeleteTask(u) \/ SuspendTask(u) \/ ResumeGet(u)
                \/ CancelGet(u) \/ RunNow(u)
ExtensionGoes == ListMissing \/ ResumeMissing \/ SuspendMissing

Next ==
  \/ RunLoop \/ LoopError
  \/ \E u \in Users : UserGoes(u) \/ UserCalls(u)
  \/ ExtensionGoes \/ Register \/ Unregister
  \/ \E r \in Runs : RunEnds(r) \/ Book(r)
  \/ Tick \/ Crash

Spec == Init /\ [][Next]_vars

(* The runtime goes on with the loop, and with the writes of a run that is *)
(* over; nobody has to call, register, end a run or fail.                  *)
Fairness == WF_vars(RunLoop) /\ \A r \in Runs : WF_vars(Book(r))

FairSpec == Spec /\ Fairness

-----------------------------------------------------------------------------
Instants == Times \cup {None}
Reasons  == {"runner", "unavailable", "resource", "schedule", "user", None}
States   == {"active", "suspended", "cancelled", "dependency_missing"}

Tasks == [ schedule : Schedules, enabled : BOOLEAN, cursor : Instants,
           state : States, reason : Reasons ]

Places == { "idle", "list", "decide", "claim", "check", "submit", "missing", "reject",
            "register", "attach", "resuming", "waking", "cancelling", "cancelled", "now" }

(* The shape of the rows and of what the actors hold. *)
TypeOK ==
  /\ now \in Times
  /\ row \in Tasks \cup {None}
  /\ slot \in [Times -> [state : {"open", "running", "ended"}, run : Runs \cup {None}]]
  /\ registered \in BOOLEAN
  /\ extension \in [pc : {"idle", "listing", "resuming", "suspending"}, next : Instants]
  /\ act \in [Actors ->
       [ pc : Places, time : Instants, task : Tasks \cup {None}, due : Instants,
         run : Runs \cup {None}, why : Reasons ]]
  /\ runs \in [Runs ->
       [state : {"none", "over", "gone"} \cup Going, slot : Instants]]
  /\ active \in Runs \cup {None} /\ early \subseteq Runs
  /\ calls \in 0..MaxCalls /\ faults \in 0..MaxFaults
  /\ orphaned \subseteq Times

(* A run may end before its submitter registers it (timer_core.rs:1580,    *)
(* 1738): what active_runs names is a run that goes on, never one that is  *)
(* over and would be "cancelled" in place of the next.                     *)
ActiveIsRunning == active # None => runs[active].state \in Going

(* What Occurrences sees of an occurrence.                                 *)
Stage  == [t \in Times |-> IF slot[t].state = "open" THEN "open"
                           ELSE IF slot[t].state = "running" THEN "taken" ELSE "ended"]
Starts == [t \in Times |-> Cardinality({r \in Runs : runs[r].slot = t})]

Once == INSTANCE Occurrences WITH stage <- Stage, starts <- Starts

(* However often the row is edited, deleted, missed or read again after a  *)
(* crash, an occurrence is taken once, starts one run at most and has one  *)
(* end (store.rs:1839, 1859).                                              *)
OnceEach == Once!Spec

UserActs == calls' # calls \/ \E u \in Users : act'[u] # act[u]

(* A task its user has disabled, suspended or cancelled is scheduled again *)
(* by nobody but a user, although the loop marks it dependency_missing     *)
(* from an old read and a registration then sets it active                 *)
(* (timer_core.rs:1375, store.rs:1561, 1661).                              *)
IntentKept ==
  [][row # None /\ ~row.enabled /\ is_schedulable(row') => UserActs]_vars

(* An occurrence that was claimed does not stay in running: it ends, or    *)
(* its run goes on, or a crash has cut it off (timer_core.rs:1352-1425).   *)
ClaimSettles ==
  \A t \in Times :
    slot[t].state = "running" ~>
      \/ slot[t].state # "running"
      \/ \E r \in Runs : runs[r].slot = t /\ runs[r].state \in Going
      \/ t \in orphaned

(* A schedulable task whose cursor has come is dispatched, unless somebody *)
(* changes the task or the cursor leaves the misfire window first          *)
(* (timer_core.rs:1223-1290).                                              *)
DueIsTaken ==
  \A t \in Times :
    (is_schedulable(row) /\ row.cursor = t /\ t <= now /\ slot[t].state = "open") ~>
      \/ slot[t].state # "open"
      \/ ~is_schedulable(row) \/ row.cursor # t
      \/ t + Lookback < now

(* The cursor of a schedulable task is an instant of its schedule: after   *)
(* an edit the old cursor must not fire (docs/PITFALLS.md:721).            *)
CursorFitsSchedule ==
  is_schedulable(row) /\ row.cursor # None => row.cursor \in row.schedule

(* Nothing is under way that would still look at, or write, the row. *)
Quiet == extension.pc = "idle" /\ \A a \in Actors : act[a].pc \in {"idle", "list"}

(* With its runner registered and nothing under way, no task waits for the *)
(* runner: it is resumed when the runner is registered (ADR-13:30).        *)
MissingRecovers ==
  ~ ( /\ registered /\ Quiet
      /\ row # None /\ row.state = "dependency_missing"
      /\ row.reason \in {"runner", "unavailable"}
      /\ row.schedule \notin Rejected )
=============================================================================
