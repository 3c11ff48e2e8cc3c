----------------------------- MODULE RunManager -----------------------------
(***************************************************************************)
(* server/src/run_manager.rs: the registry of runs.  A run is submitted,   *)
(* executed by a task of its own, may be cancelled at any moment, and ends *)
(* in an archive; a device has one run at a time.  The maps behind locks   *)
(* (active_by_device, runs, history) are touched in short critical         *)
(* sections, so an action is one critical section, or one await, of one    *)
(* of the actors: the task of a run, a submitter, a caller of cancel, a    *)
(* waiter (wait_terminal), shutdown, maintenance, record removal.          *)
(*                                                                         *)
(* A run's task may panic in foreign code (prepare, execute, release, a    *)
(* hook): the guards then unwind.  The process may crash: only the journal *)
(* survives, and recover_run_history rewrites it at the next start.        *)
(***************************************************************************)
EXTENDS Naturals, Sequences

CONSTANTS
  Runs,          \* run ids (UUIDs: never reused)
  Devices,       \* device ids
  Waiters,       \* callers of wait_terminal
  NoRun,         \* no run
  HistoryCap,    \* HISTORY_CAP
  MaxRestarts,   \* bound on crashes of the process
  PersistFails   \* may a write of the journal fail (it is only logged)

ASSUME NoRunAssumption == NoRun \notin Runs
ASSUME BoundsAssumption ==
  HistoryCap \in Nat \ {0} /\ MaxRestarts \in Nat /\ PersistFails \in BOOLEAN

VARIABLES
  slot,          \* active_by_device: Devices -> run or NoRun
  runs,          \* the keys of runs
  record,        \* record.state of a run, in runs and later in history
  cancelled,     \* cancel_requested, and the stop flag that is set with it
  history,       \* the archive, oldest first
  journal,       \* the row of a run in run_records
  archiveGate,   \* the run whose finalize holds archive_gate, or NoRun
  draining, maintenance,
  pc,            \* where the task of a run is
  device,        \* the device a run was submitted for
  outcome,       \* the local outcome of run_task
  lease,         \* the run holds its activity lease
  hook,          \* on_finish has not been taken
  drain,         \* begin_shutdown: "off", "waiting", "done" or the ids left to cancel
  waiter,        \* wait_terminal: one record per waiter
  restarts,
  (* history, read by no guard: what the hooks were told, which runs the  *)
  (* archive has forgotten, removed rows, rows whose write failed         *)
  told, observed, forgotten, removed, unwritten

registry == <<slot, runs, record, cancelled>>
archive  == <<history, journal, archiveGate>>
gates    == <<draining, maintenance, drain>>
task     == <<device, outcome, lease, hook>>
ghosts   == <<told, observed, forgotten, removed, unwritten>>
vars     == <<registry, archive, gates, pc, task, waiter, restarts, ghosts>>

Terminal == {"success", "failed", "cancelled"}
States   == {"starting", "running", "stopping"} \cup Terminal

PCs == {"unborn", "admitting", "queued", "preparing", "marking", "entering",
        "executing", "releasing", "completing", "hooking", "dropping",
        "persisting", "observing", "done", "lost"}

Idle == [pc |-> "idle", run |-> NoRun, got |-> "none", woken |-> FALSE]

Init ==
  /\ slot = [d \in Devices |-> NoRun]
  /\ runs = {}
  /\ record = [r \in Runs |-> "starting"]
  /\ cancelled = [r \in Runs |-> FALSE]
  /\ history = <<>> /\ archiveGate = NoRun
  /\ journal = [r \in Runs |-> "absent"]
  /\ draining = FALSE /\ maintenance = FALSE /\ drain = "off"
  /\ pc = [r \in Runs |-> "unborn"]
  /\ device \in [Runs -> Devices]
  /\ outcome = [r \in Runs |-> "none"]
  /\ lease = [r \in Runs |-> FALSE]
  /\ hook = [r \in Runs |-> TRUE]
  /\ waiter = [w \in Waiters |-> Idle]
  /\ restarts = 0
  /\ told = [r \in Runs |-> <<>>] /\ observed = [r \in Runs |-> "none"]
  /\ forgotten = {} /\ removed = {} /\ unwritten = {}

Goto(r, l) == pc' = [pc EXCEPT ![r] = l]

Archived(r) == \E i \in DOMAIN history : history[i] = r

(* state_changed.notify_waiters: reaches whoever has created its future.   *)
Notify == waiter' = [w \in Waiters |->
                       IF waiter[w].pc = "idle" THEN waiter[w]
                       ELSE [waiter[w] EXCEPT !.woken = TRUE]]

(* persist: a failed write leaves the row as it was. *)
Persist(r, s) ==
  \/ /\ journal' = [journal EXCEPT ![r] = s]
     /\ unwritten' = unwritten \ {r}
  \/ /\ PersistFails
     /\ unwritten' = unwritten \cup {r}
     /\ UNCHANGED journal

-----------------------------------------------------------------------------
(* submit *)

(* One submission at a time holds the update barrier's reservation; the    *)
(* gate of the shutdown is read before active_by_device is locked.         *)
SubmitCheck(r) ==
  /\ pc[r] = "unborn"
  /\ \A s \in Runs : pc[s] # "admitting"
  /\ ~draining
  /\ Goto(r, "admitting")
  /\ UNCHANGED <<registry, archive, gates, task, waiter, restarts, ghosts>>

(* Under active_by_device: maintenance or a run of the device refuses. *)
Refuses(d) == maintenance \/ (slot[d] # NoRun /\ slot[d] \in runs)

SubmitRefused(r) ==
  /\ pc[r] = "admitting"
  /\ Refuses(device[r])
  /\ Goto(r, "unborn")
  /\ UNCHANGED <<registry, archive, gates, task, waiter, restarts, ghosts>>

(* Fault: the maintenance flag is not read under the lock. *)
SubmitInner_IgnoresMaintenance(r) ==
  /\ pc[r] = "admitting"
  /\ slot[device[r]] = NoRun \/ slot[device[r]] \notin runs
  /\ Persist(r, "starting")
  /\ runs' = runs \cup {r}
  /\ record' = [record EXCEPT ![r] = "starting"]
  /\ slot' = [slot EXCEPT ![device[r]] = r]
  /\ Goto(r, "queued")
  /\ Notify
  /\ UNCHANGED <<cancelled, history, archiveGate, gates, task, restarts,
                 told, observed, forgotten, removed>>

(* submit_inner, still under active_by_device; a slot whose run is unknown *)
(* is reclaimed.                                                           *)
SubmitInner(r) ==
  /\ pc[r] = "admitting"
  /\ ~Refuses(device[r])
  /\ Persist(r, "starting")
  /\ runs' = runs \cup {r}
  /\ record' = [record EXCEPT ![r] = "starting"]
  /\ slot' = [slot EXCEPT ![device[r]] = r]
  /\ Goto(r, "queued")
  /\ Notify
  /\ UNCHANGED <<cancelled, history, archiveGate, gates, task, restarts,
                 told, observed, forgotten, removed>>

-----------------------------------------------------------------------------
(* run_task *)

(* A step of the task that only sets the locals of run_task. *)
Local(r, l, o, holds) ==
  /\ Goto(r, l)
  /\ outcome' = [outcome EXCEPT ![r] = o]
  /\ lease' = [lease EXCEPT ![r] = holds]
  /\ UNCHANGED <<registry, archive, gates, device, hook, waiter, restarts, ghosts>>

(* A run cancelled while starting never reaches the executor. *)
Begin(r) ==
  /\ pc[r] = "queued"
  /\ IF cancelled[r] THEN Local(r, "completing", "cancelled", FALSE)
                     ELSE Local(r, "preparing", "none", FALSE)

PrepareFailed(r) ==
  /\ pc[r] = "preparing"
  /\ Local(r, "completing", IF cancelled[r] THEN "cancelled" ELSE "failed", FALSE)

(* prepare returned, and acquire with it. *)
Prepared(r) ==
  /\ pc[r] = "preparing"
  /\ \/ Local(r, "marking", "none", TRUE)
     \/ Local(r, "completing", "failed", FALSE)

(* mark_state(Running) *)
MarkRunning(r) ==
  /\ pc[r] = "marking"
  /\ record' = IF r \in runs THEN [record EXCEPT ![r] = "running"] ELSE record
  /\ Goto(r, "entering")
  /\ Notify
  /\ UNCHANGED <<slot, runs, cancelled, archive, gates, task, restarts, ghosts>>

(* The second look at the cancellation, after Running was published. *)
Enter(r) ==
  /\ pc[r] = "entering"
  /\ IF cancelled[r] THEN Local(r, "releasing", "cancelled", TRUE)
                     ELSE Local(r, "executing", "none", TRUE)

(* The executor returned and the cancellation is looked at once more. *)
Executed(r) ==
  /\ pc[r] = "executing"
  /\ \E o \in {"success", "failed"} :
       Local(r, "releasing", IF cancelled[r] THEN "cancelled" ELSE o, TRUE)

(* lease.release().await; drop(lease) *)
Released(r) ==
  /\ pc[r] = "releasing"
  /\ Local(r, "completing", outcome[r], FALSE)

(* Faults: the class decides although a cancellation was accepted; or the  *)
(* outcome passed to the hook is not corrected.                            *)
Complete_ClassWins(r) ==
  /\ pc[r] = "completing"
  /\ record' = IF record[r] \in Terminal THEN record ELSE [record EXCEPT ![r] = outcome[r]]
  /\ Notify /\ Goto(r, "hooking")
  /\ UNCHANGED <<slot, runs, cancelled, archive, gates, task, restarts, ghosts>>

Complete_KeepsOutcome(r) ==
  /\ pc[r] = "completing"
  /\ record' = [record EXCEPT ![r] = IF cancelled[r] THEN "cancelled" ELSE outcome[r]]
  /\ Notify /\ Goto(r, "hooking")
  /\ UNCHANGED <<slot, runs, cancelled, archive, gates, task, restarts, ghosts>>

(* FinishGuard::complete up to the hook: mark_terminal_checked, in which   *)
(* an accepted cancellation wins over the class.                           *)
Complete(r) ==
  /\ pc[r] = "completing"
  /\ LET marks == r \in runs /\ record[r] \notin Terminal
         final == IF cancelled[r] THEN "cancelled" ELSE outcome[r] IN
     /\ record' = IF marks THEN [record EXCEPT ![r] = final] ELSE record
     /\ outcome' = IF r \in runs /\ record'[r] = "cancelled"
                     THEN [outcome EXCEPT ![r] = "cancelled"] ELSE outcome
     /\ IF marks THEN Notify ELSE UNCHANGED waiter
  /\ Goto(r, "hooking")
  /\ UNCHANGED <<slot, runs, cancelled, archive, gates, device, lease, hook,
                 restarts, ghosts>>

(* What the hook is told: the state of the record and the outcome. *)
Tell(r, o) ==
  /\ hook' = [hook EXCEPT ![r] = FALSE]
  /\ told' = IF hook[r] THEN [told EXCEPT ![r] = Append(@, <<record[r], o>>)] ELSE told

(* Fault: the hook is cloned, not taken. *)
CallHook_Clones(r) ==
  /\ pc[r] = "hooking"
  /\ told' = [told EXCEPT ![r] = Append(@, <<record[r], outcome[r]>>)]
  /\ Goto(r, "dropping")
  /\ UNCHANGED <<registry, archive, gates, task, waiter, restarts,
                 observed, forgotten, removed, unwritten>>

(* The hook is called; it may return or panic, and it is gone either way.  *)
CallHook(r) ==
  /\ pc[r] = "hooking"
  /\ Tell(r, outcome[r])
  /\ Goto(r, "dropping")
  /\ UNCHANGED <<registry, archive, gates, device, outcome, lease, waiter, restarts,
                 observed, forgotten, removed, unwritten>>

(* Fault: on a panic the slot's guard goes before the lease. *)
Panic_LeaseLast(r) ==
  /\ pc[r] \in {"preparing", "executing", "releasing"}
  /\ Local(r, "dropping", "none", lease[r])

(* A panic in prepare, execute or release unwinds run_task: the lease is   *)
(* dropped first, then FinishGuard.                                        *)
Panic(r) ==
  /\ pc[r] \in {"preparing", "executing", "releasing"}
  /\ Local(r, "dropping", "none", FALSE)

-----------------------------------------------------------------------------
(* FinishGuard::drop: finalize, the observer, the hook if it is still there *)

Final(r) == IF record[r] \in Terminal THEN record[r]
            ELSE IF cancelled[r] THEN "cancelled" ELSE "failed"

(* Fault: the archive is trimmed one record too late. *)
Finalize_Overfull(r) ==
  /\ pc[r] = "dropping"
  /\ archiveGate = NoRun
  /\ archiveGate' = r
  /\ record' = [record EXCEPT ![r] = Final(r)]
  /\ runs' = runs \ {r}
  /\ slot' = [d \in Devices |-> IF d = device[r] /\ slot[d] = r THEN NoRun ELSE slot[d]]
  /\ history' = Append(IF Len(history) > HistoryCap THEN Tail(history) ELSE history, r)
  /\ forgotten' = forgotten
  /\ Goto(r, "persisting")
  /\ UNCHANGED <<cancelled, journal, gates, task, waiter, restarts,
                 told, observed, removed, unwritten>>

(* archive_gate, then active_by_device, runs and history together. *)
Finalize(r) ==
  /\ pc[r] = "dropping"
  /\ archiveGate = NoRun
  /\ r \in runs
  /\ archiveGate' = r
  /\ record' = [record EXCEPT ![r] = Final(r)]
  /\ runs' = runs \ {r}
  /\ slot' = [d \in Devices |-> IF d = device[r] /\ slot[d] = r THEN NoRun ELSE slot[d]]
  /\ LET full == Len(history) >= HistoryCap IN
     /\ history' = Append(IF full THEN Tail(history) ELSE history, r)
     /\ forgotten' = IF full THEN forgotten \cup {Head(history)} ELSE forgotten
  /\ Goto(r, "persisting")
  /\ UNCHANGED <<cancelled, journal, gates, task, waiter, restarts,
                 told, observed, removed, unwritten>>

(* Fault: archive_gate is never given back. *)
Finished_HoldsGate(r) ==
  /\ pc[r] = "persisting"
  /\ Persist(r, record[r])
  /\ Goto(r, "observing")
  /\ Notify
  /\ UNCHANGED <<registry, history, archiveGate, gates, task, restarts,
                 told, observed, forgotten, removed>>

(* The row is written after the locks are gone, still under archive_gate. *)
Finished(r) ==
  /\ pc[r] = "persisting"
  /\ Persist(r, record[r])
  /\ archiveGate' = NoRun
  /\ Goto(r, "observing")
  /\ Notify
  /\ UNCHANGED <<registry, history, gates, task, restarts,
                 told, observed, forgotten, removed>>

Observe(r) ==
  /\ pc[r] = "observing"
  /\ observed' = [observed EXCEPT ![r] = record[r]]
  /\ Tell(r, record[r])
  /\ Goto(r, "done")
  /\ UNCHANGED <<registry, archive, gates, device, outcome, lease, waiter, restarts,
                 forgotten, removed, unwritten>>

-----------------------------------------------------------------------------
(* The other callers *)

(* cancel, when it accepts.  When it does not it only wakes the waiters,   *)
(* who look again: that is a step of theirs.                               *)
Cancel(r) ==
  /\ r \in runs
  /\ record[r] \notin Terminal
  /\ cancelled' = [cancelled EXCEPT ![r] = TRUE]
  /\ record' = [record EXCEPT ![r] = "stopping"]
  /\ Notify
  /\ UNCHANGED <<slot, runs, archive, gates, pc, task, restarts, ghosts>>

(* The archive without one record. *)
Without(h, r) ==
  IF \A i \in DOMAIN h : h[i] # r THEN h
  ELSE LET k == CHOOSE i \in DOMAIN h : h[i] = r IN
       [i \in 1..(Len(h) - 1) |-> IF i < k THEN h[i] ELSE h[i + 1]]

(* Fault: archive_gate is not taken. *)
DeleteRecord_NoGate(r) ==
  /\ r \notin runs
  /\ Archived(r)
  /\ journal[r] \in Terminal \cup {"absent"}
  /\ journal' = [journal EXCEPT ![r] = "absent"]
  /\ history' = Without(history, r)
  /\ forgotten' = forgotten \cup {r} /\ removed' = removed \cup {r}
  /\ UNCHANGED <<registry, archiveGate, gates, pc, task, waiter, restarts,
                 told, observed, unwritten>>

(* delete_terminal_records, for one id: not while a finalize is writing,   *)
(* not an active run, and the row itself must be terminal.                 *)
DeleteRecord(r) ==
  /\ archiveGate = NoRun
  /\ r \notin runs
  /\ Archived(r) \/ journal[r] # "absent"
  /\ journal[r] \in Terminal \cup {"absent"}
  /\ journal' = [journal EXCEPT ![r] = "absent"]
  /\ history' = Without(history, r)
  /\ forgotten' = forgotten \cup {r} /\ removed' = removed \cup {r}
  /\ UNCHANGED <<registry, archiveGate, gates, pc, task, waiter, restarts,
                 told, observed, unwritten>>

(* try_idle_maintenance, under active_by_device, and its guard's drop. *)
Maintain ==
  /\ \A d \in Devices : slot[d] = NoRun
  /\ ~draining /\ ~maintenance
  /\ maintenance' = TRUE
  /\ UNCHANGED <<registry, archive, draining, drain, pc, task, waiter, restarts, ghosts>>

Maintained ==
  /\ maintenance
  /\ maintenance' = FALSE
  /\ UNCHANGED <<registry, archive, draining, drain, pc, task, waiter, restarts, ghosts>>

(* begin_shutdown: close the gate, poll for an empty registry, and at the  *)
(* deadline cancel what is still active.  The settling time at the end     *)
(* waits for nobody in particular.                                         *)
BeginShutdown ==
  /\ drain = "off"
  /\ draining' = TRUE /\ drain' = "waiting"
  /\ UNCHANGED <<registry, archive, maintenance, pc, task, waiter, restarts, ghosts>>

Drained ==
  /\ drain = "waiting"
  /\ runs = {}
  /\ drain' = "done"
  /\ UNCHANGED <<registry, archive, draining, maintenance, pc, task, waiter,
                 restarts, ghosts>>

(* The deadline: the active runs are collected and cancelled.  They are    *)
(* cancelled one by one, but a run that ends in between refuses, so the    *)
(* calls together are one step.                                            *)
DrainTimeout ==
  /\ drain = "waiting"
  /\ runs # {}
  /\ LET active == { r \in runs : record[r] \notin Terminal } IN
     /\ cancelled' = [r \in Runs |-> cancelled[r] \/ r \in active]
     /\ record' = [r \in Runs |-> IF r \in active THEN "stopping" ELSE record[r]]
  /\ drain' = "done"
  /\ Notify
  /\ UNCHANGED <<slot, runs, archive, draining, maintenance, pc, task, restarts, ghosts>>

-----------------------------------------------------------------------------
(* wait_terminal *)

Waiting(w, l) == waiter[w].pc = l

Step(w, rec) ==
  /\ waiter' = [waiter EXCEPT ![w] = rec]
  /\ UNCHANGED <<registry, archive, gates, pc, task, restarts, ghosts>>

(* The future of the notification is created before the snapshot. *)
Wait(w, r) ==
  /\ Waiting(w, "idle")
  /\ pc[r] \notin {"unborn", "admitting", "lost"}
  /\ Step(w, [pc |-> "looking", run |-> r, got |-> "none", woken |-> FALSE])

(* What a lookup that finds the run, or does not, leads to. *)
Seen(w) == Step(w, [waiter[w] EXCEPT !.got = record[waiter[w].run], !.pc = "checking"])

(* Fault: the archive is read before the active runs. *)
GetRun_ArchiveFirst(w) ==
  \/ /\ Waiting(w, "looking")
     /\ IF Archived(waiter[w].run) THEN Seen(w)
        ELSE Step(w, [waiter[w] EXCEPT !.pc = "archive"])
  \/ /\ Waiting(w, "archive")
     /\ IF waiter[w].run \in runs THEN Seen(w)
        ELSE Step(w, [waiter[w] EXCEPT !.got = "gone", !.pc = "returned"])

(* get_run: first the active runs, and under another lock the archive. *)
GetRun(w) ==
  \/ /\ Waiting(w, "looking")
     /\ IF waiter[w].run \in runs THEN Seen(w)
        ELSE Step(w, [waiter[w] EXCEPT !.pc = "archive"])
  \/ /\ Waiting(w, "archive")
     /\ IF Archived(waiter[w].run) THEN Seen(w)
        ELSE Step(w, [waiter[w] EXCEPT !.got = "gone", !.pc = "returned"])

(* Fault: a terminal snapshot is enough. *)
CheckSnapshot_StillActive(w) ==
  /\ Waiting(w, "checking")
  /\ Step(w, [waiter[w] EXCEPT
                !.pc = IF waiter[w].got \in Terminal THEN "returned" ELSE "waiting"])

CheckSnapshot(w) ==
  /\ Waiting(w, "checking")
  /\ Step(w, [waiter[w] EXCEPT
                !.pc = IF waiter[w].got \in Terminal /\ waiter[w].run \notin runs
                         THEN "returned" ELSE "waiting"])

(* Fault: the future is created only when it is awaited. *)
Await_Late(w) ==
  \/ /\ Waiting(w, "waiting")
     /\ Step(w, [waiter[w] EXCEPT !.pc = "asleep", !.woken = FALSE])
  \/ /\ Waiting(w, "asleep")
     /\ waiter[w].woken
     /\ Step(w, [waiter[w] EXCEPT !.pc = "looking", !.got = "none", !.woken = FALSE])

(* Woken by any change since the future was created: a new round. *)
Await(w) ==
  /\ Waiting(w, "waiting")
  /\ waiter[w].woken
  /\ Step(w, [waiter[w] EXCEPT !.pc = "looking", !.got = "none", !.woken = FALSE])

WaitEnds(w) ==
  /\ Waiting(w, "returned")
  /\ Step(w, Idle)

-----------------------------------------------------------------------------
(* Fault: the rows of a dead process are left as they are. *)
Restart_NoRecovery ==
  /\ restarts < MaxRestarts
  /\ restarts' = restarts + 1
  /\ slot' = [d \in Devices |-> NoRun] /\ runs' = {}
  /\ history' = <<>> /\ archiveGate' = NoRun /\ journal' = journal
  /\ draining' = FALSE /\ maintenance' = FALSE /\ drain' = "off"
  /\ pc' = [r \in Runs |-> IF pc[r] \in {"unborn", "admitting"} THEN "unborn" ELSE "lost"]
  /\ lease' = [r \in Runs |-> FALSE]
  /\ waiter' = [w \in Waiters |-> Idle]
  /\ UNCHANGED <<record, cancelled, device, outcome, hook, ghosts>>

(* The process dies and starts again; main calls recover_run_history       *)
(* before anything can be submitted.                                       *)
Restart ==
  /\ restarts < MaxRestarts
  /\ restarts' = restarts + 1
  /\ slot' = [d \in Devices |-> NoRun] /\ runs' = {}
  /\ history' = <<>> /\ archiveGate' = NoRun
  /\ journal' = [r \in Runs |-> IF journal[r] = "starting" THEN "failed" ELSE journal[r]]
  /\ draining' = FALSE /\ maintenance' = FALSE /\ drain' = "off"
  /\ pc' = [r \in Runs |-> IF pc[r] \in {"unborn", "admitting"} THEN "unborn" ELSE "lost"]
  /\ lease' = [r \in Runs |-> FALSE]
  /\ waiter' = [w \in Waiters |-> Idle]
  /\ UNCHANGED <<record, cancelled, device, outcome, hook, ghosts>>

RunTask(r) ==
  \/ Begin(r) \/ PrepareFailed(r) \/ Prepared(r) \/ MarkRunning(r) \/ Enter(r)
  \/ Executed(r) \/ Released(r) \/ Complete(r) \/ CallHook(r) \/ Panic(r)
  \/ Finalize(r) \/ Finished(r) \/ Observe(r)

Next ==
  \/ \E r \in Runs :
       \/ SubmitCheck(r) \/ SubmitRefused(r) \/ SubmitInner(r)
       \/ RunTask(r)
       \/ Cancel(r) \/ DeleteRecord(r)
  \/ \E w \in Waiters :
       \/ \E r \in Runs : Wait(w, r)
       \/ GetRun(w) \/ CheckSnapshot(w) \/ Await(w) \/ WaitEnds(w)
  \/ Maintain \/ Maintained
  \/ BeginShutdown \/ Drained \/ DrainTimeout
  \/ Restart

Spec == Init /\ [][Next]_vars

(* The tasks of the runtime are scheduled.  prepare and release return     *)
(* (they are bounded by timeouts of their own), execute returns once the   *)
(* stop flag is set: that is what the executor's contract asks.  A run     *)
(* that nobody stops may go on for ever, and nobody has to cancel one.     *)
Fairness ==
  /\ \A r \in Runs :
       /\ WF_vars(pc[r] # "executing" /\ RunTask(r))
       /\ WF_vars(cancelled[r] /\ Executed(r))
       /\ SF_vars(Finalize(r))
  /\ \A w \in Waiters : WF_vars(GetRun(w) \/ CheckSnapshot(w) \/ Await(w))

FairSpec == Spec /\ Fairness

-----------------------------------------------------------------------------
WaiterType ==
  [pc : {"idle", "looking", "archive", "checking", "waiting", "returned"},
   run : Runs \cup {NoRun}, got : States \cup {"none", "gone"}, woken : BOOLEAN]

TypeOK ==
  /\ slot \in [Devices -> Runs \cup {NoRun}]
  /\ runs \subseteq Runs
  /\ record \in [Runs -> States]
  /\ cancelled \in [Runs -> BOOLEAN]
  /\ history \in Seq(Runs) /\ Len(history) <= HistoryCap
  /\ journal \in [Runs -> {"absent", "starting"} \cup Terminal]
  /\ archiveGate \in Runs \cup {NoRun}
  /\ draining \in BOOLEAN /\ maintenance \in BOOLEAN
  /\ drain \in {"off", "waiting", "done"}
  /\ pc \in [Runs -> PCs]
  /\ device \in [Runs -> Devices]
  /\ outcome \in [Runs -> Terminal \cup {"none"}]
  /\ lease \in [Runs -> BOOLEAN] /\ hook \in [Runs -> BOOLEAN]
  /\ waiter \in [Waiters -> WaiterType]
  /\ restarts \in Nat
  /\ observed \in [Runs -> Terminal \cup {"none"}]
  /\ forgotten \subseteq Runs /\ removed \subseteq Runs /\ unwritten \subseteq Runs

(* A task that has been spawned and has not taken its run off the registry. *)
Active(r) == pc[r] \in {"queued", "preparing", "marking", "entering", "executing",
                        "releasing", "completing", "hooking", "dropping"}

(* "一设备至多一个活动 run": two runs of one device never hold a lease     *)
(* together, whatever panics; the slot of a device is the run that is      *)
(* active on it, so no slot is left behind and none has to be reclaimed.   *)
OneRunPerDevice ==
  /\ \A r, s \in Runs : lease[r] /\ lease[s] /\ device[r] = device[s] => r = s
  /\ \A r \in Runs : lease[r] => slot[device[r]] = r
  /\ \A r \in Runs : Active(r) <=> (r \in runs /\ slot[device[r]] = r)

(* An accepted cancellation wins over whatever the executor answers: the   *)
(* archive, the journal, the hook and the observer all say cancelled.      *)
CancelWins ==
  \A r \in Runs : cancelled[r] =>
    /\ record[r] \in {"running", "stopping", "cancelled"}
    /\ \A i \in DOMAIN told[r] : told[r][i] = <<"cancelled", "cancelled">>
    /\ observed[r] \in {"none", "cancelled"}

(* One run has one end: the hook (record and outcome), the observer, the   *)
(* archive and the row that this process wrote never disagree.             *)
OutcomesAgree ==
  \A r \in Runs :
    /\ \A i \in DOMAIN told[r] : told[r][i] = <<record[r], record[r]>>
    /\ observed[r] \in {"none", record[r]}
    /\ Archived(r) => /\ record[r] \in Terminal
                      /\ journal[r] \in {"absent", "starting", record[r]}

(* The completion hook runs exactly once, on a panic before, in or after   *)
(* it as well; timer_core's rows would stay "running" without it.          *)
HookOnce ==
  \A r \in Runs : /\ Len(told[r]) <= 1
                  /\ pc[r] = "done" => Len(told[r]) = 1

(* A published terminal state is final. *)
TerminalIsFinal ==
  [][\A r \in Runs : record[r] \in Terminal => record'[r] = record[r]]_vars

(* Between the active map and the archive there is no gap: a waiter is     *)
(* told that a run is unknown only if the archive has dropped it.          *)
NoGap ==
  \A w \in Waiters : waiter[w].got = "gone" => waiter[w].run \in forgotten

(* wait_terminal returns a record only when the run is over: its lease is  *)
(* back, its slot is free and the state it saw is the final one.           *)
WaitMeansReleased ==
  \A w \in Waiters :
    Waiting(w, "returned") /\ waiter[w].got # "gone" =>
      LET r == waiter[w].run IN
      /\ ~lease[r] /\ slot[device[r]] # r /\ record[r] = waiter[w].got

(* Maintenance is quiescent: nothing runs and nothing is accepted in it.   *)
MaintenanceIsQuiet ==
  maintenance => \A r \in Runs : ~lease[r] /\ ~Active(r)

(* A row that says a run is under way is the row of such a run, unless the *)
(* write of its end failed.                                                *)
NoGhostRows ==
  \A r \in Runs : journal[r] = "starting" =>
    Active(r) \/ pc[r] = "persisting" \/ r \in unwritten

(* A record that was removed stays removed: the row that a finalize is     *)
(* about to write cannot bring it back.                                    *)
RemovedStaysRemoved ==
  \A r \in removed : journal[r] = "absent" /\ ~Archived(r)

(* What the documentation of begin_shutdown promises (run_manager.rs:785): *)
(* when it returns, every run that is still active was cancelled.          *)
DrainLeavesNobody ==
  drain = "done" => \A r \in runs : cancelled[r] \/ record[r] \in Terminal

(* An accepted cancellation ends the run, unless the process dies first.   *)
CancelSettles ==
  \A r \in Runs : (cancelled[r] /\ r \in runs) ~> r \notin runs

(* A waiter whose run is cancelled, or over, is told: no notification is   *)
(* missed between a snapshot and the await.                                *)
WaiterIsTold ==
  \A w \in Waiters, r \in Runs :
    (waiter[w].run = r /\ (cancelled[r] \/ r \notin runs))
      ~> waiter[w].pc \in {"returned", "idle"}

(* A device is given to one run, and maintenance gets what no run has       *)
(* (submit_inner, enter_maintenance).                                       *)
AdmissionIsExclusive == OneRunPerDevice /\ MaintenanceIsQuiet

(* A run ends once, and everybody is told the same end (finalize, Drop).    *)
EndsOnce == OutcomesAgree /\ HookOnce

(* The rows of the journal are the runs there were, whatever is removed,    *)
(* fails to be written or dies (finalize, delete_record, recover).          *)
JournalIsTrue == NoGhostRows /\ RemovedStaysRemoved

(* Who waits for a run finds it, and is told when it is over (wait_terminal,*)
(* get_run).                                                                *)
WaitsAreSound == NoGap /\ WaitMeansReleased
=============================================================================
