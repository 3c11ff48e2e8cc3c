------------------------------- MODULE Upgrade -------------------------------
(***************************************************************************)
(* The in-place update of a portable installation: updater/src/upgrade     *)
(* (engine.rs, recovery.rs, snapshot.rs), updater/src/portable.rs and the  *)
(* server's side of it (update/service.rs, update/barrier.rs, api/gate.rs).*)
(*                                                                         *)
(* Three things outlive every process: the journal, which names the step   *)
(* of the transaction, current.json, which names the version in use, and   *)
(* the data.  A server serves; a worker process takes the files apart and  *)
(* puts them together again; the user starts the root Gamer.exe whenever   *)
(* nothing answers.  Any process may die between any two writes.           *)
(*                                                                         *)
(* One installation goes from version "old" to version "new", whose data   *)
(* schema is newer as well.                                                *)
(***************************************************************************)
EXTENDS Naturals

CONSTANTS
  MaxWrites,     \* bound on the user's writes
  MaxChecks,     \* bound on the searches for an update
  MaxDeaths,     \* bound on deaths of the worker and losses of power
  MaxFailures,   \* bound on steps that fail
  MaxQuits,      \* bound on servers that stop by themselves
  Spared         \* windows, of those below, that no death and no lost write falls into

ASSUME BoundsAssumption ==
  /\ Spared \subseteq {"unnamed", "emptied", "reopened", "unsynced"}
  /\ MaxWrites \in Nat /\ MaxChecks \in Nat
  /\ MaxDeaths \in Nat /\ MaxFailures \in Nat /\ MaxQuits \in Nat

VARIABLES
  (* on disk *)
  journal,       \* [state, child, snap, err]: UpdateJournal, as far as it is read back
  pointer,       \* current.json
  entry,         \* the version of the root Gamer.exe
  data,          \* data/: its schema ("none": no such directory) and the writes in it
  backup,        \* the snapshot of the transaction
  (* the server that holds the "server" lock *)
  server,        \* [version, mode, waits]; waits: run_long_op waits for its worker
  (* the process that holds the "update" lock *)
  worker,        \* [op, pc, running]; running: was_running
  exit,          \* how the last worker ended, until its server has looked
  outcome,       \* UpgradeOutcome
  (* history *)
  accepted,      \* writes that a user was told are done
  checks, deaths, failures, quits

disk   == <<journal, pointer, entry, data, backup>>
report == <<exit, outcome>>
bounds == <<checks, deaths, failures, quits>>
vars   == <<disk, server, worker, report, accepted, bounds>>

Versions == {"old", "new"}

JournalStates ==
  {"Idle", "Checking", "Staged", "Verifying", "WaitingIdle", "Stopped",
   "Snapshotting", "SnapshotVerified", "Migrating", "Switched",
   "CandidateStarting", "CandidateReady", "Activating", "Committed",
   "Cleaning", "ManualRecoveryRequired"}

NoData   == [schema |-> "none", writes |-> 0]
NoServer == [version |-> "old", mode |-> "none", waits |-> FALSE]
NoWorker == [op |-> "none", pc |-> "none", running |-> FALSE]

Init ==
  /\ journal = [state |-> "Idle", child |-> FALSE, snap |-> FALSE, err |-> FALSE]
  /\ pointer = "old" /\ entry = "old"
  /\ data = [schema |-> "old", writes |-> 0] /\ backup = NoData
  /\ server = NoServer /\ worker = NoWorker
  /\ exit = "none" /\ outcome = "none"
  /\ accepted = 0 /\ checks = 0 /\ deaths = 0 /\ failures = 0 /\ quits = 0

(* Fault: orphan_candidate knows the first of its states only. *)
OrphanStates_First == {"Switched"}

(* The journal says that a candidate may be alive: orphan_candidate. *)
OrphanStates == {"Switched", "CandidateStarting", "CandidateReady", "Activating"}

(* The states in which rollback_procedure restores the snapshot. *)
RestoreStates == OrphanStates \cup {"SnapshotVerified", "Migrating", "Committed"}

-----------------------------------------------------------------------------
(* Servers *)

(* Store::open: an empty directory gets a new database, an older schema is *)
(* migrated, a newer one is rejected and the server does not come up.      *)
Opens(v) == data.schema = "new" => v = "new"
Opened(v) == [data EXCEPT !.schema = v]

Serve(v) ==
  IF Opens(v)
    THEN /\ server' = [version |-> v, mode |-> "open", waits |-> FALSE]
         /\ data' = Opened(v)
    ELSE UNCHANGED <<server, data>>

StartWorker(op, pc) ==
  /\ worker' = [op |-> op, pc |-> pc, running |-> FALSE]
  /\ exit' = "none" /\ outcome' = "none"

(* Fault: the state is not looked at before the data is opened. *)
Launch_Serves ==
  /\ worker = NoWorker /\ server.mode = "none"
  /\ Serve(entry)
  /\ UNCHANGED <<journal, pointer, entry, backup, worker, report, accepted, bounds>>

(* prepare, of a Gamer.exe that the user starts.  With a worker at work,   *)
(* or a server that is not an orphan, it only opens a browser.  The looks  *)
(* at the two locks and the journal are one step here; Startup has them as *)
(* steps of their own.                                                     *)
Launch ==
  /\ worker = NoWorker
  /\ IF server.mode = "none" /\ journal.state \in {"Idle", "Staged"}
       THEN Serve(entry) /\ UNCHANGED <<worker, report>>
       ELSE /\ server.mode = "none" \/ journal.state \in OrphanStates
            /\ StartWorker("recover", "orphan")
            /\ UNCHANGED <<server, data>>
  /\ UNCHANGED <<journal, pointer, entry, backup, accepted, bounds>>

(* A write that is answered with success; the barrier lets none through.   *)
Write ==
  /\ server.mode = "open" /\ accepted < MaxWrites
  /\ data' = [data EXCEPT !.writes = @ + 1]
  /\ accepted' = accepted + 1
  /\ UNCHANGED <<journal, pointer, entry, backup, server, worker, report, bounds>>

(* The candidate opens, and thereby migrates, the data before its gate.    *)
Migrate ==
  /\ server.mode = "starting"
  /\ server' = [server EXCEPT !.mode = "gated"]
  /\ data' = Opened(server.version)
  /\ UNCHANGED <<journal, pointer, entry, backup, worker, report, accepted, bounds>>

(* A server is closed by its user, or crashes. *)
Quit ==
  /\ server.mode # "none" /\ quits < MaxQuits
  /\ quits' = quits + 1
  /\ server' = NoServer
  /\ UNCHANGED <<disk, worker, report, accepted, checks, deaths, failures>>

-----------------------------------------------------------------------------
(* The server's side of an update *)

Managing == server.mode = "open" /\ ~server.waits

(* phase_check, as admitted by Dispatcher::admit: a new transaction. *)
Check ==
  /\ Managing /\ checks < MaxChecks
  /\ journal.state \in {"Idle", "Checking", "Staged", "WaitingIdle", "Committed", "Cleaning"}
  /\ checks' = checks + 1
  /\ journal' = [state |-> "Checking", child |-> FALSE, snap |-> FALSE, err |-> FALSE]
  /\ UNCHANGED <<pointer, entry, data, backup, server, worker, report, accepted,
                 deaths, failures, quits>>

(* The rest of phase_check, and phase_download: there may be nothing newer,*)
(* and either may fail.                                                    *)
Fetch ==
  /\ server.mode # "none" /\ journal.state = "Checking"
  /\ \E e \in BOOLEAN : \E s \in {"Idle"} \cup (IF pointer = "old" /\ ~e THEN {"Staged"} ELSE {}) :
       journal' = [journal EXCEPT !.state = s, !.err = e]
  /\ UNCHANGED <<pointer, entry, data, backup, server, worker, report, accepted, bounds>>

(* phase_rollback of a portable installation: it only cancels. *)
CancelUpdate ==
  /\ Managing /\ journal.state \in {"Staged", "WaitingIdle"}
  /\ journal' = [journal EXCEPT !.state = "Idle", !.err = FALSE]
  /\ UNCHANGED <<pointer, entry, data, backup, server, worker, report, accepted, bounds>>

(* request_install: freeze_if_idle, then the worker is spawned and the     *)
(* operation of the dispatcher waits for it.                               *)
RequestInstall ==
  /\ Managing /\ journal.state = "Staged" /\ worker = NoWorker
  /\ server' = [server EXCEPT !.mode = "paused", !.waits = TRUE]
  /\ StartWorker("install", "verify")
  /\ UNCHANGED <<disk, accepted, bounds>>

(* run_long_op: the worker ended and the server that spawned it is alive.  *)
Reap ==
  /\ worker = NoWorker /\ server.waits /\ exit # "none"
  /\ server' = [server EXCEPT !.waits = FALSE]
  /\ exit' = "none"
  /\ journal' = IF exit = "ok" THEN journal
                ELSE [journal EXCEPT !.err = TRUE,
                        !.state = IF @ \in {"Staged", "Verifying"} THEN "Idle" ELSE @]
  /\ UNCHANGED <<pointer, entry, data, backup, worker, outcome, accepted, bounds>>

(* refresh: an update that ended in an error reopens the barrier. *)
Refresh ==
  /\ server.mode = "paused"
  /\ journal.err /\ journal.state \in {"Staged", "Idle"}
  /\ server' = [server EXCEPT !.mode = "open"]
  /\ UNCHANGED <<disk, worker, report, accepted, bounds>>

-----------------------------------------------------------------------------
(* The worker *)

At(p) == worker.pc = p
Goto(p) == worker' = [worker EXCEPT !.pc = p]

End(e, o) == worker' = NoWorker /\ exit' = e /\ outcome' = o

(* install_downloaded writes what it is about to do before it does it: the *)
(* state that each step writes and the step that follows.                  *)
Intent ==
  [ verify    |-> <<"Verifying", "verified">>,
    verified  |-> <<"Staged", "waiting">>,
    waiting   |-> <<"WaitingIdle", "draining">>,
    drained   |-> <<"Stopped", "freezing">>,
    freezing  |-> <<"Snapshotting", "copying">>,
    copied    |-> <<"SnapshotVerified", "migrating">>,
    migrating |-> <<"Migrating", "replacing">>,
    replaced  |-> <<"Switched", "pointing">>,
    spawned   |-> <<"CandidateStarting", "probing">>,
    ready     |-> <<"CandidateReady", "activating">>,
    activating |-> <<"Activating", "syncing">>,
    synced    |-> <<"Committed", "opening">>,
    opened    |-> <<"Cleaning", "cleaned">>,
    cleaned   |-> <<"Idle", "finished">> ]

(* Fault: the snapshot is announced before it is taken. *)
WriteIntent_SnapFirst ==
  /\ worker.pc \in DOMAIN Intent
  /\ journal' = [journal EXCEPT !.state = Intent[worker.pc][1],
                   !.snap = @ \/ At("freezing"), !.child = @ \/ At("spawned"),
                   !.err = @ /\ ~At("synced") /\ ~At("cleaned")]
  /\ Goto(Intent[worker.pc][2])
  /\ UNCHANGED <<pointer, entry, data, backup, server, report, accepted, bounds>>

WriteIntent ==
  /\ worker.pc \in DOMAIN Intent
  /\ journal' = [journal EXCEPT !.state = Intent[worker.pc][1],
                   !.snap = @ \/ At("copied"), !.child = @ \/ At("spawned"),
                   !.err = @ /\ ~At("synced") /\ ~At("cleaned")]
  /\ Goto(Intent[worker.pc][2])
  /\ UNCHANGED <<pointer, entry, data, backup, server, report, accepted, bounds>>

(* drain_old_server: the server is asked to stop, and in a portable        *)
(* installation its lock must be free; or the update is cancelled.         *)
Drain ==
  /\ At("draining")
  /\ worker' = [worker EXCEPT !.pc = "drained", !.running = server.mode # "none"]
  /\ server' = NoServer
  /\ UNCHANGED <<disk, report, accepted, bounds>>

DrainTimeout ==
  /\ At("draining") /\ server.mode # "none"
  /\ journal' = [journal EXCEPT !.state = "Staged", !.err = TRUE]
  /\ End("error", "cancelled")
  /\ UNCHANGED <<pointer, entry, data, backup, server, accepted, bounds>>

(* snapshot::create *)
TakeSnapshot ==
  /\ At("copying")
  /\ backup' = data
  /\ Goto("copied")
  /\ UNCHANGED <<journal, pointer, entry, data, server, report, accepted, bounds>>

(* install_app_dir: versions/<new> is put in place; nothing reads it yet.  *)
Replace ==
  /\ At("replacing")
  /\ Goto("replaced")
  /\ UNCHANGED <<disk, server, report, accepted, bounds>>

(* write_switched_pointer *)
Point ==
  /\ At("pointing")
  /\ pointer' = "new"
  /\ Goto("spawning")
  /\ UNCHANGED <<journal, entry, data, backup, server, report, accepted, bounds>>

(* start_candidate *)
Spawn ==
  /\ At("spawning")
  /\ server' = [version |-> "new", mode |-> "starting", waits |-> FALSE]
  /\ Goto("spawned")
  /\ UNCHANGED <<disk, report, accepted, bounds>>

(* wait_candidate_ready: the gate is activated on the way; the barrier of  *)
(* the candidate stays closed.                                             *)
Probe ==
  /\ At("probing") /\ server.mode = "gated"
  /\ server' = [server EXCEPT !.mode = "paused"]
  /\ Goto("ready")
  /\ UNCHANGED <<disk, report, accepted, bounds>>

(* sync_entrypoint, after the plugins and before the front page is looked  *)
(* at: all of it needs the candidate to answer.                            *)
SyncNew ==
  /\ At("syncing") /\ server.mode = "paused"
  /\ entry' = pointer
  /\ Goto("synced")
  /\ UNCHANGED <<journal, pointer, data, backup, server, report, accepted, bounds>>

(* POST /api/system/commit: the barrier of the candidate opens. *)
Open ==
  /\ At("opening") /\ server.mode = "paused"
  /\ server' = [server EXCEPT !.mode = "open"]
  /\ Goto("opened")
  /\ UNCHANGED <<disk, report, accepted, bounds>>

Finish ==
  /\ At("finished")
  /\ End("ok", "committed")
  /\ UNCHANGED <<disk, server, accepted, bounds>>

-----------------------------------------------------------------------------
(* What fails *)

(* Four windows in which the disk says less than what was done: a candidate *)
(* that runs and is not in the journal; data that is moved away while the  *)
(* journal says that nothing was switched; an old server that accepted   *)
(* writes while the journal still asks for a restore; a root executable    *)
(* that is not the version of a transaction that is already over.          *)
Window ==
  [ unnamed  |-> server.version = "new" /\ ~journal.child /\ journal.state \in OrphanStates,
    emptied  |-> data = NoData /\ journal.state \in {"SnapshotVerified", "Migrating"},
    reopened |-> worker.running /\ worker.pc \in {"settling", "surrendering"},
    unsynced |-> journal.state = "Idle" /\ entry # pointer ]

Exposed == \A w \in Spared : ~Window[w]

(* What a step that fails leads to, by the step. *)

BeforeStop   == {"verify", "verified", "waiting", "drained", "freezing"}
AfterStop    == {"copying", "copied", "migrating"}
AfterSwitch  == {"replacing", "replaced", "pointing", "spawning"}
WithCandidate == {"spawned", "probing", "ready", "activating", "syncing"}
AfterCommit  == {"synced", "opening", "cleaned"}
Rollback     == {"quarantining", "restoring", "repointing"}

Fails == failures < MaxFailures /\ failures' = failures + 1

(* A write whose failure is ignored ("let _ = ..."). *)
LastWord(s) ==
  \/ /\ journal' = [journal EXCEPT !.state = s, !.err = TRUE]
     /\ UNCHANGED failures
  \/ Fails /\ Exposed /\ UNCHANGED journal

StepFails ==
  /\ Fails
  /\ \/ worker.pc \in BeforeStop /\ Goto("abandoning")
     \/ At("waiting") /\ Goto("reporting")
     \/ worker.pc \in AfterStop /\ Goto("resuming")
     \/ worker.pc \in AfterSwitch /\ Goto("marked")
     \/ worker.pc \in WithCandidate /\ Goto("killing")
     \/ worker.pc \in Rollback \cup {"settling"} /\ Goto("surrendering")
  /\ journal' = [journal EXCEPT !.err = @ \/ worker.pc \in AfterSwitch]
  /\ UNCHANGED <<pointer, entry, data, backup, server, report, accepted,
                 checks, deaths, quits>>

(* From the commit on nothing is rolled back: the failure is reported. *)
CommitFails ==
  /\ Fails
  /\ worker.pc \in AfterCommit
  /\ End("error", "manual")
  /\ UNCHANGED <<disk, server, accepted, checks, deaths, quits>>

(* The candidate died: what waits for it, or asks it, fails. *)
CandidateDied ==
  /\ server.mode = "none"
  /\ \/ worker.pc \in {"probing", "syncing"} /\ Goto("killing") /\ UNCHANGED report
     \/ At("opening") /\ End("error", "manual")
  /\ UNCHANGED <<disk, server, accepted, bounds>>

(* set_failed_idle, in fail_before_snapshot and fail_after_stop. *)
Abandon ==
  /\ At("abandoning")
  /\ LastWord("Idle")
  /\ Goto("reporting")
  /\ UNCHANGED <<pointer, entry, data, backup, server, report, accepted, checks, deaths, quits>>

(* fail_after_stop: whether the old server comes up is not looked at. *)
ResumeOld ==
  /\ At("resuming")
  /\ Goto("abandoning")
  /\ \/ worker.running /\ Serve(pointer) /\ UNCHANGED failures
     \/ worker.running /\ Fails /\ UNCHANGED <<server, data>>
     \/ ~worker.running /\ UNCHANGED <<server, data, failures>>
  /\ UNCHANGED <<journal, pointer, entry, backup, report, accepted, checks, deaths, quits>>

(* FailedOldHealthy, and sync_entrypoint. *)
Report ==
  /\ At("reporting")
  /\ outcome' = "healthy"
  /\ Goto("returning")
  /\ UNCHANGED <<disk, server, exit, accepted, bounds>>

SyncOld ==
  /\ At("returning")
  /\ entry' = pointer
  /\ End("ok", outcome)
  /\ UNCHANGED <<journal, pointer, data, backup, server, accepted, bounds>>

-----------------------------------------------------------------------------
(* rollback_procedure, for a failed installation and for a recovery *)

(* Fault: the handle of the candidate is dropped, not killed. *)
KillChild_Leaves ==
  /\ At("killing")
  /\ Goto("marked")
  /\ UNCHANGED <<disk, server, report, accepted, bounds>>

(* fail_candidate holds a handle to the process. *)
KillChild ==
  /\ At("killing")
  /\ server' = NoServer
  /\ journal' = [journal EXCEPT !.err = TRUE]
  /\ Goto("marked")
  /\ UNCHANGED <<pointer, entry, data, backup, report, accepted, bounds>>

(* The candidate that the journal names is gone before the restore. *)
Marked ==
  /\ At("marked")
  /\ server' = IF journal.child /\ server.version = "new" THEN NoServer ELSE server
  /\ Goto(IF journal.state \notin RestoreStates THEN "repointing"
          ELSE IF journal.snap THEN "quarantining" ELSE "surrendering")
  /\ UNCHANGED <<disk, report, accepted, bounds>>

(* snapshot::restore: the live data is moved away, the copy is moved in;   *)
(* a second restore finds no live data and starts from the snapshot again. *)
Quarantine ==
  /\ At("quarantining")
  /\ data' = NoData
  /\ Goto("restoring")
  /\ UNCHANGED <<journal, pointer, entry, backup, server, report, accepted, bounds>>

RestoreData ==
  /\ At("restoring")
  /\ data' = backup
  /\ Goto("repointing")
  /\ UNCHANGED <<journal, pointer, entry, backup, server, report, accepted, bounds>>

Repoint ==
  /\ At("repointing")
  /\ pointer' = "old"
  /\ Goto(IF worker.op = "install" /\ worker.running THEN "reopening" ELSE "settling")
  /\ UNCHANGED <<journal, entry, data, backup, server, report, accepted, bounds>>

(* restart_old_and_verify: a server that does not become ready is kept. *)
Reopen ==
  /\ At("reopening")
  /\ \/ Opens(pointer) /\ Serve(pointer) /\ Goto("settling") /\ UNCHANGED failures
     \/ Serve(pointer) /\ Goto("surrendering") /\ Fails
     \/ UNCHANGED <<server, data>> /\ Goto("surrendering") /\ Fails
  /\ UNCHANGED <<journal, pointer, entry, backup, report, accepted, checks, deaths, quits>>

Settle ==
  /\ At("settling")
  /\ journal' = [journal EXCEPT !.state = "Idle", !.child = FALSE]
  /\ Goto(IF worker.op = "install" THEN "reporting" ELSE "resyncing")
  /\ UNCHANGED <<pointer, entry, data, backup, server, report, accepted, bounds>>

(* enter_manual_recovery and finish_manual: the end of all retries. *)
Surrender ==
  /\ At("surrendering")
  /\ LastWord("ManualRecoveryRequired")
  /\ End("error", "manual")
  /\ UNCHANGED <<pointer, entry, data, backup, server, accepted, checks, deaths, quits>>

-----------------------------------------------------------------------------
(* The worker that recovers *)

(* An orphan is stopped by the pid and the image in the journal. *)
StopOrphan ==
  /\ At("orphan")
  /\ server' = IF journal.state \in OrphanStates /\ journal.child
                  /\ server.version = "new" THEN NoServer ELSE server
  /\ Goto("awaiting")
  /\ UNCHANGED <<disk, report, accepted, bounds>>

(* The server lock is awaited, for 30 seconds. *)
AwaitServer ==
  /\ At("awaiting") /\ server.mode = "none"
  /\ Goto("recovering")
  /\ UNCHANGED <<disk, server, report, accepted, bounds>>

GiveUp ==
  /\ At("awaiting") /\ server.mode # "none"
  /\ End("error", "none")
  /\ UNCHANGED <<disk, server, accepted, bounds>>

(* recover_on_startup for the states in which no data can have changed, or *)
(* the new version is already in force: one write, and on with it.  (Idle  *)
(* is never found: no recovery is spawned in it.)                          *)
FinishStates ==
  {"Checking", "Staged", "Verifying", "WaitingIdle", "Stopped", "Snapshotting"}
    \cup (IF pointer = "old" THEN {"SnapshotVerified", "Migrating"} ELSE {})
    \cup (IF pointer = "new" THEN {"Committed", "Cleaning"} ELSE {})

(* Fault: a committed transaction is rolled back like any other. *)
RollBackStates_Committed ==
  OrphanStates \cup {"Committed"}
    \cup (IF pointer = "new" THEN {"SnapshotVerified", "Migrating"} ELSE {})

RollBackStates ==
  OrphanStates \cup (IF pointer = "new" THEN {"SnapshotVerified", "Migrating"} ELSE {})

(* recover_pre_install keeps a candidate if there is one and it is complete. *)
MayKeep == pointer = "old" /\ journal.state \in {"Checking", "Staged", "Verifying", "WaitingIdle"}

RecoverFinish ==
  /\ At("recovering")
  /\ journal.state \in FinishStates
  /\ \/ \E s \in {"Idle"} \cup (IF MayKeep THEN {"Staged"} ELSE {}) :
          /\ journal' = [journal EXCEPT !.state = s,
                           !.err = s = "Idle" /\ journal.state \notin {"Committed", "Cleaning"},
                           !.child = @ /\ s # "Staged"]
          /\ UNCHANGED failures
     \/ Fails /\ UNCHANGED journal
  /\ Goto("resyncing")
  /\ UNCHANGED <<pointer, entry, data, backup, server, report, accepted, checks, deaths, quits>>

(* recover_switched; recover_snapshotting when the snapshot is complete.   *)
RecoverRollBack ==
  /\ At("recovering")
  /\ \/ journal.state \in RollBackStates
     \/ journal.state = "Snapshotting" /\ backup # NoData
  /\ Goto(IF journal.state \in RestoreStates /\ ~journal.snap THEN "surrendering"
          ELSE "marked")
  /\ UNCHANGED <<disk, server, report, accepted, bounds>>

(* Fault: the recovery goes on in a state that asks for a human. *)
RecoverManual_GoesOn ==
  /\ At("recovering") /\ journal.state = "ManualRecoveryRequired"
  /\ Goto("resyncing")
  /\ UNCHANGED <<disk, server, report, accepted, bounds>>

RecoverManual ==
  /\ At("recovering") /\ journal.state = "ManualRecoveryRequired"
  /\ End("error", "manual")
  /\ UNCHANGED <<disk, server, accepted, bounds>>

(* Fault: the recovery leaves the root executable as it is. *)
Resync_Skipped ==
  /\ At("resyncing")
  /\ Goto("launching")
  /\ UNCHANGED <<disk, server, report, accepted, bounds>>

Resync ==
  /\ At("resyncing")
  /\ entry' = pointer
  /\ Goto("launching")
  /\ UNCHANGED <<journal, pointer, data, backup, server, report, accepted, bounds>>

(* The root Gamer.exe is started as a child: it skips the journal. *)
LaunchChild ==
  /\ At("launching")
  /\ Serve(entry)
  /\ End("ok", "none")
  /\ UNCHANGED <<journal, pointer, entry, backup, accepted, bounds>>

-----------------------------------------------------------------------------
(* The worker dies; or the power fails, and everything does. *)
Die ==
  /\ worker # NoWorker /\ deaths < MaxDeaths
  /\ Exposed
  /\ deaths' = deaths + 1
  /\ End("error", "none")
  /\ server' \in {server, NoServer}
  /\ UNCHANGED <<disk, accepted, checks, failures, quits>>

Install ==
  \/ WriteIntent \/ Drain \/ DrainTimeout \/ TakeSnapshot \/ Replace \/ Point
  \/ Spawn \/ Probe \/ SyncNew \/ Open \/ Finish
  \/ CandidateDied \/ Abandon \/ ResumeOld \/ Report \/ SyncOld

RollBack ==
  KillChild \/ Marked \/ Quarantine \/ RestoreData \/ Repoint \/ Reopen \/ Settle \/ Surrender

Recover ==
  \/ StopOrphan \/ AwaitServer \/ GiveUp
  \/ RecoverFinish \/ RecoverRollBack \/ RecoverManual
  \/ Resync \/ LaunchChild

Next ==
  \/ Launch \/ Write \/ Migrate \/ Quit
  \/ Check \/ Fetch \/ CancelUpdate \/ RequestInstall \/ Reap \/ Refresh
  \/ Install \/ RollBack \/ Recover
  \/ StepFails \/ CommitFails \/ Die

Spec == Init /\ [][Next]_vars

(* The worker and a starting candidate run; a user who finds that nothing  *)
(* answers starts Gamer.exe again.                                         *)
Fairness ==
  /\ WF_vars(Install \/ RollBack \/ Recover)
  /\ WF_vars(Migrate)
  /\ WF_vars(Launch)

FairSpec == Spec /\ Fairness

-----------------------------------------------------------------------------
WorkerSteps ==
  DOMAIN Intent \cup BeforeStop \cup AfterStop \cup AfterSwitch \cup WithCandidate
    \cup AfterCommit \cup Rollback
    \cup {"none", "draining", "finished", "abandoning", "resuming", "reporting",
          "returning", "killing", "marked", "reopening", "settling", "surrendering",
          "orphan", "awaiting", "recovering", "resyncing", "launching"}

TypeOK ==
  /\ journal \in [state : JournalStates, child : BOOLEAN, snap : BOOLEAN, err : BOOLEAN]
  /\ pointer \in Versions /\ entry \in Versions
  /\ data \in [schema : Versions \cup {"none"}, writes : Nat]
  /\ backup \in [schema : Versions \cup {"none"}, writes : Nat]
  /\ server \in [version : Versions, waits : BOOLEAN,
                 mode : {"none", "starting", "gated", "paused", "open"}]
  /\ worker \in [op : {"none", "install", "recover"}, pc : WorkerSteps, running : BOOLEAN]
  /\ exit \in {"none", "ok", "error"}
  /\ outcome \in {"none", "committed", "cancelled", "healthy", "manual"}
  /\ accepted \in Nat
  /\ journal.snap => backup # NoData
  /\ checks \in Nat /\ deaths \in Nat /\ failures \in Nat /\ quits \in Nat

(* engine.rs:1086 "a lost response must never restore an old snapshot":    *)
(* whatever fails or dies, a server that serves has every write that a     *)
(* user was told is done.                                                  *)
WritesSurvive == server.mode = "open" => data.writes = accepted

(* A server that serves is of the version that current.json names, on data *)
(* of its own schema; with no worker at work so is the root Gamer.exe, the *)
(* one the next start will run.                                            *)
VersionsAgree ==
  server.mode = "open" =>
    /\ server.version = pointer /\ data.schema = pointer
    /\ worker = NoWorker => entry = pointer

(* Two servers never meet on one data directory: when the worker starts    *)
(* one, the lock of the last one is free.                                  *)
OneServer ==
  worker.pc \in {"spawning", "resuming", "reopening", "launching", "quarantining", "restoring"}
    => server.mode = "none"

(* manual_recovery_required is final, and nothing starts a server in it. *)
ManualStops ==
  [][journal.state = "ManualRecoveryRequired" =>
       /\ journal'.state = "ManualRecoveryRequired"
       /\ server.mode = "none" => server'.mode = "none"]_vars

(* recovery.rs:16: a recovery in the candidate's states stops the orphan,  *)
(* so that only a server that serves can keep it from the lock.            *)
OrphanIsStopped ==
  At("awaiting") /\ journal.state \in OrphanStates => server.version = "old"

(* recovery.rs:15: "the data has not been changed" where the journal is    *)
(* taken back without a restore: no server starts on an empty directory.   *)
DataIsThere ==
  [][server.mode = "none" /\ server'.mode # "none" => data.schema # "none"]_vars

(* The window of OrphanIsStopped: a candidate that no record names.        *)
Unnamed == server.mode \in {"starting", "gated"} /\ server.version = "new" /\ ~journal.child

(* An installation does not stay down: when nothing answers, and the user  *)
(* starts Gamer.exe, a server comes up, or a human is asked for help, or   *)
(* the nameless orphan is in the way.                                      *)
ServiceReturns ==
  server.mode \in {"none", "starting", "gated"} ~>
    \/ server.mode \in {"open", "paused"}
    \/ journal.state = "ManualRecoveryRequired"
    \/ Unnamed
=============================================================================
