---------------------------- MODULE UpgradeProofs ----------------------------
(***************************************************************************)
(* Proofs about the two sides of an update: Upgrade, for every bound on    *)
(* writes, checks, deaths, failures and quits, and, in the last part,      *)
(* UpdateAdmission, the server's side, for every set of callers and jobs.  *)
(*                                                                         *)
(* The invariant of Upgrade is in layers.  Control ties the step of the    *)
(* worker to the journal, to the mode of the server and to current.json,   *)
(* and needs no hypothesis.  Each of the other four says what one of the   *)
(* windows of Window puts at risk, and is kept when the constant Spared    *)
(* names it.                                                               *)
(***************************************************************************)
EXTENDS Upgrade, UpdateAdmission, TLAPS

-----------------------------------------------------------------------------
(* Control *)

Candidate == {"ready", "activating", "syncing", "synced"}
Committing == {"opened", "cleaned", "finished"}
RecoverOnly == {"orphan", "awaiting", "recovering", "resyncing", "launching"}

(* What a rollback takes back, and what it leaves. *)
Undone == OrphanStates \cup {"Snapshotting", "SnapshotVerified", "Migrating"}
Early == {"Idle", "Checking", "Staged", "Verifying", "WaitingIdle", "Stopped", "Snapshotting"}
Settled == journal.state \notin OrphanStates \cup {"ManualRecoveryRequired"}

(* Which steps belong to which kind of worker. *)
InOp ==
  /\ worker.pc = "none" => worker = NoWorker
  /\ worker.op = "none" => worker.pc = "none"
  /\ worker.op = "install" => worker.pc \notin RecoverOnly
  /\ worker.op = "recover" =>
       /\ ~worker.running
       /\ worker.pc \in RecoverOnly \cup {"marked", "quarantining", "restoring", "repointing",
            "settling", "surrendering"}

(* What the journal says at each step of an installation.  From the moment *)
(* the candidate is open its user may write to the journal as well.        *)
InStep ==
  /\ worker.pc \in {"verify", "waiting"} => journal.state = "Staged"
  /\ worker.pc = "verified" => journal.state = "Verifying"
  /\ worker.pc \in {"draining", "drained"} => journal.state = "WaitingIdle"
  /\ worker.pc = "freezing" => journal.state = "Stopped"
  /\ worker.pc \in {"copying", "copied"} => journal.state = "Snapshotting"
  /\ worker.pc = "migrating" => journal.state = "SnapshotVerified"
  /\ worker.pc \in {"replacing", "replaced"} => journal.state = "Migrating"
  /\ worker.pc \in {"pointing", "spawning", "spawned"} => journal.state = "Switched"
  /\ worker.pc \in {"probing", "ready"} => journal.state = "CandidateStarting"
  /\ worker.pc = "activating" => journal.state = "CandidateReady"
  /\ worker.pc \in {"syncing", "synced"} => journal.state = "Activating"
  /\ worker.pc = "opening" => journal.state = "Committed"
  /\ worker.pc = "opened" => journal.state \in {"Committed", "Idle", "Checking", "Staged"}
  /\ worker.pc = "cleaned" => journal.state \in {"Cleaning", "Idle", "Checking", "Staged"}
  /\ worker.pc = "finished" => journal.state \in {"Idle", "Checking", "Staged"}

(* The same for a worker that takes something back. *)
InRollback ==
  /\ worker.pc = "resuming" => journal.state \in {"Snapshotting", "SnapshotVerified"}
  /\ worker.pc \in {"abandoning", "reporting", "returning"} =>
       journal.state \in Early \cup {"SnapshotVerified"}
  /\ worker.pc = "killing" => journal.state \in OrphanStates
  /\ worker.pc \in {"marked", "repointing", "reopening", "settling", "surrendering"} =>
       journal.state \in Undone
  /\ worker.pc \in {"quarantining", "restoring"} =>
       journal.snap /\ journal.state \in Undone \ {"Snapshotting"}
  /\ worker.pc \in {"resyncing", "launching"} => Settled
  /\ worker.pc = "reopening" => worker.running
  /\ worker.running => worker.op = "install"

(* The steps of a worker that has the data directory for itself. *)
Alone ==
  worker.pc \in {"drained", "freezing", "copying", "copied", "migrating", "replacing",
      "replaced", "pointing", "spawning", "resuming", "marked", "quarantining",
      "restoring", "repointing", "reopening", "recovering", "resyncing", "launching"}
    => server.mode = "none"

(* The server that a worker meets at its other steps. *)
InMode ==
  /\ server.mode = "none" => server = NoServer
  /\ worker.pc \in {"verify", "verified", "waiting", "draining"} /\ server.mode # "none" =>
       server.waits
  /\ worker.pc \in {"spawned", "probing"} => server.mode \in {"none", "starting", "gated"}
  /\ worker.pc \in Candidate \cup {"opening"} => server.mode \in {"none", "paused"}
  /\ worker.pc \in Committing => server.mode \in {"none", "open"}
  /\ worker.pc = "killing" => server.mode # "open"
  /\ worker.pc \in {"settling", "surrendering"} /\ server.mode # "none" =>
       server.mode = "open" /\ worker.running
  /\ worker.pc \in {"orphan", "awaiting"} /\ server.mode # "none" =>
       journal.state \in OrphanStates
  /\ server.mode \in {"starting", "gated"} =>
       journal.state \in {"Switched", "CandidateStarting"}

(* The version that current.json names, by the journal and by the step. *)
InPointer ==
  /\ journal.state \in {"Staged", "Verifying", "WaitingIdle", "Stopped", "Snapshotting",
       "SnapshotVerified", "Migrating"} => pointer = "old"
  /\ journal.state \in {"Committed", "Cleaning"} => pointer = "new"
  /\ worker.pc \in {"spawning", "spawned", "probing", "opening", "killing"}
       \cup Candidate \cup Committing => pointer = "new"
  /\ worker.pc \in {"pointing", "abandoning", "reporting", "returning", "reopening", "settling"}
       => pointer = "old"

(* Where there may be no data directory, and where there is a snapshot. *)
DataShape ==
  /\ data.schema = "none" => data = NoData /\ server.mode \in {"none", "starting"}
  /\ worker.pc \in {"verify", "verified", "waiting", "draining", "drained", "freezing", "copying"}
       => data.schema # "none"
  /\ backup.schema = "none" => backup = NoData
  /\ worker.pc = "copied" \/ journal.snap => backup.schema # "none"

Control ==
  /\ TypeOK /\ InOp
  /\ InStep /\ InRollback /\ Alone /\ InMode /\ InPointer /\ DataShape

-----------------------------------------------------------------------------
(* What each window puts at risk *)

(* Without "emptied": the data is away only while a candidate is rolled    *)
(* back, which is taken up again wherever it stopped, or for good.         *)
Present ==
  data.schema = "none" =>
    /\ server.mode = "none"
    /\ worker.pc \in {"none", "orphan", "awaiting", "recovering", "marked", "quarantining",
                       "restoring", "surrendering"}
    /\ \/ ~Settled
       \/ /\ journal.state \in {"SnapshotVerified", "Migrating"}
          /\ worker.pc \in {"restoring", "surrendering"}

(* The old server may be open again while the journal asks for a restore.  *)
Reopened == worker.running /\ worker.pc \in {"settling", "surrendering"}

(* The steps from which the worker may still put the snapshot back. *)
BackupAtHand ==
  \/ worker.pc \in {"copied", "migrating", "replacing", "replaced", "quarantining", "restoring"}
  \/ worker.pc = "marked" /\ journal.state \in RestoreStates

(* Without "reopened" as well: a snapshot that any worker may yet restore  *)
(* has every write that was accepted, so it is as good as the data.        *)
Writes ==
  /\ data.schema # "none" => data.writes = accepted
  /\ BackupAtHand \/ (journal.state \in OrphanStates /\ ~Reopened) =>
       backup.writes = accepted
  /\ journal.state \in OrphanStates /\ server.mode = "open" => Reopened

(* Without "unsynced": the root executable is the version of current.json  *)
(* wherever the next start would not recover first.                        *)
Entries ==
  /\ Settled /\ ~(At("resyncing") /\ journal.state = "Idle") => entry = pointer
  /\ worker.op = "install" =>
       entry = IF worker.pc \in {"synced", "opening"} \cup Committing THEN "new" ELSE "old"
  /\ server.mode = "open" => entry = pointer

(* And so is the schema of the data, and of the snapshot. *)
Schemas ==
  /\ Settled \/ worker.pc \in {"repointing", "reopening", "settling"} =>
       \/ data.schema = "none"
       \/ data.schema = IF worker.pc = "repointing" THEN "old" ELSE pointer
  /\ worker.pc \in Candidate => data.schema = "new"
  /\ BackupAtHand \/ journal.state \in OrphanStates => backup.schema \in {"old", "none"}
  /\ server.mode # "none" => server.version = pointer
  /\ server.mode \in {"gated", "paused", "open"} => data.schema = pointer

Versioned == Entries /\ Schemas

(* Without "unnamed": a candidate that outlives its worker is named. *)
Named ==
  /\ worker.pc \in {"none", "orphan"} /\ journal.state \in OrphanStates /\ server.version = "new"
       => journal.child
  /\ worker.pc \in {"probing"} \cup Candidate => journal.child
  /\ worker.pc = "awaiting" /\ journal.state \in OrphanStates => server.version = "old"
  /\ worker.pc \in {"settling", "surrendering"} => server.version = "old"

-----------------------------------------------------------------------------
(* Operators and actions, read out *)

(* The table of install_downloaded, as a set of steps and as values. *)
LEMMA IntentDomain ==
  DOMAIN Intent = {"verify", "verified", "waiting", "drained", "freezing", "copied", "migrating",
                   "replaced", "spawned", "ready", "activating", "synced", "opened", "cleaned"}
BY DEF Intent

LEMMA IntentValues ==
  /\ Intent["verify"] = <<"Verifying", "verified">>
  /\ Intent["verified"] = <<"Staged", "waiting">>
  /\ Intent["waiting"] = <<"WaitingIdle", "draining">>
  /\ Intent["drained"] = <<"Stopped", "freezing">>
  /\ Intent["freezing"] = <<"Snapshotting", "copying">>
  /\ Intent["copied"] = <<"SnapshotVerified", "migrating">>
  /\ Intent["migrating"] = <<"Migrating", "replacing">>
  /\ Intent["replaced"] = <<"Switched", "pointing">>
  /\ Intent["spawned"] = <<"CandidateStarting", "probing">>
  /\ Intent["ready"] = <<"CandidateReady", "activating">>
  /\ Intent["activating"] = <<"Activating", "syncing">>
  /\ Intent["synced"] = <<"Committed", "opening">>
  /\ Intent["opened"] = <<"Cleaning", "cleaned">>
  /\ Intent["cleaned"] = <<"Idle", "finished">>
BY DEF Intent

(* A step of the table: what it writes, and what it leaves alone. *)
LEMMA Intents ==
  ASSUME TypeOK, WriteIntent
  PROVE  /\ \/ worker.pc = "verify" /\ journal'.state = "Verifying" /\ worker'.pc = "verified"
            \/ worker.pc = "verified" /\ journal'.state = "Staged" /\ worker'.pc = "waiting"
            \/ worker.pc = "waiting" /\ journal'.state = "WaitingIdle" /\ worker'.pc = "draining"
            \/ worker.pc = "drained" /\ journal'.state = "Stopped" /\ worker'.pc = "freezing"
            \/ worker.pc = "freezing" /\ journal'.state = "Snapshotting" /\ worker'.pc = "copying"
            \/ worker.pc = "copied" /\ journal'.state = "SnapshotVerified"
                 /\ worker'.pc = "migrating"
            \/ worker.pc = "migrating" /\ journal'.state = "Migrating" /\ worker'.pc = "replacing"
            \/ worker.pc = "replaced" /\ journal'.state = "Switched" /\ worker'.pc = "pointing"
            \/ worker.pc = "spawned" /\ journal'.state = "CandidateStarting"
                 /\ worker'.pc = "probing"
            \/ worker.pc = "ready" /\ journal'.state = "CandidateReady" /\ worker'.pc = "activating"
            \/ worker.pc = "activating" /\ journal'.state = "Activating" /\ worker'.pc = "syncing"
            \/ worker.pc = "synced" /\ journal'.state = "Committed" /\ worker'.pc = "opening"
            \/ worker.pc = "opened" /\ journal'.state = "Cleaning" /\ worker'.pc = "cleaned"
            \/ worker.pc = "cleaned" /\ journal'.state = "Idle" /\ worker'.pc = "finished"
         /\ worker'.op = worker.op /\ worker'.running = worker.running
         /\ journal'.snap = (journal.snap \/ worker.pc = "copied")
         /\ journal'.child = (journal.child \/ worker.pc = "spawned")
         /\ journal' \in [state : JournalStates, child : BOOLEAN, snap : BOOLEAN, err : BOOLEAN]
         /\ worker' \in [op : {"none", "install", "recover"}, pc : WorkerSteps, running : BOOLEAN]
         /\ UNCHANGED <<pointer, entry, data, backup, server, exit, outcome, accepted,
                        checks, deaths, failures, quits>>
<1>1. \A p \in DOMAIN Intent : /\ Intent[p][1] \in JournalStates
                               /\ Intent[p][2] \in WorkerSteps
  BY IntentDomain, IntentValues DEF JournalStates, WorkerSteps, BeforeStop, AfterStop,
     AfterSwitch, WithCandidate, AfterCommit
<1>2. /\ journal' = [journal EXCEPT !.state = Intent[worker.pc][1],
                   !.snap = @ \/ At("copied"), !.child = @ \/ At("spawned"),
                   !.err = @ /\ ~At("synced") /\ ~At("cleaned")]
      /\ worker' = [worker EXCEPT !.pc = Intent[worker.pc][2]]
      /\ worker.pc \in DOMAIN Intent
      /\ UNCHANGED <<pointer, entry, data, backup, server, exit, outcome, accepted,
                        checks, deaths, failures, quits>>
  BY DEF WriteIntent, Goto, report, bounds
<1>3. /\ journal'.state = Intent[worker.pc][1] /\ worker'.pc = Intent[worker.pc][2]
      /\ worker'.op = worker.op /\ worker'.running = worker.running
      /\ journal' \in [state : JournalStates, child : BOOLEAN, snap : BOOLEAN, err : BOOLEAN]
      /\ worker' \in [op : {"none", "install", "recover"}, pc : WorkerSteps, running : BOOLEAN]
  BY <1>1, <1>2 DEF TypeOK
<1>4. /\ journal'.snap = (journal.snap \/ worker.pc = "copied")
      /\ journal'.child = (journal.child \/ worker.pc = "spawned")
  BY <1>2 DEF TypeOK, At
<1>. QED
  BY <1>2, <1>3, <1>4, IntentDomain, IntentValues

(* Every step that an action names is a step. *)
LEMMA Steps ==
  {"none", "verify", "draining", "drained", "copied", "replaced", "spawning", "spawned", "ready",
   "synced", "opened", "abandoning", "resuming", "reporting", "returning", "killing", "marked",
   "quarantining", "restoring", "repointing", "reopening", "settling", "surrendering", "orphan",
   "awaiting", "recovering", "resyncing", "launching"} \subseteq WorkerSteps
BY IntentDomain
   DEF WorkerSteps, AfterStop, AfterSwitch, WithCandidate, AfterCommit, Rollback, BeforeStop

(* What no death and no lost write falls into. *)
LEMMA Spares ==
  ASSUME Exposed
  PROVE  /\ "unnamed" \in Spared => ~(/\ server.version = "new" /\ ~journal.child
                                       /\ journal.state \in OrphanStates)
         /\ "emptied" \in Spared =>
              ~(data = NoData /\ journal.state \in {"SnapshotVerified", "Migrating"})
         /\ "reopened" \in Spared =>
              ~(worker.running /\ worker.pc \in {"settling", "surrendering"})
         /\ "unsynced" \in Spared => ~(journal.state = "Idle" /\ entry # pointer)
<1>1. /\ Window["unnamed"] =
           (server.version = "new" /\ ~journal.child /\ journal.state \in OrphanStates)
      /\ Window["emptied"] =
           (data = NoData /\ journal.state \in {"SnapshotVerified", "Migrating"})
      /\ Window["reopened"] = (worker.running /\ worker.pc \in {"settling", "surrendering"})
      /\ Window["unsynced"] = (journal.state = "Idle" /\ entry # pointer)
  BY DEF Window
<1>. QED
  BY <1>1 DEF Exposed

(* The states that a recovery finishes with one write, or without it. *)
LEMMA Finishes ==
  ASSUME TypeOK, RecoverFinish
  PROVE  /\ worker.pc = "recovering" /\ worker'.pc = "resyncing"
         /\ worker'.op = worker.op /\ worker'.running = worker.running
         /\ journal.state \in {"Checking", "Staged", "Verifying", "WaitingIdle", "Stopped",
              "Snapshotting", "SnapshotVerified", "Migrating", "Committed", "Cleaning"}
         /\ \/ journal' = journal
            \/ journal'.state = "Idle"
            \/ journal'.state = "Staged" /\ pointer = "old"
                 /\ journal.state \in {"Checking", "Staged", "Verifying", "WaitingIdle"}
         /\ journal'.snap = journal.snap
         /\ journal' \in [state : JournalStates, child : BOOLEAN, snap : BOOLEAN, err : BOOLEAN]
         /\ worker' \in [op : {"none", "install", "recover"}, pc : WorkerSteps, running : BOOLEAN]
         /\ UNCHANGED <<pointer, entry, data, backup, server, exit, outcome, accepted,
                        checks, deaths, quits>>
         /\ failures' \in Nat
<1>1. worker.pc = "recovering" /\ worker' = [worker EXCEPT !.pc = "resyncing"]
  BY DEF RecoverFinish, At, Goto
<1>2. "resyncing" \in WorkerSteps
  BY DEF WorkerSteps
<1>3. journal.state \in {"Checking", "Staged", "Verifying", "WaitingIdle", "Stopped",
              "Snapshotting", "SnapshotVerified", "Migrating", "Committed", "Cleaning"}
  BY DEF RecoverFinish, FinishStates
<1>4. \/ journal' = journal
      \/ \E s \in {"Idle", "Staged"} :
           /\ journal' = [journal EXCEPT !.state = s,
                            !.err = s = "Idle" /\ journal.state \notin {"Committed", "Cleaning"},
                            !.child = @ /\ s # "Staged"]
           /\ s = "Staged" => MayKeep
  BY DEF RecoverFinish
<1>5. /\ UNCHANGED <<pointer, entry, data, backup, server, exit, outcome, accepted,
                     checks, deaths, quits>>
      /\ failures' = failures \/ failures' = failures + 1
  BY DEF RecoverFinish, report, Fails
<1>6. /\ worker'.pc = "resyncing" /\ worker'.op = worker.op /\ worker'.running = worker.running
      /\ worker' \in [op : {"none", "install", "recover"}, pc : WorkerSteps, running : BOOLEAN]
  BY <1>1, <1>2 DEF TypeOK
<1>7. /\ journal' = journal \/ journal'.state \in {"Idle", "Staged"}
      /\ journal' = journal \/ journal'.state = "Idle" \/ MayKeep
      /\ journal'.snap = journal.snap
      /\ journal' \in [state : JournalStates, child : BOOLEAN, snap : BOOLEAN, err : BOOLEAN]
  BY <1>4 DEF TypeOK, JournalStates
<1>. QED
  BY <1>1, <1>3, <1>5, <1>6, <1>7 DEF MayKeep, TypeOK

(* Abandon and Surrender: the last word is written, or it is lost. *)
LEMMA Abandons ==
  ASSUME TypeOK, Abandon
  PROVE  /\ worker.pc = "abandoning" /\ worker'.pc = "reporting"
         /\ worker'.op = worker.op /\ worker'.running = worker.running
         /\ journal' = journal \/ journal'.state = "Idle"
         /\ journal'.child = journal.child /\ journal'.snap = journal.snap
         /\ UNCHANGED <<pointer, entry, data, backup, server, accepted>>
<1>1. /\ worker.pc = "abandoning" /\ worker' = [worker EXCEPT !.pc = "reporting"]
      /\ UNCHANGED <<pointer, entry, data, backup, server, accepted>>
  BY DEF Abandon, At, Goto
<1>2. journal' = journal \/ journal' = [journal EXCEPT !.state = "Idle", !.err = TRUE]
  BY DEF Abandon, LastWord
<1>3. CASE journal' = journal
  BY <1>1, <1>3 DEF TypeOK
<1>4. CASE journal' = [journal EXCEPT !.state = "Idle", !.err = TRUE]
  BY <1>1, <1>4 DEF TypeOK
<1>. QED
  BY <1>2, <1>3, <1>4

LEMMA Surrenders ==
  ASSUME TypeOK, Surrender
  PROVE  /\ worker.pc = "surrendering" /\ worker' = NoWorker
         /\ \/ journal'.state = "ManualRecoveryRequired"
            \/ journal' = journal /\ Exposed
         /\ journal'.child = journal.child /\ journal'.snap = journal.snap
         /\ UNCHANGED <<pointer, entry, data, backup, server, accepted>>
<1>1. /\ worker.pc = "surrendering" /\ worker' = NoWorker
      /\ UNCHANGED <<pointer, entry, data, backup, server, accepted>>
  BY DEF Surrender, At, End
<1>2. \/ journal' = journal /\ Exposed
      \/ journal' = [journal EXCEPT !.state = "ManualRecoveryRequired", !.err = TRUE]
  BY DEF Surrender, LastWord
<1>3. CASE journal' = journal /\ Exposed
  BY <1>1, <1>3
<1>4. CASE journal' = [journal EXCEPT !.state = "ManualRecoveryRequired", !.err = TRUE]
  BY <1>1, <1>4 DEF TypeOK
<1>. QED
  BY <1>2, <1>3, <1>4

USE DEF At, Goto, End, StartWorker, Serve, Opens, Opened, LastWord, Fails, Managing,
        disk, report, bounds, NoServer, NoWorker, NoData, OrphanStates

-----------------------------------------------------------------------------
(* Control is kept by every step *)

LEMMA JournalType ==
  ASSUME TypeOK, [Next]_vars
  PROVE  journal' \in [state : JournalStates, child : BOOLEAN, snap : BOOLEAN, err : BOOLEAN]
<1> USE DEF TypeOK, JournalStates
<1>1. CASE Launch           BY <1>1 DEF Launch
<1>2. CASE Write            BY <1>2 DEF Write
<1>3. CASE Migrate          BY <1>3 DEF Migrate
<1>4. CASE Quit             BY <1>4 DEF Quit
<1>5. CASE Check            BY <1>5 DEF Check
<1>6. CASE Fetch
  <2>1. PICK e \in BOOLEAN, s \in {"Idle", "Staged"} :
            journal' = [journal EXCEPT !.state = s, !.err = e]
    BY <1>6 DEF Fetch
  <2>. QED
    BY <2>1
<1>7. CASE CancelUpdate     BY <1>7 DEF CancelUpdate
<1>8. CASE RequestInstall   BY <1>8 DEF RequestInstall
<1>9. CASE Reap             BY <1>9 DEF Reap
<1>10. CASE Refresh         BY <1>10 DEF Refresh
<1>11. CASE WriteIntent     BY <1>11, Intents
<1>12. CASE Drain           BY <1>12 DEF Drain
<1>13. CASE DrainTimeout    BY <1>13 DEF DrainTimeout
<1>14. CASE TakeSnapshot    BY <1>14 DEF TakeSnapshot
<1>15. CASE Replace         BY <1>15 DEF Replace
<1>16. CASE Point           BY <1>16 DEF Point
<1>17. CASE Spawn           BY <1>17 DEF Spawn
<1>18. CASE Probe           BY <1>18 DEF Probe
<1>19. CASE SyncNew         BY <1>19 DEF SyncNew
<1>20. CASE Open            BY <1>20 DEF Open
<1>21. CASE Finish          BY <1>21 DEF Finish
<1>22. CASE CandidateDied   BY <1>22 DEF CandidateDied
<1>23. CASE Abandon         BY <1>23 DEF Abandon
<1>24. CASE ResumeOld       BY <1>24 DEF ResumeOld
<1>25. CASE Report          BY <1>25 DEF Report
<1>26. CASE SyncOld         BY <1>26 DEF SyncOld
<1>27. CASE KillChild       BY <1>27 DEF KillChild
<1>28. CASE Marked          BY <1>28 DEF Marked, RestoreStates
<1>29. CASE Quarantine      BY <1>29 DEF Quarantine
<1>30. CASE RestoreData     BY <1>30 DEF RestoreData
<1>31. CASE Repoint         BY <1>31 DEF Repoint
<1>32. CASE Reopen          BY <1>32 DEF Reopen
<1>33. CASE Settle          BY <1>33 DEF Settle
<1>34. CASE Surrender       BY <1>34 DEF Surrender
<1>35. CASE StopOrphan      BY <1>35 DEF StopOrphan
<1>36. CASE AwaitServer     BY <1>36 DEF AwaitServer
<1>37. CASE GiveUp          BY <1>37 DEF GiveUp
<1>38. CASE RecoverFinish   BY <1>38, Finishes
<1>39. CASE RecoverRollBack BY <1>39 DEF RecoverRollBack, RollBackStates, RestoreStates
<1>40. CASE RecoverManual   BY <1>40 DEF RecoverManual
<1>41. CASE Resync          BY <1>41 DEF Resync
<1>42. CASE LaunchChild     BY <1>42 DEF LaunchChild
<1>43. CASE StepFails
  BY <1>43 DEF StepFails, BeforeStop, AfterStop, AfterSwitch, WithCandidate, Rollback
<1>44. CASE CommitFails     BY <1>44 DEF CommitFails, AfterCommit
<1>45. CASE Die             BY <1>45 DEF Die
<1>46. CASE UNCHANGED vars
  BY <1>46 DEF vars
<1>. QED
  BY <1>1, <1>2, <1>3, <1>4, <1>5, <1>6, <1>7, <1>8, <1>9, <1>10, <1>11, <1>12, <1>13,
     <1>14, <1>15, <1>16, <1>17, <1>18, <1>19, <1>20, <1>21, <1>22, <1>23, <1>24, <1>25,
     <1>26, <1>27, <1>28, <1>29, <1>30, <1>31, <1>32, <1>33, <1>34, <1>35, <1>36, <1>37,
     <1>38, <1>39, <1>40, <1>41, <1>42, <1>43, <1>44, <1>45, <1>46 DEF Next, Install,
     RollBack, Recover

LEMMA WorkerType ==
  ASSUME TypeOK, [Next]_vars
  PROVE  worker' \in [op : {"none", "install", "recover"}, pc : WorkerSteps, running : BOOLEAN]
<1> USE DEF TypeOK
<1>1. CASE Launch
  <2>1. \/ worker' = worker
        \/ worker' = [op |-> "recover", pc |-> "orphan", running |-> FALSE]
    BY <1>1 DEF Launch
  <2>2. CASE worker' = worker
    BY <2>2
  <2>3. CASE worker' = [op |-> "recover", pc |-> "orphan", running |-> FALSE]
    BY <2>3, Steps
  <2>. QED
    BY <2>1, <2>2, <2>3
<1>2. CASE Write            BY <1>2, Steps DEF Write
<1>3. CASE Migrate          BY <1>3, Steps DEF Migrate
<1>4. CASE Quit             BY <1>4, Steps DEF Quit
<1>5. CASE Check            BY <1>5, Steps DEF Check
<1>6. CASE Fetch            BY <1>6, Steps DEF Fetch
<1>7. CASE CancelUpdate     BY <1>7, Steps DEF CancelUpdate
<1>8. CASE RequestInstall   BY <1>8, Steps DEF RequestInstall
<1>9. CASE Reap             BY <1>9, Steps DEF Reap
<1>10. CASE Refresh         BY <1>10, Steps DEF Refresh
<1>11. CASE WriteIntent     BY <1>11, Steps, Intents
<1>12. CASE Drain           BY <1>12, Steps DEF Drain
<1>13. CASE DrainTimeout    BY <1>13, Steps DEF DrainTimeout
<1>14. CASE TakeSnapshot    BY <1>14, Steps DEF TakeSnapshot
<1>15. CASE Replace         BY <1>15, Steps DEF Replace
<1>16. CASE Point           BY <1>16, Steps DEF Point
<1>17. CASE Spawn           BY <1>17, Steps DEF Spawn
<1>18. CASE Probe           BY <1>18, Steps DEF Probe
<1>19. CASE SyncNew         BY <1>19, Steps DEF SyncNew
<1>20. CASE Open            BY <1>20, Steps DEF Open
<1>21. CASE Finish          BY <1>21, Steps DEF Finish
<1>22. CASE CandidateDied
  <2>1. worker' = NoWorker \/ worker' = [worker EXCEPT !.pc = "killing"]
    BY <1>22 DEF CandidateDied
  <2>2. CASE worker' = NoWorker
    BY <2>2, Steps
  <2>3. CASE worker' = [worker EXCEPT !.pc = "killing"]
    BY <2>3, Steps
  <2>. QED
    BY <2>1, <2>2, <2>3
<1>23. CASE Abandon         BY <1>23, Steps DEF Abandon
<1>24. CASE ResumeOld       BY <1>24, Steps DEF ResumeOld
<1>25. CASE Report          BY <1>25, Steps DEF Report
<1>26. CASE SyncOld         BY <1>26, Steps DEF SyncOld
<1>27. CASE KillChild       BY <1>27, Steps DEF KillChild
<1>28. CASE Marked          BY <1>28, Steps DEF Marked, RestoreStates
<1>29. CASE Quarantine      BY <1>29, Steps DEF Quarantine
<1>30. CASE RestoreData     BY <1>30, Steps DEF RestoreData
<1>31. CASE Repoint         BY <1>31, Steps DEF Repoint
<1>32. CASE Reopen          BY <1>32, Steps DEF Reopen
<1>33. CASE Settle          BY <1>33, Steps DEF Settle
<1>34. CASE Surrender       BY <1>34, Steps DEF Surrender
<1>35. CASE StopOrphan      BY <1>35, Steps DEF StopOrphan
<1>36. CASE AwaitServer     BY <1>36, Steps DEF AwaitServer
<1>37. CASE GiveUp          BY <1>37, Steps DEF GiveUp
<1>38. CASE RecoverFinish   BY <1>38, Steps, Finishes
<1>39. CASE RecoverRollBack
  BY <1>39, Steps DEF RecoverRollBack, RollBackStates, RestoreStates
<1>40. CASE RecoverManual   BY <1>40, Steps DEF RecoverManual
<1>41. CASE Resync          BY <1>41, Steps DEF Resync
<1>42. CASE LaunchChild     BY <1>42, Steps DEF LaunchChild
<1>43. CASE StepFails
  BY <1>43, Steps DEF StepFails, BeforeStop, AfterStop, AfterSwitch, WithCandidate, Rollback
<1>44. CASE CommitFails     BY <1>44, Steps DEF CommitFails, AfterCommit
<1>45. CASE Die             BY <1>45, Steps DEF Die
<1>46. CASE UNCHANGED vars
  BY <1>46 DEF vars
<1>. QED
  BY <1>1, <1>2, <1>3, <1>4, <1>5, <1>6, <1>7, <1>8, <1>9, <1>10, <1>11, <1>12, <1>13,
     <1>14, <1>15, <1>16, <1>17, <1>18, <1>19, <1>20, <1>21, <1>22, <1>23, <1>24, <1>25,
     <1>26, <1>27, <1>28, <1>29, <1>30, <1>31, <1>32, <1>33, <1>34, <1>35, <1>36, <1>37,
     <1>38, <1>39, <1>40, <1>41, <1>42, <1>43, <1>44, <1>45, <1>46 DEF Next, Install,
     RollBack, Recover

LEMMA DiskType ==
  ASSUME TypeOK, [Next]_vars
  PROVE  /\ pointer' \in Versions /\ entry' \in Versions
         /\ data' \in [schema : Versions \cup {"none"}, writes : Nat]
         /\ backup' \in [schema : Versions \cup {"none"}, writes : Nat]
<1> USE DEF TypeOK, Versions
<1>1. CASE Launch           BY <1>1 DEF Launch
<1>2. CASE Write            BY <1>2 DEF Write
<1>3. CASE Migrate          BY <1>3 DEF Migrate
<1>4. CASE Quit             BY <1>4 DEF Quit
<1>5. CASE Check            BY <1>5 DEF Check
<1>6. CASE Fetch            BY <1>6 DEF Fetch
<1>7. CASE CancelUpdate     BY <1>7 DEF CancelUpdate
<1>8. CASE RequestInstall   BY <1>8 DEF RequestInstall
<1>9. CASE Reap             BY <1>9 DEF Reap
<1>10. CASE Refresh         BY <1>10 DEF Refresh
<1>11. CASE WriteIntent     BY <1>11, Intents
<1>12. CASE Drain           BY <1>12 DEF Drain
<1>13. CASE DrainTimeout    BY <1>13 DEF DrainTimeout
<1>14. CASE TakeSnapshot    BY <1>14 DEF TakeSnapshot
<1>15. CASE Replace         BY <1>15 DEF Replace
<1>16. CASE Point           BY <1>16 DEF Point
<1>17. CASE Spawn           BY <1>17 DEF Spawn
<1>18. CASE Probe           BY <1>18 DEF Probe
<1>19. CASE SyncNew         BY <1>19 DEF SyncNew
<1>20. CASE Open            BY <1>20 DEF Open
<1>21. CASE Finish          BY <1>21 DEF Finish
<1>22. CASE CandidateDied   BY <1>22 DEF CandidateDied
<1>23. CASE Abandon         BY <1>23 DEF Abandon
<1>24. CASE ResumeOld       BY <1>24 DEF ResumeOld
<1>25. CASE Report          BY <1>25 DEF Report
<1>26. CASE SyncOld         BY <1>26 DEF SyncOld
<1>27. CASE KillChild       BY <1>27 DEF KillChild
<1>28. CASE Marked          BY <1>28 DEF Marked, RestoreStates
<1>29. CASE Quarantine      BY <1>29 DEF Quarantine
<1>30. CASE RestoreData     BY <1>30 DEF RestoreData
<1>31. CASE Repoint         BY <1>31 DEF Repoint
<1>32. CASE Reopen          BY <1>32 DEF Reopen
<1>33. CASE Settle          BY <1>33 DEF Settle
<1>34. CASE Surrender       BY <1>34 DEF Surrender
<1>35. CASE StopOrphan      BY <1>35 DEF StopOrphan
<1>36. CASE AwaitServer     BY <1>36 DEF AwaitServer
<1>37. CASE GiveUp          BY <1>37 DEF GiveUp
<1>38. CASE RecoverFinish   BY <1>38, Finishes
<1>39. CASE RecoverRollBack BY <1>39 DEF RecoverRollBack, RollBackStates, RestoreStates
<1>40. CASE RecoverManual   BY <1>40 DEF RecoverManual
<1>41. CASE Resync          BY <1>41 DEF Resync
<1>42. CASE LaunchChild     BY <1>42 DEF LaunchChild
<1>43. CASE StepFails
  BY <1>43 DEF StepFails, BeforeStop, AfterStop, AfterSwitch, WithCandidate, Rollback
<1>44. CASE CommitFails     BY <1>44 DEF CommitFails, AfterCommit
<1>45. CASE Die             BY <1>45 DEF Die
<1>46. CASE UNCHANGED vars
  BY <1>46 DEF vars
<1>. QED
  BY <1>1, <1>2, <1>3, <1>4, <1>5, <1>6, <1>7, <1>8, <1>9, <1>10, <1>11, <1>12, <1>13,
     <1>14, <1>15, <1>16, <1>17, <1>18, <1>19, <1>20, <1>21, <1>22, <1>23, <1>24, <1>25,
     <1>26, <1>27, <1>28, <1>29, <1>30, <1>31, <1>32, <1>33, <1>34, <1>35, <1>36, <1>37,
     <1>38, <1>39, <1>40, <1>41, <1>42, <1>43, <1>44, <1>45, <1>46 DEF Next, Install,
     RollBack, Recover

LEMMA ServerType ==
  ASSUME TypeOK, [Next]_vars
  PROVE  /\ server' \in [version : Versions, waits : BOOLEAN,
                       mode : {"none", "starting", "gated", "paused", "open"}]
         /\ exit' \in {"none", "ok", "error"}
         /\ outcome' \in {"none", "committed", "cancelled", "healthy", "manual"}
<1> USE DEF TypeOK, Versions
<1>1. CASE Launch
  <2>1. /\ server' = server \/ \E v \in Versions :
              server' = [version |-> v, mode |-> "open", waits |-> FALSE]
        /\ exit' \in {exit, "none", "ok"} /\ outcome' \in {outcome, "none"}
    BY <1>1 DEF Launch
  <2>2. CASE server' = server
    BY <2>1, <2>2
  <2>3. ASSUME NEW v \in Versions, server' = [version |-> v, mode |-> "open", waits |-> FALSE]
        PROVE  server' \in [version : Versions, waits : BOOLEAN,
                            mode : {"none", "starting", "gated", "paused", "open"}]
    BY <2>3
  <2>. QED
    BY <2>1, <2>2, <2>3
<1>2. CASE Write            BY <1>2 DEF Write
<1>3. CASE Migrate          BY <1>3 DEF Migrate
<1>4. CASE Quit             BY <1>4 DEF Quit
<1>5. CASE Check            BY <1>5 DEF Check
<1>6. CASE Fetch            BY <1>6 DEF Fetch
<1>7. CASE CancelUpdate     BY <1>7 DEF CancelUpdate
<1>8. CASE RequestInstall   BY <1>8 DEF RequestInstall
<1>9. CASE Reap             BY <1>9 DEF Reap
<1>10. CASE Refresh         BY <1>10 DEF Refresh
<1>11. CASE WriteIntent     BY <1>11, Intents
<1>12. CASE Drain           BY <1>12 DEF Drain
<1>13. CASE DrainTimeout    BY <1>13 DEF DrainTimeout
<1>14. CASE TakeSnapshot    BY <1>14 DEF TakeSnapshot
<1>15. CASE Replace         BY <1>15 DEF Replace
<1>16. CASE Point           BY <1>16 DEF Point
<1>17. CASE Spawn           BY <1>17 DEF Spawn
<1>18. CASE Probe           BY <1>18 DEF Probe
<1>19. CASE SyncNew         BY <1>19 DEF SyncNew
<1>20. CASE Open            BY <1>20 DEF Open
<1>21. CASE Finish          BY <1>21 DEF Finish
<1>22. CASE CandidateDied   BY <1>22 DEF CandidateDied
<1>23. CASE Abandon         BY <1>23 DEF Abandon
<1>24. CASE ResumeOld
  <2>1. /\ server' = server \/ \E v \in Versions :
              server' = [version |-> v, mode |-> "open", waits |-> FALSE]
        /\ exit' \in {exit, "none", "ok"} /\ outcome' \in {outcome, "none"}
    BY <1>24 DEF ResumeOld
  <2>2. CASE server' = server
    BY <2>1, <2>2
  <2>3. ASSUME NEW v \in Versions, server' = [version |-> v, mode |-> "open", waits |-> FALSE]
        PROVE  server' \in [version : Versions, waits : BOOLEAN,
                            mode : {"none", "starting", "gated", "paused", "open"}]
    BY <2>3
  <2>. QED
    BY <2>1, <2>2, <2>3
<1>25. CASE Report          BY <1>25 DEF Report
<1>26. CASE SyncOld         BY <1>26 DEF SyncOld
<1>27. CASE KillChild       BY <1>27 DEF KillChild
<1>28. CASE Marked          BY <1>28 DEF Marked, RestoreStates
<1>29. CASE Quarantine      BY <1>29 DEF Quarantine
<1>30. CASE RestoreData     BY <1>30 DEF RestoreData
<1>31. CASE Repoint         BY <1>31 DEF Repoint
<1>32. CASE Reopen
  <2>1. /\ server' = server \/ \E v \in Versions :
              server' = [version |-> v, mode |-> "open", waits |-> FALSE]
        /\ exit' \in {exit, "none", "ok"} /\ outcome' \in {outcome, "none"}
    BY <1>32 DEF Reopen
  <2>2. CASE server' = server
    BY <2>1, <2>2
  <2>3. ASSUME NEW v \in Versions, server' = [version |-> v, mode |-> "open", waits |-> FALSE]
        PROVE  server' \in [version : Versions, waits : BOOLEAN,
                            mode : {"none", "starting", "gated", "paused", "open"}]
    BY <2>3
  <2>. QED
    BY <2>1, <2>2, <2>3
<1>33. CASE Settle          BY <1>33 DEF Settle
<1>34. CASE Surrender       BY <1>34 DEF Surrender
<1>35. CASE StopOrphan      BY <1>35 DEF StopOrphan
<1>36. CASE AwaitServer     BY <1>36 DEF AwaitServer
<1>37. CASE GiveUp          BY <1>37 DEF GiveUp
<1>38. CASE RecoverFinish   BY <1>38, Finishes
<1>39. CASE RecoverRollBack BY <1>39 DEF RecoverRollBack, RollBackStates, RestoreStates
<1>40. CASE RecoverManual   BY <1>40 DEF RecoverManual
<1>41. CASE Resync          BY <1>41 DEF Resync
<1>42. CASE LaunchChild
  <2>1. /\ server' = server \/ \E v \in Versions :
              server' = [version |-> v, mode |-> "open", waits |-> FALSE]
        /\ exit' \in {exit, "none", "ok"} /\ outcome' \in {outcome, "none"}
    BY <1>42 DEF LaunchChild
  <2>2. CASE server' = server
    BY <2>1, <2>2
  <2>3. ASSUME NEW v \in Versions, server' = [version |-> v, mode |-> "open", waits |-> FALSE]
        PROVE  server' \in [version : Versions, waits : BOOLEAN,
                            mode : {"none", "starting", "gated", "paused", "open"}]
    BY <2>3
  <2>. QED
    BY <2>1, <2>2, <2>3
<1>43. CASE StepFails
  BY <1>43 DEF StepFails, BeforeStop, AfterStop, AfterSwitch, WithCandidate, Rollback
<1>44. CASE CommitFails     BY <1>44 DEF CommitFails, AfterCommit
<1>45. CASE Die
  <2>1. server' = server \/ server' = NoServer
    BY <1>45 DEF Die
  <2>2. exit' = "error" /\ outcome' = "none"
    BY <1>45 DEF Die
  <2>3. CASE server' = server
    BY <2>2, <2>3
  <2>4. CASE server' = NoServer
    BY <2>2, <2>4
  <2>. QED
    BY <2>1, <2>3, <2>4
<1>46. CASE UNCHANGED vars
  BY <1>46 DEF vars
<1>. QED
  BY <1>1, <1>2, <1>3, <1>4, <1>5, <1>6, <1>7, <1>8, <1>9, <1>10, <1>11, <1>12, <1>13,
     <1>14, <1>15, <1>16, <1>17, <1>18, <1>19, <1>20, <1>21, <1>22, <1>23, <1>24, <1>25,
     <1>26, <1>27, <1>28, <1>29, <1>30, <1>31, <1>32, <1>33, <1>34, <1>35, <1>36, <1>37,
     <1>38, <1>39, <1>40, <1>41, <1>42, <1>43, <1>44, <1>45, <1>46 DEF Next, Install,
     RollBack, Recover

LEMMA BoundsType ==
  ASSUME TypeOK, [Next]_vars
  PROVE  /\ accepted' \in Nat
         /\ checks' \in Nat /\ deaths' \in Nat /\ failures' \in Nat /\ quits' \in Nat
<1> USE DEF TypeOK
<1>1. CASE Launch           BY <1>1 DEF Launch
<1>2. CASE Write            BY <1>2 DEF Write
<1>3. CASE Migrate          BY <1>3 DEF Migrate
<1>4. CASE Quit             BY <1>4 DEF Quit
<1>5. CASE Check            BY <1>5 DEF Check
<1>6. CASE Fetch            BY <1>6 DEF Fetch
<1>7. CASE CancelUpdate     BY <1>7 DEF CancelUpdate
<1>8. CASE RequestInstall   BY <1>8 DEF RequestInstall
<1>9. CASE Reap             BY <1>9 DEF Reap
<1>10. CASE Refresh         BY <1>10 DEF Refresh
<1>11. CASE WriteIntent     BY <1>11, Intents
<1>12. CASE Drain           BY <1>12 DEF Drain
<1>13. CASE DrainTimeout    BY <1>13 DEF DrainTimeout
<1>14. CASE TakeSnapshot    BY <1>14 DEF TakeSnapshot
<1>15. CASE Replace         BY <1>15 DEF Replace
<1>16. CASE Point           BY <1>16 DEF Point
<1>17. CASE Spawn           BY <1>17 DEF Spawn
<1>18. CASE Probe           BY <1>18 DEF Probe
<1>19. CASE SyncNew         BY <1>19 DEF SyncNew
<1>20. CASE Open            BY <1>20 DEF Open
<1>21. CASE Finish          BY <1>21 DEF Finish
<1>22. CASE CandidateDied   BY <1>22 DEF CandidateDied
<1>23. CASE Abandon         BY <1>23 DEF Abandon
<1>24. CASE ResumeOld       BY <1>24 DEF ResumeOld
<1>25. CASE Report          BY <1>25 DEF Report
<1>26. CASE SyncOld         BY <1>26 DEF SyncOld
<1>27. CASE KillChild       BY <1>27 DEF KillChild
<1>28. CASE Marked          BY <1>28 DEF Marked, RestoreStates
<1>29. CASE Quarantine      BY <1>29 DEF Quarantine
<1>30. CASE RestoreData     BY <1>30 DEF RestoreData
<1>31. CASE Repoint         BY <1>31 DEF Repoint
<1>32. CASE Reopen          BY <1>32 DEF Reopen
<1>33. CASE Settle          BY <1>33 DEF Settle
<1>34. CASE Surrender       BY <1>34 DEF Surrender
<1>35. CASE StopOrphan      BY <1>35 DEF StopOrphan
<1>36. CASE AwaitServer     BY <1>36 DEF AwaitServer
<1>37. CASE GiveUp          BY <1>37 DEF GiveUp
<1>38. CASE RecoverFinish   BY <1>38, Finishes
<1>39. CASE RecoverRollBack BY <1>39 DEF RecoverRollBack, RollBackStates, RestoreStates
<1>40. CASE RecoverManual   BY <1>40 DEF RecoverManual
<1>41. CASE Resync          BY <1>41 DEF Resync
<1>42. CASE LaunchChild     BY <1>42 DEF LaunchChild
<1>43. CASE StepFails
  BY <1>43 DEF StepFails, BeforeStop, AfterStop, AfterSwitch, WithCandidate, Rollback
<1>44. CASE CommitFails     BY <1>44 DEF CommitFails, AfterCommit
<1>45. CASE Die             BY <1>45 DEF Die
<1>46. CASE UNCHANGED vars
  BY <1>46 DEF vars
<1>. QED
  BY <1>1, <1>2, <1>3, <1>4, <1>5, <1>6, <1>7, <1>8, <1>9, <1>10, <1>11, <1>12, <1>13,
     <1>14, <1>15, <1>16, <1>17, <1>18, <1>19, <1>20, <1>21, <1>22, <1>23, <1>24, <1>25,
     <1>26, <1>27, <1>28, <1>29, <1>30, <1>31, <1>32, <1>33, <1>34, <1>35, <1>36, <1>37,
     <1>38, <1>39, <1>40, <1>41, <1>42, <1>43, <1>44, <1>45, <1>46 DEF Next, Install,
     RollBack, Recover

LEMMA InOpStep ==
  ASSUME Control, [Next]_vars
  PROVE  InOp'
<1> USE DEF Control, TypeOK, InStep, InOp, RecoverOnly, JournalStates, Versions
<1>1. CASE Launch           BY <1>1 DEF Launch
<1>2. CASE Write            BY <1>2 DEF Write
<1>3. CASE Migrate          BY <1>3 DEF Migrate
<1>4. CASE Quit             BY <1>4 DEF Quit
<1>5. CASE Check            BY <1>5 DEF Check
<1>6. CASE Fetch            BY <1>6 DEF Fetch
<1>7. CASE CancelUpdate     BY <1>7 DEF CancelUpdate
<1>8. CASE RequestInstall   BY <1>8 DEF RequestInstall
<1>9. CASE Reap             BY <1>9 DEF Reap
<1>10. CASE Refresh         BY <1>10 DEF Refresh
<1>11. CASE WriteIntent     BY <1>11, Intents
<1>12. CASE Drain           BY <1>12 DEF Drain
<1>13. CASE DrainTimeout    BY <1>13 DEF DrainTimeout
<1>14. CASE TakeSnapshot    BY <1>14 DEF TakeSnapshot
<1>15. CASE Replace         BY <1>15 DEF Replace
<1>16. CASE Point           BY <1>16 DEF Point
<1>17. CASE Spawn           BY <1>17 DEF Spawn
<1>18. CASE Probe           BY <1>18 DEF Probe
<1>19. CASE SyncNew         BY <1>19 DEF SyncNew
<1>20. CASE Open            BY <1>20 DEF Open
<1>21. CASE Finish          BY <1>21 DEF Finish
<1>22. CASE CandidateDied   BY <1>22 DEF CandidateDied
<1>23. CASE Abandon         BY <1>23, Abandons
<1>24. CASE ResumeOld       BY <1>24 DEF ResumeOld
<1>25. CASE Report          BY <1>25 DEF Report
<1>26. CASE SyncOld         BY <1>26 DEF SyncOld
<1>27. CASE KillChild       BY <1>27 DEF KillChild
<1>28. CASE Marked          BY <1>28 DEF Marked, RestoreStates
<1>29. CASE Quarantine      BY <1>29 DEF Quarantine
<1>30. CASE RestoreData     BY <1>30 DEF RestoreData
<1>31. CASE Repoint         BY <1>31 DEF Repoint
<1>32. CASE Reopen          BY <1>32 DEF Reopen
<1>33. CASE Settle          BY <1>33 DEF Settle
<1>34. CASE Surrender       BY <1>34, Surrenders
<1>35. CASE StopOrphan      BY <1>35 DEF StopOrphan
<1>36. CASE AwaitServer     BY <1>36 DEF AwaitServer
<1>37. CASE GiveUp          BY <1>37 DEF GiveUp
<1>38. CASE RecoverFinish   BY <1>38, Finishes
<1>39. CASE RecoverRollBack BY <1>39 DEF RecoverRollBack, RollBackStates, RestoreStates
<1>40. CASE RecoverManual   BY <1>40 DEF RecoverManual
<1>41. CASE Resync          BY <1>41 DEF Resync
<1>42. CASE LaunchChild     BY <1>42 DEF LaunchChild
<1>43. CASE StepFails
  BY <1>43 DEF StepFails, BeforeStop, AfterStop, AfterSwitch, WithCandidate, Rollback
<1>44. CASE CommitFails     BY <1>44 DEF CommitFails, AfterCommit
<1>45. CASE Die             BY <1>45 DEF Die
<1>46. CASE UNCHANGED vars
  BY <1>46 DEF vars
<1>. QED
  BY <1>1, <1>2, <1>3, <1>4, <1>5, <1>6, <1>7, <1>8, <1>9, <1>10, <1>11, <1>12, <1>13,
     <1>14, <1>15, <1>16, <1>17, <1>18, <1>19, <1>20, <1>21, <1>22, <1>23, <1>24, <1>25,
     <1>26, <1>27, <1>28, <1>29, <1>30, <1>31, <1>32, <1>33, <1>34, <1>35, <1>36, <1>37,
     <1>38, <1>39, <1>40, <1>41, <1>42, <1>43, <1>44, <1>45, <1>46 DEF Next, Install,
     RollBack, Recover

LEMMA InStepStep ==
  ASSUME Control, [Next]_vars
  PROVE  InStep'
<1> USE DEF Control, TypeOK, InOp, InStep, InMode, Alone, Candidate, Committing,
      JournalStates, Versions
<1>1. CASE Launch           BY <1>1 DEF Launch
<1>2. CASE Write            BY <1>2 DEF Write
<1>3. CASE Migrate          BY <1>3 DEF Migrate
<1>4. CASE Quit             BY <1>4 DEF Quit
<1>5. CASE Check            BY <1>5 DEF Check
<1>6. CASE Fetch            BY <1>6 DEF Fetch
<1>7. CASE CancelUpdate     BY <1>7 DEF CancelUpdate
<1>8. CASE RequestInstall   BY <1>8 DEF RequestInstall
<1>9. CASE Reap             BY <1>9 DEF Reap
<1>10. CASE Refresh         BY <1>10 DEF Refresh
<1>11. CASE WriteIntent     BY <1>11, Intents
<1>12. CASE Drain           BY <1>12 DEF Drain
<1>13. CASE DrainTimeout    BY <1>13 DEF DrainTimeout
<1>14. CASE TakeSnapshot    BY <1>14 DEF TakeSnapshot
<1>15. CASE Replace         BY <1>15 DEF Replace
<1>16. CASE Point           BY <1>16 DEF Point
<1>17. CASE Spawn           BY <1>17 DEF Spawn
<1>18. CASE Probe           BY <1>18 DEF Probe
<1>19. CASE SyncNew         BY <1>19 DEF SyncNew
<1>20. CASE Open            BY <1>20 DEF Open
<1>21. CASE Finish          BY <1>21 DEF Finish
<1>22. CASE CandidateDied   BY <1>22 DEF CandidateDied
<1>23. CASE Abandon         BY <1>23, Abandons
<1>24. CASE ResumeOld       BY <1>24 DEF ResumeOld
<1>25. CASE Report          BY <1>25 DEF Report
<1>26. CASE SyncOld         BY <1>26 DEF SyncOld
<1>27. CASE KillChild       BY <1>27 DEF KillChild
<1>28. CASE Marked          BY <1>28 DEF Marked, RestoreStates
<1>29. CASE Quarantine      BY <1>29 DEF Quarantine
<1>30. CASE RestoreData     BY <1>30 DEF RestoreData
<1>31. CASE Repoint         BY <1>31 DEF Repoint
<1>32. CASE Reopen          BY <1>32 DEF Reopen
<1>33. CASE Settle          BY <1>33 DEF Settle
<1>34. CASE Surrender       BY <1>34, Surrenders
<1>35. CASE StopOrphan      BY <1>35 DEF StopOrphan
<1>36. CASE AwaitServer     BY <1>36 DEF AwaitServer
<1>37. CASE GiveUp          BY <1>37 DEF GiveUp
<1>38. CASE RecoverFinish   BY <1>38, Finishes
<1>39. CASE RecoverRollBack BY <1>39 DEF RecoverRollBack, RollBackStates, RestoreStates
<1>40. CASE RecoverManual   BY <1>40 DEF RecoverManual
<1>41. CASE Resync          BY <1>41 DEF Resync
<1>42. CASE LaunchChild     BY <1>42 DEF LaunchChild
<1>43. CASE StepFails
  BY <1>43 DEF StepFails, BeforeStop, AfterStop, AfterSwitch, WithCandidate, Rollback
<1>44. CASE CommitFails     BY <1>44 DEF CommitFails, AfterCommit
<1>45. CASE Die             BY <1>45 DEF Die
<1>46. CASE UNCHANGED vars
  BY <1>46 DEF vars
<1>. QED
  BY <1>1, <1>2, <1>3, <1>4, <1>5, <1>6, <1>7, <1>8, <1>9, <1>10, <1>11, <1>12, <1>13,
     <1>14, <1>15, <1>16, <1>17, <1>18, <1>19, <1>20, <1>21, <1>22, <1>23, <1>24, <1>25,
     <1>26, <1>27, <1>28, <1>29, <1>30, <1>31, <1>32, <1>33, <1>34, <1>35, <1>36, <1>37,
     <1>38, <1>39, <1>40, <1>41, <1>42, <1>43, <1>44, <1>45, <1>46 DEF Next, Install,
     RollBack, Recover

LEMMA InRollbackStep ==
  ASSUME Control, [Next]_vars
  PROVE  InRollback'
<1> USE DEF Control, TypeOK, InStep, InRollback, InOp, InMode, Alone, RecoverOnly, Undone,
      Early, Settled, Candidate, Committing
<1>1. CASE Launch           BY <1>1 DEF Launch
<1>2. CASE Write            BY <1>2 DEF Write
<1>3. CASE Migrate          BY <1>3 DEF Migrate
<1>4. CASE Quit             BY <1>4 DEF Quit
<1>5. CASE Check            BY <1>5 DEF Check
<1>6. CASE Fetch            BY <1>6 DEF Fetch
<1>7. CASE CancelUpdate     BY <1>7 DEF CancelUpdate
<1>8. CASE RequestInstall   BY <1>8 DEF RequestInstall
<1>9. CASE Reap             BY <1>9 DEF Reap
<1>10. CASE Refresh         BY <1>10 DEF Refresh
<1>11. CASE WriteIntent     BY <1>11, Intents
<1>12. CASE Drain           BY <1>12 DEF Drain
<1>13. CASE DrainTimeout    BY <1>13 DEF DrainTimeout
<1>14. CASE TakeSnapshot    BY <1>14 DEF TakeSnapshot
<1>15. CASE Replace         BY <1>15 DEF Replace
<1>16. CASE Point           BY <1>16 DEF Point
<1>17. CASE Spawn           BY <1>17 DEF Spawn
<1>18. CASE Probe           BY <1>18 DEF Probe
<1>19. CASE SyncNew         BY <1>19 DEF SyncNew
<1>20. CASE Open            BY <1>20 DEF Open
<1>21. CASE Finish          BY <1>21 DEF Finish
<1>22. CASE CandidateDied   BY <1>22 DEF CandidateDied
<1>23. CASE Abandon         BY <1>23, Abandons
<1>24. CASE ResumeOld       BY <1>24 DEF ResumeOld
<1>25. CASE Report          BY <1>25 DEF Report
<1>26. CASE SyncOld         BY <1>26 DEF SyncOld
<1>27. CASE KillChild       BY <1>27 DEF KillChild
<1>28. CASE Marked          BY <1>28 DEF Marked, RestoreStates
<1>29. CASE Quarantine      BY <1>29 DEF Quarantine
<1>30. CASE RestoreData     BY <1>30 DEF RestoreData
<1>31. CASE Repoint         BY <1>31 DEF Repoint
<1>32. CASE Reopen          BY <1>32 DEF Reopen
<1>33. CASE Settle          BY <1>33 DEF Settle
<1>34. CASE Surrender       BY <1>34, Surrenders
<1>35. CASE StopOrphan      BY <1>35 DEF StopOrphan
<1>36. CASE AwaitServer     BY <1>36 DEF AwaitServer
<1>37. CASE GiveUp          BY <1>37 DEF GiveUp
<1>38. CASE RecoverFinish   BY <1>38, Finishes
<1>39. CASE RecoverRollBack
  BY <1>39 DEF RecoverRollBack, RollBackStates, RestoreStates, JournalStates
<1>40. CASE RecoverManual   BY <1>40 DEF RecoverManual
<1>41. CASE Resync          BY <1>41 DEF Resync
<1>42. CASE LaunchChild     BY <1>42 DEF LaunchChild
<1>43. CASE StepFails
  BY <1>43 DEF StepFails, BeforeStop, AfterStop, AfterSwitch, WithCandidate, Rollback
<1>44. CASE CommitFails     BY <1>44 DEF CommitFails, AfterCommit
<1>45. CASE Die             BY <1>45 DEF Die
<1>46. CASE UNCHANGED vars
  BY <1>46 DEF vars
<1>. QED
  BY <1>1, <1>2, <1>3, <1>4, <1>5, <1>6, <1>7, <1>8, <1>9, <1>10, <1>11, <1>12, <1>13,
     <1>14, <1>15, <1>16, <1>17, <1>18, <1>19, <1>20, <1>21, <1>22, <1>23, <1>24, <1>25,
     <1>26, <1>27, <1>28, <1>29, <1>30, <1>31, <1>32, <1>33, <1>34, <1>35, <1>36, <1>37,
     <1>38, <1>39, <1>40, <1>41, <1>42, <1>43, <1>44, <1>45, <1>46 DEF Next, Install,
     RollBack, Recover

LEMMA AloneStep ==
  ASSUME Control, [Next]_vars
  PROVE  Alone'
<1> USE DEF Control, TypeOK, InStep, InRollback, InOp, InMode, Alone, Settled, Candidate,
      Committing
<1>1. CASE Launch           BY <1>1 DEF Launch
<1>2. CASE Write            BY <1>2 DEF Write
<1>3. CASE Migrate          BY <1>3 DEF Migrate
<1>4. CASE Quit             BY <1>4 DEF Quit
<1>5. CASE Check            BY <1>5 DEF Check
<1>6. CASE Fetch            BY <1>6 DEF Fetch
<1>7. CASE CancelUpdate     BY <1>7 DEF CancelUpdate
<1>8. CASE RequestInstall   BY <1>8 DEF RequestInstall
<1>9. CASE Reap             BY <1>9 DEF Reap
<1>10. CASE Refresh         BY <1>10 DEF Refresh
<1>11. CASE WriteIntent     BY <1>11, Intents
<1>12. CASE Drain           BY <1>12 DEF Drain
<1>13. CASE DrainTimeout    BY <1>13 DEF DrainTimeout
<1>14. CASE TakeSnapshot    BY <1>14 DEF TakeSnapshot
<1>15. CASE Replace         BY <1>15 DEF Replace
<1>16. CASE Point           BY <1>16 DEF Point
<1>17. CASE Spawn           BY <1>17 DEF Spawn
<1>18. CASE Probe           BY <1>18 DEF Probe
<1>19. CASE SyncNew         BY <1>19 DEF SyncNew
<1>20. CASE Open            BY <1>20 DEF Open
<1>21. CASE Finish          BY <1>21 DEF Finish
<1>22. CASE CandidateDied   BY <1>22 DEF CandidateDied
<1>23. CASE Abandon         BY <1>23, Abandons
<1>24. CASE ResumeOld       BY <1>24 DEF ResumeOld
<1>25. CASE Report          BY <1>25 DEF Report
<1>26. CASE SyncOld         BY <1>26 DEF SyncOld
<1>27. CASE KillChild       BY <1>27 DEF KillChild
<1>28. CASE Marked          BY <1>28 DEF Marked, RestoreStates
<1>29. CASE Quarantine      BY <1>29 DEF Quarantine
<1>30. CASE RestoreData     BY <1>30 DEF RestoreData
<1>31. CASE Repoint         BY <1>31 DEF Repoint
<1>32. CASE Reopen          BY <1>32 DEF Reopen
<1>33. CASE Settle          BY <1>33 DEF Settle
<1>34. CASE Surrender       BY <1>34, Surrenders
<1>35. CASE StopOrphan      BY <1>35 DEF StopOrphan
<1>36. CASE AwaitServer     BY <1>36 DEF AwaitServer
<1>37. CASE GiveUp          BY <1>37 DEF GiveUp
<1>38. CASE RecoverFinish   BY <1>38, Finishes
<1>39. CASE RecoverRollBack BY <1>39 DEF RecoverRollBack, RollBackStates, RestoreStates
<1>40. CASE RecoverManual   BY <1>40 DEF RecoverManual
<1>41. CASE Resync          BY <1>41 DEF Resync
<1>42. CASE LaunchChild     BY <1>42 DEF LaunchChild
<1>43. CASE StepFails
  BY <1>43 DEF StepFails, BeforeStop, AfterStop, AfterSwitch, WithCandidate, Rollback
<1>44. CASE CommitFails     BY <1>44 DEF CommitFails, AfterCommit
<1>45. CASE Die             BY <1>45 DEF Die
<1>46. CASE UNCHANGED vars
  BY <1>46 DEF vars
<1>. QED
  BY <1>1, <1>2, <1>3, <1>4, <1>5, <1>6, <1>7, <1>8, <1>9, <1>10, <1>11, <1>12, <1>13,
     <1>14, <1>15, <1>16, <1>17, <1>18, <1>19, <1>20, <1>21, <1>22, <1>23, <1>24, <1>25,
     <1>26, <1>27, <1>28, <1>29, <1>30, <1>31, <1>32, <1>33, <1>34, <1>35, <1>36, <1>37,
     <1>38, <1>39, <1>40, <1>41, <1>42, <1>43, <1>44, <1>45, <1>46 DEF Next, Install,
     RollBack, Recover

LEMMA InModeStep ==
  ASSUME Control, [Next]_vars
  PROVE  InMode'
<1> USE DEF Control, TypeOK, InStep, InRollback, InOp, InMode, Alone, RecoverOnly, Undone,
      Early, Settled, Candidate, Committing
<1>1. CASE Launch           BY <1>1 DEF Launch
<1>2. CASE Write            BY <1>2 DEF Write
<1>3. CASE Migrate          BY <1>3 DEF Migrate
<1>4. CASE Quit             BY <1>4 DEF Quit
<1>5. CASE Check            BY <1>5 DEF Check
<1>6. CASE Fetch            BY <1>6 DEF Fetch
<1>7. CASE CancelUpdate     BY <1>7 DEF CancelUpdate
<1>8. CASE RequestInstall   BY <1>8 DEF RequestInstall
<1>9. CASE Reap             BY <1>9 DEF Reap
<1>10. CASE Refresh         BY <1>10 DEF Refresh
<1>11. CASE WriteIntent     BY <1>11, Intents
<1>12. CASE Drain           BY <1>12 DEF Drain
<1>13. CASE DrainTimeout    BY <1>13 DEF DrainTimeout
<1>14. CASE TakeSnapshot    BY <1>14 DEF TakeSnapshot
<1>15. CASE Replace         BY <1>15 DEF Replace
<1>16. CASE Point           BY <1>16 DEF Point
<1>17. CASE Spawn           BY <1>17 DEF Spawn
<1>18. CASE Probe           BY <1>18 DEF Probe
<1>19. CASE SyncNew         BY <1>19 DEF SyncNew
<1>20. CASE Open            BY <1>20 DEF Open
<1>21. CASE Finish          BY <1>21 DEF Finish
<1>22. CASE CandidateDied   BY <1>22 DEF CandidateDied
<1>23. CASE Abandon         BY <1>23, Abandons
<1>24. CASE ResumeOld       BY <1>24 DEF ResumeOld
<1>25. CASE Report          BY <1>25 DEF Report
<1>26. CASE SyncOld         BY <1>26 DEF SyncOld
<1>27. CASE KillChild       BY <1>27 DEF KillChild
<1>28. CASE Marked          BY <1>28 DEF Marked, RestoreStates
<1>29. CASE Quarantine      BY <1>29 DEF Quarantine
<1>30. CASE RestoreData     BY <1>30 DEF RestoreData
<1>31. CASE Repoint         BY <1>31 DEF Repoint
<1>32. CASE Reopen          BY <1>32 DEF Reopen
<1>33. CASE Settle          BY <1>33 DEF Settle
<1>34. CASE Surrender       BY <1>34, Surrenders
<1>35. CASE StopOrphan      BY <1>35 DEF StopOrphan
<1>36. CASE AwaitServer     BY <1>36 DEF AwaitServer
<1>37. CASE GiveUp          BY <1>37 DEF GiveUp
<1>38. CASE RecoverFinish   BY <1>38, Finishes
<1>39. CASE RecoverRollBack BY <1>39 DEF RecoverRollBack, RollBackStates, RestoreStates
<1>40. CASE RecoverManual   BY <1>40 DEF RecoverManual
<1>41. CASE Resync          BY <1>41 DEF Resync
<1>42. CASE LaunchChild     BY <1>42 DEF LaunchChild
<1>43. CASE StepFails
  BY <1>43 DEF StepFails, BeforeStop, AfterStop, AfterSwitch, WithCandidate, Rollback
<1>44. CASE CommitFails     BY <1>44 DEF CommitFails, AfterCommit
<1>45. CASE Die             BY <1>45 DEF Die
<1>46. CASE UNCHANGED vars
  BY <1>46 DEF vars
<1>. QED
  BY <1>1, <1>2, <1>3, <1>4, <1>5, <1>6, <1>7, <1>8, <1>9, <1>10, <1>11, <1>12, <1>13,
     <1>14, <1>15, <1>16, <1>17, <1>18, <1>19, <1>20, <1>21, <1>22, <1>23, <1>24, <1>25,
     <1>26, <1>27, <1>28, <1>29, <1>30, <1>31, <1>32, <1>33, <1>34, <1>35, <1>36, <1>37,
     <1>38, <1>39, <1>40, <1>41, <1>42, <1>43, <1>44, <1>45, <1>46 DEF Next, Install,
     RollBack, Recover

LEMMA InPointerStep ==
  ASSUME Control, [Next]_vars
  PROVE  InPointer'
<1> USE DEF Control, TypeOK, InStep, InRollback, InOp, InMode, Alone, InPointer, Undone,
      Early, Settled, Versions, Candidate, Committing
<1>1. CASE Launch           BY <1>1 DEF Launch
<1>2. CASE Write            BY <1>2 DEF Write
<1>3. CASE Migrate          BY <1>3 DEF Migrate
<1>4. CASE Quit             BY <1>4 DEF Quit
<1>5. CASE Check            BY <1>5 DEF Check
<1>6. CASE Fetch            BY <1>6 DEF Fetch
<1>7. CASE CancelUpdate     BY <1>7 DEF CancelUpdate
<1>8. CASE RequestInstall   BY <1>8 DEF RequestInstall
<1>9. CASE Reap             BY <1>9 DEF Reap
<1>10. CASE Refresh         BY <1>10 DEF Refresh
<1>11. CASE WriteIntent     BY <1>11, Intents
<1>12. CASE Drain           BY <1>12 DEF Drain
<1>13. CASE DrainTimeout    BY <1>13 DEF DrainTimeout
<1>14. CASE TakeSnapshot    BY <1>14 DEF TakeSnapshot
<1>15. CASE Replace         BY <1>15 DEF Replace
<1>16. CASE Point           BY <1>16 DEF Point
<1>17. CASE Spawn           BY <1>17 DEF Spawn
<1>18. CASE Probe           BY <1>18 DEF Probe
<1>19. CASE SyncNew         BY <1>19 DEF SyncNew
<1>20. CASE Open            BY <1>20 DEF Open
<1>21. CASE Finish          BY <1>21 DEF Finish
<1>22. CASE CandidateDied   BY <1>22 DEF CandidateDied
<1>23. CASE Abandon         BY <1>23, Abandons
<1>24. CASE ResumeOld       BY <1>24 DEF ResumeOld
<1>25. CASE Report          BY <1>25 DEF Report
<1>26. CASE SyncOld         BY <1>26 DEF SyncOld
<1>27. CASE KillChild       BY <1>27 DEF KillChild
<1>28. CASE Marked          BY <1>28 DEF Marked, RestoreStates
<1>29. CASE Quarantine      BY <1>29 DEF Quarantine
<1>30. CASE RestoreData     BY <1>30 DEF RestoreData
<1>31. CASE Repoint         BY <1>31 DEF Repoint
<1>32. CASE Reopen          BY <1>32 DEF Reopen
<1>33. CASE Settle          BY <1>33 DEF Settle
<1>34. CASE Surrender       BY <1>34, Surrenders
<1>35. CASE StopOrphan      BY <1>35 DEF StopOrphan
<1>36. CASE AwaitServer     BY <1>36 DEF AwaitServer
<1>37. CASE GiveUp          BY <1>37 DEF GiveUp
<1>38. CASE RecoverFinish   BY <1>38, Finishes
<1>39. CASE RecoverRollBack BY <1>39 DEF RecoverRollBack, RollBackStates, RestoreStates
<1>40. CASE RecoverManual   BY <1>40 DEF RecoverManual
<1>41. CASE Resync          BY <1>41 DEF Resync
<1>42. CASE LaunchChild     BY <1>42 DEF LaunchChild
<1>43. CASE StepFails
  BY <1>43 DEF StepFails, BeforeStop, AfterStop, AfterSwitch, WithCandidate, Rollback
<1>44. CASE CommitFails     BY <1>44 DEF CommitFails, AfterCommit
<1>45. CASE Die             BY <1>45 DEF Die
<1>46. CASE UNCHANGED vars
  BY <1>46 DEF vars
<1>. QED
  BY <1>1, <1>2, <1>3, <1>4, <1>5, <1>6, <1>7, <1>8, <1>9, <1>10, <1>11, <1>12, <1>13,
     <1>14, <1>15, <1>16, <1>17, <1>18, <1>19, <1>20, <1>21, <1>22, <1>23, <1>24, <1>25,
     <1>26, <1>27, <1>28, <1>29, <1>30, <1>31, <1>32, <1>33, <1>34, <1>35, <1>36, <1>37,
     <1>38, <1>39, <1>40, <1>41, <1>42, <1>43, <1>44, <1>45, <1>46 DEF Next, Install,
     RollBack, Recover

LEMMA DataShapeStep ==
  ASSUME Control, [Next]_vars
  PROVE  DataShape'
<1> USE DEF Control, TypeOK, InStep, InRollback, InOp, InMode, Alone, DataShape, Settled,
      Versions, Candidate, Committing
<1>1. CASE Launch           BY <1>1 DEF Launch
<1>2. CASE Write            BY <1>2 DEF Write
<1>3. CASE Migrate          BY <1>3 DEF Migrate
<1>4. CASE Quit             BY <1>4 DEF Quit
<1>5. CASE Check            BY <1>5 DEF Check
<1>6. CASE Fetch            BY <1>6 DEF Fetch
<1>7. CASE CancelUpdate     BY <1>7 DEF CancelUpdate
<1>8. CASE RequestInstall   BY <1>8 DEF RequestInstall
<1>9. CASE Reap             BY <1>9 DEF Reap
<1>10. CASE Refresh         BY <1>10 DEF Refresh
<1>11. CASE WriteIntent     BY <1>11, Intents
<1>12. CASE Drain           BY <1>12 DEF Drain
<1>13. CASE DrainTimeout    BY <1>13 DEF DrainTimeout
<1>14. CASE TakeSnapshot    BY <1>14 DEF TakeSnapshot
<1>15. CASE Replace         BY <1>15 DEF Replace
<1>16. CASE Point           BY <1>16 DEF Point
<1>17. CASE Spawn           BY <1>17 DEF Spawn
<1>18. CASE Probe           BY <1>18 DEF Probe
<1>19. CASE SyncNew         BY <1>19 DEF SyncNew
<1>20. CASE Open            BY <1>20 DEF Open
<1>21. CASE Finish          BY <1>21 DEF Finish
<1>22. CASE CandidateDied   BY <1>22 DEF CandidateDied
<1>23. CASE Abandon         BY <1>23, Abandons
<1>24. CASE ResumeOld       BY <1>24 DEF ResumeOld
<1>25. CASE Report          BY <1>25 DEF Report
<1>26. CASE SyncOld         BY <1>26 DEF SyncOld
<1>27. CASE KillChild       BY <1>27 DEF KillChild
<1>28. CASE Marked          BY <1>28 DEF Marked, RestoreStates
<1>29. CASE Quarantine      BY <1>29 DEF Quarantine
<1>30. CASE RestoreData     BY <1>30 DEF RestoreData
<1>31. CASE Repoint         BY <1>31 DEF Repoint
<1>32. CASE Reopen          BY <1>32 DEF Reopen
<1>33. CASE Settle          BY <1>33 DEF Settle
<1>34. CASE Surrender       BY <1>34, Surrenders
<1>35. CASE StopOrphan      BY <1>35 DEF StopOrphan
<1>36. CASE AwaitServer     BY <1>36 DEF AwaitServer
<1>37. CASE GiveUp          BY <1>37 DEF GiveUp
<1>38. CASE RecoverFinish   BY <1>38, Finishes
<1>39. CASE RecoverRollBack BY <1>39 DEF RecoverRollBack, RollBackStates, RestoreStates
<1>40. CASE RecoverManual   BY <1>40 DEF RecoverManual
<1>41. CASE Resync          BY <1>41 DEF Resync
<1>42. CASE LaunchChild     BY <1>42 DEF LaunchChild
<1>43. CASE StepFails
  BY <1>43 DEF StepFails, BeforeStop, AfterStop, AfterSwitch, WithCandidate, Rollback
<1>44. CASE CommitFails     BY <1>44 DEF CommitFails, AfterCommit
<1>45. CASE Die             BY <1>45 DEF Die
<1>46. CASE UNCHANGED vars
  BY <1>46 DEF vars
<1>. QED
  BY <1>1, <1>2, <1>3, <1>4, <1>5, <1>6, <1>7, <1>8, <1>9, <1>10, <1>11, <1>12, <1>13,
     <1>14, <1>15, <1>16, <1>17, <1>18, <1>19, <1>20, <1>21, <1>22, <1>23, <1>24, <1>25,
     <1>26, <1>27, <1>28, <1>29, <1>30, <1>31, <1>32, <1>33, <1>34, <1>35, <1>36, <1>37,
     <1>38, <1>39, <1>40, <1>41, <1>42, <1>43, <1>44, <1>45, <1>46 DEF Next, Install,
     RollBack, Recover

LEMMA ControlStep ==
  ASSUME Control, [Next]_vars
  PROVE  Control'
<1>1. TypeOK
  BY DEF Control
<1>2. InOp' /\ InStep' /\ InRollback' /\ Alone' /\ InMode' /\ InPointer' /\ DataShape'
  BY InOpStep, InStepStep, InRollbackStep, AloneStep, InModeStep, InPointerStep, DataShapeStep
<1>3. (journal.snap => backup # NoData)'
  BY <1>2 DEF DataShape
<1>4. TypeOK'
  BY <1>1, <1>3, JournalType, WorkerType, DiskType, ServerType, BoundsType DEF TypeOK
<1>. QED
  BY <1>2, <1>4 DEF Control

-----------------------------------------------------------------------------
(* Each of the other layers, where its window is spared *)

LEMMA PresentStep ==
  ASSUME Control, Present, "emptied" \in Spared, [Next]_vars
  PROVE  Present'
<1> USE DEF Control, TypeOK, InStep, InRollback, InOp, InMode, Alone, InPointer,
      DataShape, Undone, Settled, Versions, Candidate, Committing, Present
<1>1. CASE Launch           BY <1>1 DEF Launch
<1>2. CASE Write            BY <1>2 DEF Write
<1>3. CASE Migrate          BY <1>3 DEF Migrate
<1>4. CASE Quit             BY <1>4 DEF Quit
<1>5. CASE Check            BY <1>5 DEF Check
<1>6. CASE Fetch            BY <1>6 DEF Fetch
<1>7. CASE CancelUpdate     BY <1>7 DEF CancelUpdate
<1>8. CASE RequestInstall   BY <1>8 DEF RequestInstall
<1>9. CASE Reap             BY <1>9 DEF Reap
<1>10. CASE Refresh         BY <1>10 DEF Refresh
<1>11. CASE WriteIntent     BY <1>11, Intents
<1>12. CASE Drain           BY <1>12 DEF Drain
<1>13. CASE DrainTimeout    BY <1>13 DEF DrainTimeout
<1>14. CASE TakeSnapshot    BY <1>14 DEF TakeSnapshot
<1>15. CASE Replace         BY <1>15 DEF Replace
<1>16. CASE Point           BY <1>16 DEF Point
<1>17. CASE Spawn           BY <1>17 DEF Spawn
<1>18. CASE Probe           BY <1>18 DEF Probe
<1>19. CASE SyncNew         BY <1>19 DEF SyncNew
<1>20. CASE Open            BY <1>20 DEF Open
<1>21. CASE Finish          BY <1>21 DEF Finish
<1>22. CASE CandidateDied   BY <1>22 DEF CandidateDied
<1>23. CASE Abandon         BY <1>23, Spares, Abandons
<1>24. CASE ResumeOld       BY <1>24 DEF ResumeOld
<1>25. CASE Report          BY <1>25 DEF Report
<1>26. CASE SyncOld         BY <1>26 DEF SyncOld
<1>27. CASE KillChild       BY <1>27 DEF KillChild
<1>28. CASE Marked          BY <1>28 DEF Marked, RestoreStates
<1>29. CASE Quarantine      BY <1>29 DEF Quarantine
<1>30. CASE RestoreData     BY <1>30 DEF RestoreData
<1>31. CASE Repoint         BY <1>31 DEF Repoint
<1>32. CASE Reopen          BY <1>32 DEF Reopen
<1>33. CASE Settle          BY <1>33 DEF Settle
<1>34. CASE Surrender       BY <1>34, Spares, Surrenders
<1>35. CASE StopOrphan      BY <1>35 DEF StopOrphan
<1>36. CASE AwaitServer     BY <1>36 DEF AwaitServer
<1>37. CASE GiveUp          BY <1>37 DEF GiveUp
<1>38. CASE RecoverFinish   BY <1>38, Finishes
<1>39. CASE RecoverRollBack BY <1>39 DEF RecoverRollBack, RollBackStates, RestoreStates
<1>40. CASE RecoverManual   BY <1>40 DEF RecoverManual
<1>41. CASE Resync          BY <1>41 DEF Resync
<1>42. CASE LaunchChild     BY <1>42 DEF LaunchChild
<1>43. CASE StepFails
  BY <1>43 DEF StepFails, BeforeStop, AfterStop, AfterSwitch, WithCandidate, Rollback
<1>44. CASE CommitFails     BY <1>44 DEF CommitFails, AfterCommit
<1>45. CASE Die             BY <1>45, Spares DEF Die
<1>46. CASE UNCHANGED vars
  BY <1>46 DEF vars
<1>. QED
  BY <1>1, <1>2, <1>3, <1>4, <1>5, <1>6, <1>7, <1>8, <1>9, <1>10, <1>11, <1>12, <1>13,
     <1>14, <1>15, <1>16, <1>17, <1>18, <1>19, <1>20, <1>21, <1>22, <1>23, <1>24, <1>25,
     <1>26, <1>27, <1>28, <1>29, <1>30, <1>31, <1>32, <1>33, <1>34, <1>35, <1>36, <1>37,
     <1>38, <1>39, <1>40, <1>41, <1>42, <1>43, <1>44, <1>45, <1>46 DEF Next, Install,
     RollBack, Recover

LEMMA WritesStep ==
  ASSUME Control, Present, Writes, {"emptied", "reopened"} \subseteq Spared, [Next]_vars
  PROVE  Writes'
<1> USE DEF Control, TypeOK, InStep, InRollback, InOp, InMode, Alone, InPointer,
      DataShape, Undone, Settled, Versions, Candidate, Committing, Present, Writes,
      Reopened, BackupAtHand, RestoreStates
<1>1. CASE Launch           BY <1>1 DEF Launch
<1>2. CASE Write            BY <1>2 DEF Write
<1>3. CASE Migrate          BY <1>3 DEF Migrate
<1>4. CASE Quit             BY <1>4 DEF Quit
<1>5. CASE Check            BY <1>5 DEF Check
<1>6. CASE Fetch            BY <1>6 DEF Fetch
<1>7. CASE CancelUpdate     BY <1>7 DEF CancelUpdate
<1>8. CASE RequestInstall   BY <1>8 DEF RequestInstall
<1>9. CASE Reap             BY <1>9 DEF Reap
<1>10. CASE Refresh         BY <1>10 DEF Refresh
<1>11. CASE WriteIntent     BY <1>11, Intents
<1>12. CASE Drain           BY <1>12 DEF Drain
<1>13. CASE DrainTimeout    BY <1>13 DEF DrainTimeout
<1>14. CASE TakeSnapshot    BY <1>14 DEF TakeSnapshot
<1>15. CASE Replace         BY <1>15 DEF Replace
<1>16. CASE Point           BY <1>16 DEF Point
<1>17. CASE Spawn           BY <1>17 DEF Spawn
<1>18. CASE Probe           BY <1>18 DEF Probe
<1>19. CASE SyncNew         BY <1>19 DEF SyncNew
<1>20. CASE Open            BY <1>20 DEF Open
<1>21. CASE Finish          BY <1>21 DEF Finish
<1>22. CASE CandidateDied   BY <1>22 DEF CandidateDied
<1>23. CASE Abandon         BY <1>23, Spares, Abandons
<1>24. CASE ResumeOld       BY <1>24 DEF ResumeOld
<1>25. CASE Report          BY <1>25 DEF Report
<1>26. CASE SyncOld         BY <1>26 DEF SyncOld
<1>27. CASE KillChild       BY <1>27 DEF KillChild
<1>28. CASE Marked          BY <1>28 DEF Marked, RestoreStates
<1>29. CASE Quarantine      BY <1>29 DEF Quarantine
<1>30. CASE RestoreData     BY <1>30 DEF RestoreData
<1>31. CASE Repoint         BY <1>31 DEF Repoint
<1>32. CASE Reopen          BY <1>32 DEF Reopen
<1>33. CASE Settle          BY <1>33 DEF Settle
<1>34. CASE Surrender       BY <1>34, Spares, Surrenders
<1>35. CASE StopOrphan      BY <1>35 DEF StopOrphan
<1>36. CASE AwaitServer     BY <1>36 DEF AwaitServer
<1>37. CASE GiveUp          BY <1>37 DEF GiveUp
<1>38. CASE RecoverFinish   BY <1>38, Finishes
<1>39. CASE RecoverRollBack BY <1>39 DEF RecoverRollBack, RollBackStates, RestoreStates
<1>40. CASE RecoverManual   BY <1>40 DEF RecoverManual
<1>41. CASE Resync          BY <1>41 DEF Resync
<1>42. CASE LaunchChild     BY <1>42 DEF LaunchChild
<1>43. CASE StepFails
  BY <1>43 DEF StepFails, BeforeStop, AfterStop, AfterSwitch, WithCandidate, Rollback
<1>44. CASE CommitFails     BY <1>44 DEF CommitFails, AfterCommit
<1>45. CASE Die             BY <1>45, Spares DEF Die
<1>46. CASE UNCHANGED vars
  BY <1>46 DEF vars
<1>. QED
  BY <1>1, <1>2, <1>3, <1>4, <1>5, <1>6, <1>7, <1>8, <1>9, <1>10, <1>11, <1>12, <1>13,
     <1>14, <1>15, <1>16, <1>17, <1>18, <1>19, <1>20, <1>21, <1>22, <1>23, <1>24, <1>25,
     <1>26, <1>27, <1>28, <1>29, <1>30, <1>31, <1>32, <1>33, <1>34, <1>35, <1>36, <1>37,
     <1>38, <1>39, <1>40, <1>41, <1>42, <1>43, <1>44, <1>45, <1>46 DEF Next, Install,
     RollBack, Recover

LEMMA EntriesStep ==
  ASSUME Control, Versioned, "unsynced" \in Spared, [Next]_vars
  PROVE  Entries'
<1> USE DEF Control, TypeOK, InStep, InRollback, InOp, InMode, Alone, InPointer,
      DataShape, Undone, Settled, Versions, Candidate, Committing, RecoverOnly, Early,
      Versioned, Entries
<1>1. CASE Launch           BY <1>1 DEF Launch
<1>2. CASE Write            BY <1>2 DEF Write
<1>3. CASE Migrate          BY <1>3 DEF Migrate
<1>4. CASE Quit             BY <1>4 DEF Quit
<1>5. CASE Check            BY <1>5 DEF Check
<1>6. CASE Fetch            BY <1>6 DEF Fetch
<1>7. CASE CancelUpdate     BY <1>7 DEF CancelUpdate
<1>8. CASE RequestInstall   BY <1>8 DEF RequestInstall
<1>9. CASE Reap             BY <1>9 DEF Reap
<1>10. CASE Refresh         BY <1>10 DEF Refresh
<1>11. CASE WriteIntent     BY <1>11, Intents
<1>12. CASE Drain           BY <1>12 DEF Drain
<1>13. CASE DrainTimeout    BY <1>13 DEF DrainTimeout
<1>14. CASE TakeSnapshot    BY <1>14 DEF TakeSnapshot
<1>15. CASE Replace         BY <1>15 DEF Replace
<1>16. CASE Point           BY <1>16 DEF Point
<1>17. CASE Spawn           BY <1>17 DEF Spawn
<1>18. CASE Probe           BY <1>18 DEF Probe
<1>19. CASE SyncNew         BY <1>19 DEF SyncNew
<1>20. CASE Open            BY <1>20 DEF Open
<1>21. CASE Finish          BY <1>21 DEF Finish
<1>22. CASE CandidateDied   BY <1>22 DEF CandidateDied
<1>23. CASE Abandon         BY <1>23, Spares, Abandons
<1>24. CASE ResumeOld       BY <1>24 DEF ResumeOld
<1>25. CASE Report          BY <1>25 DEF Report
<1>26. CASE SyncOld         BY <1>26 DEF SyncOld
<1>27. CASE KillChild       BY <1>27 DEF KillChild
<1>28. CASE Marked          BY <1>28 DEF Marked, RestoreStates
<1>29. CASE Quarantine      BY <1>29 DEF Quarantine
<1>30. CASE RestoreData     BY <1>30 DEF RestoreData
<1>31. CASE Repoint         BY <1>31 DEF Repoint
<1>32. CASE Reopen          BY <1>32 DEF Reopen
<1>33. CASE Settle          BY <1>33 DEF Settle
<1>34. CASE Surrender       BY <1>34, Spares, Surrenders
<1>35. CASE StopOrphan      BY <1>35 DEF StopOrphan
<1>36. CASE AwaitServer     BY <1>36 DEF AwaitServer
<1>37. CASE GiveUp          BY <1>37 DEF GiveUp
<1>38. CASE RecoverFinish   BY <1>38, Finishes
<1>39. CASE RecoverRollBack BY <1>39 DEF RecoverRollBack, RollBackStates, RestoreStates
<1>40. CASE RecoverManual   BY <1>40 DEF RecoverManual
<1>41. CASE Resync          BY <1>41 DEF Resync
<1>42. CASE LaunchChild     BY <1>42 DEF LaunchChild
<1>43. CASE StepFails
  BY <1>43 DEF StepFails, BeforeStop, AfterStop, AfterSwitch, WithCandidate, Rollback
<1>44. CASE CommitFails     BY <1>44 DEF CommitFails, AfterCommit
<1>45. CASE Die             BY <1>45, Spares DEF Die
<1>46. CASE UNCHANGED vars
  BY <1>46 DEF vars
<1>. QED
  BY <1>1, <1>2, <1>3, <1>4, <1>5, <1>6, <1>7, <1>8, <1>9, <1>10, <1>11, <1>12, <1>13,
     <1>14, <1>15, <1>16, <1>17, <1>18, <1>19, <1>20, <1>21, <1>22, <1>23, <1>24, <1>25,
     <1>26, <1>27, <1>28, <1>29, <1>30, <1>31, <1>32, <1>33, <1>34, <1>35, <1>36, <1>37,
     <1>38, <1>39, <1>40, <1>41, <1>42, <1>43, <1>44, <1>45, <1>46 DEF Next, Install,
     RollBack, Recover

LEMMA SchemasStep ==
  ASSUME Control, Versioned, "unsynced" \in Spared, [Next]_vars
  PROVE  Schemas'
<1> USE DEF Control, TypeOK, InStep, InRollback, InOp, InMode, Alone, InPointer,
      DataShape, Undone, Settled, Versions, Candidate, Committing, RecoverOnly, Early,
      Versioned, Entries, Schemas, BackupAtHand, RestoreStates
<1>1. CASE Launch           BY <1>1 DEF Launch
<1>2. CASE Write            BY <1>2 DEF Write
<1>3. CASE Migrate          BY <1>3 DEF Migrate
<1>4. CASE Quit             BY <1>4 DEF Quit
<1>5. CASE Check            BY <1>5 DEF Check
<1>6. CASE Fetch            BY <1>6 DEF Fetch
<1>7. CASE CancelUpdate     BY <1>7 DEF CancelUpdate
<1>8. CASE RequestInstall   BY <1>8 DEF RequestInstall
<1>9. CASE Reap             BY <1>9 DEF Reap
<1>10. CASE Refresh         BY <1>10 DEF Refresh
<1>11. CASE WriteIntent     BY <1>11, Intents
<1>12. CASE Drain           BY <1>12 DEF Drain
<1>13. CASE DrainTimeout    BY <1>13 DEF DrainTimeout
<1>14. CASE TakeSnapshot    BY <1>14 DEF TakeSnapshot
<1>15. CASE Replace         BY <1>15 DEF Replace
<1>16. CASE Point           BY <1>16 DEF Point
<1>17. CASE Spawn           BY <1>17 DEF Spawn
<1>18. CASE Probe           BY <1>18 DEF Probe
<1>19. CASE SyncNew         BY <1>19 DEF SyncNew
<1>20. CASE Open            BY <1>20 DEF Open
<1>21. CASE Finish          BY <1>21 DEF Finish
<1>22. CASE CandidateDied   BY <1>22 DEF CandidateDied
<1>23. CASE Abandon         BY <1>23, Spares, Abandons
<1>24. CASE ResumeOld       BY <1>24 DEF ResumeOld
<1>25. CASE Report          BY <1>25 DEF Report
<1>26. CASE SyncOld         BY <1>26 DEF SyncOld
<1>27. CASE KillChild       BY <1>27 DEF KillChild
<1>28. CASE Marked          BY <1>28 DEF Marked, RestoreStates
<1>29. CASE Quarantine      BY <1>29 DEF Quarantine
<1>30. CASE RestoreData     BY <1>30 DEF RestoreData
<1>31. CASE Repoint         BY <1>31 DEF Repoint
<1>32. CASE Reopen          BY <1>32 DEF Reopen
<1>33. CASE Settle          BY <1>33 DEF Settle
<1>34. CASE Surrender       BY <1>34, Spares, Surrenders
<1>35. CASE StopOrphan      BY <1>35 DEF StopOrphan
<1>36. CASE AwaitServer     BY <1>36 DEF AwaitServer
<1>37. CASE GiveUp          BY <1>37 DEF GiveUp
<1>38. CASE RecoverFinish   BY <1>38, Finishes
<1>39. CASE RecoverRollBack BY <1>39 DEF RecoverRollBack, RollBackStates, RestoreStates
<1>40. CASE RecoverManual   BY <1>40 DEF RecoverManual
<1>41. CASE Resync          BY <1>41 DEF Resync
<1>42. CASE LaunchChild     BY <1>42 DEF LaunchChild
<1>43. CASE StepFails
  BY <1>43 DEF StepFails, BeforeStop, AfterStop, AfterSwitch, WithCandidate, Rollback
<1>44. CASE CommitFails     BY <1>44 DEF CommitFails, AfterCommit
<1>45. CASE Die             BY <1>45, Spares DEF Die
<1>46. CASE UNCHANGED vars
  BY <1>46 DEF vars
<1>. QED
  BY <1>1, <1>2, <1>3, <1>4, <1>5, <1>6, <1>7, <1>8, <1>9, <1>10, <1>11, <1>12, <1>13,
     <1>14, <1>15, <1>16, <1>17, <1>18, <1>19, <1>20, <1>21, <1>22, <1>23, <1>24, <1>25,
     <1>26, <1>27, <1>28, <1>29, <1>30, <1>31, <1>32, <1>33, <1>34, <1>35, <1>36, <1>37,
     <1>38, <1>39, <1>40, <1>41, <1>42, <1>43, <1>44, <1>45, <1>46 DEF Next, Install,
     RollBack, Recover

LEMMA NamedStep ==
  ASSUME Control, Named, "unnamed" \in Spared, [Next]_vars
  PROVE  Named'
<1> USE DEF Control, TypeOK, InStep, InRollback, InOp, InMode, Alone, InPointer,
      DataShape, Undone, Settled, Versions, Candidate, Committing, RecoverOnly, Early,
      Named
<1>1. CASE Launch           BY <1>1 DEF Launch
<1>2. CASE Write            BY <1>2 DEF Write
<1>3. CASE Migrate          BY <1>3 DEF Migrate
<1>4. CASE Quit             BY <1>4 DEF Quit
<1>5. CASE Check            BY <1>5 DEF Check
<1>6. CASE Fetch            BY <1>6 DEF Fetch
<1>7. CASE CancelUpdate     BY <1>7 DEF CancelUpdate
<1>8. CASE RequestInstall   BY <1>8 DEF RequestInstall
<1>9. CASE Reap             BY <1>9 DEF Reap
<1>10. CASE Refresh         BY <1>10 DEF Refresh
<1>11. CASE WriteIntent     BY <1>11, Intents
<1>12. CASE Drain           BY <1>12 DEF Drain
<1>13. CASE DrainTimeout    BY <1>13 DEF DrainTimeout
<1>14. CASE TakeSnapshot    BY <1>14 DEF TakeSnapshot
<1>15. CASE Replace         BY <1>15 DEF Replace
<1>16. CASE Point           BY <1>16 DEF Point
<1>17. CASE Spawn           BY <1>17 DEF Spawn
<1>18. CASE Probe           BY <1>18 DEF Probe
<1>19. CASE SyncNew         BY <1>19 DEF SyncNew
<1>20. CASE Open            BY <1>20 DEF Open
<1>21. CASE Finish          BY <1>21 DEF Finish
<1>22. CASE CandidateDied   BY <1>22 DEF CandidateDied
<1>23. CASE Abandon         BY <1>23, Spares, Abandons
<1>24. CASE ResumeOld       BY <1>24 DEF ResumeOld
<1>25. CASE Report          BY <1>25 DEF Report
<1>26. CASE SyncOld         BY <1>26 DEF SyncOld
<1>27. CASE KillChild       BY <1>27 DEF KillChild
<1>28. CASE Marked          BY <1>28 DEF Marked, RestoreStates
<1>29. CASE Quarantine      BY <1>29 DEF Quarantine
<1>30. CASE RestoreData     BY <1>30 DEF RestoreData
<1>31. CASE Repoint         BY <1>31 DEF Repoint
<1>32. CASE Reopen          BY <1>32 DEF Reopen
<1>33. CASE Settle          BY <1>33 DEF Settle
<1>34. CASE Surrender       BY <1>34, Spares, Surrenders
<1>35. CASE StopOrphan      BY <1>35 DEF StopOrphan
<1>36. CASE AwaitServer     BY <1>36 DEF AwaitServer
<1>37. CASE GiveUp          BY <1>37 DEF GiveUp
<1>38. CASE RecoverFinish   BY <1>38, Finishes
<1>39. CASE RecoverRollBack BY <1>39 DEF RecoverRollBack, RollBackStates, RestoreStates
<1>40. CASE RecoverManual   BY <1>40 DEF RecoverManual
<1>41. CASE Resync          BY <1>41 DEF Resync
<1>42. CASE LaunchChild     BY <1>42 DEF LaunchChild
<1>43. CASE StepFails
  BY <1>43 DEF StepFails, BeforeStop, AfterStop, AfterSwitch, WithCandidate, Rollback
<1>44. CASE CommitFails     BY <1>44 DEF CommitFails, AfterCommit
<1>45. CASE Die             BY <1>45, Spares DEF Die
<1>46. CASE UNCHANGED vars
  BY <1>46 DEF vars
<1>. QED
  BY <1>1, <1>2, <1>3, <1>4, <1>5, <1>6, <1>7, <1>8, <1>9, <1>10, <1>11, <1>12, <1>13,
     <1>14, <1>15, <1>16, <1>17, <1>18, <1>19, <1>20, <1>21, <1>22, <1>23, <1>24, <1>25,
     <1>26, <1>27, <1>28, <1>29, <1>30, <1>31, <1>32, <1>33, <1>34, <1>35, <1>36, <1>37,
     <1>38, <1>39, <1>40, <1>41, <1>42, <1>43, <1>44, <1>45, <1>46 DEF Next, Install,
     RollBack, Recover

-----------------------------------------------------------------------------
(* What a single step never does *)

(* Only a worker that looks and leaves is at work in manual_recovery_required. *)
LEMMA ManualStep ==
  ASSUME Control, [Next]_vars
  PROVE  journal.state = "ManualRecoveryRequired" =>
           /\ journal'.state = "ManualRecoveryRequired"
           /\ server.mode = "none" => server'.mode = "none"
<1> USE DEF Control, TypeOK, InStep, InRollback, InOp, InMode, Alone, InPointer,
      DataShape, Undone, Settled, Versions, Candidate, Committing, Early
<1>1. CASE Launch           BY <1>1 DEF Launch
<1>2. CASE Write            BY <1>2 DEF Write
<1>3. CASE Migrate          BY <1>3 DEF Migrate
<1>4. CASE Quit             BY <1>4 DEF Quit
<1>5. CASE Check            BY <1>5 DEF Check
<1>6. CASE Fetch            BY <1>6 DEF Fetch
<1>7. CASE CancelUpdate     BY <1>7 DEF CancelUpdate
<1>8. CASE RequestInstall   BY <1>8 DEF RequestInstall
<1>9. CASE Reap             BY <1>9 DEF Reap
<1>10. CASE Refresh         BY <1>10 DEF Refresh
<1>11. CASE WriteIntent     BY <1>11, Intents
<1>12. CASE Drain           BY <1>12 DEF Drain
<1>13. CASE DrainTimeout    BY <1>13 DEF DrainTimeout
<1>14. CASE TakeSnapshot    BY <1>14 DEF TakeSnapshot
<1>15. CASE Replace         BY <1>15 DEF Replace
<1>16. CASE Point           BY <1>16 DEF Point
<1>17. CASE Spawn           BY <1>17 DEF Spawn
<1>18. CASE Probe           BY <1>18 DEF Probe
<1>19. CASE SyncNew         BY <1>19 DEF SyncNew
<1>20. CASE Open            BY <1>20 DEF Open
<1>21. CASE Finish          BY <1>21 DEF Finish
<1>22. CASE CandidateDied   BY <1>22 DEF CandidateDied
<1>23. CASE Abandon         BY <1>23, Abandons
<1>24. CASE ResumeOld       BY <1>24 DEF ResumeOld
<1>25. CASE Report          BY <1>25 DEF Report
<1>26. CASE SyncOld         BY <1>26 DEF SyncOld
<1>27. CASE KillChild       BY <1>27 DEF KillChild
<1>28. CASE Marked          BY <1>28 DEF Marked, RestoreStates
<1>29. CASE Quarantine      BY <1>29 DEF Quarantine
<1>30. CASE RestoreData     BY <1>30 DEF RestoreData
<1>31. CASE Repoint         BY <1>31 DEF Repoint
<1>32. CASE Reopen          BY <1>32 DEF Reopen
<1>33. CASE Settle          BY <1>33 DEF Settle
<1>34. CASE Surrender       BY <1>34, Surrenders
<1>35. CASE StopOrphan      BY <1>35 DEF StopOrphan
<1>36. CASE AwaitServer     BY <1>36 DEF AwaitServer
<1>37. CASE GiveUp          BY <1>37 DEF GiveUp
<1>38. CASE RecoverFinish   BY <1>38, Finishes
<1>39. CASE RecoverRollBack BY <1>39 DEF RecoverRollBack, RollBackStates, RestoreStates
<1>40. CASE RecoverManual   BY <1>40 DEF RecoverManual
<1>41. CASE Resync          BY <1>41 DEF Resync
<1>42. CASE LaunchChild     BY <1>42 DEF LaunchChild
<1>43. CASE StepFails
  BY <1>43 DEF StepFails, BeforeStop, AfterStop, AfterSwitch, WithCandidate, Rollback
<1>44. CASE CommitFails     BY <1>44 DEF CommitFails, AfterCommit
<1>45. CASE Die             BY <1>45 DEF Die
<1>46. CASE UNCHANGED vars
  BY <1>46 DEF vars
<1>. QED
  BY <1>1, <1>2, <1>3, <1>4, <1>5, <1>6, <1>7, <1>8, <1>9, <1>10, <1>11, <1>12, <1>13,
     <1>14, <1>15, <1>16, <1>17, <1>18, <1>19, <1>20, <1>21, <1>22, <1>23, <1>24, <1>25,
     <1>26, <1>27, <1>28, <1>29, <1>30, <1>31, <1>32, <1>33, <1>34, <1>35, <1>36, <1>37,
     <1>38, <1>39, <1>40, <1>41, <1>42, <1>43, <1>44, <1>45, <1>46 DEF Next, Install,
     RollBack, Recover

(* A server starts in Idle or Staged, or at a step that found the data. *)
LEMMA StartStep ==
  ASSUME Control, Present, [Next]_vars
  PROVE  server.mode = "none" /\ server'.mode # "none" => data.schema # "none"
<1> USE DEF Control, TypeOK, InStep, InRollback, InOp, InMode, Alone, InPointer,
      DataShape, Undone, Settled, Versions, Candidate, Committing, Present
<1>1. CASE Launch           BY <1>1 DEF Launch
<1>2. CASE Write            BY <1>2 DEF Write
<1>3. CASE Migrate          BY <1>3 DEF Migrate
<1>4. CASE Quit             BY <1>4 DEF Quit
<1>5. CASE Check            BY <1>5 DEF Check
<1>6. CASE Fetch            BY <1>6 DEF Fetch
<1>7. CASE CancelUpdate     BY <1>7 DEF CancelUpdate
<1>8. CASE RequestInstall   BY <1>8 DEF RequestInstall
<1>9. CASE Reap             BY <1>9 DEF Reap
<1>10. CASE Refresh         BY <1>10 DEF Refresh
<1>11. CASE WriteIntent     BY <1>11, Intents
<1>12. CASE Drain           BY <1>12 DEF Drain
<1>13. CASE DrainTimeout    BY <1>13 DEF DrainTimeout
<1>14. CASE TakeSnapshot    BY <1>14 DEF TakeSnapshot
<1>15. CASE Replace         BY <1>15 DEF Replace
<1>16. CASE Point           BY <1>16 DEF Point
<1>17. CASE Spawn           BY <1>17 DEF Spawn
<1>18. CASE Probe           BY <1>18 DEF Probe
<1>19. CASE SyncNew         BY <1>19 DEF SyncNew
<1>20. CASE Open            BY <1>20 DEF Open
<1>21. CASE Finish          BY <1>21 DEF Finish
<1>22. CASE CandidateDied   BY <1>22 DEF CandidateDied
<1>23. CASE Abandon         BY <1>23, Abandons
<1>24. CASE ResumeOld       BY <1>24 DEF ResumeOld
<1>25. CASE Report          BY <1>25 DEF Report
<1>26. CASE SyncOld         BY <1>26 DEF SyncOld
<1>27. CASE KillChild       BY <1>27 DEF KillChild
<1>28. CASE Marked          BY <1>28 DEF Marked, RestoreStates
<1>29. CASE Quarantine      BY <1>29 DEF Quarantine
<1>30. CASE RestoreData     BY <1>30 DEF RestoreData
<1>31. CASE Repoint         BY <1>31 DEF Repoint
<1>32. CASE Reopen          BY <1>32 DEF Reopen
<1>33. CASE Settle          BY <1>33 DEF Settle
<1>34. CASE Surrender       BY <1>34, Surrenders
<1>35. CASE StopOrphan      BY <1>35 DEF StopOrphan
<1>36. CASE AwaitServer     BY <1>36 DEF AwaitServer
<1>37. CASE GiveUp          BY <1>37 DEF GiveUp
<1>38. CASE RecoverFinish   BY <1>38, Finishes
<1>39. CASE RecoverRollBack BY <1>39 DEF RecoverRollBack, RollBackStates, RestoreStates
<1>40. CASE RecoverManual   BY <1>40 DEF RecoverManual
<1>41. CASE Resync          BY <1>41 DEF Resync
<1>42. CASE LaunchChild     BY <1>42 DEF LaunchChild
<1>43. CASE StepFails
  BY <1>43 DEF StepFails, BeforeStop, AfterStop, AfterSwitch, WithCandidate, Rollback
<1>44. CASE CommitFails     BY <1>44 DEF CommitFails, AfterCommit
<1>45. CASE Die             BY <1>45 DEF Die
<1>46. CASE UNCHANGED vars
  BY <1>46 DEF vars
<1>. QED
  BY <1>1, <1>2, <1>3, <1>4, <1>5, <1>6, <1>7, <1>8, <1>9, <1>10, <1>11, <1>12, <1>13,
     <1>14, <1>15, <1>16, <1>17, <1>18, <1>19, <1>20, <1>21, <1>22, <1>23, <1>24, <1>25,
     <1>26, <1>27, <1>28, <1>29, <1>30, <1>31, <1>32, <1>33, <1>34, <1>35, <1>36, <1>37,
     <1>38, <1>39, <1>40, <1>41, <1>42, <1>43, <1>44, <1>45, <1>46 DEF Next, Install,
     RollBack, Recover

-----------------------------------------------------------------------------
(* The invariants of the specification *)

LEMMA Initially ==
  ASSUME Init
  PROVE  Control /\ Present /\ Writes /\ Versioned /\ Named
<1> USE DEF Init
<1>1. TypeOK
  BY DEF TypeOK, JournalStates, Versions, WorkerSteps
<1>2. InOp /\ InStep /\ InRollback /\ Alone
  BY DEF InOp, InStep, InRollback, Alone, RecoverOnly
<1>3. InMode /\ InPointer /\ DataShape
  BY DEF InMode, InPointer, DataShape, Candidate, Committing
<1>4. Present /\ Writes
  BY DEF Present, Writes, Reopened, BackupAtHand
<1>5. Versioned /\ Named
  BY DEF Versioned, Entries, Schemas, Named, Settled, BackupAtHand, Candidate, Committing
<1>. QED
  BY <1>1, <1>2, <1>3, <1>4, <1>5 DEF Control

LEMMA AlwaysControl == Spec => []Control
BY Initially, ControlStep, PTL DEF Spec

LEMMA AlwaysPresent ==
  ASSUME "emptied" \in Spared
  PROVE  Spec => []Present
<1>1. Control /\ Present /\ [Next]_vars => Present'
  BY PresentStep
<1>. QED
  BY <1>1, AlwaysControl, Initially, PTL DEF Spec

(* Every field keeps to its type, and a journal that claims a snapshot has *)
(* one (snapshot.rs: the claim is written after the copy).                 *)
THEOREM TypeCorrect == Spec => []TypeOK
<1>1. Control => TypeOK
  BY DEF Control
<1>. QED
  BY <1>1, AlwaysControl, PTL

(* Two servers never meet on one data directory, wherever processes die    *)
(* and steps fail: a worker starts a server, or moves data, only after the *)
(* last server is gone (engine.rs drain_old_server, portable.rs).          *)
THEOREM ServersApart == Spec => []OneServer
<1>1. Control => OneServer
  BY DEF Control, Alone, OneServer
<1>. QED
  BY <1>1, AlwaysControl, PTL

(* manual_recovery_required is final: no recovery, retry or search leads   *)
(* out of it, and no server is started in it (recovery.rs).                *)
THEOREM ManualIsFinal == Spec => ManualStops
<1>1. Control /\ [Next]_vars =>
        [journal.state = "ManualRecoveryRequired" =>
           /\ journal'.state = "ManualRecoveryRequired"
           /\ server.mode = "none" => server'.mode = "none"]_vars
  BY ManualStep
<1>. QED
  BY <1>1, AlwaysControl, PTL DEF Spec, ManualStops

(* No server starts on an empty directory: wherever the data was moved     *)
(* away, the journal makes the next start restore it, but in the window    *)
(* "emptied" (recovery.rs:15).                                             *)
THEOREM NoEmptyStart ==
  ASSUME "emptied" \in Spared
  PROVE  Spec => DataIsThere
<1>1. Control /\ Present /\ [Next]_vars =>
        [server.mode = "none" /\ server'.mode # "none" => data.schema # "none"]_vars
  BY StartStep
<1>. QED
  BY <1>1, AlwaysControl, AlwaysPresent, PTL DEF Spec, DataIsThere

(* engine.rs:1086 "a lost response must never restore an old snapshot":    *)
(* an installation or a recovery that fails or dies at any step, any       *)
(* number of times, never takes back a write that a user was told is done, *)
(* but in the windows "emptied" and "reopened".                            *)
THEOREM WritesKept ==
  ASSUME {"emptied", "reopened"} \subseteq Spared
  PROVE  Spec => []WritesSurvive
<1>1. Control /\ Present /\ Writes /\ [Next]_vars => Writes'
  BY WritesStep
<1>2. Writes /\ Present => WritesSurvive
  BY DEF Writes, Present, WritesSurvive
<1>3. Spec => []Present
  BY AlwaysPresent
<1>. QED
  BY <1>1, <1>2, <1>3, AlwaysControl, Initially, PTL DEF Spec

(* A server that serves is of the version that current.json names, on data *)
(* of its own schema, and the next start runs the same one, but in the     *)
(* window "unsynced" (portable.rs sync_entrypoint, recovery.rs).           *)
THEOREM VersionsKept ==
  ASSUME "unsynced" \in Spared
  PROVE  Spec => []VersionsAgree
<1>1. Control /\ Versioned /\ [Next]_vars => Versioned'
  BY EntriesStep, SchemasStep DEF Versioned
<1>2. Versioned => VersionsAgree
  BY DEF Versioned, Entries, Schemas, VersionsAgree
<1>. QED
  BY <1>1, <1>2, AlwaysControl, Initially, PTL DEF Spec

(* recovery.rs:16: a recovery in the candidate's states has stopped the    *)
(* orphan before it waits for the lock, but in the window "unnamed".       *)
THEOREM OrphansStopped ==
  ASSUME "unnamed" \in Spared
  PROVE  Spec => []OrphanIsStopped
<1>1. Control /\ Named /\ [Next]_vars => Named'
  BY NamedStep
<1>2. Named => OrphanIsStopped
  BY DEF Named, OrphanIsStopped
<1>. QED
  BY <1>1, <1>2, AlwaysControl, Initially, PTL DEF Spec

------------------------------------------------------------------------------
(***************************************************************************)
(* UpdateAdmission, for every set of callers and jobs, every policy and    *)
(* whatever fails in the updater: from the freeze to the drain the barrier *)
(* stays closed and no work is under way.                                  *)
(***************************************************************************)

(* The places of a request: Idle, or one of these. *)
RequestType ==
  [op : ClientOps \cup {"download", "tick"}, at : Places, seen : Status, reserved : BOOLEAN]
PlaceType == {Idle} \cup RequestType

(* Only a long operation is admitted to the dispatcher by request_long_op,  *)
(* and a cancellation is one step.                                         *)
Routed(place) ==
  /\ place.at = "admitted" => place.op \in LongOps
  /\ place.op = "cancel" => place.at = "entered"

Routes == \A p \in Procs : Routed(pc[p])

(* Who carries an installation from the freeze on: a request that writes   *)
(* its audit line, a background task, the dispatcher's slot.               *)
Carries(p) == pc[p].at = "audit" \/ bg[p] # "none"

(* Only one does, and hands it on. *)
OneCarrier ==
  /\ \A p, q \in Procs : Carries(p) /\ Carries(q) => p = q
  /\ \A p \in Procs : pc[p].at = "audit" => bg[p] = "none"
  /\ slot.op = "install" => \A p \in Procs : ~Carries(p)

(* Nobody holds or can read an error that would open the barrier. *)
NoErrorToRead == ~display.error /\ \A p \in Procs : pc[p].at = "seen" => ~pc[p].seen.error

FreezeInv ==
  clean =>
    /\ OneCarrier
    /\ Installing => paused /\ work = {} /\ NoErrorToRead
    /\ process # "up" => work = {}

AdmissionInv == AdmissionTypeOK /\ Routes /\ FreezeInv

------------------------------------------------------------------------------
(***************************************************************************)
(* How a request moves.                                                    *)
(***************************************************************************)

(* Every step of a request changes the place of that request only. *)
Others(p) == \A q \in Procs : q # p => pc'[q] = pc[q]

LEMMA PlacesOf ==
  /\ Idle \in PlaceType /\ Idle.at = "none" /\ Idle.op = "none"
  /\ \A x \in RequestType : /\ x.op \in ClientOps \cup {"download", "tick"}
                            /\ x.at \in Places /\ x.seen \in Status
                            /\ x.reserved \in BOOLEAN /\ x.at # "none" /\ x # Idle
  /\ \A x \in PlaceType : x.seen \in Status /\ (x.at # "none" => x \in RequestType)
<1>1. Idle \in [op : {"none"}, at : {"none"}, seen : Status, reserved : BOOLEAN]
  BY DEF Idle, NoStatus, Status, States
<1>2. \A x \in RequestType : x.at # "none"
  BY DEF RequestType, Places
<1>3. Idle.seen \in Status
  BY <1>1
<1> QED
  BY <1>1, <1>2, <1>3 DEF RequestType, PlaceType

LEMMA Types ==
  ASSUME AdmissionTypeOK
  PROVE  /\ pc \in [Procs -> PlaceType]
         /\ bg \in [Procs -> {"none", "prepare", "refused"}]
         /\ display \in [state : States, error : BOOLEAN]
         /\ slot \in [op : LongOps \cup {"install", "none"}, begun : BOOLEAN]
         /\ paused \in BOOLEAN /\ txn \in BOOLEAN /\ apply \in BOOLEAN
         /\ clean \in BOOLEAN /\ lost \in BOOLEAN
  BY DEF AdmissionTypeOK, PlaceType, RequestType

LEMMA Goes_ ==
  ASSUME AdmissionTypeOK, NEW p \in Procs, pc[p].at # "none", NEW at \in Places, MoveTo(p, at)
  PROVE  /\ pc' \in [Procs -> PlaceType] /\ Others(p)
         /\ pc'[p].at = at /\ pc'[p].op = pc[p].op
<1>1. pc \in [Procs -> PlaceType] /\ pc[p] \in RequestType
  BY Types, PlacesOf
<1> DEFINE x == [pc[p] EXCEPT !.at = at,
                              !.seen = IF pc[p].op = "tick" THEN pc[p].seen ELSE NoStatus]
<1>2. x \in RequestType /\ x.at = at /\ x.op = pc[p].op
  BY <1>1 DEF RequestType, NoStatus, Status, States
<1>3. pc' = [pc EXCEPT ![p] = x]
  BY <1>1 DEF MoveTo
<1> HIDE DEF x
<1> QED
  BY <1>1, <1>2, <1>3 DEF PlaceType, Others

LEMMA Enters ==
  ASSUME AdmissionTypeOK, NEW p \in Procs, NEW op \in ClientOps \cup {"download", "tick"}, Enter(p, op)
  PROVE  /\ pc' \in [Procs -> PlaceType] /\ Others(p)
         /\ pc'[p].at = "entered" /\ pc'[p].op = op
<1>1. pc \in [Procs -> PlaceType]
  BY Types
<1> DEFINE x == [Idle EXCEPT !.op = op, !.at = "entered"]
<1>2. x \in RequestType /\ x.at = "entered" /\ x.op = op
  BY DEF Idle, RequestType, Places, NoStatus, Status, States
<1>3. pc' = [pc EXCEPT ![p] = x]
  BY DEF Enter
<1> HIDE DEF x
<1> QED
  BY <1>1, <1>2, <1>3 DEF PlaceType, Others

LEMMA Returns ==
  ASSUME AdmissionTypeOK, NEW p \in Procs, Return(p)
  PROVE  /\ pc' \in [Procs -> PlaceType] /\ Others(p)
         /\ pc'[p].at = "none" /\ pc'[p].op = "none"
<1>1. pc \in [Procs -> PlaceType]
  BY Types
<1> QED
  BY <1>1, PlacesOf DEF Return, Others

(* What a step of a request may do to its own place: where it goes. *)
Moved(p, ats) ==
  /\ pc' \in [Procs -> PlaceType] /\ Others(p) /\ pc'[p].at \in ats
  /\ Routed(pc'[p])

LEMMA FetchMoves ==
  ASSUME AdmissionTypeOK, NEW p \in Procs, Fetches(p)
  PROVE  /\ Moved(p, {"none", "seen"})
         /\ pc'[p].at = "seen" /\ pc'[p].seen.error => display.error
<1>1. pc \in [Procs -> PlaceType] /\ pc[p] \in RequestType /\ pc[p].op # "cancel"
  BY Types, PlacesOf DEF Fetches
<1>2. CASE Return(p)
  BY <1>2, Returns DEF Moved, Routed
<1>3. ASSUME NEW status \in Statuses, pc' = [pc EXCEPT ![p].at = "seen", ![p].seen = status]
      PROVE  /\ Moved(p, {"none", "seen"})
             /\ pc'[p].at = "seen" /\ pc'[p].seen.error => display.error
  <2> DEFINE x == [pc[p] EXCEPT !.at = "seen", !.seen = status]
  <2>1. status \in Status /\ (status.error => display.error)
    <3>1. Shown \in Status /\ Shown.error = display.error
      BY Types DEF Shown, Status, States
    <3>2. NoStatus \in Status /\ ~NoStatus.error
      BY DEF NoStatus, Status, States
    <3> QED
      BY <3>1, <3>2 DEF Statuses
  <2>2. x \in RequestType /\ x.at = "seen" /\ x.seen = status /\ x.op = pc[p].op
    BY <1>1, <2>1 DEF RequestType, Places
  <2>3. pc' = [pc EXCEPT ![p] = x]
    BY <1>1, <1>3
  <2> HIDE DEF x
  <2> QED
    BY <1>1, <2>1, <2>2, <2>3 DEF Moved, Routed, PlaceType, Others
<1> QED
  BY <1>2, <1>3 DEF Fetches

LEMMA RefreshMoves ==
  ASSUME AdmissionTypeOK, Routes, NEW p \in Procs, Refreshed(p)
  PROVE  Moved(p, {"none", "load", "admitted", "entered"}) /\ apply' \in BOOLEAN
<1>1. /\ pc \in [Procs -> PlaceType] /\ pc[p] \in RequestType /\ pc[p].at # "none"
      /\ pc[p].op \in ClientOps \cup {"download", "tick"} /\ apply \in BOOLEAN
      /\ pc[p].op # "cancel"
  BY Types, PlacesOf DEF Refreshed, Routes, Routed
<1> DEFINE M == Moved(p, {"none", "load", "admitted", "entered"})
<1>2. ASSUME Return(p) PROVE M
  BY <1>2, Returns DEF Moved, Routed
<1>3. ASSUME MoveTo(p, "load") PROVE M
  BY <1>1, <1>3, Goes_ DEF Moved, Routed, Places
<1>4. ASSUME pc[p].op \in LongOps, MoveTo(p, "admitted") PROVE M
  BY <1>1, <1>4, Goes_ DEF Moved, Routed, Places
<1>5. ASSUME NEW op \in {"download", "install"},
             pc' = [pc EXCEPT ![p] = [Idle EXCEPT !.op = op, !.at = "entered", !.reserved = TRUE]]
      PROVE  M
  <2> DEFINE x == [Idle EXCEPT !.op = op, !.at = "entered", !.reserved = TRUE]
  <2>1. x \in RequestType /\ x.at = "entered"
    BY <1>5 DEF Idle, RequestType, Places, NoStatus, Status, States, ClientOps
  <2>2. pc' = [pc EXCEPT ![p] = x]
    BY <1>5
  <2> HIDE DEF x
  <2> QED
    BY <1>1, <2>1, <2>2 DEF Moved, Routed, PlaceType, Others
<1>6. Proceeds(p, pc[p].seen)
  BY DEF Refreshed
<1> HIDE DEF M
<1>7. CASE pc[p].op = "tick" /\ apply
  <2>1. /\ apply' = (pc[p].seen.state \notin {"failed", "idle"})
        /\ IF Reserved(pc[p].seen.state) = {} THEN Return(p)
           ELSE \E op \in Reserved(pc[p].seen.state) :
                  pc' = [pc EXCEPT ![p] = [Idle EXCEPT !.op = op, !.at = "entered", !.reserved = TRUE]]
    BY <1>6, <1>7 DEF Proceeds, LongOps
  <2>2. Reserved(pc[p].seen.state) \subseteq {"download", "install"}
    BY DEF Reserved
  <2> QED
    BY <1>2, <1>5, <2>1, <2>2 DEF M
<1>8. CASE pc[p].op = "tick" /\ ~apply
  <2>1. MoveTo(p, "load") /\ apply' = apply
    BY <1>6, <1>8 DEF Proceeds, LongOps
  <2> QED
    BY <1>1, <1>3, <2>1 DEF M
<1>9. CASE pc[p].op \in LongOps
  <2>1. MoveTo(p, "admitted") \/ Return(p)
    BY <1>6, <1>9 DEF Proceeds, LongOps
  <2>2. apply' = apply
    BY <1>6, <1>9 DEF Proceeds, LongOps
  <2> QED
    BY <1>1, <1>2, <1>4, <1>9, <2>1, <2>2 DEF M
<1>10. CASE pc[p].op \in {"get", "install"}
  <2>1. MoveTo(p, "load") \/ Return(p)
    BY <1>6, <1>10 DEF Proceeds, LongOps
  <2>2. apply' = apply
    BY <1>6, <1>10 DEF Proceeds, LongOps
  <2> QED
    BY <1>1, <1>2, <1>3, <2>1, <2>2 DEF M
<1>11. CASE pc[p].op = "apply"
  <2>1. Return(p) /\ apply' = (apply \/ pc[p].seen.state \in Applicable)
    BY <1>6, <1>11 DEF Proceeds, LongOps
  <2> QED
    BY <1>2, <2>1 DEF M
<1> QED
  BY <1>1, <1>6, <1>7, <1>8, <1>9, <1>10, <1>11 DEF ClientOps, LongOps, M

(* The requests that neither close the barrier nor carry an installation.  *)
LEMMA PlainMoves ==
  ASSUME AdmissionTypeOK, Routes, NEW p \in Procs,
         Call(p) \/ Tick(p) \/ Cancel(p) \/ Fetches(p) \/ Refreshed(p) \/ Loads(p) \/ Begins(p)
  PROVE  /\ Moved(p, (Places \cup {"none"}) \ {"audit"})
         /\ pc[p].at # "audit"
         /\ pc'[p].at = "seen" /\ pc'[p].seen.error => display.error
         /\ UNCHANGED <<work, updater, bg, clean>>
         /\ paused' = paused \/ (pc[p].at = "seen" /\ pc[p].seen.error /\ paused' = FALSE)
         /\ txn' \in BOOLEAN /\ apply' \in BOOLEAN
<1> USE Types
<1>0. pc[p].at # "none" => pc[p] \in RequestType /\ pc[p].op \in ClientOps \cup {"download", "tick"}
  BY PlacesOf
<1>1. CASE Call(p)
  <2>1. PICK op \in Requests : Enter(p, op)
    BY <1>1 DEF Call
  <2>2. op \in ClientOps
    BY <2>1, AdmissionAssumption
  <2>3. Moved(p, {"entered"})
    BY <2>1, <2>2, Enters DEF Moved, Routed
  <2>4. pc[p].at # "audit"
    BY <1>1, PlacesOf DEF Call
  <2> QED
    BY <1>1, <2>3, <2>4 DEF Call, service, Moved, Places
<1>2. CASE Tick(p)
  <2>1. Moved(p, {"entered"})
    BY <1>2, Enters DEF Tick, Moved, Routed
  <2>2. pc[p].at # "audit"
    BY <1>2, PlacesOf DEF Tick
  <2> QED
    BY <1>2, <2>1, <2>2 DEF Tick, service, Moved, Places
<1>3. CASE Cancel(p)
  <2>1. Moved(p, {"none"})
    BY <1>3, Returns DEF Cancel, Moved, Routed
  <2>2. pc[p].at # "audit"
    BY <1>3 DEF Cancel, Routes, Routed
  <2>3. paused' = paused /\ txn' = txn /\ apply' \in BOOLEAN
    BY <1>3 DEF Cancel
  <2> QED
    BY <1>3, <2>1, <2>2, <2>3 DEF Cancel, Moved, Places
<1>4. CASE Fetches(p)
  <2>1. Moved(p, {"none", "seen"}) /\ (pc'[p].at = "seen" /\ pc'[p].seen.error => display.error)
    BY <1>4, FetchMoves
  <2>2. txn' \in BOOLEAN
    BY <1>4 DEF Fetches
  <2> QED
    BY <1>4, <2>1, <2>2 DEF Fetches, Moved, Places
<1>5. CASE Refreshed(p)
  <2>1. Moved(p, {"none", "load", "admitted", "entered"}) /\ apply' \in BOOLEAN
    BY <1>5, RefreshMoves
  <2>2. /\ paused' = (paused /\ ~Over(pc[p].seen)) /\ pc[p].at = "seen"
        /\ UNCHANGED <<work, updater, bg, clean>>
        /\ txn' = (/\ txn /\ ~Over(pc[p].seen)
                   /\ ~(pc[p].op = "rollback" /\ ~Accepts("rollback", pc[p].seen.state)))
    BY <1>5 DEF Refreshed
  <2>3. pc[p].seen.error \in BOOLEAN
    BY <1>0, <2>2, PlacesOf DEF Status
  <2>4. paused' = paused \/ (pc[p].seen.error /\ paused' = FALSE)
    BY <2>2, <2>3 DEF Over
  <2>5. txn' \in BOOLEAN
    BY <2>2
  <2> QED
    BY <2>1, <2>2, <2>4, <2>5 DEF Moved, Places
<1>6. CASE Loads(p)
  <2>0. pc[p].at = "load" /\ pc[p].op # "cancel" /\ UNCHANGED <<service, updater, work, bg, clean>>
    BY <1>6 DEF Loads, Routes, Routed
  <2>1. \/ Return(p) \/ MoveTo(p, "begin")
        \/ \E op \in {"check", "download", "install"} : Enter(p, op)
    <3>1. \A state, ready : Decision(state, ready) \subseteq {"check", "download", "install"}
      BY DEF Decision
    <3> QED
      BY <1>6, <3>1 DEF Loads
  <2>2. CASE Return(p)
    BY <2>0, <2>2, Returns DEF Moved, Routed, Places, service
  <2>3. CASE MoveTo(p, "begin")
    BY <2>0, <2>3, Goes_ DEF Moved, Routed, Places, service
  <2>4. ASSUME NEW op \in {"check", "download", "install"}, Enter(p, op)
        PROVE  Moved(p, {"entered"})
    BY <2>4, Enters DEF Moved, Routed, ClientOps
  <2>5. CASE \E op \in {"check", "download", "install"} : Enter(p, op)
    BY <2>0, <2>4, <2>5 DEF Moved, Places, service
  <2> QED
    BY <2>1, <2>2, <2>3, <2>5
<1>7. CASE Begins(p)
  <2>1. /\ pc[p].at = "begin" /\ pc[p].op # "cancel" /\ txn' = TRUE
        /\ UNCHANGED <<paused, apply, updater, work, bg, clean>>
        /\ Return(p) \/ MoveTo(p, "freeze")
    BY <1>7 DEF Begins, Routes, Routed
  <2>2. CASE Return(p)
    BY <2>1, <2>2, Returns DEF Moved, Routed, Places
  <2>3. CASE MoveTo(p, "freeze")
    BY <2>1, <2>3, Goes_ DEF Moved, Routed, Places
  <2> QED
    BY <2>1, <2>2, <2>3
<1> QED
  BY <1>1, <1>2, <1>3, <1>4, <1>5, <1>6, <1>7

------------------------------------------------------------------------------
(***************************************************************************)
(* The types.                                                              *)
(***************************************************************************)
LEMMA TypeStep ==
  ASSUME AdmissionTypeOK, Routes, [AdmissionNext]_admission
  PROVE  AdmissionTypeOK' /\ Routes'
<1> USE Types
<1>a. ASSUME NEW p \in Procs, NEW ats, Moved(p, ats)
      PROVE  pc' \in [Procs -> PlaceType] /\ Routes'
  BY <1>a DEF Moved, Others, Routes
<1>b. ASSUME pc' = pc PROVE Routes'
  BY <1>b DEF Routes
<1>t. /\ work \subseteq Jobs /\ process \in {"up", "draining", "down"}
      /\ asked \in 0..MaxRequests /\ MaxRequests \in Nat
  BY AdmissionAssumption DEF AdmissionTypeOK
<1>l. lost' \in BOOLEAN
  <2>1. CASE LongOperation
    BY <2>1 DEF LongOperation
  <2>2. CASE WorkerDies \/ ThreadFails \/ Unrecorded
    BY <2>2 DEF WorkerDies, ThreadFails, Unrecorded
  <2>3. CASE Verifies \/ Verified \/ Drains \/ Drained
    BY <2>3 DEF Verifies, Verified, Drains, Drained
  <2>4. ASSUME NEW p \in Procs, Call(p) \/ Tick(p) \/ Request(p) PROVE lost' = lost
    BY <2>4 DEF Call, Tick, Request, Cancel, Fetches, Refreshed, Loads, Begins, Freezes, Spawns,
       Submits, Prepares, Refused
  <2>5. CASE Business \/ UNCHANGED admission
    BY <2>5 DEF Business, Admit, JobEnds, admission
  <2> QED
    BY <2>1, <2>2, <2>3, <2>4, <2>5 DEF AdmissionNext, Updater
<1>1. ASSUME NEW p \in Procs,
             \/ Call(p) \/ Tick(p) \/ Cancel(p) \/ Fetches(p) \/ Refreshed(p) \/ Loads(p)
             \/ Begins(p)
      PROVE  AdmissionTypeOK' /\ Routes'
  <2>1. /\ Moved(p, (Places \cup {"none"}) \ {"audit"})
        /\ UNCHANGED <<work, updater, bg, clean>>
        /\ paused' = paused \/ paused' = FALSE
        /\ txn' \in BOOLEAN /\ apply' \in BOOLEAN
    BY <1>1, PlainMoves
  <2>2. asked' \in 0..MaxRequests
    <3>1. CASE Call(p)
      BY <3>1, <1>t DEF Call
    <3>2. CASE ~Call(p)
      BY <1>1, <1>t, <3>2 DEF Tick, Cancel, Fetches, Refreshed, Loads, Begins
    <3> QED
      BY <3>1, <3>2
  <2>3. pc' \in [Procs -> PlaceType] /\ Routes'
    BY <1>a, <2>1
  <2> QED
    BY <1>l, <1>t, <2>1, <2>2, <2>3 DEF AdmissionTypeOK, PlaceType, RequestType, updater
<1>2. ASSUME NEW p \in Procs, Freezes(p) PROVE AdmissionTypeOK' /\ Routes'
  <2>0. pc[p].at = "freeze" /\ pc[p].op # "cancel"
    BY <1>2 DEF Freezes, Routes, Routed
  <2>1. Moved(p, {"none", "audit"})
    <3>1. Return(p) \/ MoveTo(p, "audit")
      BY <1>2 DEF Freezes
    <3> QED
      BY <2>0, <3>1, Returns, Goes_ DEF Moved, Routed, Places
  <2>2. /\ paused' \in BOOLEAN /\ txn' \in BOOLEAN /\ clean' \in BOOLEAN
        /\ UNCHANGED <<apply, work, updater, bg, asked>>
    BY <1>2 DEF Freezes
  <2>3. pc' \in [Procs -> PlaceType] /\ Routes'
    BY <1>a, <2>1
  <2> QED
    BY <1>l, <1>t, <2>2, <2>3 DEF AdmissionTypeOK, PlaceType, RequestType, updater
<1>3. ASSUME NEW p \in Procs, Spawns(p) PROVE AdmissionTypeOK' /\ Routes'
  <2>1. Moved(p, {"none"})
    BY <1>3, Returns DEF Spawns, Moved, Routed
  <2>2. /\ bg' \in [Procs -> {"none", "prepare", "refused"}] /\ apply' \in BOOLEAN
        /\ UNCHANGED <<paused, txn, work, updater, asked, clean>>
    BY <1>3 DEF Spawns
  <2>3. pc' \in [Procs -> PlaceType] /\ Routes'
    BY <1>a, <2>1
  <2> QED
    BY <1>l, <1>t, <2>2, <2>3 DEF AdmissionTypeOK, PlaceType, RequestType, updater
<1>4. ASSUME NEW p \in Procs, Submits(p) PROVE AdmissionTypeOK' /\ Routes'
  <2>1. Moved(p, {"none"})
    BY <1>4, Returns DEF Submits, Moved, Routed
  <2>2. slot' \in [op : LongOps \cup {"install", "none"}, begun : BOOLEAN]
    <3>1. pc[p].op \in LongOps
      BY <1>4 DEF Submits, Routes, Routed
    <3>2. [op |-> pc[p].op, begun |-> FALSE] \in
            [op : LongOps \cup {"install", "none"}, begun : BOOLEAN]
      BY <3>1
    <3> QED
      BY <1>4, <3>2 DEF Submits, Takes, Refuses
  <2>3. /\ txn' \in BOOLEAN
        /\ UNCHANGED <<paused, apply, work, display, process, bg, asked, clean>>
    BY <1>4 DEF Submits
  <2>4. pc' \in [Procs -> PlaceType] /\ Routes'
    BY <1>a, <2>1
  <2> QED
    BY <1>l, <1>t, <2>2, <2>3, <2>4 DEF AdmissionTypeOK, PlaceType, RequestType
<1>5. ASSUME NEW p \in Procs, Prepares(p) PROVE AdmissionTypeOK' /\ Routes'
  <2>1. slot' \in [op : LongOps \cup {"install", "none"}, begun : BOOLEAN]
    <3>1. [op |-> "install", begun |-> FALSE] \in
            [op : LongOps \cup {"install", "none"}, begun : BOOLEAN]
      OBVIOUS
    <3> QED
      BY <1>5, <3>1 DEF Prepares, Takes, Refuses
  <2>2. /\ bg' \in [Procs -> {"none", "prepare", "refused"}]
        /\ UNCHANGED <<service, work, display, process, pc, asked, clean>>
    BY <1>5 DEF Prepares
  <2> QED
    BY <1>b, <1>l, <1>t, <2>1, <2>2 DEF AdmissionTypeOK, PlaceType, RequestType, service
<1>6. ASSUME NEW p \in Procs, Refused(p) PROVE AdmissionTypeOK' /\ Routes'
  <2>1. /\ bg' \in [Procs -> {"none", "prepare", "refused"}]
        /\ paused' = FALSE /\ txn' = FALSE
        /\ UNCHANGED <<apply, work, updater, pc, asked, clean>>
    BY <1>6 DEF Refused
  <2> QED
    BY <1>b, <1>l, <1>t, <2>1 DEF AdmissionTypeOK, PlaceType, RequestType, updater
<1>7. ASSUME Updater \/ WorkerDies \/ ThreadFails \/ Unrecorded PROVE AdmissionTypeOK' /\ Routes'
  <2>j. ASSUME NEW s \in States, NEW e \in BOOLEAN, Journal(s, e)
        PROVE  display' \in [state : States, error : BOOLEAN]
    BY <2>j DEF Journal
  <2>f. ASSUME Frees PROVE slot' \in [op : LongOps \cup {"install", "none"}, begun : BOOLEAN]
    <3>1. [op |-> "none", begun |-> FALSE] \in
            [op : LongOps \cup {"install", "none"}, begun : BOOLEAN]
      OBVIOUS
    <3> QED
      BY <2>f, <3>1 DEF Frees
  <2>g. ASSUME Goes PROVE slot' \in [op : LongOps \cup {"install", "none"}, begun : BOOLEAN]
    BY <2>g DEF Goes
  <2>s. /\ {"checking", "available", "failed", "idle", "downloading", "staged", "verifying",
            "waiting", "rolling_back", "stopped"} \subseteq States
        /\ display.error \in BOOLEAN /\ display.state \in States
    BY DEF States
  <2>1. CASE LongOperation
    <3>1. display' \in [state : States, error : BOOLEAN]
      <4>1. ChecksBegin \/ ChecksEnd => display' \in [state : States, error : BOOLEAN]
        BY <2>j, <2>s DEF ChecksBegin, ChecksEnd
      <4>2. DownloadBegins => display' \in [state : States, error : BOOLEAN]
        BY <2>j, <2>s DEF DownloadBegins
      <4>3. DownloadEnds => display' \in [state : States, error : BOOLEAN]
        <5>1. DownloadEnds => \/ Journal("staged", display.error) \/ Journal("failed", TRUE)
                              \/ UNCHANGED display
          BY DEF DownloadEnds
        <5>2. Journal("failed", TRUE) => display' \in [state : States, error : BOOLEAN]
          BY DEF Journal, States
        <5>3. Journal("staged", display.error) => display' \in [state : States, error : BOOLEAN]
          BY <2>s DEF Journal
        <5> QED
          BY <5>1, <5>2, <5>3
      <4>4. RollsBack => display' \in [state : States, error : BOOLEAN]
        <5>1. RollsBack => Journal("rolling_back", display.error) \/ Journal("idle", FALSE)
          BY DEF RollsBack
        <5>2. Journal("rolling_back", display.error) => display' \in [state : States, error : BOOLEAN]
          BY <2>s DEF Journal
        <5>3. Journal("idle", FALSE) => display' \in [state : States, error : BOOLEAN]
          BY DEF Journal, States
        <5> QED
          BY <5>1, <5>2, <5>3
      <4> QED
        BY <2>1, <4>1, <4>2, <4>3, <4>4 DEF LongOperation
    <3>4. clean' \in BOOLEAN
      BY <2>1 DEF LongOperation
    <3>2. slot' \in [op : LongOps \cup {"install", "none"}, begun : BOOLEAN]
      BY <2>1, <2>f, <2>g DEF LongOperation, ChecksBegin, ChecksEnd, DownloadBegins,
         DownloadEnds, RollsBack
    <3>3. UNCHANGED <<service, work, process, pc, bg, asked>>
      BY <2>1 DEF LongOperation
    <3> QED
      BY <1>b, <1>l, <1>t, <3>1, <3>2, <3>3, <3>4 DEF AdmissionTypeOK, PlaceType, RequestType, service
  <2>2. CASE Verifies \/ Verified \/ Drains \/ Drained \/ WorkerDies \/ ThreadFails \/ Unrecorded
    <3>1. display' \in [state : States, error : BOOLEAN]
      BY <2>2, <2>j, <2>s DEF Verifies, Verified, Drains, Drained, WorkerDies, ThreadFails, Unrecorded
    <3>2. slot' \in [op : LongOps \cup {"install", "none"}, begun : BOOLEAN]
      BY <2>2, <2>f, <2>g DEF Verifies, Verified, Drains, Drained, WorkerDies, ThreadFails, Unrecorded
    <3>3. Elsewhere /\ process' \in {"up", "draining", "down"}
      BY <1>t, <2>2 DEF Verifies, Verified, Drains, Drained, WorkerDies, ThreadFails, Unrecorded
    <3> QED
      BY <1>b, <1>l, <1>t, <3>1, <3>2, <3>3 DEF AdmissionTypeOK, PlaceType, RequestType, service, Elsewhere
  <2> QED
    BY <1>7, <2>1, <2>2 DEF Updater
<1>8. ASSUME NEW j \in Jobs, Admit(j) \/ JobEnds(j) PROVE AdmissionTypeOK' /\ Routes'
  <2>1. work' \subseteq Jobs /\ UNCHANGED <<service, updater, pc, bg, asked, clean>>
    BY <1>8, <1>t DEF Admit, JobEnds
  <2> QED
    BY <1>b, <1>l, <1>t, <2>1 DEF AdmissionTypeOK, PlaceType, RequestType, service, updater
<1>9. CASE UNCHANGED admission
  BY <1>9, <1>b, <1>l, <1>t DEF AdmissionTypeOK, PlaceType, RequestType, admission
<1> QED
  BY <1>1, <1>2, <1>3, <1>4, <1>5, <1>6, <1>7, <1>8, <1>9 DEF AdmissionNext, Request, Business

------------------------------------------------------------------------------
(***************************************************************************)
(* The barrier.                                                            *)
(***************************************************************************)
LEMMA FreezeStep ==
  ASSUME AdmissionTypeOK, Routes, FreezeInv, [AdmissionNext]_admission
  PROVE  FreezeInv'
<1> USE Types
<1>i. Installing <=> slot.op = "install" \/ \E p \in Procs : Carries(p)
  BY DEF Installing, Carries
<1>j. Installing' <=> slot'.op = "install" \/ \E p \in Procs : Carries(p)'
  BY DEF Installing, Carries
<1>1. ASSUME NEW p \in Procs,
             \/ Call(p) \/ Tick(p) \/ Cancel(p) \/ Fetches(p) \/ Refreshed(p) \/ Loads(p)
             \/ Begins(p)
      PROVE  FreezeInv'
  <2>1. /\ Moved(p, (Places \cup {"none"}) \ {"audit"}) /\ pc[p].at # "audit"
        /\ pc'[p].at = "seen" /\ pc'[p].seen.error => display.error
        /\ UNCHANGED <<work, updater, bg, clean>>
        /\ paused' = paused \/ (pc[p].at = "seen" /\ pc[p].seen.error /\ paused' = FALSE)
    BY <1>1, PlainMoves
  <2>2. \A q \in Procs : (Carries(q)' <=> Carries(q)) /\ (pc'[q].at = "audit" => pc[q].at = "audit")
    BY <2>1 DEF Carries, Moved, Others
  <2>3. (Installing' <=> Installing) /\ (OneCarrier => OneCarrier')
    BY <1>i, <1>j, <2>1, <2>2 DEF OneCarrier, updater
  <2>4. NoErrorToRead => NoErrorToRead' /\ paused' = paused
    BY <2>1 DEF NoErrorToRead, Moved, Others, updater
  <2> QED
    BY <2>1, <2>3, <2>4 DEF FreezeInv, updater
<1>2. ASSUME NEW p \in Procs, Freezes(p) PROVE FreezeInv'
  <2>0. pc[p].at = "freeze" /\ process = "up" /\ UNCHANGED <<work, updater, bg>>
    BY <1>2 DEF Freezes, Up
  <2>1. CASE paused \/ work # {}
    <3>1. Return(p) /\ paused' = paused /\ clean' = clean
      BY <1>2, <2>1 DEF Freezes
    <3>2. Others(p) /\ pc'[p].at = "none"
      BY <3>1, Returns
    <3>3. \A q \in Procs : (Carries(q)' <=> Carries(q)) /\ (pc'[q].at = "audit" => pc[q].at = "audit")
      BY <2>0, <3>2 DEF Carries, Others
    <3>4. (Installing' <=> Installing) /\ (OneCarrier => OneCarrier')
      BY <1>i, <1>j, <2>0, <3>3 DEF OneCarrier, updater
    <3>5. NoErrorToRead => NoErrorToRead'
      BY <2>0, <3>2 DEF NoErrorToRead, Others, updater
    <3> QED
      BY <2>0, <3>1, <3>4, <3>5 DEF FreezeInv, updater
  <2>2. CASE ~(paused \/ work # {})
    <3>1. /\ MoveTo(p, "audit") /\ paused' = TRUE /\ work = {}
          /\ clean' = (/\ ~display.error /\ ~Installing
                       /\ \A q \in Procs : pc[q].at = "seen" => ~pc[q].seen.error)
      BY <1>2, <2>2 DEF Freezes
    <3>2. Others(p) /\ pc'[p].at = "audit"
      BY <2>0, <3>1, Goes_ DEF Places
    <3>3. ASSUME clean' PROVE OneCarrier'
      <4>1. slot.op # "install" /\ \A q \in Procs : ~Carries(q)
        BY <1>i, <3>1, <3>3
      <4>2. bg[p] = "none" /\ \A q \in Procs : Carries(q)' => q = p
        BY <2>0, <3>2, <4>1 DEF Carries, Others
      <4>3. \A q \in Procs : pc'[q].at = "audit" => bg'[q] = "none"
        BY <2>0, <4>1 DEF Carries
      <4> QED
        BY <2>0, <4>1, <4>2, <4>3 DEF OneCarrier, updater
    <3>4. ASSUME clean' PROVE NoErrorToRead'
      BY <2>0, <3>1, <3>2, <3>4 DEF NoErrorToRead, Others, updater
    <3> QED
      BY <2>0, <3>1, <3>3, <3>4 DEF FreezeInv, updater
  <2> QED
    BY <2>1, <2>2
<1>3. ASSUME NEW p \in Procs, Spawns(p) PROVE FreezeInv'
  <2>1. /\ pc[p].at = "audit" /\ Return(p)
        /\ bg' = [bg EXCEPT ![p] = "prepare"]
        /\ UNCHANGED <<paused, work, updater, clean>>
    BY <1>3 DEF Spawns
  <2>2. Others(p) /\ pc'[p].at = "none"
    BY <2>1, Returns
  <2>3. \A q \in Procs : (Carries(q)' <=> Carries(q)) /\ (pc'[q].at = "audit" => q # p /\ pc[q].at = "audit")
    BY <2>1, <2>2 DEF Carries, Others
  <2>4. (Installing' <=> Installing) /\ (OneCarrier => OneCarrier')
    BY <1>i, <1>j, <2>1, <2>3 DEF OneCarrier, updater
  <2>5. NoErrorToRead => NoErrorToRead'
    BY <2>1, <2>2 DEF NoErrorToRead, Others, updater
  <2> QED
    BY <2>1, <2>4, <2>5 DEF FreezeInv, updater
<1>4. ASSUME NEW p \in Procs, Submits(p) PROVE FreezeInv'
  <2>1. /\ pc[p].at = "admitted" /\ Return(p) /\ pc[p].op \in LongOps
        /\ slot' = slot \/ (slot.op = "none" /\ slot' = [op |-> pc[p].op, begun |-> FALSE])
        /\ UNCHANGED <<paused, work, display, process, bg, clean>>
    BY <1>4 DEF Submits, Takes, Refuses, Routes, Routed
  <2>2. Others(p) /\ pc'[p].at = "none"
    BY <2>1, Returns
  <2>3. \A q \in Procs : (Carries(q)' <=> Carries(q)) /\ (pc'[q].at = "audit" => pc[q].at = "audit")
    BY <2>1, <2>2 DEF Carries, Others
  <2>4. slot'.op = "install" <=> slot.op = "install"
    BY <2>1 DEF LongOps
  <2>5. (Installing' <=> Installing) /\ (OneCarrier => OneCarrier')
    BY <1>i, <1>j, <2>1, <2>3, <2>4 DEF OneCarrier
  <2>6. NoErrorToRead => NoErrorToRead'
    BY <2>1, <2>2 DEF NoErrorToRead, Others
  <2> QED
    BY <2>1, <2>5, <2>6 DEF FreezeInv
<1>5. ASSUME NEW p \in Procs, Prepares(p) PROVE FreezeInv'
  <2>1. /\ bg[p] = "prepare"
        /\ \/ /\ slot'.op = "install" /\ bg' = [bg EXCEPT ![p] = "none"]
           \/ /\ slot' = slot /\ slot.op # "install" /\ bg' = [bg EXCEPT ![p] = "refused"]
        /\ UNCHANGED <<paused, work, display, process, pc, clean>>
    BY <1>5 DEF Prepares, Takes, Refuses, Reuses, service
  <2>2. Carries(p) /\ Installing
    BY <1>i, <2>1 DEF Carries
  <2>3. ASSUME OneCarrier PROVE OneCarrier'
    <3>1. slot.op # "install" /\ pc[p].at # "audit" /\ \A q \in Procs : q # p => ~Carries(q)
      BY <2>1, <2>2, <2>3 DEF OneCarrier
    <3>2. slot'.op = "install" => bg'[p] = "none"
      BY <2>1, <3>1
    <3>3. \A q \in Procs : /\ q # p => ~Carries(q)'
                           /\ pc'[q].at = "audit" => bg'[q] = "none"
      BY <2>1, <3>1 DEF Carries
    <3>4. slot'.op = "install" => ~Carries(p)'
      BY <2>1, <3>1, <3>2 DEF Carries
    <3> QED
      BY <3>3, <3>4 DEF OneCarrier
  <2>4. NoErrorToRead => NoErrorToRead'
    BY <2>1 DEF NoErrorToRead
  <2> QED
    BY <2>1, <2>2, <2>3, <2>4 DEF FreezeInv
<1>6. ASSUME NEW p \in Procs, Refused(p) PROVE FreezeInv'
  <2>1. /\ bg[p] = "refused" /\ bg' = [bg EXCEPT ![p] = "none"]
        /\ UNCHANGED <<work, updater, pc, clean>>
    BY <1>6 DEF Refused
  <2>2. Carries(p)
    BY <2>1 DEF Carries
  <2>3. ASSUME OneCarrier PROVE OneCarrier' /\ ~Installing'
    <3>1. slot.op # "install" /\ pc[p].at # "audit" /\ \A q \in Procs : q # p => ~Carries(q)
      BY <2>1, <2>2, <2>3 DEF OneCarrier
    <3>2. \A q \in Procs : ~Carries(q)'
      BY <2>1, <3>1 DEF Carries
    <3>3. slot'.op # "install"
      BY <2>1, <3>1 DEF updater
    <3> QED
      BY <1>j, <3>2, <3>3 DEF OneCarrier, Carries
  <2> QED
    BY <2>1, <2>3 DEF FreezeInv, updater
<1>7. CASE LongOperation
  <2>1. /\ slot.op \in LongOps
        /\ slot' = [slot EXCEPT !.begun = TRUE] \/ slot' = [op |-> "none", begun |-> FALSE]
    BY <1>7 DEF LongOperation, ChecksBegin, ChecksEnd, DownloadBegins, DownloadEnds, RollsBack,
       Runs_, Goes, Frees, LongOps
  <2>2. slot.op # "install" /\ slot'.op # "install"
    BY <2>1 DEF LongOps
  <2>3. /\ clean' = (clean /\ ~display'.error)
        /\ UNCHANGED <<paused, work, process, pc, bg>>
    BY <1>7 DEF LongOperation, service
  <2>4. (Installing' <=> Installing) /\ (OneCarrier => OneCarrier')
    BY <1>i, <1>j, <2>2, <2>3 DEF OneCarrier, Carries
  <2>5. clean' /\ NoErrorToRead => NoErrorToRead'
    BY <2>3 DEF NoErrorToRead
  <2> QED
    BY <2>3, <2>4, <2>5 DEF FreezeInv
<1>8. CASE /\ Verifies \/ Verified \/ Drains \/ Drained \/ WorkerDies \/ ThreadFails \/ Unrecorded
           /\ slot.op = "install"
  <2>1. UNCHANGED <<paused, work, pc, bg, clean>>
    BY <1>8 DEF Verifies, Verified, Drains, Drained, WorkerDies, ThreadFails, Unrecorded,
       Elsewhere, service
  <2>2. ASSUME OneCarrier PROVE OneCarrier' /\ \A q \in Procs : ~Carries(q)'
    BY <1>8, <2>1, <2>2 DEF OneCarrier, Carries
  <2>3. CASE slot'.op = "install"
    <3>1. (slot' = slot \/ slot' = [slot EXCEPT !.begun = TRUE]) /\ (display'.error => display.error)
      BY <1>8, <2>3 DEF Verifies, Verified, Drains, Drained, WorkerDies, ThreadFails,
         Unrecorded, Goes, Frees, Journal
    <3>2. NoErrorToRead => NoErrorToRead'
      BY <2>1, <3>1 DEF NoErrorToRead
    <3> QED
      BY <1>8, <1>i, <2>1, <2>2, <3>2 DEF FreezeInv
  <2>4. CASE slot'.op # "install"
    <3>1. process' = process
      BY <1>8, <2>1, <2>4 DEF Verifies, Verified, Drains, Drained, WorkerDies, ThreadFails,
         Unrecorded, Goes
    <3>2. OneCarrier => ~Installing'
      BY <1>j, <2>2, <2>4
    <3> QED
      BY <1>8, <1>i, <2>1, <2>2, <3>1, <3>2 DEF FreezeInv
  <2> QED
    BY <2>3, <2>4
<1>9. CASE (ThreadFails \/ Unrecorded) /\ slot.op # "install"
  <2>1. display' = display /\ slot'.op = "none" /\ UNCHANGED <<paused, work, process, pc, bg, clean>>
    <3>1. UNCHANGED <<display, process>> /\ Frees /\ Elsewhere
      BY <1>9 DEF ThreadFails, Unrecorded
    <3> QED
      BY <3>1 DEF Frees, Elsewhere, service
  <2>2. /\ Installing' <=> Installing
        /\ OneCarrier => OneCarrier'
        /\ NoErrorToRead => NoErrorToRead'
    BY <1>9, <2>1 DEF Installing, OneCarrier, Carries, NoErrorToRead
  <2> QED
    BY <2>1, <2>2 DEF FreezeInv
<1>10. ASSUME NEW j \in Jobs, Admit(j) PROVE FreezeInv'
  <2>1. process = "up" /\ ~paused /\ UNCHANGED <<paused, updater, pc, bg, clean>>
    BY <1>10 DEF Admit, Up, service
  <2>2. (Installing' <=> Installing) /\ (OneCarrier => OneCarrier')
    BY <2>1 DEF Installing, OneCarrier, Carries, updater
  <2> QED
    BY <2>1, <2>2 DEF FreezeInv, updater
<1>11. ASSUME NEW j \in Jobs, JobEnds(j) PROVE FreezeInv'
  <2>1. work' = work \ {j} /\ UNCHANGED <<paused, updater, pc, bg, clean>>
    BY <1>11 DEF JobEnds, service
  <2>2. /\ Installing' <=> Installing
        /\ OneCarrier => OneCarrier'
        /\ NoErrorToRead => NoErrorToRead'
    BY <2>1 DEF Installing, OneCarrier, Carries, NoErrorToRead, updater
  <2> QED
    BY <2>1, <2>2 DEF FreezeInv, updater
<1>12. CASE UNCHANGED admission
  BY <1>12 DEF admission, FreezeInv, OneCarrier, Carries, Installing, NoErrorToRead
<1> QED
  <2>1. Verifies \/ Verified \/ Drains \/ Drained \/ WorkerDies => slot.op = "install"
    BY DEF Verifies, Verified, Drains, Drained, WorkerDies, Runs_
  <2> QED
    BY <1>1, <1>2, <1>3, <1>4, <1>5, <1>6, <1>7, <1>8, <1>9, <1>10, <1>11, <1>12, <2>1
       DEF AdmissionNext, Request, Business, Updater

------------------------------------------------------------------------------
(***************************************************************************)
(* The theorems.                                                           *)
(***************************************************************************)
LEMMA AdmissionStart == AdmissionInit => AdmissionInv
<1> SUFFICES ASSUME AdmissionInit PROVE AdmissionInv
  OBVIOUS
<1>1. AdmissionTypeOK
  <2>1. /\ {"idle", "staged", "failed"} \subseteq States
        /\ MaxRequests \in Nat /\ 0 \in 0..MaxRequests
    BY AdmissionAssumption DEF States
  <2>2. display \in [state : States, error : BOOLEAN]
    BY <2>1 DEF AdmissionInit
  <2>3. slot \in [op : LongOps \cup {"install", "none"}, begun : BOOLEAN]
    BY DEF AdmissionInit
  <2> QED
    BY <2>1, <2>2, <2>3 DEF AdmissionInit, AdmissionTypeOK
<1>2. Routes
  BY PlacesOf DEF AdmissionInit, Routes, Routed
<1>3. FreezeInv
  BY DEF AdmissionInit, FreezeInv
<1> QED
  BY <1>1, <1>2, <1>3 DEF AdmissionInv

LEMMA AdmissionStep ==
  AdmissionInv /\ [AdmissionNext]_admission => AdmissionInv'
  BY TypeStep, FreezeStep DEF AdmissionInv

LEMMA AdmissionAlways == AdmissionSpec => []AdmissionInv
  BY AdmissionStart, AdmissionStep, PTL DEF AdmissionSpec

(* Every variable of the admission keeps its type.                         *)
THEOREM AdmissionTypeCorrect == AdmissionSpec => []AdmissionTypeOK
  BY AdmissionAlways, PTL DEF AdmissionInv

(* From the freeze of an installation to the drain of the server the       *)
(* barrier stays closed, whoever refreshes his view of the journal, and    *)
(* nothing is under way when the server is told to go (request_install,    *)
(* refresh, InstallBackground::run, install_staged).                       *)
THEOREM InstallsFrozen == AdmissionSpec => []FrozenToTheDrain
<1>1. AdmissionInv => FrozenToTheDrain
  BY DEF AdmissionInv, FreezeInv, FrozenToTheDrain, InstallIsFrozen, NoWorkInterrupted
<1> QED
  BY <1>1, AdmissionAlways, PTL
==============================================================================
