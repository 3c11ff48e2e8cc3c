----------------------------- MODULE Extensions -----------------------------
(* The lifecycle of the extensions of the server                             *)
(* (server/src/extensions/service.rs, store.rs; api/extensions.rs).          *)
(*                                                                           *)
(* Two things are durable: the version directories (disk) and the records of *)
(* state.json (record).  The process owns the running instances (inst), the  *)
(* registered runners (runner) and the marker that an extension was started  *)
(* by this process (live).  A management operation holds the write side of   *)
(* the gate of its extension and, in each of its sections, the operation     *)
(* lock of the service; a call holds the read side of the gate.              *)
(*                                                                           *)
(* Left out: the registry of the interface contributions, which is rebuilt   *)
(* from the records after every write; optional dependencies, which nothing  *)
(* checks; start contexts; manifests the runtime does not support.           *)
EXTENDS Naturals, FiniteSets

CONSTANTS
    Ids,          \* extensions
    Archives,     \* pairs <<extension, version>> a user can install
    Needs,        \* <<d, dv, p, pv>>: version dv of d requires p, accepts pv
    Resident,     \* extensions that keep an instance while they run
    Managers,     \* requests that manage extensions
    Callers,      \* requests that call them
    Boot,         \* the reconciliation at startup
    NoOne,        \* holder of a free gate or lock
    Kinds,        \* operations requested
    MaxOps, MaxCalls, MaxFaults, MaxCrashes,
    CrashAnywhere \* the process may die between the files and their record

Versions == {a[2] : a \in Archives}
Procs == Managers \cup {Boot}
Requests == {"install", "update", "quiet", "enable", "disable", "uninstall", "remove"}

(* The versions of an extension are numbered in their order, from 1: the    *)
(* one Init finds on disk.                                                   *)
ASSUME ExtensionsAssumption ==
    /\ IsFiniteSet(Ids)
    /\ Archives \subseteq Ids \X (Nat \ {0})
    /\ \A i \in Ids : <<i, 1>> \in Archives
    /\ Needs \subseteq Ids \X Nat \X Ids \X Nat
    /\ Resident \subseteq Ids
    /\ Boot \notin Managers /\ NoOne \notin Procs
    /\ Kinds \subseteq Requests
    /\ MaxOps \in Nat /\ MaxCalls \in Nat
    /\ MaxFaults \in Nat /\ MaxCrashes \in Nat
    /\ CrashAnywhere \in BOOLEAN

VARIABLES
    disk,     \* installed versions of each extension
    record,   \* state.json: state, active version and last error
    inst,     \* version of the instance held for the extension, 0 when none
    runner,   \* extensions whose runners are registered
    live,     \* process_running: extensions started by this process
    gate,     \* call gate of each extension: the writer and the readers
    lock,     \* holder of the operation lock
    op,       \* what each operation is doing
    call,     \* what each call is doing
    todo,     \* stale extensions the reconciliation still has to restore
    booted,   \* the startup is over and requests are served
    lost,     \* (history) extensions that an operation stopped or tried to
              \* start, and failed
    owed,     \* (history) extensions the reconciliation must bring back
    spent     \* operations, calls, faults and crashes so far

durable == <<disk, record>>
process == <<inst, runner, live>>
vars == <<disk, record, inst, runner, live, gate, lock, op, call, todo, booted,
          lost, owed, spent>>

Highest(S) == CHOOSE v \in S : \A w \in S : w <= v

Installed(v) == [state |-> "installed", active |-> v, err |-> "none"]
NoRecord == [state |-> "none", active |-> 0, err |-> "none"]

(* The record of an installed extension; one that has versions and no record *)
(* is taken to be freshly installed.                                         *)
Record(i) == IF record[i].state = "none" THEN Installed(Highest(disk[i]))
             ELSE record[i]
Readable(i) == disk[i] # {} /\ Record(i).active \in disk[i]

(* list() fails for everyone when one record has no installed version.       *)
ListOk == \A i \in Ids : Readable(i) \/ (record[i].state = "none" /\ disk[i] = {})

(* refresh_ui_registry fails when an installed extension has a record whose  *)
(* active version is gone.                                                   *)
RefreshOk(dsk, rec) ==
    \A i \in Ids : dsk[i] # {} /\ rec[i].state # "none"
                     => rec[i].active \in dsk[i]

HasLive(i) == i \in live /\ (i \in Resident => inst[i] # 0)
Up(i) == record[i].state = "running" /\ HasLive(i)

Requires(d, v) == {n[3] : n \in {m \in Needs : m[1] = d /\ m[2] = v}}
Accepts(d, p, w) == <<d, record[d].active, p, w>> \in Needs

(* ensure_provider_transition: version 0 means that p becomes unavailable.   *)
Dependents(p) == {d \in Ids \ {p} : Up(d) /\ p \in Requires(d, record[d].active)}
MayBecome_AnyVersion(p, w) == ListOk /\ (w = 0 => Dependents(p) = {})
MayBecome(p, w) == ListOk /\ \A d \in Dependents(p) : w # 0 /\ Accepts(d, p, w)

(* check_required_dependencies.                                              *)
Satisfied(d) ==
    \A p \in Requires(d, record[d].active) :
        Readable(p) /\ Accepts(d, p, Record(p).active) /\ Up(p)

(* check_dependency_cycles: nothing is reachable from d along required       *)
(* dependencies of active versions and also reaches itself.                  *)
Edges == {e \in Ids \X Ids : /\ disk[e[1]] # {}
                             /\ e[2] \in Requires(e[1], Record(e[1]).active)}
Reaches(a, b) ==
    \E n \in 1..Cardinality(Ids) : \E path \in [0..n -> Ids] :
        /\ path[0] = a /\ path[n] = b
        /\ \A k \in 0..(n - 1) : <<path[k], path[k + 1]>> \in Edges
Cyclic_Never(d) == FALSE
Cyclic(d) == \E x \in Ids : (x = d \/ Reaches(d, x)) /\ Reaches(x, x)

-----------------------------------------------------------------------------
Idle == [pc |-> "idle", kind |-> "none", id |-> NoOne, ver |-> 0, job |-> "none",
         was |-> FALSE, old |-> 0, first |-> FALSE, err |-> "none"]
NoCall == [pc |-> "idle", id |-> NoOne, ver |-> 0]
FreeGate == [writer |-> NoOne, readers |-> {}]

At(m, pc) == op[m].pc = pc
Go(m, pc) == op' = [op EXCEPT ![m].pc = pc]

(* The operation takes the lock again, for its next section.                 *)
Section(m, job) == [op[m] EXCEPT !.pc = "lock", !.job = job]

OpenGate(m) == gate' = [gate EXCEPT ![op[m].id].writer =
                            IF @ = m THEN NoOne ELSE @]
Unlock == lock' = NoOne

(* The operation returns, with a result or with an error.                    *)
Done(m) ==
    /\ OpenGate(m)
    /\ Unlock
    /\ op' = [op EXCEPT ![m] = IF m = Boot THEN [Idle EXCEPT !.pc = "next"]
                               ELSE Idle]

(* It returns or continues as the refresh after its write tells.             *)
Fresh(m, next) ==
    IF RefreshOk(disk', record') THEN next ELSE Done(m)

Write(i, state, err) ==
    record' = [record EXCEPT ![i] = [Record(i) EXCEPT !.state = state, !.err = err]]

Fault == /\ spent.faults < MaxFaults
         /\ spent' = [spent EXCEPT !.faults = @ + 1]
         /\ owed' = {}
NoFault == UNCHANGED <<spent, owed>>

Rest == UNCHANGED <<call, todo, booted>>

Ops(m, kind, i, v) ==
    [Idle EXCEPT !.pc = "gate", !.kind = kind, !.id = i, !.job = kind,
                 !.ver = IF kind \in {"enable", "disable"} THEN 0 ELSE v]

(* A request and the checks it makes before it waits for the gate.           *)
Ask(m, kind, i, v) ==
    /\ booted /\ At(m, "idle") /\ spent.ops < MaxOps
    /\ CASE kind \in {"install", "enable"} -> TRUE
         [] kind \in {"update", "quiet"} ->
              /\ disk[i] # {} /\ v \notin disk[i]
              /\ kind = "update" => MayBecome(i, v)
              /\ kind = "quiet" => gate[i] = FreeGate
         [] kind = "disable" -> MayBecome(i, 0)
         [] kind = "uninstall" ->
              /\ Readable(i) /\ v \in disk[i]
              /\ v = Record(i).active =>
                   MayBecome(i, IF disk[i] = {v} THEN 0 ELSE Highest(disk[i] \ {v}))
         [] kind = "remove" ->
              Readable(i) /\ v = Record(i).active /\ MayBecome(i, 0)
    /\ op' = [op EXCEPT ![m] =
                [Ops(m, kind, i, v) EXCEPT
                    !.pc = IF kind \in {"install", "quiet"} THEN "lock" ELSE "gate"]]
    /\ gate' = IF kind = "quiet" THEN [gate EXCEPT ![i].writer = m] ELSE gate
    /\ spent' = [spent EXCEPT !.ops = @ + 1]
    /\ owed' = {}
    /\ UNCHANGED <<durable, process, lock, lost>>
    /\ Rest

(* call_gate.write().                                                        *)
TakeGate_NoReaders(m) ==
    /\ At(m, "gate") /\ gate[op[m].id].writer = NoOne
    /\ gate' = [gate EXCEPT ![op[m].id].writer = m]
    /\ Go(m, "lock")
    /\ UNCHANGED <<durable, process, lock, lost, owed, spent>>
    /\ Rest
TakeGate(m) ==
    /\ At(m, "gate") /\ gate[op[m].id] = FreeGate
    /\ gate' = [gate EXCEPT ![op[m].id].writer = m]
    /\ Go(m, "lock")
    /\ UNCHANGED <<durable, process, lock, lost, owed, spent>>
    /\ Rest

(* operation_lock.lock().                                                    *)
TakeLock(m) ==
    /\ At(m, "lock") /\ lock = NoOne
    /\ lock' = m
    /\ Go(m, op[m].job)
    /\ UNCHANGED <<durable, process, gate, lost, owed, spent>>
    /\ Rest

-----------------------------------------------------------------------------
(* install_with_context: the files first, then the record; the handler then  *)
(* enables and starts what it installed.                                     *)
Install(m) ==
    LET i == op[m].id  v == op[m].ver IN
    /\ At(m, "install")
    /\ \/ /\ ListOk /\ v \notin disk[i]
          /\ disk' = [disk EXCEPT ![i] = @ \cup {v}]
          /\ Go(m, "record")
          /\ NoFault /\ UNCHANGED <<gate, lock>>
       \/ /\ ~(ListOk /\ v \notin disk[i])
          /\ Done(m) /\ NoFault /\ UNCHANGED disk
       \/ Fault /\ Done(m) /\ UNCHANGED disk
    /\ UNCHANGED <<record, process, lost>>
    /\ Rest

InstallRecords(m) ==
    LET i == op[m].id IN
    /\ At(m, "record")
    /\ record' = IF record[i].state = "none"
                 THEN [record EXCEPT ![i] = Installed(op[m].ver)] ELSE record
    /\ UNCHANGED disk
    /\ IF record'[i].state = "running" \/ ~RefreshOk(disk, record') THEN Done(m)
       ELSE /\ Unlock /\ UNCHANGED gate
            /\ op' = [op EXCEPT ![m].pc = "gate", ![m].job = "enable"]
    /\ UNCHANGED <<process, lost, owed, spent>>
    /\ Rest

(* enable_and_start, first part: the gate and the lock are let go before the *)
(* start takes them again.                                                   *)
Enable(m) ==
    LET i == op[m].id IN
    /\ At(m, "enable")
    /\ UNCHANGED disk
    /\ IF ~Readable(i) \/ (Record(i).state = "running" /\ i \in live)
       THEN Done(m) /\ UNCHANGED record
       ELSE /\ Write(i, "enabled",
                     IF Record(i).state = "enabled" THEN record[i].err ELSE "none")
            /\ Fresh(m, /\ OpenGate(m) /\ Unlock
                        /\ op' = [op EXCEPT ![m].pc = "gate", ![m].job = "start"])
    /\ UNCHANGED <<process, lost, owed, spent>>
    /\ Rest

-----------------------------------------------------------------------------
(* can_start, and the checks of the dependencies.                            *)
CanStart_AnyStopped(i) == Readable(i) /\ Record(i).state # "running"
CanStart(i) == Readable(i) /\ Record(i).state = "enabled"
Provided(i) == ListOk /\ ~Cyclic(i) /\ Satisfied(i)

(* start_with_context_locked.  A start that fails is reported to the         *)
(* operation it belongs to: an update rolls back and then restores what ran  *)
(* before, an installation degrades the failure, the reconciliation too.     *)
Fails(m, e) ==
    CASE op[m].kind \in {"update", "quiet"} /\ op[m].first ->
           /\ op' = [op EXCEPT ![m] = [Section(m, "rollback") EXCEPT !.first = FALSE]]
           /\ Unlock /\ UNCHANGED gate
      [] op[m].kind = "install" ->
           /\ op' = [op EXCEPT ![m].pc = "gate", ![m].job = "degrade", ![m].err = e]
           /\ OpenGate(m) /\ Unlock
      [] op[m].kind = "reconcile" ->
           /\ op' = [op EXCEPT ![m] = [Section(m, "degraded") EXCEPT !.err = e]]
           /\ Unlock /\ UNCHANGED gate
      [] OTHER -> Done(m)

StartRefused(m) ==
    LET i == op[m].id IN
    /\ At(m, "start")
    /\ \/ /\ ~CanStart(i)
          /\ UNCHANGED record
          /\ Fails(m, "state")
       \/ /\ CanStart(i) /\ ~Provided(i)
          /\ Write(i, "enabled", "dependency")
          /\ Fails(m, "dependency")
    /\ lost' = lost \cup {i}
    /\ UNCHANGED <<disk, process, owed, spent>>
    /\ Rest

(* The checks pass; the instance starts, or the runtime fails to.            *)
Start(m) ==
    LET i == op[m].id IN
    /\ At(m, "start")
    /\ CanStart(i) /\ Provided(i)
    /\ \/ /\ inst' = IF i \in Resident
                     THEN [inst EXCEPT ![i] = Record(i).active] ELSE inst
          /\ Go(m, "register")
          /\ NoFault /\ UNCHANGED <<record, gate, lock, lost>>
       \/ /\ Fault
          /\ \E s \in IF i \in Resident THEN {"enabled", "failed"} ELSE {"enabled"} :
                Write(i, s, "runtime")
          /\ lost' = lost \cup {i}
          /\ Fails(m, "runtime") /\ UNCHANGED inst
    /\ UNCHANGED <<disk, runner, live>>
    /\ Rest

(* register_extension_runners, ui.register and mark_process_running.         *)
Register(m) ==
    LET i == op[m].id IN
    /\ At(m, "register")
    /\ \/ /\ runner' = runner \cup {i}
          /\ live' = live \cup {i}
          /\ Go(m, "publish")
          /\ NoFault /\ UNCHANGED <<inst, record, gate, lock, lost>>
       \/ /\ Fault
          /\ runner' = runner \ {i} /\ live' = live \ {i}
          /\ inst' = [inst EXCEPT ![i] = 0]
          /\ Write(i, "failed", "runner")
          /\ lost' = lost \cup {i}
          /\ Fails(m, "runner")
    /\ UNCHANGED disk
    /\ Rest

(* The durable write and the refresh, either of which takes everything back. *)
RollBackStart_KeepsMarker(i) ==
    /\ runner' = runner \ {i} /\ inst' = [inst EXCEPT ![i] = 0]
    /\ lost' = lost \cup {i} /\ UNCHANGED live
RollBackStart(i) ==
    /\ runner' = runner \ {i} /\ live' = live \ {i}
    /\ inst' = [inst EXCEPT ![i] = 0]
    /\ lost' = lost \cup {i}

Publish(m) ==
    LET i == op[m].id IN
    /\ At(m, "publish")
    /\ \/ /\ RefreshOk(disk, record)
          /\ Write(i, "running", "none")
          /\ lost' = lost \ {i}
          /\ Done(m)
          /\ NoFault /\ UNCHANGED process
       \/ /\ ~RefreshOk(disk, record)
          /\ RollBackStart(i) /\ Write(i, "enabled", "refresh")
          /\ Fails(m, "refresh") /\ NoFault
       \/ /\ Fault
          /\ RollBackStart(i) /\ UNCHANGED record
          /\ Fails(m, "io")
    /\ UNCHANGED disk
    /\ Rest

(* rollback_active_version.                                                  *)
RollBackVersion(m) ==
    LET i == op[m].id IN
    /\ At(m, "rollback")
    /\ UNCHANGED disk
    /\ IF Readable(i) /\ op[m].old \in disk[i]
       THEN /\ record' = [record EXCEPT ![i] = [state |-> "enabled",
                              active |-> op[m].old, err |-> "rolled back"]]
            /\ Fresh(m, /\ Unlock /\ UNCHANGED gate
                        /\ op' = [op EXCEPT ![m] = Section(m, "start")])
       ELSE Done(m) /\ UNCHANGED record
    /\ UNCHANGED <<process, lost, owed, spent>>
    /\ Rest

(* degrade_start_failure: only the failure this start left is degraded.      *)
Degrade(m) ==
    LET i == op[m].id IN
    /\ At(m, "degrade")
    /\ IF /\ Readable(i) /\ Record(i).err = op[m].err
          /\ Record(i).state # "running" /\ ~HasLive(i)
       THEN Write(i, "enabled", op[m].err) ELSE UNCHANGED record
    /\ Done(m)
    /\ UNCHANGED <<disk, process, lost, owed, spent>>
    /\ Rest

-----------------------------------------------------------------------------
(* stop_running_instance: a resident extension without its instance, and an  *)
(* instance that does not stop, end the operation with nothing changed.      *)
StopOk(m, next) ==
    LET i == op[m].id IN
    \/ /\ i \in Resident => inst[i] # 0
       /\ live' = live \ {i} /\ inst' = [inst EXCEPT ![i] = 0]
       /\ next
       /\ NoFault /\ UNCHANGED <<gate, lock>>
    \/ /\ i \in Resident
       /\ IF inst[i] = 0 THEN NoFault ELSE Fault
       /\ Done(m) /\ UNCHANGED <<live, inst>>

Disable(m) ==
    LET i == op[m].id IN
    /\ At(m, "disable")
    /\ IF MayBecome(i, 0) /\ Readable(i)
       THEN IF Record(i).state = "running" THEN StopOk(m, Go(m, "stopped"))
            ELSE /\ Go(m, "stopped")
                 /\ NoFault /\ UNCHANGED <<live, inst, gate, lock>>
       ELSE Done(m) /\ NoFault /\ UNCHANGED <<live, inst>>
    /\ UNCHANGED <<durable, runner, lost>>
    /\ Rest

(* unregister_extension_runners and the write of the safe state; an update   *)
(* or a removal goes on to the files only when the runners are gone.         *)
Unregister(m) ==
    LET i == op[m].id
        state == IF op[m].kind = "disable" THEN "disabled" ELSE "enabled"
        files == IF op[m].kind \in {"update", "quiet"} THEN "archive" ELSE "files" IN
    /\ At(m, "stopped")
    /\ UNCHANGED disk
    /\ \/ /\ runner' = runner \ {i}
          /\ Write(i, state, "none")
          /\ NoFault /\ UNCHANGED lost
          /\ IF op[m].kind = "disable" THEN Done(m)
             ELSE Fresh(m, Go(m, files) /\ UNCHANGED <<gate, lock>>)
       \/ /\ Fault /\ UNCHANGED runner
          /\ Write(i, state, "unregister")
          /\ lost' = lost \cup {i}
          /\ Done(m)
    /\ UNCHANGED <<inst, live>>
    /\ Rest

(* update_under_gate.                                                        *)
Update(m) ==
    LET i == op[m].id  v == op[m].ver
        was == Record(i).state = "running"
        seen(pc) == op' = [op EXCEPT ![m].pc = pc, ![m].was = was,
                                     ![m].old = Record(i).active,
                                     ![m].first = was] IN
    /\ At(m, op[m].kind) /\ op[m].kind \in {"update", "quiet"}
    /\ IF disk[i] # {} /\ v \notin disk[i] /\ MayBecome(i, v) /\ (was => i \in live)
       THEN IF was THEN StopOk(m, seen("stopped"))
            ELSE seen("archive") /\ NoFault /\ UNCHANGED <<live, inst, gate, lock>>
       ELSE Done(m) /\ NoFault /\ UNCHANGED <<live, inst>>
    /\ UNCHANGED <<durable, runner, lost>>
    /\ Rest

(* The operation failed after it stopped the extension: what ran before is   *)
(* started again.                                                            *)
Restore_HoldsLock(m) ==
    IF op[m].was
    THEN /\ op' = [op EXCEPT ![m] = [Section(m, "start") EXCEPT !.first = FALSE]]
         /\ UNCHANGED <<lock, gate>>
    ELSE Done(m)
Restore(m) ==
    IF op[m].was
    THEN /\ op' = [op EXCEPT ![m] = [Section(m, "start") EXCEPT !.first = FALSE]]
         /\ Unlock /\ UNCHANGED gate
    ELSE Done(m)

UpdateArchive(m) ==
    LET i == op[m].id IN
    /\ At(m, "archive")
    /\ \/ /\ disk' = [disk EXCEPT ![i] = @ \cup {op[m].ver}]
          /\ Go(m, "select")
          /\ NoFault /\ UNCHANGED <<gate, lock>>
       \/ Fault /\ Restore(m) /\ UNCHANGED disk
    /\ UNCHANGED <<record, process, lost>>
    /\ Rest

UpdateSelects(m) ==
    LET i == op[m].id IN
    /\ At(m, "select")
    /\ UNCHANGED disk
    /\ record' = [record EXCEPT ![i] =
                    [state |-> IF op[m].was THEN "enabled"
                               ELSE IF Record(i).state \in {"enabled", "disabled"}
                               THEN Record(i).state ELSE "installed",
                     active |-> op[m].ver, err |-> "none"]]
    /\ Fresh(m, IF op[m].was
                THEN /\ op' = [op EXCEPT ![m] = Section(m, "start")]
                     /\ Unlock /\ UNCHANGED gate
                ELSE Done(m))
    /\ UNCHANGED <<process, lost, owed, spent>>
    /\ Rest

-----------------------------------------------------------------------------
(* uninstall_selected: one version, or all of them.                          *)
Leaving(m) == IF op[m].kind = "remove" THEN disk[op[m].id] ELSE {op[m].ver}
Remaining(m) == disk[op[m].id] \ Leaving(m)

Uninstall(m) ==
    LET i == op[m].id
        active == op[m].kind = "remove" \/ Record(i).active = op[m].ver
        was == active /\ Record(i).state = "running"
        next == IF Remaining(m) = {} THEN 0 ELSE Highest(Remaining(m)) IN
    /\ At(m, op[m].kind) /\ op[m].kind \in {"uninstall", "remove"}
    /\ IF /\ Readable(i) /\ op[m].ver \in disk[i]
          /\ active => MayBecome(i, next)
          /\ was => i \in live
       THEN IF was THEN StopOk(m, op' = [op EXCEPT ![m].pc = "stopped", ![m].was = TRUE])
            ELSE Go(m, "files") /\ NoFault /\ UNCHANGED <<live, inst, gate, lock>>
       ELSE Done(m) /\ NoFault /\ UNCHANGED <<live, inst>>
    /\ UNCHANGED <<durable, runner, lost>>
    /\ Rest

RemoveFiles(m) ==
    /\ At(m, "files")
    /\ \/ /\ disk' = [disk EXCEPT ![op[m].id] = Remaining(m)]
          /\ Go(m, "forget")
          /\ NoFault /\ UNCHANGED <<gate, lock>>
       \/ Fault /\ Restore(m) /\ UNCHANGED disk
    /\ UNCHANGED <<record, process, lost>>
    /\ Rest

(* The record follows the files.                                             *)
Forget(m) ==
    LET i == op[m].id IN
    /\ At(m, "forget")
    /\ UNCHANGED disk
    /\ record' = [record EXCEPT ![i] =
                    IF disk[i] = {} THEN NoRecord
                    ELSE IF record[i].state = "none" THEN Installed(Highest(disk[i]))
                    ELSE IF @.active = op[m].ver
                    THEN [@ EXCEPT !.active = Highest(disk[i])] ELSE @]
    /\ Fresh(m, IF op[m].was /\ disk[i] # {}
                THEN /\ op' = [op EXCEPT ![m] = Section(m, "start")]
                     /\ Unlock /\ UNCHANGED gate
                ELSE Done(m))
    /\ UNCHANGED <<process, lost, owed, spent>>
    /\ Rest

-----------------------------------------------------------------------------
(* reconcile_startup: providers before the extensions that require them.     *)
Stale == {i \in Ids : record[i].state = "running" /\ i \notin live}

BootBegins ==
    /\ ~booted /\ At(Boot, "idle")
    /\ IF ListOk
       THEN /\ Go(Boot, "next")
            /\ todo' = Stale
            /\ owed' = {i \in Stale : \A j \in Ids : Reaches(i, j) \/ i = j =>
                          /\ j \in Stale /\ ~Reaches(j, j)
                          /\ \A p \in Requires(j, record[j].active) :
                                Accepts(j, p, record[p].active)}
            /\ UNCHANGED booted
       ELSE booted' = TRUE /\ UNCHANGED <<op, todo, owed>>
    /\ UNCHANGED <<durable, process, gate, lock, call, lost, spent>>

(* startup_restore_order: a stale extension that requires no other one that  *)
(* is still to come, or any when they all do.                                *)
RestoreOrder_Any == todo
RestoreOrder ==
    LET ready == {i \in todo : Requires(i, record[i].active) \cap todo = {}}
    IN IF ready = {} THEN todo ELSE ready

BootNext ==
    /\ At(Boot, "next")
    /\ \/ /\ todo = {}
          /\ booted' = TRUE
          /\ op' = [op EXCEPT ![Boot] = Idle]
          /\ UNCHANGED todo
       \/ \E i \in RestoreOrder :
            /\ todo' = todo \ {i}
            /\ op' = [op EXCEPT ![Boot] = [Ops(Boot, "reconcile", i, 0) EXCEPT !.job = "clear"]]
            /\ UNCHANGED booted
    /\ UNCHANGED <<durable, process, gate, lock, call, lost, owed, spent>>

(* force_state_locked, before the start and after one that failed.           *)
BootClears ==
    LET i == op[Boot].id IN
    /\ At(Boot, "clear")
    /\ Write(i, "enabled", "none")
    /\ live' = live \ {i}
    /\ op' = [op EXCEPT ![Boot] = Section(Boot, "start")]
    /\ Unlock
    /\ UNCHANGED <<disk, inst, runner, gate, lost, owed, spent>>
    /\ Rest

BootDegrades ==
    /\ At(Boot, "degraded")
    /\ Write(op[Boot].id, "enabled", op[Boot].err)
    /\ live' = live \ {op[Boot].id}
    /\ Done(Boot)
    /\ UNCHANGED <<disk, inst, runner, lost, owed, spent>>
    /\ Rest

-----------------------------------------------------------------------------
(* call_extension_authorized, with_guest_for_run: the lease of the gate is   *)
(* taken, then the extension must run in this process; it lasts as long as   *)
(* the call does.                                                            *)
CallBegins(c, i) ==
    /\ booted /\ call[c].pc = "idle" /\ spent.calls < MaxCalls
    /\ gate[i].writer = NoOne
    /\ Readable(i) /\ Up(i)
    /\ gate' = [gate EXCEPT ![i].readers = @ \cup {c}]
    /\ call' = [call EXCEPT ![c] = [pc |-> "runs", id |-> i, ver |-> record[i].active]]
    /\ spent' = [spent EXCEPT !.calls = @ + 1]
    /\ UNCHANGED <<durable, process, lock, op, todo, booted, lost, owed>>

CallEnds(c) ==
    /\ call[c].pc = "runs"
    /\ gate' = [gate EXCEPT ![call[c].id].readers = @ \ {c}]
    /\ call' = [call EXCEPT ![c] = NoCall]
    /\ UNCHANGED <<durable, process, lock, op, todo, booted, lost, owed, spent>>

(* The process dies and starts again: only the files are left.               *)
Crash ==
    /\ spent.crashes < MaxCrashes
    /\ CrashAnywhere \/ \A m \in Managers : ~At(m, "forget")
    /\ spent' = [spent EXCEPT !.crashes = @ + 1]
    /\ inst' = [i \in Ids |-> 0] /\ runner' = {} /\ live' = {}
    /\ gate' = [i \in Ids |-> FreeGate] /\ lock' = NoOne
    /\ op' = [m \in Procs |-> Idle] /\ call' = [c \in Callers |-> NoCall]
    /\ todo' = {} /\ booted' = FALSE /\ lost' = {} /\ owed' = {}
    /\ UNCHANGED durable

-----------------------------------------------------------------------------
(* The first version of every extension is installed, in any durable state   *)
(* a process may have left behind.                                           *)
Init ==
    /\ disk = [i \in Ids |-> {1}]
    /\ record \in [Ids -> {[state |-> s, active |-> 1, err |-> "none"] :
                             s \in {"enabled", "disabled", "running"}}]
    /\ inst = [i \in Ids |-> 0] /\ runner = {} /\ live = {}
    /\ gate = [i \in Ids |-> FreeGate] /\ lock = NoOne
    /\ op = [m \in Procs |-> Idle] /\ call = [c \in Callers |-> NoCall]
    /\ todo = {} /\ booted = FALSE /\ lost = {} /\ owed = {}
    /\ spent = [ops |-> 0, calls |-> 0, faults |-> 0, crashes |-> 0]

Waits(m) == TakeGate(m) \/ TakeLock(m)

Works(m) ==
    \/ Install(m) \/ InstallRecords(m) \/ Enable(m)
    \/ StartRefused(m) \/ Start(m) \/ Register(m) \/ Publish(m)
    \/ RollBackVersion(m) \/ Degrade(m)
    \/ Disable(m) \/ Unregister(m)
    \/ Update(m) \/ UpdateArchive(m) \/ UpdateSelects(m)
    \/ Uninstall(m) \/ RemoveFiles(m) \/ Forget(m)

Boots == BootBegins \/ BootNext \/ BootClears \/ BootDegrades

Next ==
    \/ \E m \in Managers, k \in Kinds, a \in Archives : Ask(m, k, a[1], a[2])
    \/ \E m \in Procs : Waits(m) \/ Works(m)
    \/ Boots
    \/ \E c \in Callers : CallEnds(c) \/ \E i \in Ids : CallBegins(c, i)
    \/ Crash

(* What a task that is awake can do, one of them does; the requests are      *)
(* bounded, so nobody overtakes a waiter for ever.                           *)
Progress ==
    \/ \E m \in Procs : Waits(m) \/ Works(m)
    \/ Boots
    \/ \E c \in Callers : CallEnds(c)

Spec == Init /\ [][Next]_vars /\ WF_vars(Progress)

-----------------------------------------------------------------------------
(* A record of state.json, "none" where an extension has none, and the       *)
(* operations of service.rs: their sections, and where each of them is.      *)
States == {"none", "installed", "enabled", "disabled", "failed", "running"}
Errors == {"none", "state", "dependency", "runtime", "runner", "refresh", "io",
           "rolled back", "unregister"}
Sections == {"install", "record", "enable", "start", "register", "publish", "rollback",
             "degrade", "disable", "stopped", "update", "quiet", "archive", "select",
             "uninstall", "remove", "files", "forget", "clear", "degraded"}
Records == [state : States, active : Versions \cup {0}, err : Errors]
Operations ==
    [pc : Sections \cup {"idle", "next", "gate", "lock"},
     kind : Requests \cup {"reconcile", "none"}, id : Ids \cup {NoOne},
     ver : Versions \cup {0}, job : Sections \cup {"none"}, was : BOOLEAN,
     old : Versions \cup {0}, first : BOOLEAN, err : Errors]

(* The type of every variable.                                               *)
TypeOK ==
    /\ disk \in [Ids -> SUBSET Versions] /\ record \in [Ids -> Records]
    /\ inst \in [Ids -> Versions \cup {0}]
    /\ runner \subseteq Ids /\ live \subseteq Ids
    /\ gate \in [Ids -> [writer : Procs \cup {NoOne}, readers : SUBSET Callers]]
    /\ lock \in Procs \cup {NoOne}
    /\ op \in [Procs -> Operations]
    /\ call \in [Callers -> [pc : {"idle", "runs"}, id : Ids \cup {NoOne},
                             ver : Versions \cup {0}]]
    /\ todo \subseteq Ids /\ booted \in BOOLEAN
    /\ lost \subseteq Ids /\ owed \subseteq Ids
    /\ spent \in [ops : Nat, calls : Nat, faults : Nat, crashes : Nat]

(* A call that was admitted runs against one version to its end: no          *)
(* management operation stops, replaces or removes what it is using          *)
(* (the read lease of call_gate, service.rs:1049).                           *)
CallsAreSheltered ==
    \A c \in Callers : call[c].pc = "runs" =>
        LET i == call[c].id IN
        /\ Up(i) /\ record[i].active = call[c].ver /\ call[c].ver \in disk[i]
        /\ i \in Resident => inst[i] = call[c].ver

(* Once the startup is over and no operation holds the extension, its record *)
(* says running exactly when this process runs its active version and has    *)
(* its runners registered (the order of the start transaction and of every   *)
(* roll back).                                                               *)
RunningIsLive ==
    \A i \in Ids : booted /\ gate[i].writer = NoOne =>
        /\ (record[i].state = "running") <=> (i \in live)
        /\ record[i].state = "running" =>
             i \in runner /\ (i \in Resident => inst[i] = record[i].active)
        /\ record[i].state # "running" => inst[i] = 0

(* Once the startup is over no record says running of an extension that this *)
(* process does not run: the reconciliation restores or degrades every one   *)
(* (reconcile_startup).                                                      *)
RestoredOrDegraded == booted => \A i \in Stale : gate[i].writer # NoOne

(* Whatever runs finds the versions it requires: its provider is running in  *)
(* an accepted version, or is being changed by an operation, or an operation *)
(* that changed it failed (ensure_provider_transition,                       *)
(* check_required_dependencies).                                             *)
ProvidersFit ==
    \A d \in Ids : Up(d) =>
        \A p \in Requires(d, record[d].active) :
            /\ p # d => Accepts(d, p, record[p].active)
            /\ Up(p) \/ gate[p].writer # NoOne \/ p \in lost

(* The extensions that run can be stopped one after the other: in any set of *)
(* them there is one that no other of the set requires, so that the refusal  *)
(* to stop a provider never holds for all (check_dependency_cycles).         *)
StoppableInOrder ==
    \A S \in SUBSET {i \in Ids : Up(i)} :
        S # {} => \E i \in S : \A j \in S : i \notin Requires(j, record[j].active)

(* What ran before a restart, with everything it requires, runs again when   *)
(* the startup is over, unless something failed (startup_restore_order).     *)
RunsAgain == booted => \A i \in owed : Up(i)

(* A disabled extension stays disabled until someone enables or removes it,  *)
(* whatever was in flight when it was disabled: the start that follows an    *)
(* enable refuses, a failure that is degraded later does not bring it back.  *)
DisabledStays ==
    [][\A i \in Ids : record[i].state = "disabled" /\ record'[i].state # "disabled" =>
         \/ record'[i].state = "none"
         \/ \E m \in Managers : op[m].id = i /\ At(m, "enable")]_vars

(* The startup and every operation come to an end: again and again no        *)
(* operation is under way, nobody keeps a gate or the operation lock.        *)
OperationsEnd == []<>(booted /\ \A m \in Procs : At(m, "idle"))

(* The requirements of what runs are met, now and when it is stopped.       *)
NeedsAreMet == ProvidersFit /\ StoppableInOrder

(* What a record says is what runs, in this process and after a restart.    *)
RecordIsTrue == RunningIsLive /\ RunsAgain
=============================================================================
