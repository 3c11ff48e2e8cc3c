--------------------------- MODULE UpdateAdmission ---------------------------
(***************************************************************************)
(* The server's side of an update: who may start an install, and what new  *)
(* business work is let in meanwhile.                                      *)
(*                                                                         *)
(*   update/barrier.rs      the barrier: one flag under a mutex and the    *)
(*                          count of the work that reserved its place      *)
(*   update/service.rs      UpdateService: the transaction flag, the       *)
(*                          reserved apply, refresh and the requests       *)
(*   update/coordinator.rs  the periodic tick                              *)
(*   ipc/dispatch.rs        the dispatcher in the same process: one slot,  *)
(*                          admission by the journal, one thread per       *)
(*                          accepted operation                             *)
(*                                                                         *)
(* Every await of a request is a step boundary: a status is read           *)
(* (Fetches), used later (Refreshed), the workload is read later still.    *)
(* The journal is its displayed state and whether it carries an error.     *)
(*                                                                         *)
(* Left out: the slot of the desktop shell (begin_desktop has no caller)   *)
(* and repair_dependency, which the server never sends.                    *)
(*                                                                         *)
(* No name is one of Upgrade, the other side of the update, so that one    *)
(* module can hold the proofs about both.                                  *)
(***************************************************************************)
EXTENDS Naturals, FiniteSets

CONSTANTS
  Clients,      \* the callers of the HTTP API
  Coordinator,  \* the background tick
  Requests,     \* the requests the callers make, of ClientOps
  Jobs,         \* runs, recordings and media outputs that may start
  Runs,         \* those of Jobs that RunManager::active_count sees
  Automatic,    \* whether the policy installs by itself
  DiesIn,       \* journal states in which the update worker may die
  Faults,       \* faults of the dispatcher that nobody is told of: "thread", an
                \* accepted operation is not started; "disk", a read or a write
                \* of the journal or of a cached manifest fails
  MaxRequests   \* bound: requests made by the callers

Procs == Clients \cup {Coordinator}
ClientOps == {"get", "install", "apply", "cancel", "check", "rollback"}

ASSUME AdmissionAssumption ==
  /\ Coordinator \notin Clients /\ Requests \subseteq ClientOps
  /\ Runs \subseteq Jobs /\ Automatic \in BOOLEAN
  /\ DiesIn \subseteq {"staged", "verifying", "waiting"}
  /\ Faults \subseteq {"thread", "disk"} /\ MaxRequests \in Nat

VARIABLES
  paused,   \* barrier::PAUSED
  work,     \* the jobs under way; barrier::ACTIVE counts those outside Runs
  txn,      \* UpdateTxn::active
  apply,    \* UpdateService::apply_requested
  display,  \* the update journal as display_state shows it
  slot,     \* Dispatcher::active and how far its thread is
  process,  \* the process: up, draining (ShutdownCoordinator), down
  pc,       \* per process: its request and its place in it
  bg,       \* per process: the InstallBackground its last install spawned
  asked,    \* how many requests the callers made
  clean,    \* history: since the freeze no other attempt left an error to read
  lost      \* history: a failure was not written, was erased by a check, or its
            \* error stands in WaitingIdle, where refresh does not look for it

service == <<paused, txn, apply>>
updater == <<display, slot, process>>
admission == <<paused, work, txn, apply, display, slot, process, pc, bg, asked, clean, lost>>

States == {"idle", "failed", "checking", "available", "downloading",
           "verifying", "staged", "waiting", "rolling_back", "stopped"}
Status == [state : States \cup {"installing"}, error : BOOLEAN]
NoStatus == [state |-> "idle", error |-> FALSE]

(* LongOps go through request_long_op to the dispatcher.                   *)
LongOps == {"check", "download", "rollback"}
Places == {"entered", "seen", "load", "admitted", "begin", "freeze", "audit"}
Idle == [op |-> "none", at |-> "none", seen |-> NoStatus, reserved |-> FALSE]

AdmissionTypeOK ==
  /\ paused \in BOOLEAN /\ txn \in BOOLEAN /\ apply \in BOOLEAN
  /\ clean \in BOOLEAN /\ lost \in BOOLEAN
  /\ work \subseteq Jobs
  /\ display \in [state : States, error : BOOLEAN]
  /\ slot \in [op : LongOps \cup {"install", "none"}, begun : BOOLEAN]
  /\ process \in {"up", "draining", "down"}
  /\ pc \in [Procs -> {Idle} \cup
       [op : ClientOps \cup {"download", "tick"}, at : Places, seen : Status, reserved : BOOLEAN]]
  /\ bg \in [Procs -> {"none", "prepare", "refused"}]
  /\ asked \in 0..MaxRequests

AdmissionInit ==
  /\ paused = FALSE /\ work = {} /\ txn = FALSE
  /\ apply \in BOOLEAN               \* the file state/apply-requested
  /\ display \in [state : {"idle", "staged"}, error : {FALSE}] \cup
                 [state : {"failed"}, error : {TRUE}]
  /\ slot = [op |-> "none", begun |-> FALSE]
  /\ process = "up"
  /\ pc = [p \in Procs |-> Idle] /\ bg = [p \in Procs |-> "none"]
  /\ asked = 0 /\ clean = FALSE /\ lost = FALSE

Up == process = "up"
MoveTo(p, at) ==                       \* only the tick decides on what it saw
  pc' = [pc EXCEPT ![p].at = at, ![p].seen = IF pc[p].op = "tick" THEN @ ELSE NoStatus]
Return(p) == pc' = [pc EXCEPT ![p] = Idle]
Enter(p, op) == pc' = [pc EXCEPT ![p] = [Idle EXCEPT !.op = op, !.at = "entered"]]

------------------------------------------------------------------------------
(* The barrier.                                                            *)

(* reservation, activity: the guard is held while the job is registered,   *)
(* so the look and the registration are one step for freeze_if_idle.       *)
Admit(j) ==
  /\ Up /\ ~paused /\ j \notin work
  /\ work' = work \cup {j}
  /\ UNCHANGED <<service, updater, pc, bg, asked, clean, lost>>

JobEnds(j) ==
  /\ j \in work /\ work' = work \ {j}
  /\ UNCHANGED <<service, updater, pc, bg, asked, clean, lost>>

------------------------------------------------------------------------------
(* Requests.                                                               *)

(* barrier::middleware, then the handler: a write that was let in may meet *)
(* the barrier closed a moment later.                                      *)
Call(p) ==
  /\ Up /\ p \in Clients /\ pc[p] = Idle /\ bg[p] = "none" /\ asked < MaxRequests
  /\ \E op \in Requests : (op # "get" => ~paused) /\ Enter(p, op)
  /\ asked' = asked + 1
  /\ UNCHANGED <<service, work, updater, bg, clean, lost>>

Tick(p) ==
  /\ Up /\ p = Coordinator /\ pc[p] = Idle /\ bg[p] = "none"
  /\ Enter(p, "tick")
  /\ UNCHANGED <<service, work, updater, bg, asked, clean, lost>>

(* cancel_apply: refused once an install has begun.                        *)
Cancel(p) ==
  /\ Up /\ pc[p].op = "cancel" /\ Return(p)
  /\ apply' = (apply /\ (txn \/ paused))
  /\ UNCHANGED <<paused, txn, work, updater, bg, asked, clean, lost>>

(* status_result: what the dispatcher answers to the status query.         *)
Shown ==
  [state |-> IF slot.op = "install" /\ display.state \in {"staged", "waiting"} THEN "installing"
             ELSE IF display.state = "verifying" THEN "downloading" ELSE display.state,
   error |-> display.error]

(* A journal that cannot be read is shown as the default one.              *)
Statuses == {Shown} \cup {status \in {NoStatus} : "disk" \in Faults}

(* request_check refuses while an apply is reserved; request_rollback      *)
(* takes the transaction before anything else.                             *)
Fetches(p) ==
  /\ Up /\ pc[p].at = "entered" /\ pc[p].op # "cancel"
  /\ \/ /\ \/ pc[p].op = "check" /\ apply
           \/ pc[p].op = "rollback" /\ txn
        /\ Return(p) /\ UNCHANGED txn
     \/ /\ ~(pc[p].op = "check" /\ apply) /\ ~(pc[p].op = "rollback" /\ txn)
        /\ txn' = (txn \/ pc[p].op = "rollback")
        /\ \E status \in Statuses : pc' = [pc EXCEPT ![p].at = "seen", ![p].seen = status]
  /\ UNCHANGED <<paused, apply, work, updater, bg, asked, clean, lost>>

(* refresh: a reported error in one of these states means that the attempt *)
(* is over.                                                                *)
Over_NoError(status) == status.state \in {"failed", "staged", "idle"}
Over_NotFailed(status) == status.error /\ status.state \in {"staged", "idle"}
Over(status) == status.error /\ status.state \in {"failed", "staged", "idle"}

(* model::admit for the long operations, Install apart.                    *)
Accepts(op, state) ==
  CASE op = "check" -> state \notin {"installing", "rolling_back"}
    [] op = "download" -> state \in {"available", "downloading", "staged", "waiting", "failed"}
    [] op = "rollback" -> state \in {"staged", "waiting", "failed"}

Applicable == {"available", "staged", "downloading", "waiting"}

(* The tick with an apply reserved: Some(op) of the request it makes.      *)
Reserved(state) ==
  IF state = "available" THEN {"download"}
  ELSE IF state \in {"staged", "waiting"} THEN {"install"} ELSE {}

(* What follows a refresh in the same request, with no await in between.   *)
Proceeds(p, s) ==
  CASE pc[p].op = "get" -> Return(p) /\ UNCHANGED apply
    [] pc[p].op = "apply" -> Return(p) /\ apply' = (apply \/ s.state \in Applicable)
    [] pc[p].op = "install" ->
         /\ IF s.state \in {"staged", "waiting"} THEN MoveTo(p, "load") ELSE Return(p)
         /\ UNCHANGED apply
    [] pc[p].op \in LongOps ->
         /\ IF Accepts(pc[p].op, s.state) THEN MoveTo(p, "admitted") ELSE Return(p)
         /\ UNCHANGED apply
    [] pc[p].op = "tick" /\ apply ->
         /\ apply' = (s.state \notin {"failed", "idle"})
         /\ IF Reserved(s.state) = {} THEN Return(p)
            ELSE \E op \in Reserved(s.state) :
                   pc' = [pc EXCEPT ![p] = [Idle EXCEPT !.op = op, !.at = "entered", !.reserved = TRUE]]
    [] pc[p].op = "tick" /\ ~apply -> MoveTo(p, "load") /\ UNCHANGED apply

Refreshed(p) ==
  /\ Up /\ pc[p].at = "seen"
  /\ paused' = (paused /\ ~Over(pc[p].seen))
  /\ txn' = (/\ txn /\ ~Over(pc[p].seen)
             /\ ~(pc[p].op = "rollback" /\ ~Accepts("rollback", pc[p].seen.state)))
  /\ Proceeds(p, pc[p].seen)
  /\ UNCHANGED <<work, updater, bg, asked, clean, lost>>

(* decide: what the policy does with the state and the workload. The       *)
(* maintenance window, the viewers and the next timer are any.             *)
Decision(state, ready) ==
  IF state \in {"idle", "failed"} THEN {"check"}
  ELSE IF state = "available" THEN {"download"}
  ELSE IF state \in {"staged", "waiting"} /\ Automatic /\ ready THEN {"install"} ELSE {}

(* workload_snapshot: of the tick, and of request_install after it.        *)
Loads(p) ==
  /\ Up /\ pc[p].at = "load"
  /\ \E timely \in BOOLEAN :
       LET ready == timely /\ work \cap Runs = {} /\ ~txn
           next  == Decision(pc[p].seen.state, ready) IN
       IF pc[p].op = "install"
       THEN IF ready THEN MoveTo(p, "begin") ELSE Return(p)
       ELSE \/ next = {} /\ Return(p)
            \/ "check" \in next /\ ~timely /\ Return(p)   \* the interval between checks
            \/ \E op \in next : Enter(p, op)
  /\ UNCHANGED <<service, work, updater, bg, asked, clean, lost>>

Installing ==
  \/ slot.op = "install"
  \/ \E p \in Procs : pc[p].at = "audit" \/ bg[p] # "none"

(* UpdateTxn::try_begin.                                                   *)
Begins(p) ==
  /\ Up /\ pc[p].at = "begin"
  /\ IF txn THEN Return(p) ELSE MoveTo(p, "freeze")
  /\ txn' = TRUE
  /\ UNCHANGED <<paused, apply, work, updater, bg, asked, clean, lost>>

(* The install guard, freeze_if_idle with the runs and recordings of main. *)
Freezes_AnyWork(p) ==
  /\ Up /\ pc[p].at = "freeze"
  /\ IF paused
     THEN Return(p) /\ txn' = FALSE /\ UNCHANGED <<paused, clean>>
     ELSE /\ paused' = TRUE /\ MoveTo(p, "audit") /\ UNCHANGED txn
          /\ clean' = (/\ ~display.error /\ ~Installing
                       /\ \A q \in Procs : pc[q].at = "seen" => ~pc[q].seen.error)
  /\ UNCHANGED <<apply, work, updater, bg, asked, lost>>

Freezes(p) ==
  /\ Up /\ pc[p].at = "freeze"
  /\ IF paused \/ work # {}
     THEN Return(p) /\ txn' = FALSE /\ UNCHANGED <<paused, clean>>
     ELSE /\ paused' = TRUE /\ MoveTo(p, "audit") /\ UNCHANGED txn
          /\ clean' = (/\ ~display.error /\ ~Installing
                       /\ \A q \in Procs : pc[q].at = "seen" => ~pc[q].seen.error)
  /\ UNCHANGED <<apply, work, updater, bg, asked, lost>>

(* The audit line is written; the preparation is spawned and the request   *)
(* answered. The tick that ran a reserved apply clears it.                 *)
Spawns(p) ==
  /\ Up /\ pc[p].at = "audit"
  /\ bg' = [bg EXCEPT ![p] = "prepare"]
  /\ apply' = (apply /\ ~pc[p].reserved)
  /\ Return(p)
  /\ UNCHANGED <<paused, txn, work, updater, asked, clean, lost>>

------------------------------------------------------------------------------
(* The dispatcher.                                                         *)

(* Dispatcher::admit by the displayed state of the journal.                *)
Admissible(op) ==
  LET s == IF display.state = "verifying" THEN "downloading" ELSE display.state IN
  CASE op = "check" -> s \in {"idle", "failed", "available", "staged", "waiting"}
    [] op = "download" -> s = "available"
    [] op = "install" -> s = "staged"
    [] op = "rollback" -> s \in {"staged", "waiting"}

Reuses(op) == slot.op = op
Takes(op) ==
  /\ slot.op = "none" /\ Admissible(op)
  /\ slot' = [op |-> op, begun |-> FALSE]
Refuses(op) ==                          \* busy, not in this state, journal unread
  /\ slot.op # "none" \/ ~Admissible(op) \/ "disk" \in Faults
  /\ ~Reuses(op) /\ UNCHANGED slot

(* request_long_op, the dispatcher's part; the answer only moves the       *)
(* cache. A rollback gives its transaction back in each case.              *)
Submits(p) ==
  /\ Up /\ pc[p].at = "admitted"
  /\ \/ Takes(pc[p].op) \/ Refuses(pc[p].op)
     \/ Reuses(pc[p].op) /\ UNCHANGED slot
  /\ txn' = (txn /\ pc[p].op # "rollback")
  /\ Return(p)
  /\ UNCHANGED <<paused, apply, work, display, process, bg, asked, clean, lost>>

(* InstallBackground::run: accepted, the launcher takes over.              *)
Prepares(p) ==
  /\ Up /\ bg[p] = "prepare"
  /\ \/ /\ Takes("install") \/ (Reuses("install") /\ UNCHANGED slot)
        /\ bg' = [bg EXCEPT ![p] = "none"]
     \/ Refuses("install") /\ bg' = [bg EXCEPT ![p] = "refused"]
  /\ UNCHANGED <<service, work, display, process, pc, asked, clean, lost>>

(* ... or refused: the barrier is opened and the transaction ended.        *)
Refused(p) ==
  /\ Up /\ bg[p] = "refused" /\ bg' = [bg EXCEPT ![p] = "none"]
  /\ paused' = FALSE /\ txn' = FALSE
  /\ UNCHANGED <<apply, work, updater, pc, asked, clean, lost>>

------------------------------------------------------------------------------
(* The thread of the accepted operation.                                   *)

Journal(state, error) == display' = [state |-> state, error |-> error]
Frees == slot' = [op |-> "none", begun |-> FALSE]
Goes == slot' = [slot EXCEPT !.begun = TRUE]
Runs_(op) == slot.op = op /\ process # "down"
Elsewhere == UNCHANGED <<service, work, pc, bg, asked, clean>>

(* phase_check: the intent clears the error of the attempt before.         *)
ChecksBegin == Runs_("check") /\ ~slot.begun /\ Goes /\ Journal("checking", FALSE)
ChecksEnd ==
  /\ Runs_("check") /\ slot.begun /\ Frees
  /\ Journal("available", FALSE) \/ Journal("failed", TRUE) \/ Journal("idle", FALSE)

DownloadBegins == Runs_("download") /\ ~slot.begun /\ Goes /\ Journal("downloading", display.error)
DownloadEnds ==
  /\ Runs_("download") /\ slot.begun /\ Frees
  /\ \/ Journal("staged", display.error) \/ Journal("failed", TRUE)
     \/ UNCHANGED display             \* an error before the components are fetched

(* phase_rollback cancels a candidate that is not being installed.         *)
RollsBack ==
  \/ Runs_("rollback") /\ ~slot.begun /\ Goes /\ Journal("rolling_back", display.error)
  \/ Runs_("rollback") /\ slot.begun /\ Frees /\ Journal("idle", FALSE)

LongOperation ==
  /\ ChecksBegin \/ ChecksEnd \/ DownloadBegins \/ DownloadEnds \/ RollsBack
  /\ clean' = (clean /\ ~display'.error)
  /\ lost' = (lost \/ ((paused \/ txn) /\ display.error /\ display'.state = "checking"))
  /\ UNCHANGED <<service, work, process, pc, bg, asked>>

(* install_staged in the worker process: the candidate is verified again,  *)
(* the journal says WaitingIdle, then the server is asked to drain.        *)
Verifies ==
  /\ Runs_("install") /\ display.state = "staged" /\ ~slot.begun
  /\ Journal("verifying", display.error) /\ Goes /\ UNCHANGED process /\ Elsewhere /\ UNCHANGED lost
Verified ==
  /\ Runs_("install") /\ display.state = "verifying"
  /\ \/ Journal("waiting", display.error) /\ UNCHANGED slot
     \/ Journal("failed", TRUE) /\ Frees       \* FailedOldHealthy: a clean exit
  /\ UNCHANGED process /\ Elsewhere /\ UNCHANGED lost
Drains ==
  /\ Runs_("install") /\ display.state = "waiting" /\ process = "up"
  /\ process' = "draining" /\ UNCHANGED <<display, slot>> /\ Elsewhere /\ UNCHANGED lost

(* drain_old_server: the process is gone in time, or the install is given  *)
(* up. The worker then exits with an error, which the dispatcher records.  *)
Drained ==
  /\ Runs_("install") /\ process = "draining"
  /\ \/ process' = "down" /\ Journal("stopped", FALSE) /\ UNCHANGED slot
     \/ Journal("failed", TRUE) /\ Frees /\ UNCHANGED process
  /\ Elsewhere /\ UNCHANGED lost

(* run_long_op after a worker that failed or could not be spawned: only a  *)
(* staged or verifying journal becomes idle.                               *)
WorkerDies ==
  /\ Runs_("install") /\ process = "up" /\ display.state \in DiesIn
  /\ Frees /\ UNCHANGED process /\ Elsewhere
  /\ Journal(IF display.state \in {"staged", "verifying"} THEN "failed" ELSE display.state, TRUE)
  /\ lost' = (lost \/ display.state = "waiting")

(* submit, the thread of an accepted operation cannot be spawned: the slot *)
(* is given back, the acceptance stands.                                   *)
ThreadFails ==
  /\ "thread" \in Faults /\ Up /\ slot.op # "none" /\ ~slot.begun
  /\ Frees /\ UNCHANGED <<display, process>> /\ Elsewhere /\ lost' = TRUE

(* run_long_op gives the slot back however the operation ended, also when  *)
(* its last write failed, and that of the error too (let _, if let Ok).    *)
Unrecorded ==
  /\ "disk" \in Faults /\ slot.op # "none" /\ process # "down"
  /\ Frees /\ UNCHANGED process /\ Elsewhere /\ lost' = TRUE
  /\ \/ UNCHANGED display
     \/ /\ slot.op = "install" /\ display.state = "verifying"
        /\ \E error \in {display.error, TRUE} : Journal("staged", error)
     \/ /\ slot.op = "install" /\ process = "draining"
        /\ \E state \in {"staged", "waiting"} : Journal(state, TRUE)

------------------------------------------------------------------------------
Request(p) ==
  \/ Cancel(p) \/ Fetches(p) \/ Refreshed(p) \/ Loads(p) \/ Begins(p) \/ Freezes(p)
  \/ Spawns(p) \/ Submits(p) \/ Prepares(p) \/ Refused(p)
Updater == LongOperation \/ Verifies \/ Verified \/ Drains \/ Drained
Business == \E j \in Jobs : Admit(j) \/ JobEnds(j)

AdmissionNext ==
  \/ \E p \in Procs : Call(p) \/ Tick(p) \/ Request(p)
  \/ Updater \/ WorkerDies \/ ThreadFails \/ Unrecorded \/ Business

(* The tick is periodic and every accepted operation has its thread; the   *)
(* callers, the jobs and the faults owe nothing, but the journal can be    *)
(* read in the end.                                                        *)
AdmissionFairness ==
  /\ \A p \in Procs : WF_admission(Request(p))
  /\ WF_admission(Tick(Coordinator))
  /\ WF_admission(Updater)
  /\ SF_admission(Fetches(Coordinator) /\ pc'[Coordinator].seen = Shown)

AdmissionSpec == AdmissionInit /\ [][AdmissionNext]_admission /\ AdmissionFairness

------------------------------------------------------------------------------
(* Properties.                                                             *)

(* From the freeze to the drain the barrier stays closed, whoever refreshes*)
(* his view of the journal meanwhile: coordinator.rs:8, an update only     *)
(* waits for business and never interrupts it. An error of an earlier      *)
(* attempt that was still unread at the freeze is the one exception.       *)
InstallIsFrozen == Installing /\ clean => paused

(* So no run, recording or output is under way when the server is told to  *)
(* drain, although the look at the workload and the drain lie far apart.   *)
NoWorkInterrupted == process = "draining" /\ clean => work = {}

(* dispatch.rs:250: an accepted operation that failed must be exposed      *)
(* through the journal. An install that gives its slot back while the      *)
(* server lives has left an error there, which is what refresh looks for.  *)
FailureIsShown ==
  [][slot.op = "install" /\ slot'.op = "none" /\ process' = "up" => display'.error]_admission

(* Nothing of an install stays behind (service.rs:231, 482): again and     *)
(* again the barrier is open and no transaction runs, whoever asked for an  *)
(* update and whatever failed, as long as no error was lost to refresh.     *)
AlwaysReopens == []<>(~Up \/ (~paused /\ ~txn))
BarrierReopens == []<>(~Up \/ (~paused /\ ~txn) \/ lost)

(* service.rs:99: an apply may be cancelled until its installation has     *)
(* begun; a reserved install never freezes business once it was cancelled. *)
CancelIsFinal ==
  [][\A p \in Procs : pc[p].reserved /\ pc[p].at = "freeze" /\ pc'[p].at = "audit" => apply]_admission

(* The barrier that request_install closes protects the business up to the  *)
(* drain (freeze_if_idle, refresh), whatever fails meanwhile.               *)
FrozenToTheDrain == InstallIsFrozen /\ NoWorkInterrupted
=============================================================================
