------------------------------- MODULE Startup -------------------------------
(***************************************************************************)
(* updater/src/portable.rs: how the processes of a portable installation   *)
(* keep out of each other's way.  There are two lock files, "update" and   *)
(* "server", and the journal.  A Gamer.exe that the user starts looks at   *)
(* the update lock, lets it go, takes the server lock and reads the        *)
(* journal under it; a worker holds the update lock and starts servers as  *)
(* children, which look at neither.  Each look, each lock and each start   *)
(* of a process is a step, so that any number of starts, recoveries and an *)
(* installation overlap at every point.                                    *)
(*                                                                         *)
(* Upgrade has the steps of one worker in full and a start in one step;    *)
(* here the worker is the outline of it, and the start is taken apart.     *)
(***************************************************************************)
EXTENDS Naturals

CONSTANTS
  Starts,      \* processes that the user starts
  Workers,     \* processes of spawn_worker
  Children,    \* processes that a worker starts to serve
  None,
  EarlyQuits,  \* a server may stop by itself after it has spawned a worker
  MaxQuits,    \* bound on servers that stop by themselves
  MaxDeaths    \* bound on workers that die

Procs == Starts \cup Workers \cup Children

ASSUME StartupAssumption ==
  /\ None \notin Procs /\ EarlyQuits \in BOOLEAN
  /\ MaxQuits \in Nat /\ MaxDeaths \in Nat

VARIABLES
  at,       \* where each process is; "unborn" before it is started
  update,   \* who holds the lock of state/update, or None
  lock,     \* who holds the lock of state/server, or None
  journal,  \* the journal, by what a start or a recovery does about it
  named,    \* the child in the journal
  child,    \* per worker: the process it has started
  ran,      \* per worker: was_running
  by,       \* per worker: the server that waits for it, in run_long_op
  quits, deaths

bounds == <<quits, deaths>>
vars == <<at, update, lock, journal, named, child, ran, by, bounds>>

Init ==
  /\ at = [p \in Procs |-> "unborn"]
  /\ update = None /\ lock = None
  /\ journal = "settled"              \* Idle or Staged
  /\ named = None
  /\ child = [w \in Workers |-> None] /\ ran = [w \in Workers |-> FALSE]
  /\ by = [w \in Workers |-> None]
  /\ quits = 0 /\ deaths = 0

Goes(p, place) == at' = [at EXCEPT ![p] = place]
Frees(held, p) == IF held = p THEN None ELSE held
Local == UNCHANGED <<child, ran, by>>
Record == UNCHANGED <<journal, named>>

(* spawn_worker: the starter goes on at a place of its own.                *)
SpawnsRecovery(p, place) ==
  \E w \in Workers :
    /\ at[w] = "unborn"
    /\ at' = [at EXCEPT ![p] = place, ![w] = "recover"]

(* A child with GAMER_PORTABLE_CHILD.                                      *)
SpawnsChild(w, place) ==
  \E c \in Children :
    /\ at[c] = "unborn"
    /\ at' = [at EXCEPT ![w] = place, ![c] = "lock"]
    /\ child' = [child EXCEPT ![w] = c]

-----------------------------------------------------------------------------
(* prepare                                                                 *)

Start(p) ==
  /\ p \in Starts /\ at[p] = "unborn" /\ Goes(p, "probe")
  /\ UNCHANGED <<update, lock, bounds>> /\ Record /\ Local

Probe(p) ==
  /\ at[p] = "probe"
  /\ IF update = None THEN update' = p /\ Goes(p, "probed")
     ELSE UNCHANGED update /\ Goes(p, "gone")        \* only a browser is opened
  /\ UNCHANGED <<lock, bounds>> /\ Record /\ Local

LetGo(p) ==
  /\ at[p] = "probed" /\ update' = None /\ Goes(p, "lock")
  /\ UNCHANGED <<lock, bounds>> /\ Record /\ Local

TakeLock(p) ==
  /\ at[p] = "lock"
  /\ IF lock = None
     THEN lock' = p /\ Goes(p, IF p \in Starts THEN "look" ELSE "booting")
     ELSE UNCHANGED lock /\ Goes(p, IF p \in Starts THEN "held" ELSE "gone")
  /\ UNCHANGED <<update, bounds>> /\ Record /\ Local

(* The lock is taken: orphan_candidate, or a browser.                      *)
Held(p) ==
  /\ at[p] = "held"
  /\ IF journal = "switched" THEN SpawnsRecovery(p, "gone") ELSE Goes(p, "gone")
  /\ UNCHANGED <<update, lock, bounds>> /\ Record /\ Local

(* Fault: the journal is not looked at.                                    *)
Look_Boots(p) ==
  /\ at[p] = "look" /\ Goes(p, "booting")
  /\ UNCHANGED <<update, lock, bounds>> /\ Record /\ Local

Look(p) ==
  /\ at[p] = "look"
  /\ IF journal = "settled" THEN Goes(p, "booting") ELSE SpawnsRecovery(p, "leaving")
  /\ UNCHANGED <<update, lock, bounds>> /\ Record /\ Local

Leave(p) ==
  /\ at[p] = "leaving" /\ lock' = None /\ Goes(p, "gone")
  /\ UNCHANGED <<update, bounds>> /\ Record /\ Local

(* async_main: the data is opened, and then the port.                      *)
Listen(p) ==
  /\ at[p] = "booting" /\ Goes(p, "serving")
  /\ UNCHANGED <<update, lock, bounds>> /\ Record /\ Local

-----------------------------------------------------------------------------
(* The server                                                              *)

Preparing == {"install", "verify", "verified", "waiting", "drain"}
Waits(p) == \E w \in Workers : by[w] = p /\ at[w] # "gone"

(* phase_check, phase_download and what cancels them.                      *)
Check(p) ==
  /\ at[p] = "serving" /\ ~Waits(p)
  /\ \/ journal = "settled" /\ journal' = "begun"
     \/ journal = "begun" /\ journal' = "settled"
  /\ UNCHANGED <<at, update, lock, named, bounds>> /\ Local

RequestInstall(p) ==
  /\ at[p] = "serving" /\ ~Waits(p) /\ journal = "settled"
  /\ \E w \in Workers :
       /\ at[w] = "unborn" /\ Goes(w, "install")
       /\ by' = [by EXCEPT ![w] = p]
  /\ UNCHANGED <<update, lock, child, ran, bounds>> /\ Record

Quit(p) ==
  /\ at[p] \in {"booting", "serving"} /\ quits < MaxQuits
  /\ EarlyQuits \/ \A w \in Workers : at[w] \notin Preparing
  /\ quits' = quits + 1 /\ lock' = None /\ Goes(p, "gone")
  /\ UNCHANGED <<update, deaths>> /\ Record /\ Local

(* POST /api/shutdown                                                      *)
Stops(p) ==
  /\ at[p] = "serving" /\ \E w \in Workers : at[w] = "asked"
  /\ lock' = None /\ Goes(p, "gone")
  /\ UNCHANGED <<update, bounds>> /\ Record /\ Local

-----------------------------------------------------------------------------
(* worker                                                                  *)

Ends(w) == update' = Frees(update, w) /\ Goes(w, "gone")

TakeUpdate(w) ==
  /\ at[w] \in {"install", "recover"}
  /\ IF update = None
     THEN update' = w /\ Goes(w, IF at[w] = "install" THEN "verify" ELSE "orphan")
     ELSE UNCHANGED update /\ Goes(w, "gone")
  /\ UNCHANGED <<lock, bounds>> /\ Record /\ Local

(* A process is ended by its handle, or by its pid and image.              *)
Kills(c, w, place) ==
  /\ at' = [at EXCEPT ![w] = place, ![c] = "gone"]
  /\ lock' = Frees(lock, c)

(* The journal up to the drain.                                            *)
Advance ==
  [ verify   |-> <<"begun", "verified">>,
    verified |-> <<"settled", "waiting">>,
    waiting  |-> <<"begun", "drain">> ]

(* To verify a program takes longer than a child takes to be at its lock.  *)
Advances(w) ==
  /\ at[w] \in DOMAIN Advance
  /\ at[w] = "verify" => \A c \in Children : at[c] # "lock"
  /\ journal' = Advance[at[w]][1] /\ Goes(w, Advance[at[w]][2])
  /\ UNCHANGED <<update, lock, named, bounds>> /\ Local

(* drain_old_server: a server is there if its port answers.                *)
Drain(w) ==
  /\ at[w] = "drain"
  /\ ran' = [ran EXCEPT ![w] = \E p \in Procs : at[p] = "serving"]
  /\ Goes(w, IF ran'[w] THEN "asked" ELSE "copying")
  /\ UNCHANGED <<update, lock, child, by, bounds>> /\ Record

Drained(w) ==
  /\ at[w] = "asked" /\ lock = None /\ Goes(w, "copying")
  /\ UNCHANGED <<update, lock, bounds>> /\ Record /\ Local

(* fail_before_snapshot, or what phase_prepare_install refuses.            *)
FailBeforeSnapshot(w) ==
  /\ at[w] \in {"verify", "verified", "waiting", "drain", "copying"}
  /\ journal' = "settled" /\ Ends(w)
  /\ UNCHANGED <<lock, named, bounds>> /\ Local

DrainTimeout(w) ==
  /\ at[w] = "asked" /\ lock # None
  /\ journal' = "settled" /\ Ends(w)
  /\ UNCHANGED <<lock, named, bounds>> /\ Local

(* The snapshot; then the program and the pointer.                         *)
Copied(w) ==
  /\ at[w] = "copying" /\ Goes(w, "switching")
  /\ UNCHANGED <<update, lock, bounds>> /\ Record /\ Local

Switch(w) ==
  /\ at[w] = "switching"
  /\ journal' = "switched" /\ Goes(w, "spawning")
  /\ UNCHANGED <<update, lock, named, bounds>> /\ Local

StartCandidate(w) ==
  /\ at[w] = "spawning" /\ SpawnsChild(w, "naming")
  /\ UNCHANGED <<update, lock, ran, by, bounds>> /\ Record

Name(w) ==
  /\ at[w] = "naming"
  /\ named' = child[w] /\ Goes(w, "probing")
  /\ UNCHANGED <<update, lock, journal, bounds>> /\ Local

Ready(w) ==
  /\ at[w] = "probing" /\ at[child[w]] = "serving" /\ Goes(w, "ready")
  /\ UNCHANGED <<update, lock, bounds>> /\ Record /\ Local

Commit(w) ==
  /\ at[w] = "ready"
  /\ journal' = "committed" /\ Goes(w, "committed")
  /\ UNCHANGED <<update, lock, named, bounds>> /\ Local

Finish(w) ==
  /\ at[w] = "committed"
  /\ journal' = "settled" /\ Ends(w)
  /\ UNCHANGED <<lock, named, bounds>> /\ Local

(* What fails, by the step: fail_after_stop, fail_after_switch and         *)
(* fail_candidate.                                                         *)
Fail(w) ==
  /\ \/ at[w] = "copying" /\ Goes(w, "resuming") /\ UNCHANGED lock
     \/ at[w] \in {"switching", "spawning"} /\ Goes(w, "restoring") /\ UNCHANGED lock
     \/ at[w] \in {"naming", "probing", "ready"} /\ Kills(child[w], w, "restoring")
  /\ UNCHANGED <<update, bounds>> /\ Record /\ Local

(* restart_old_and_verify.                                                 *)
Resume(w) ==
  /\ at[w] = "resuming"
  /\ IF ran[w] THEN SpawnsChild(w, "resumed")
     ELSE Goes(w, "settling") /\ UNCHANGED child
  /\ UNCHANGED <<update, lock, ran, by, bounds>> /\ Record

(* It waits as long as a server may need to be ready.                      *)
Resumed(w) ==
  /\ at[w] = "resumed" /\ at[child[w]] # "lock" /\ Goes(w, "settling")
  /\ UNCHANGED <<update, lock, bounds>> /\ Record /\ Local

(* rollback_procedure: the snapshot is put back, then the old server.      *)
Restore(w) ==
  /\ at[w] = "restoring"
  /\ IF ran[w] THEN SpawnsChild(w, "reopening")
     ELSE Goes(w, "settling") /\ UNCHANGED child
  /\ UNCHANGED <<update, lock, ran, by, bounds>> /\ Record

Reopened(w) ==
  /\ at[w] = "reopening" /\ at[child[w]] = "serving" /\ Goes(w, "settling")
  /\ UNCHANGED <<update, lock, bounds>> /\ Record /\ Local

(* enter_manual_recovery, finish_manual.                                   *)
Surrender(w) ==
  /\ at[w] \in {"restoring", "reopening"}
  /\ journal' = "manual" /\ Ends(w)
  /\ UNCHANGED <<lock, named, bounds>> /\ Local

Settle(w) ==
  /\ at[w] = "settling"
  /\ journal' = "settled" /\ named' = None
  /\ IF by[w] # None THEN Ends(w) ELSE Goes(w, "launching") /\ UNCHANGED update
  /\ UNCHANGED <<lock, bounds>> /\ Local

(* The recovery: the orphan is looked for under the update lock.           *)
StopOrphan(w) ==
  /\ at[w] = "orphan"
  /\ IF journal = "switched" /\ named # None THEN Kills(named, w, "awaiting")
     ELSE Goes(w, "awaiting") /\ UNCHANGED lock
  /\ UNCHANGED <<update, bounds>> /\ Record /\ Local

(* The server lock is awaited, and let go again.                           *)
Await(w) ==
  /\ at[w] = "awaiting" /\ lock = None /\ Goes(w, "recovering")
  /\ UNCHANGED <<update, lock, bounds>> /\ Record /\ Local

GiveUp(w) ==
  /\ at[w] = "awaiting" /\ lock # None /\ Ends(w)
  /\ UNCHANGED <<lock, bounds>> /\ Record /\ Local

(* recover_on_startup, which reads the journal once more.                  *)
RecoverOnStartup(w) ==
  /\ at[w] = "recovering"
  /\ CASE journal = "manual" -> Ends(w) /\ UNCHANGED <<lock, journal>>
       [] journal = "switched" ->
            /\ IF named # None THEN Kills(named, w, "restoring")
               ELSE Goes(w, "restoring") /\ UNCHANGED lock
            /\ UNCHANGED <<update, journal>>
       [] OTHER -> journal' = "settled" /\ Goes(w, "launching") /\ UNCHANGED <<update, lock>>
  /\ UNCHANGED <<named, bounds>> /\ Local

(* sync_entrypoint; the root Gamer.exe is started and the worker ends.     *)
LaunchChild(w) ==
  /\ at[w] = "launching" /\ SpawnsChild(w, "gone")
  /\ update' = None
  /\ UNCHANGED <<lock, ran, by, bounds>> /\ Record

(* A worker dies, but not while the process it has started is on the way   *)
(* to its lock.                                                            *)
Die(w) ==
  /\ at[w] \notin {"unborn", "gone"}
  /\ child[w] # None => at[child[w]] # "lock"
  /\ deaths < MaxDeaths /\ deaths' = deaths + 1
  /\ Ends(w)
  /\ UNCHANGED <<lock, quits>> /\ Record /\ Local

-----------------------------------------------------------------------------
Program(p) ==
  \/ Start(p) \/ Probe(p) \/ LetGo(p) \/ TakeLock(p) \/ Held(p) \/ Look(p) \/ Leave(p)
  \/ Listen(p) \/ Check(p) \/ RequestInstall(p) \/ Quit(p) \/ Stops(p)

Install(w) ==
  \/ Advances(w) \/ Drain(w) \/ Drained(w) \/ FailBeforeSnapshot(w) \/ DrainTimeout(w) \/ Copied(w) \/ Switch(w)
  \/ StartCandidate(w) \/ Name(w) \/ Ready(w) \/ Commit(w) \/ Finish(w)
  \/ Fail(w) \/ Resume(w) \/ Resumed(w) \/ Reopened(w)

Recover(w) ==
  \/ StopOrphan(w) \/ Await(w) \/ GiveUp(w) \/ RecoverOnStartup(w) \/ LaunchChild(w)

Next ==
  \/ \E p \in Procs : Program(p)
  \/ \E w \in Workers :
       TakeUpdate(w) \/ Install(w) \/ Recover(w) \/ Restore(w) \/ Surrender(w) \/ Settle(w) \/ Die(w)

Spec == Init /\ [][Next]_vars

-----------------------------------------------------------------------------
(* portable.rs:68 "never start another server during replacement": while a *)
(* worker copies, exchanges or restores the data and the program, no       *)
(* process has them open, however many are started meanwhile and whatever  *)
(* each of them saw before.  EarlyQuits refutes it.                        *)
NeverDuringReplacement ==
  \A w \in Workers, p \in Procs :
    at[w] \in {"copying", "switching", "restoring"} => at[p] \notin {"booting", "serving"}
=============================================================================
