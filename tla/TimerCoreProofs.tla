--------------------------- MODULE TimerCoreProofs ---------------------------
(***************************************************************************)
(* Proofs about TimerCore for every set of users and runs, every set of    *)
(* schedules and any number of instants, calls and faults: an occurrence   *)
(* is taken once, starts one run at most and ends once.                    *)
(***************************************************************************)
EXTENDS TimerCore, FiniteSetTheorems, WellFoundedInduction, TLAPS

(* The places at which the loop goes on with an occurrence it has claimed, *)
(* before its run exists.                                                  *)
Claimed == {"check", "submit", "missing", "reject"}

(* A user shares the path of the loop from the submission on, without an   *)
(* occurrence.                                                             *)
UserPlaces == Places \ {"list", "decide", "claim", "check", "attach"}
LoopPlaces == {"idle", "list", "decide", "claim", "register", "attach"} \cup Claimed

(* What the loop, a user, an actor holds at its place. *)
LoopHolds(l) ==
  /\ l.pc \in LoopPlaces
  /\ l.pc \in {"list", "decide"} => l.time \in Times
  /\ l.pc = "decide" => l.task \in Tasks
  /\ l.pc \in {"claim", "register", "attach"} \cup Claimed => l.due \in Times

UserHolds(u) ==
  /\ u.pc \in UserPlaces
  /\ u.pc \in {"submit", "missing", "reject", "register"} => u.due = None

Holds(a, place) == IF a = Loop THEN LoopHolds(place) ELSE UserHolds(place)

HoldInv == \A a \in Actors : Holds(a, act[a])

(* Runs belong to occurrences that were taken, no two to the same one, and *)
(* the occurrence the loop is about to submit has none.                    *)
RunInv ==
  /\ \A r \in Runs : runs[r].state = "none" => runs[r].slot = None
  /\ \A r \in Runs : runs[r].slot # None => slot[runs[r].slot].state # "open"
  /\ \A r, s \in Runs : runs[r].slot = runs[s].slot /\ runs[r].slot # None => r = s
  /\ act[Loop].pc \in Claimed =>
       /\ slot[act[Loop].due].state = "running"
       /\ \A r \in Runs : runs[r].slot # act[Loop].due

(* Whoever registers a run is alone with it; the run is not registered yet *)
(* and goes on, unless its end was noted for him.                          *)
RegisterInv ==
  /\ \A a \in Actors : At(a, "register") =>
       LET r == act[a].run IN
       /\ r \in Runs /\ runs[r].state # "none" /\ active # r
       /\ r \in early \/ runs[r].state \in Going
       /\ \A b \in Actors : At(b, "register") /\ act[b].run = r => a = b
  /\ ActiveIsRunning

IInv == TypeOK /\ HoldInv /\ RunInv /\ RegisterInv

-----------------------------------------------------------------------------
(* Instants and rows. *)

ActType ==
  [ pc : Places, time : Instants, task : Tasks \cup {None}, due : Instants,
    run : Runs \cup {None}, why : Reasons ]

(* A set of instants that is not empty has a first and a last one. *)
LEMMA Extremes ==
  ASSUME NEW S, S \subseteq Times, S # {}
  PROVE  Min(S) \in S /\ Max(S) \in S
<1> DEFINE less == OpToRel(<, Nat)
<1>0. \A x, y \in Nat : <<x, y>> \in less <=> x < y
  BY DEF OpToRel
<1> HIDE DEF less
<1>1. MaxTime \in Nat /\ \A x \in S : x \in Nat /\ x <= MaxTime
  BY ScheduleAssumption DEF Times
<1>2. PICK x \in S : \A y \in S : ~(<<y, x>> \in less)
  <2>1. S \subseteq Nat
    BY <1>1
  <2> QED
    BY <2>1, NatLessThanWellFounded, WFMin, Zenon DEF less
<1>3. ASSUME NEW y \in S PROVE x <= y
  <2>1. x \in Nat /\ y \in Nat
    BY <1>1
  <2>2. ~(y < x)
    BY <1>0, <1>2, <2>1
  <2> QED
    BY <2>1, <2>2
<1>4. Min(S) \in S
  BY <1>3 DEF Min
<1> DEFINE T == {MaxTime - y : y \in S}
<1>5. T \subseteq Nat /\ T # {}
  BY <1>1
<1>6. PICK z \in T : \A y \in T : ~(<<y, z>> \in less)
  <2> HIDE DEF T
  <2> QED
    BY <1>5, NatLessThanWellFounded, WFMin, Zenon DEF less
<1>7. PICK m \in S : z = MaxTime - m
  BY <1>6
<1>8. ASSUME NEW y \in S PROVE m >= y
  <2>1. MaxTime - y \in T /\ MaxTime - y \in Nat /\ z \in Nat
    BY <1>1, <1>5, <1>6
  <2>2. ~(MaxTime - y < z)
    BY <1>0, <1>6, <2>1
  <2> QED
    BY <1>1, <1>7, <2>1, <2>2
<1>9. Max(S) \in S
  BY <1>8 DEF Max
<1> QED
  BY <1>4, <1>9

LEMMA InstantsOf ==
  ASSUME NEW task \in Tasks, NEW t \in Times
  PROVE  /\ next_after(task.schedule, t) \in Instants
         /\ latest_due(task.schedule, t) \in Instants
         /\ Due(task, t) \in Instants
<1>1. task.schedule \subseteq Times /\ task.cursor \in Instants
  BY ScheduleAssumption DEF Tasks
<1> DEFINE later == {x \in task.schedule : x > t}
           window == {x \in task.schedule : x <= t /\ t < x + Lookback}
<1>2. later \subseteq Times /\ window \subseteq Times
  BY <1>1
<1>3. next_after(task.schedule, t) \in Instants
  BY <1>2, Extremes, Zenon DEF next_after, Instants
<1>4. latest_due(task.schedule, t) \in Instants
  BY <1>2, Extremes, Zenon DEF latest_due, Instants
<1> QED
  BY <1>1, <1>3, <1>4 DEF Due, Instants

(* Whoever writes the row writes a row; only its users enable it. *)
LEMMA RowsOf ==
  ASSUME row \in Tasks \cup {None}
  PROVE  /\ \A c \in Instants :
              /\ set_wakeup(c) \in Tasks \cup {None}
              /\ resume_from_missing(c) \in Tasks \cup {None}
         /\ \A why \in Reasons : set_dependency_missing(why) \in Tasks \cup {None}
         /\ suspend_active_for_runner \in Tasks \cup {None}
         /\ \A s \in States, e \in BOOLEAN, why \in Reasons :
              set_state(s, e, why) \in Tasks \cup {None}
<1> USE DEF Tasks
<1>1. None \in Instants /\ "runner" \in Reasons /\ None \in Reasons
      /\ {"active", "dependency_missing"} \subseteq States
  BY DEF Instants, Reasons, States
<1>2. \A c \in Instants : /\ set_wakeup(c) \in Tasks \cup {None}
                          /\ resume_from_missing(c) \in Tasks \cup {None}
  BY <1>1 DEF set_wakeup, resume_from_missing, missing_runner
<1>3. \A why \in Reasons : set_dependency_missing(why) \in Tasks \cup {None}
  BY <1>1 DEF set_dependency_missing
<1>4. suspend_active_for_runner \in Tasks \cup {None}
  BY <1>1, <1>3 DEF suspend_active_for_runner
<1>5. \A s \in States, e \in BOOLEAN, why \in Reasons :
        set_state(s, e, why) \in Tasks \cup {None}
  BY <1>1 DEF set_state
<1> QED
  BY <1>2, <1>3, <1>4, <1>5

-----------------------------------------------------------------------------
(* Types, and what the actors hold. *)

LEMMA Placing ==
  ASSUME TypeOK, HoldInv, NEW a \in Actors, NEW p \in ActType, Holds(a, p), Goes(a, p)
  PROVE  /\ act' \in [Actors -> ActType] /\ HoldInv'
         /\ act'[a] = p /\ \A b \in Actors \ {a} : act'[b] = act[b]
  BY DEF TypeOK, ActType, Goes, HoldInv

LEMMA Resting ==
  /\ Idle \in ActType /\ Idle.pc = "idle" /\ \A a \in Actors : Holds(a, Idle)
  BY DEF Idle, ActType, Places, Instants, Reasons, Holds, LoopHolds, UserHolds,
         LoopPlaces, UserPlaces, Claimed

(* The loop, up to the claim. *)
LEMMA LoopTypes ==
  ASSUME TypeOK, HoldInv,
         \/ LoopNow \/ LoopList \/ reject_schedule \/ LoopPass \/ LoopAdvance \/ LoopError
  PROVE  TypeOK' /\ HoldInv'
<1> DEFINE l == act[Loop]
<1>1. Loop \in Actors /\ l \in ActType /\ LoopHolds(l) /\ now \in Times
  BY DEF Actors, TypeOK, ActType, HoldInv, Holds
<1>2. ASSUME NEW p \in ActType, LoopHolds(p), Goes(Loop, p), row' \in Tasks \cup {None},
             faults' \in 0..MaxFaults,
             UNCHANGED <<now, slot, registered, extension, runs, active, early, calls, orphaned>>
      PROVE  TypeOK' /\ HoldInv'
  BY <1>1, <1>2, Placing DEF Holds, TypeOK, ActType
<1>3. CASE LoopNow
  <2> DEFINE p == [Idle EXCEPT !.pc = "list", !.time = now]
  <2>1. p \in ActType /\ LoopHolds(p)
    BY <1>1 DEF Idle, ActType, Places, Instants, Reasons, LoopHolds, LoopPlaces, Claimed
  <2> QED
    BY <1>2, <1>3, <2>1 DEF LoopNow, SameDb, SameMemory, counters, TypeOK
<1>4. CASE LoopList
  <2> DEFINE p == IF is_schedulable(row)
                  THEN [Idle EXCEPT !.pc = "decide", !.time = l.time, !.task = row] ELSE Idle
  <2>1. is_schedulable(row) => row \in Tasks
    BY DEF is_schedulable, TypeOK
  <2>2. l.time \in Times
    BY <1>1, <1>4 DEF LoopList, At, LoopHolds
  <2>3. p \in ActType /\ LoopHolds(p)
    BY <2>1, <2>2, Resting DEF Idle, ActType, Places, Instants, Reasons, LoopHolds, LoopPlaces,
       Claimed
  <2>4. Goes(Loop, p)
    BY <1>4 DEF LoopList, Goes
  <2> HIDE DEF p
  <2> QED
    BY <1>2, <1>4, <2>3, <2>4 DEF LoopList, SameDb, SameMemory, counters, TypeOK
<1>5. CASE reject_schedule
  <2>1. row' \in Tasks \cup {None}
    BY <1>5, RowsOf DEF reject_schedule, Reasons, TypeOK
  <2> QED
    BY <1>1, <1>2, <1>5, <2>1, Resting DEF reject_schedule, SameMemory, counters, TypeOK, Holds
<1>6. CASE LoopPass
  <2>1. l.task \in Tasks /\ l.time \in Times
    BY <1>1, <1>6 DEF LoopPass, At, LoopHolds
  <2>2. row' \in Tasks \cup {None}
    BY <1>6, <2>1, RowsOf, InstantsOf DEF LoopPass, TypeOK
  <2> QED
    BY <1>1, <1>2, <1>6, <2>2, Resting DEF LoopPass, SameMemory, counters, TypeOK, Holds
<1>7. CASE LoopAdvance
  <2>1. l.task \in Tasks /\ l.time \in Times
    BY <1>1, <1>7 DEF LoopAdvance, At, LoopHolds
  <2> DEFINE due == Due(l.task, l.time)
             p == [Idle EXCEPT !.pc = "claim", !.due = due]
  <2>2. due \in Times
    BY <1>7, <2>1, InstantsOf DEF LoopAdvance, Instants
  <2>3. Goes(Loop, p)
    BY <1>7 DEF LoopAdvance
  <2>4. p \in ActType /\ LoopHolds(p)
    <3> HIDE DEF due
    <3> QED
      BY <2>2 DEF Idle, ActType, Places, Instants, Reasons, LoopHolds, LoopPlaces, Claimed
  <2>5. row' \in Tasks \cup {None}
    BY <1>7, <2>1, RowsOf, InstantsOf DEF LoopAdvance, TypeOK
  <2> HIDE DEF p
  <2> QED
    BY <1>2, <1>7, <2>3, <2>4, <2>5 DEF LoopAdvance, SameMemory, counters, TypeOK
<1>8. CASE LoopError
  <2>1. faults' \in 0..MaxFaults
    BY <1>8, TimerBoundsAssumption DEF LoopError, TypeOK
  <2> QED
    BY <1>1, <1>2, <1>8, <2>1, Resting DEF LoopError, SameDb, SameMemory, TypeOK, Holds
<1> QED
  BY <1>3, <1>4, <1>5, <1>6, <1>7, <1>8

(* The path from the claim to the registration of the run. *)
LEMMA DispatchTypes ==
  ASSUME TypeOK, HoldInv, NEW a \in Actors, Dispatch(a)
  PROVE  TypeOK' /\ HoldInv'
<1> DEFINE x == act[a]
<1>1. x \in ActType /\ Holds(a, x) /\ x.due \in Instants /\ x.run \in Runs \cup {None}
  BY DEF TypeOK, ActType, HoldInv
<1>2. x.pc \in {"claim", "check", "attach"} => a = Loop /\ x.due \in Times
  BY <1>1 DEF Holds, UserHolds, UserPlaces, LoopHolds, Claimed
<1>3. ASSUME NEW p \in ActType, Holds(a, p), Goes(a, p), row' \in Tasks \cup {None},
             slot' \in [Times -> [state : {"open", "running", "ended"}, run : Runs \cup {None}]],
             runs' \in [Runs ->
               [state : {"none", "over", "gone"} \cup Going, slot : Instants]],
             active' \in Runs \cup {None}, early' \subseteq Runs,
             UNCHANGED <<now, registered, extension, counters>>
      PROVE  TypeOK' /\ HoldInv'
  BY <1>3, Placing DEF TypeOK, ActType, counters
<1>4. CASE Claim(a)
  <2> DEFINE p == IF slot[x.due].state = "open" THEN [x EXCEPT !.pc = "check"] ELSE Idle
  <2>1. x.pc = "claim" /\ a = Loop /\ x.due \in Times
    BY <1>2, <1>4 DEF Claim, At
  <2>2. [x EXCEPT !.pc = "check"] \in ActType /\ Holds(a, [x EXCEPT !.pc = "check"])
    BY <1>1, <2>1 DEF ActType, Places, Holds, LoopHolds, LoopPlaces, Claimed
  <2>3. p \in ActType /\ Holds(a, p) /\ Goes(a, p)
    BY <1>4, <2>1, <2>2, Resting DEF Claim, Goes
  <2>4. slot' \in [Times -> [state : {"open", "running", "ended"}, run : Runs \cup {None}]]
    BY <1>4, <2>1 DEF Claim, TypeOK
  <2> HIDE DEF p
  <2> QED
    BY <1>3, <1>4, <2>3, <2>4 DEF Claim, SameMemory, TypeOK
<1>5. CASE Check(a)
  <2>1. x.pc = "check" /\ a = Loop
    BY <1>2, <1>5 DEF Check, At
  <2> DEFINE p == IF registered THEN [x EXCEPT !.pc = "submit"]
                  ELSE [x EXCEPT !.pc = "missing", !.why = "runner"]
  <2>2. p \in ActType /\ Holds(a, p)
    BY <1>1, <2>1 DEF ActType, Places, Reasons, Holds, LoopHolds, LoopPlaces, Claimed
  <2>3. Goes(a, p)
    BY <1>5 DEF Check
  <2> HIDE DEF p
  <2> QED
    BY <1>3, <1>5, <2>2, <2>3 DEF Check, SameDb, SameMemory, TypeOK
<1>6. CASE SubmitRefused(a)
  <2>1. x.pc = "submit"
    BY <1>6 DEF SubmitRefused, At
  <2>2. \A why \in {"resource", "unavailable"} :
          LET p == [x EXCEPT !.pc = "missing", !.why = why] IN
          p \in ActType /\ Holds(a, p)
    BY <1>1, <2>1 DEF ActType, Places, Reasons, Holds, UserHolds, UserPlaces, LoopHolds,
       LoopPlaces, Claimed
  <2>3. [x EXCEPT !.pc = "reject"] \in ActType /\ Holds(a, [x EXCEPT !.pc = "reject"])
    BY <1>1, <2>1 DEF ActType, Places, Holds, UserHolds, UserPlaces, LoopHolds,
       LoopPlaces, Claimed
  <2>4. PICK p \in ActType : Holds(a, p) /\ Goes(a, p)
    BY <1>6, <2>2, <2>3 DEF SubmitRefused
  <2> QED
    BY <1>3, <1>6, <2>4 DEF SubmitRefused, SameDb, SameMemory, TypeOK
<1>7. ASSUME NEW r \in Runs, SubmitAccepted(a, r) PROVE TypeOK' /\ HoldInv'
  <2>1. x.pc = "submit"
    BY <1>7 DEF SubmitAccepted, At
  <2> DEFINE p == [x EXCEPT !.pc = "register", !.run = r]
  <2>2. p \in ActType /\ Holds(a, p)
    BY <1>1, <2>1 DEF ActType, Places, Holds, UserHolds, UserPlaces, LoopHolds,
       LoopPlaces, Claimed
  <2>3. Goes(a, p)
    BY <1>7 DEF SubmitAccepted
  <2>4. runs' \in [Runs -> [state : {"none", "over", "gone"} \cup Going, slot : Instants]]
    BY <1>1, <1>7 DEF SubmitAccepted, TypeOK, Going
  <2> HIDE DEF p
  <2> QED
    BY <1>3, <1>7, <2>2, <2>3, <2>4 DEF SubmitAccepted, SameDb, SameMemory, TypeOK
<1>8. CASE WriteMissing(a)
  <2>1. x.pc = "missing" /\ x.why \in Reasons
    BY <1>1, <1>8 DEF WriteMissing, At, ActType
  <2> DEFINE p == [x EXCEPT !.pc = "reject", !.why = None]
  <2>2. p \in ActType /\ Holds(a, p)
    BY <1>1, <2>1 DEF ActType, Places, Reasons, Holds, UserHolds, UserPlaces, LoopHolds,
       LoopPlaces, Claimed
  <2>3. Goes(a, p)
    BY <1>8 DEF WriteMissing
  <2>4. row' \in Tasks \cup {None}
    BY <1>8, <2>1, RowsOf DEF WriteMissing, TypeOK
  <2> HIDE DEF p
  <2> QED
    BY <1>3, <1>8, <2>2, <2>3, <2>4 DEF WriteMissing, SameMemory, TypeOK
<1>9. CASE finish_rejected(a)
  <2>1. slot' \in [Times -> [state : {"open", "running", "ended"}, run : Runs \cup {None}]]
    BY <1>9 DEF finish_rejected, finish_slot, TypeOK
  <2> QED
    BY <1>3, <1>9, <2>1, Resting DEF finish_rejected, SameMemory, TypeOK
<1>10. CASE register_active_run(a)
  <2>1. x.pc = "register"
    BY <1>10 DEF register_active_run, At
  <2> DEFINE p == IF x.due = None THEN Idle ELSE [x EXCEPT !.pc = "attach"]
  <2>2. [x EXCEPT !.pc = "attach"] \in ActType
    BY <1>1 DEF ActType, Places
  <2>3. x.due # None => a = Loop /\ x.due \in Times
    BY <1>1, <2>1 DEF Holds, UserHolds, Instants
  <2>4. x.due # None => Holds(a, [x EXCEPT !.pc = "attach"])
    BY <1>1, <2>3 DEF ActType, Holds, LoopHolds, LoopPlaces, Claimed
  <2>5. p \in ActType /\ Holds(a, p) /\ Goes(a, p)
    BY <1>10, <2>2, <2>4, Resting DEF register_active_run
  <2>6. active' \in Runs \cup {None} /\ early' \subseteq Runs
    BY <1>1, <1>10 DEF register_active_run, TypeOK
  <2> HIDE DEF p
  <2> QED
    BY <1>3, <1>10, <2>5, <2>6 DEF register_active_run, SameDb, TypeOK
<1>11. CASE attach_scheduled_run(a)
  <2>1. slot' \in [Times -> [state : {"open", "running", "ended"}, run : Runs \cup {None}]]
    BY <1>1, <1>2, <1>11 DEF attach_scheduled_run, At, TypeOK
  <2> QED
    BY <1>3, <1>11, <2>1, Resting DEF attach_scheduled_run, SameMemory, TypeOK
<1> QED
  BY <1>4, <1>5, <1>6, <1>7, <1>8, <1>9, <1>10, <1>11 DEF Dispatch

(* The calls of the users. *)
LEMMA UserTypes ==
  ASSUME TypeOK, HoldInv, NEW u \in Users,
         UserCalls(u) \/ UserGoes(u), ~Dispatch(u)
  PROVE  TypeOK' /\ HoldInv'
<1> DEFINE x == act[u]
<1>1. u \in Actors /\ u # Loop /\ x \in ActType
  BY ActorsAssumption DEF Actors, TypeOK, ActType
<1>2. \A p \in ActType :
        p.pc \in {"idle", "resuming", "waking", "cancelling", "cancelled", "now"} => Holds(u, p)
  BY <1>1 DEF Holds, UserHolds, UserPlaces, Places
<1>3. ASSUME NEW p \in ActType, Holds(u, p), act' = act \/ Goes(u, p),
             row' \in Tasks \cup {None}, calls' \in 0..MaxCalls,
             runs' \in [Runs ->
               [state : {"none", "over", "gone"} \cup Going, slot : Instants]],
             UNCHANGED <<now, slot, registered, extension, active, early, faults, orphaned>>
      PROVE  TypeOK' /\ HoldInv'
  <2>1. CASE act' = act
    BY <1>3, <2>1 DEF TypeOK, HoldInv
  <2>2. CASE Goes(u, p)
    BY <1>1, <1>3, <2>2, Placing DEF TypeOK, ActType
  <2> QED
    BY <1>3, <2>1, <2>2
<1>4. Calls(u) => calls' \in 0..MaxCalls
  BY TimerBoundsAssumption DEF Calls, TypeOK
<1>5. /\ {"suspended", "active", "cancelled"} \subseteq States
      /\ {"user", None} \subseteq Reasons
  BY DEF States, Reasons
<1>6. CASE SaveTask(u)
  <2>1. row' \in Tasks
    BY <1>5, <1>6 DEF SaveTask, Tasks, Instants
  <2> QED
    BY <1>1, <1>3, <1>4, <1>6, <2>1, Resting DEF SaveTask, SameMemory, NotYet, TypeOK
<1>7. CASE DeleteTask(u)
  BY <1>1, <1>3, <1>4, <1>7, Resting DEF DeleteTask, SameMemory, NotYet, TypeOK
<1>8. CASE SuspendTask(u)
  <2>1. row' \in Tasks \cup {None}
    BY <1>5, <1>8, RowsOf DEF SuspendTask, TypeOK
  <2> QED
    BY <1>1, <1>3, <1>4, <1>8, <2>1, Resting DEF SuspendTask, SameMemory, NotYet, TypeOK
<1>9. CASE ResumeGet(u)
  <2> DEFINE next == next_after(row.schedule, now)
             p == [Idle EXCEPT !.pc = "resuming", !.due = next]
  <2>1. next \in Instants
    BY <1>9, InstantsOf DEF ResumeGet, TypeOK
  <2>2. p \in ActType /\ p.pc = "resuming"
    <3> HIDE DEF next
    <3> QED
      BY <2>1 DEF Idle, ActType, Places, Instants, Reasons
  <2>3. Goes(u, p)
    BY <1>9 DEF ResumeGet
  <2> HIDE DEF p
  <2> QED
    BY <1>2, <1>3, <1>4, <1>9, <2>2, <2>3 DEF ResumeGet, SameDb, SameMemory, NotYet, TypeOK
<1>10. CASE ResumeState(u)
  <2> DEFINE p == [x EXCEPT !.pc = "waking"]
  <2>1. p \in ActType /\ p.pc = "waking"
    BY <1>1 DEF ActType, Places
  <2>2. row' \in Tasks \cup {None}
    BY <1>5, <1>10, RowsOf DEF ResumeState, TypeOK
  <2>3. Goes(u, p)
    BY <1>10 DEF ResumeState
  <2> HIDE DEF p
  <2> QED
    BY <1>2, <1>3, <1>10, <2>1, <2>2, <2>3 DEF ResumeState, SameMemory, counters, TypeOK
<1>11. CASE ResumeWakeup(u)
  <2>1. row' \in Tasks \cup {None}
    BY <1>1, <1>11, RowsOf DEF ResumeWakeup, ActType, TypeOK
  <2> QED
    BY <1>1, <1>3, <1>11, <2>1, Resting DEF ResumeWakeup, SameMemory, counters, TypeOK
<1>12. CASE CancelGet(u)
  <2> DEFINE p == IF active = None THEN [Idle EXCEPT !.pc = "cancelled"]
                  ELSE [Idle EXCEPT !.pc = "cancelling", !.run = active]
  <2>1. p \in ActType /\ p.pc \in {"cancelled", "cancelling"}
    BY DEF Idle, ActType, Places, Instants, Reasons, TypeOK
  <2>2. Goes(u, p)
    BY <1>12 DEF CancelGet
  <2> HIDE DEF p
  <2> QED
    BY <1>2, <1>3, <1>4, <1>12, <2>1, <2>2 DEF CancelGet, SameDb, SameMemory, NotYet, TypeOK
<1>13. CASE CancelRun(u)
  <2> DEFINE p == [Idle EXCEPT !.pc = "cancelled"]
  <2>1. p \in ActType /\ p.pc = "cancelled"
    BY DEF Idle, ActType, Places, Instants, Reasons
  <2>2. runs' \in [Runs -> [state : {"none", "over", "gone"} \cup Going, slot : Instants]]
    BY <1>13 DEF CancelRun, TypeOK, Going
  <2>3. PICK q \in {p, Idle} : Goes(u, q)
    BY <1>13 DEF CancelRun
  <2> HIDE DEF p
  <2> QED
    BY <1>1, <1>2, <1>3, <1>13, <2>1, <2>2, <2>3, Resting
       DEF CancelRun, SameDb, SameMemory, counters, TypeOK
<1>14. CASE CancelState(u)
  <2>1. row' \in Tasks \cup {None}
    BY <1>5, <1>14, RowsOf DEF CancelState, TypeOK
  <2> QED
    BY <1>1, <1>3, <1>14, <2>1, Resting DEF CancelState, SameMemory, counters, TypeOK
<1>15. CASE RunNow(u)
  <2> DEFINE p == [Idle EXCEPT !.pc = "now", !.task = row]
  <2>1. p \in ActType /\ p.pc = "now"
    BY DEF Idle, ActType, Places, Instants, Reasons, TypeOK
  <2>2. Goes(u, p)
    BY <1>15 DEF RunNow
  <2> HIDE DEF p
  <2> QED
    BY <1>2, <1>3, <1>4, <1>15, <2>1, <2>2 DEF RunNow, SameDb, SameMemory, NotYet, TypeOK
<1>16. CASE CheckNow(u)
  <2> DEFINE p == IF ~registered THEN [Idle EXCEPT !.pc = "missing", !.why = "runner"]
                  ELSE IF is_schedulable(act[u].task) THEN [Idle EXCEPT !.pc = "submit"]
                  ELSE Idle
  <2>1. \A q \in {[Idle EXCEPT !.pc = "missing", !.why = "runner"], [Idle EXCEPT !.pc = "submit"]} :
          q \in ActType /\ q.pc \in {"missing", "submit"} /\ q.due = None
    BY DEF Idle, ActType, Places, Instants, Reasons
  <2>2. p \in ActType /\ Holds(u, p)
    BY <1>1, <2>1, Resting DEF Holds, UserHolds, UserPlaces, Places
  <2>3. Goes(u, p)
    BY <1>16 DEF CheckNow
  <2> HIDE DEF p
  <2> QED
    BY <1>3, <1>16, <2>2, <2>3 DEF CheckNow, SameDb, SameMemory, counters, TypeOK
<1> QED
  BY <1>6, <1>7, <1>8, <1>9, <1>10, <1>11, <1>12, <1>13, <1>14, <1>15, <1>16
     DEF UserCalls, UserGoes

(* The extension, the runs, the clock and the crash. *)
Elsewhere ==
  ExtensionGoes \/ Register \/ Unregister \/ (\E r \in Runs : RunEnds(r) \/ Book(r)) \/ Tick

LEMMA ElsewhereTypes ==
  ASSUME TypeOK, HoldInv, Elsewhere
  PROVE  TypeOK' /\ HoldInv'
<1>1. act' = act /\ HoldInv'
  BY DEF Elsewhere, ExtensionGoes, ListMissing, ResumeMissing, SuspendMissing, Register,
     Unregister, RunEnds, Book, Tick, HoldInv
<1>2. CASE ExtensionGoes
  <2>1. CASE ListMissing
    <3>1. missing_runner(row) => next_after(row.schedule, now) \in Instants
      BY InstantsOf DEF missing_runner, TypeOK
    <3>2. extension' \in [pc : {"idle", "listing", "resuming", "suspending"}, next : Instants]
      BY <2>1, <3>1 DEF ListMissing, Rest, Instants
    <3> QED
      BY <1>1, <2>1, <3>2 DEF ListMissing, SameDb, counters, TypeOK
  <2>2. CASE ResumeMissing
    <3>1. row' \in Tasks \cup {None}
      BY <2>2, RowsOf DEF ResumeMissing, TypeOK
    <3> QED
      BY <1>1, <2>2, <3>1 DEF ResumeMissing, Rest, Instants, counters, TypeOK
  <2>3. CASE SuspendMissing
    <3>1. row' \in Tasks \cup {None}
      BY <2>3, RowsOf DEF SuspendMissing, TypeOK
    <3> QED
      BY <1>1, <2>3, <3>1 DEF SuspendMissing, Rest, Instants, counters, TypeOK
  <2> QED
    BY <1>2, <2>1, <2>2, <2>3 DEF ExtensionGoes
<1>3. CASE Register \/ Unregister
  <2>0. registered' \in BOOLEAN /\ None \in Instants
    BY <1>3 DEF Register, Unregister, Instants
  <2>1. extension' \in [pc : {"idle", "listing", "resuming", "suspending"}, next : Instants]
    <3>1. \/ extension' = [pc |-> "listing", next |-> None]
          \/ extension' = [pc |-> "suspending", next |-> None]
      BY <1>3 DEF Register, Unregister
    <3> QED
      BY <2>0, <3>1
  <2>2. UNCHANGED <<now, row, slot, act, runs, active, early, calls, faults, orphaned>>
    BY <1>3 DEF Register, Unregister, SameDb, counters
  <2> QED
    BY <1>1, <2>0, <2>1, <2>2 DEF TypeOK
<1>4. ASSUME NEW r \in Runs, RunEnds(r) PROVE TypeOK'
  <2>1. runs' \in [Runs -> [state : {"none", "over", "gone"} \cup Going, slot : Instants]]
    BY <1>4 DEF RunEnds, TypeOK
  <2>2. active' \in Runs \cup {None} /\ early' \subseteq Runs
    BY <1>4 DEF RunEnds, TypeOK
  <2> QED
    BY <1>1, <1>4, <2>1, <2>2 DEF RunEnds, SameDb, counters, TypeOK
<1>5. ASSUME NEW r \in Runs, Book(r) PROVE TypeOK'
  <2>1. runs' \in [Runs -> [state : {"none", "over", "gone"} \cup Going, slot : Instants]]
    BY <1>5 DEF Book, TypeOK
  <2>2. slot' \in [Times -> [state : {"open", "running", "ended"}, run : Runs \cup {None}]]
    BY <1>5 DEF Book, finish_slot, TypeOK
  <2> QED
    BY <1>1, <1>5, <2>1, <2>2 DEF Book, SameMemory, counters, TypeOK
<1>6. CASE Tick
  BY <1>1, <1>6, ScheduleAssumption DEF Tick, SameDb, SameMemory, Times, counters, TypeOK
<1> QED
  BY <1>1, <1>2, <1>3, <1>4, <1>5, <1>6 DEF Elsewhere

LEMMA CrashTypes ==
  ASSUME TypeOK, Crash
  PROVE  TypeOK' /\ HoldInv'
<1>1. act' \in [Actors -> ActType] /\ \A a \in Actors : act'[a] = Idle
  BY Resting DEF Crash
<1>2. faults' \in 0..MaxFaults /\ orphaned' \subseteq Times
  BY TimerBoundsAssumption DEF Crash, TypeOK
<1>3. runs' \in [Runs -> [state : {"none", "over", "gone"} \cup Going, slot : Instants]]
  BY DEF Crash, TypeOK
<1>4. TypeOK'
  BY <1>1, <1>2, <1>3 DEF Crash, SameDb, Rest, Instants, ActType, TypeOK
<1>5. HoldInv'
  BY <1>1, Resting DEF HoldInv
<1> QED
  BY <1>4, <1>5

LEMMA TypeStep ==
  ASSUME TypeOK, HoldInv, [Next]_vars
  PROVE  TypeOK' /\ HoldInv'
<1>1. CASE UNCHANGED vars
  BY <1>1 DEF vars, memory, counters, TypeOK, HoldInv
<1>2. CASE RunLoop \/ LoopError
  BY <1>2, LoopTypes, DispatchTypes DEF RunLoop, Actors
<1>3. ASSUME NEW u \in Users, UserGoes(u) \/ UserCalls(u) PROVE TypeOK' /\ HoldInv'
  BY <1>3, UserTypes, DispatchTypes DEF Actors
<1>4. CASE Elsewhere \/ Crash
  BY <1>4, ElsewhereTypes, CrashTypes
<1> QED
  BY <1>1, <1>2, <1>3, <1>4 DEF Next, Elsewhere

-----------------------------------------------------------------------------
(* Runs and their registration. *)

Unmoved == UNCHANGED <<slot, runs, active, early>>

(* An actor that moves on brings nobody to a registration or to a new      *)
(* occurrence.                                                             *)
Shifts(a) ==
  /\ act'[a].pc # "register"
  /\ a = Loop /\ act'[a].pc \in Claimed => act[a].pc \in Claimed /\ act'[a].due = act[a].due
  /\ \A b \in Actors \ {a} : act'[b] = act[b]

(* A step that touches neither occurrences nor runs. *)
Bystands == Unmoved /\ (act' = act \/ \E a \in Actors : Shifts(a))

LEMMA QuietInv ==
  ASSUME IInv, Bystands
  PROVE  RunInv' /\ RegisterInv'
<1>1. CASE act' = act
  BY <1>1 DEF Bystands, Unmoved, IInv, RunInv, RegisterInv, ActiveIsRunning, At
<1>2. ASSUME NEW a \in Actors, Shifts(a)
      PROVE  RunInv' /\ RegisterInv'
  <2>1. act'[Loop].pc \in Claimed => act[Loop].pc \in Claimed /\ act'[Loop].due = act[Loop].due
    BY <1>2 DEF Shifts, Actors
  <2>2. RunInv'
    BY <2>1 DEF Bystands, Unmoved, IInv, RunInv
  <2>3. \A b \in Actors : At(b, "register")' => At(b, "register") /\ act'[b] = act[b]
    BY <1>2 DEF At, Shifts
  <2>4. RegisterInv'
    BY <2>3 DEF Bystands, Unmoved, IInv, RegisterInv, ActiveIsRunning, At
  <2> QED
    BY <2>2, <2>4
<1> QED
  BY <1>1, <1>2 DEF Bystands

LEMMA Moved ==
  ASSUME TypeOK, NEW a \in Actors, NEW x, act' = [act EXCEPT ![a] = x]
  PROVE  act'[a] = x /\ \A b \in Actors \ {a} : act'[b] = act[b]
BY DEF TypeOK

LEMMA LoopQuiet ==
  ASSUME TypeOK,
         \/ LoopNow \/ LoopList \/ reject_schedule \/ LoopPass \/ LoopAdvance \/ LoopError
  PROVE  Bystands
<1>1. Unmoved
  BY DEF LoopNow, LoopList, reject_schedule, LoopPass, LoopAdvance, LoopError, SameDb, SameMemory,
     Unmoved
<1>2. act'[Loop].pc \in {"idle", "list", "decide", "claim"}
      /\ \A b \in Actors \ {Loop} : act'[b] = act[b]
  <2> USE DEF Goes, TypeOK, Actors, Idle
  <2>1. CASE LoopNow
    BY <2>1 DEF LoopNow
  <2>2. CASE LoopList
    <3> DEFINE x == [Idle EXCEPT !.pc = "decide", !.time = act[Loop].time, !.task = row]
    <3>1. act' = [act EXCEPT ![Loop] = x] \/ act' = [act EXCEPT ![Loop] = Idle]
      BY <2>2, Zenon DEF LoopList, Goes
    <3>2. x.pc = "decide" /\ Idle.pc = "idle" /\ Loop \in Actors
      OBVIOUS
    <3> HIDE DEF x, Idle
    <3> QED
      BY <3>1, <3>2, Moved
  <2>3. CASE reject_schedule \/ LoopPass \/ LoopError
    BY <2>3 DEF reject_schedule, LoopPass, LoopError
  <2>4. CASE LoopAdvance
    BY <2>4 DEF LoopAdvance
  <2> QED
    BY <2>1, <2>2, <2>3, <2>4
<1> QED
  BY <1>1, <1>2 DEF Bystands, Shifts, Claimed, Actors

LEMMA DispatchQuiet ==
  ASSUME TypeOK, NEW a \in Actors, Check(a) \/ SubmitRefused(a) \/ WriteMissing(a)
  PROVE  Bystands
<1>1. Unmoved
  BY DEF Check, SubmitRefused, WriteMissing, SameDb, SameMemory, Unmoved
<1>2. /\ act'[a].pc \in {"submit", "missing", "reject"} /\ act'[a].due = act[a].due
      /\ \A b \in Actors \ {a} : act'[b] = act[b]
  <2> USE DEF Goes, TypeOK
  <2>1. CASE Check(a)
    BY <2>1 DEF Check
  <2>2. CASE SubmitRefused(a)
    <3> DEFINE x == [act[a] EXCEPT !.pc = "reject"]
               y(why) == [act[a] EXCEPT !.pc = "missing", !.why = why]
    <3>1. \/ act' = [act EXCEPT ![a] = x]
          \/ act' = [act EXCEPT ![a] = y("resource")]
          \/ act' = [act EXCEPT ![a] = y("unavailable")]
      BY <2>2, Zenon DEF SubmitRefused, Goes
    <3>2. /\ x.pc = "reject" /\ x.due = act[a].due
          /\ \A why : y(why).pc = "missing" /\ y(why).due = act[a].due
      OBVIOUS
    <3> HIDE DEF x, y
    <3> QED
      BY <3>1, <3>2, Moved
  <2>3. CASE WriteMissing(a)
    BY <2>3 DEF WriteMissing
  <2> QED
    BY <2>1, <2>2, <2>3
<1>3. act[a].pc \in Claimed
  BY DEF Check, SubmitRefused, WriteMissing, At, Claimed
<1> QED
  BY <1>1, <1>2, <1>3 DEF Bystands, Shifts

LEMMA UserQuiet ==
  ASSUME TypeOK, NEW u \in Users, UserCalls(u) \/ UserGoes(u), ~Dispatch(u), ~CancelRun(u)
  PROVE  Bystands
<1>1. Unmoved
  BY DEF UserCalls, UserGoes, SaveTask, DeleteTask, SuspendTask, ResumeGet, CancelGet, RunNow,
     ResumeState, ResumeWakeup, CancelState, CheckNow, SameDb, SameMemory, Unmoved
<1>2. u \in Actors /\ u # Loop
  BY ActorsAssumption DEF Actors
<1>3. CASE SaveTask(u) \/ DeleteTask(u) \/ SuspendTask(u)
  BY <1>1, <1>3 DEF SaveTask, DeleteTask, SuspendTask, Bystands
<1>4. CASE ~(SaveTask(u) \/ DeleteTask(u) \/ SuspendTask(u))
  <2>1. /\ act'[u].pc \in {"idle", "resuming", "waking", "cancelling", "cancelled", "now",
                           "missing", "submit"}
        /\ \A b \in Actors \ {u} : act'[b] = act[b]
    <3> USE <1>2 DEF Goes, TypeOK, Idle
    <3>1. CASE ResumeGet(u) \/ RunNow(u)
      <4> DEFINE x == [Idle EXCEPT !.pc = "resuming", !.due = next_after(row.schedule, now)]
                 y == [Idle EXCEPT !.pc = "now", !.task = row]
      <4>1. act' = [act EXCEPT ![u] = x] \/ act' = [act EXCEPT ![u] = y]
        BY <3>1, Zenon DEF ResumeGet, RunNow, Goes
      <4>2. x.pc = "resuming" /\ y.pc = "now"
        OBVIOUS
      <4> HIDE DEF x, y
      <4> QED
        BY <4>1, <4>2, Moved
    <3>2. CASE CancelGet(u)
      BY <3>2 DEF CancelGet
    <3>3. CASE ResumeState(u)
      BY <3>3 DEF ResumeState
    <3>4. CASE ResumeWakeup(u) \/ CancelState(u)
      <4>1. act' = [act EXCEPT ![u] = Idle]
        BY <3>4, Zenon DEF ResumeWakeup, CancelState, Goes
      <4> QED
        BY <4>1
    <3>5. CASE CheckNow(u)
      BY <3>5 DEF CheckNow
    <3> QED
      BY <1>4, <3>1, <3>2, <3>3, <3>4, <3>5 DEF UserCalls, UserGoes
  <2> QED
    BY <1>1, <1>2, <2>1 DEF Bystands, Shifts
<1> QED
  BY <1>3, <1>4

LEMMA ElsewhereQuiet ==
  ASSUME ExtensionGoes \/ Register \/ Unregister \/ Tick \/ UNCHANGED vars
  PROVE  Bystands
BY DEF ExtensionGoes, ListMissing, ResumeMissing, SuspendMissing, Register, Unregister, Tick,
   SameDb, SameMemory, vars, memory, Bystands, Unmoved

(* What a step of one actor leaves alone. *)
LEMMA OnlyActor ==
  ASSUME TypeOK, NEW a \in Actors, NEW x, Goes(a, x)
  PROVE  act'[a] = x /\ \A b \in Actors \ {a} : act'[b] = act[b]
BY DEF TypeOK, Goes

LEMMA ClaimInv ==
  ASSUME IInv, NEW a \in Actors, Claim(a)
  PROVE  RunInv' /\ RegisterInv'
<1> DEFINE t == act[a].due
<1>1. a = Loop /\ act[Loop].pc = "claim" /\ t \in Times
  BY DEF IInv, HoldInv, Holds, UserHolds, UserPlaces, LoopHolds, Claim, At
<1>2. CASE slot[t].state = "open"
  <2> DEFINE x == [act[a] EXCEPT !.pc = "check"]
  <2>1. Goes(a, x) /\ slot' = [slot EXCEPT ![t].state = "running"]
    BY <1>2 DEF Claim
  <2>2. x.pc = "check" /\ x.due = t
    BY DEF IInv, TypeOK
  <2> HIDE DEF x
  <2>3. act'[Loop] = x /\ \A b \in Actors \ {Loop} : act'[b] = act[b]
    BY <1>1, <2>1, OnlyActor DEF IInv
  <2>4. /\ slot'[t].state = "running" /\ \A s \in Times : slot[s].state # "open" => slot'[s].state # "open"
        /\ \A r \in Runs : runs[r].slot # t
    BY <1>1, <1>2, <2>1, NoneAssumption DEF IInv, TypeOK, RunInv
  <2>5. UNCHANGED <<runs, active, early>>
    BY DEF Claim, SameMemory
  <2>6. RunInv'
    BY <2>2, <2>3, <2>4, <2>5 DEF IInv, TypeOK, RunInv, Instants
  <2>7. \A b \in Actors : At(b, "register")' => At(b, "register") /\ act'[b] = act[b]
    BY <1>1, <2>2, <2>3 DEF At
  <2>8. RegisterInv'
    BY <2>5, <2>7 DEF IInv, RegisterInv, ActiveIsRunning, At
  <2> QED
    BY <2>6, <2>8
<1>3. CASE slot[t].state # "open"
  <2>1. Goes(a, Idle) /\ Unmoved
    BY <1>3 DEF Claim, SameMemory, Unmoved
  <2>2. Bystands
    BY <1>1, <2>1, OnlyActor, Resting DEF IInv, Bystands, Shifts, Claimed
  <2> QED
    BY <2>2, QuietInv
<1> QED
  BY <1>2, <1>3

LEMMA SubmitInv ==
  ASSUME IInv, NEW a \in Actors, NEW r \in Runs, SubmitAccepted(a, r)
  PROVE  RunInv' /\ RegisterInv'
<1> DEFINE t == act[a].due
           x == [act[a] EXCEPT !.pc = "register", !.run = r]
<1>1. /\ act[a].pc = "submit" /\ runs[r].state = "none" /\ runs[r].slot = None
      /\ Goes(a, x) /\ UNCHANGED <<slot, active, early>>
  BY DEF SubmitAccepted, At, SameDb, SameMemory, IInv, RunInv
<1>2. x.pc = "register" /\ x.run = r /\ x.due = t
  BY DEF IInv, TypeOK
<1>3. /\ act'[a] = x /\ \A b \in Actors \ {a} : act'[b] = act[b]
  BY <1>1, OnlyActor DEF IInv
<1> HIDE DEF x
<1>4. /\ runs'[r].state = "running" /\ runs'[r].slot = t
      /\ \A s \in Runs \ {r} : runs'[s] = runs[s]
  BY DEF SubmitAccepted, IInv, TypeOK
<1> HIDE DEF t
<1>5. a # Loop => t = None
  BY <1>1 DEF IInv, HoldInv, Holds, UserHolds, t
<1>6. a = Loop => t \in Times /\ slot[t].state = "running" /\ \A s \in Runs : runs[s].slot # t
  BY <1>1 DEF IInv, HoldInv, Holds, LoopHolds, RunInv, Claimed, t
<1>7. RunInv'
  <2>1. \A s \in Runs : runs'[s].slot = None \/ slot'[runs'[s].slot].state # "open"
    BY <1>1, <1>4, <1>5, <1>6 DEF IInv, RunInv
  <2>2. \A s, q \in Runs : runs'[s].slot = runs'[q].slot /\ runs'[s].slot # None => s = q
    BY <1>1, <1>4, <1>5, <1>6 DEF IInv, RunInv
  <2>3. act'[Loop].pc \in Claimed => /\ a # Loop /\ act'[Loop] = act[Loop]
    BY <1>2, <1>3 DEF Claimed, Actors
  <2>4. act'[Loop].pc \in Claimed => act[Loop].due \in Times
    BY <2>3 DEF IInv, HoldInv, Holds, LoopHolds, Actors
  <2>5. act'[Loop].pc \in Claimed => \A s \in Runs : runs'[s].slot # act'[Loop].due
    BY <1>4, <1>5, <2>3, <2>4, NoneAssumption DEF IInv, RunInv
  <2>6. act'[Loop].pc \in Claimed => slot'[act'[Loop].due].state = "running"
    BY <1>1, <2>3 DEF IInv, RunInv
  <2>7. \A s \in Runs : runs'[s].state = "none" => runs'[s].slot = None
    BY <1>4 DEF IInv, RunInv
  <2> QED
    BY <2>1, <2>2, <2>5, <2>6, <2>7 DEF RunInv
<1>8. RegisterInv'
  <2>1. active # r /\ (active # None => active \in Runs)
    BY <1>1, NoneAssumption DEF IInv, RegisterInv, ActiveIsRunning, Going, TypeOK
  <2>2. ActiveIsRunning'
    BY <1>1, <1>4, <2>1 DEF IInv, RegisterInv, ActiveIsRunning
  <2>3. ASSUME NEW b \in Actors, b # a, At(b, "register")'
        PROVE  /\ At(b, "register") /\ act'[b] = act[b] /\ act[b].run \in Runs
               /\ act[b].run # r /\ runs'[act[b].run] = runs[act[b].run]
    BY <1>1, <1>3, <1>4, <2>3 DEF At, IInv, RegisterInv
  <2>4. ASSUME NEW b \in Actors, At(b, "register")'
        PROVE  /\ act'[b].run \in Runs /\ runs'[act'[b].run].state # "none"
               /\ active' # act'[b].run
               /\ act'[b].run \in early' \/ runs'[act'[b].run].state \in Going
               /\ \A c \in Actors : At(c, "register")' /\ act'[c].run = act'[b].run => b = c
    <3>1. CASE b = a
      BY <1>1, <1>2, <1>3, <1>4, <2>1, <2>3, <3>1 DEF Going
    <3>2. CASE b # a
      BY <1>1, <1>2, <1>3, <2>3, <2>4, <3>2 DEF IInv, RegisterInv
    <3> QED
      BY <3>1, <3>2
  <2> QED
    BY <2>2, <2>4 DEF RegisterInv
<1> QED
  BY <1>7, <1>8

(* An occurrence ends, or its run is noted in it: no occurrence opens, and *)
(* the actor rests.                                                        *)
LEMMA SettleInv ==
  ASSUME IInv, NEW a \in Actors, finish_rejected(a) \/ attach_scheduled_run(a)
  PROVE  RunInv' /\ RegisterInv'
<1>1. Goes(a, Idle) /\ UNCHANGED <<runs, active, early>>
  BY DEF finish_rejected, attach_scheduled_run, SameMemory
<1>2. act'[a].pc = "idle" /\ \A b \in Actors \ {a} : act'[b] = act[b]
  BY <1>1, OnlyActor, Resting DEF IInv
<1>3. \A t \in Times : slot[t].state # "open" => slot'[t].state # "open"
  <2>1. ASSUME finish_rejected(a) PROVE \A t \in Times : slot[t].state # "open" => slot'[t].state # "open"
    BY <2>1 DEF finish_rejected, finish_slot, IInv, TypeOK
  <2>2. ASSUME attach_scheduled_run(a)
        PROVE  \A t \in Times : slot[t].state # "open" => slot'[t].state # "open"
    BY <2>2 DEF attach_scheduled_run, IInv, TypeOK
  <2> QED
    BY <2>1, <2>2
<1>4. a # Loop => \A t \in Times : slot'[t].state = slot[t].state
  <2>1. a # Loop => finish_rejected(a) /\ act[a].due = None
    BY DEF IInv, HoldInv, Holds, UserHolds, UserPlaces, finish_rejected, attach_scheduled_run, At
  <2> QED
    BY <2>1 DEF finish_rejected, finish_slot
<1>5. act'[Loop].pc \in Claimed => a # Loop /\ act'[Loop] = act[Loop] /\ act[Loop].due \in Times
  BY <1>2 DEF Claimed, Actors, IInv, HoldInv, Holds, LoopHolds
<1>6. RunInv'
  BY <1>1, <1>3, <1>4, <1>5 DEF IInv, RunInv, TypeOK, Instants
<1>7. \A b \in Actors : At(b, "register")' => At(b, "register") /\ act'[b] = act[b]
  BY <1>2 DEF At
<1>8. RegisterInv'
  BY <1>1, <1>7 DEF IInv, RegisterInv, ActiveIsRunning, At
<1> QED
  BY <1>6, <1>8

LEMMA EnterInv ==
  ASSUME IInv, NEW a \in Actors, register_active_run(a)
  PROVE  RunInv' /\ RegisterInv'
<1> DEFINE r == act[a].run
           x == IF act[a].due = None THEN Idle ELSE [act[a] EXCEPT !.pc = "attach"]
<1>1. At(a, "register") /\ Goes(a, x) /\ UNCHANGED <<slot, runs>>
  BY DEF register_active_run, SameDb
<1>2. x.pc \in {"idle", "attach"}
  BY DEF IInv, TypeOK, Idle
<1> HIDE DEF x
<1>3. act'[a].pc \in {"idle", "attach"} /\ \A b \in Actors \ {a} : act'[b] = act[b]
  BY <1>1, <1>2, OnlyActor DEF IInv
<1>4. act'[Loop].pc \in Claimed => act'[Loop] = act[Loop]
  BY <1>3 DEF Claimed, Actors
<1>5. RunInv'
  BY <1>1, <1>4 DEF IInv, RunInv
<1>6. ASSUME NEW b \in Actors, At(b, "register")'
      PROVE  b # a /\ At(b, "register") /\ act'[b] = act[b] /\ act[b].run # r
  BY <1>1, <1>3, <1>6 DEF At, IInv, RegisterInv
<1>7. \/ early' = early \ {r} /\ active' = active
      \/ early' = early /\ active' = r /\ runs[r].state \in Going
  BY <1>1 DEF register_active_run, IInv, RegisterInv
<1>8. ActiveIsRunning'
  BY <1>1, <1>7 DEF IInv, RegisterInv, ActiveIsRunning
<1>9. RegisterInv'
  <2>1. ASSUME NEW b \in Actors, At(b, "register")'
        PROVE  /\ act'[b].run \in Runs /\ runs'[act'[b].run].state # "none"
               /\ active' # act'[b].run
               /\ act'[b].run \in early' \/ runs'[act'[b].run].state \in Going
               /\ \A c \in Actors : At(c, "register")' /\ act'[c].run = act'[b].run => b = c
    BY <1>1, <1>6, <1>7, <2>1 DEF IInv, RegisterInv
  <2> QED
    BY <1>8, <2>1 DEF RegisterInv
<1> QED
  BY <1>5, <1>9

LEMMA CancelInv ==
  ASSUME IInv, NEW u \in Users, CancelRun(u)
  PROVE  RunInv' /\ RegisterInv'
<1>1. u \in Actors /\ u # Loop /\ UNCHANGED <<slot, active, early>>
  BY ActorsAssumption DEF Actors, CancelRun, SameDb, SameMemory
<1>2. \A r \in Runs : /\ runs'[r].slot = runs[r].slot
                      /\ runs'[r].state = runs[r].state
                         \/ (runs[r].state = "running" /\ runs'[r].state = "stopping")
  BY DEF CancelRun, IInv, TypeOK
<1>3. act'[u].pc \in {"idle", "cancelled"} /\ \A b \in Actors \ {u} : act'[b] = act[b]
  <2> DEFINE x == [Idle EXCEPT !.pc = "cancelled"]
  <2>1. Goes(u, x) \/ Goes(u, Idle)
    BY DEF CancelRun
  <2>2. x.pc = "cancelled" /\ Idle.pc = "idle"
    BY DEF Idle
  <2> HIDE DEF x
  <2> QED
    BY <1>1, <2>1, <2>2, OnlyActor DEF IInv
<1>4. act'[Loop] = act[Loop]
  BY <1>1, <1>3 DEF Actors
<1>5. RunInv'
  BY <1>1, <1>2, <1>4 DEF IInv, RunInv
<1>6. \A b \in Actors : At(b, "register")' => At(b, "register") /\ act'[b] = act[b]
  BY <1>3 DEF At
<1>7. \A r \in Runs : /\ runs[r].state # "none" => runs'[r].state # "none"
                      /\ runs[r].state \in Going => runs'[r].state \in Going
  BY <1>2 DEF Going
<1>8. ActiveIsRunning'
  BY <1>1, <1>7 DEF IInv, RegisterInv, ActiveIsRunning, TypeOK
<1>9. ASSUME NEW b \in Actors, At(b, "register")'
      PROVE  /\ act'[b].run \in Runs /\ runs'[act'[b].run].state # "none"
             /\ active' # act'[b].run
             /\ act'[b].run \in early' \/ runs'[act'[b].run].state \in Going
             /\ \A c \in Actors : At(c, "register")' /\ act'[c].run = act'[b].run => b = c
  BY <1>1, <1>6, <1>7, <1>9 DEF IInv, RegisterInv
<1> QED
  BY <1>5, <1>8, <1>9 DEF RegisterInv

LEMMA EndInv ==
  ASSUME IInv, NEW r \in Runs, RunEnds(r)
  PROVE  RunInv' /\ RegisterInv'
<1>1. UNCHANGED <<slot, act>> /\ runs[r].state \in Going
  BY DEF RunEnds, SameDb
<1>2. /\ runs'[r].state = "over" /\ runs'[r].slot = runs[r].slot
      /\ \A s \in Runs \ {r} : runs'[s] = runs[s]
  BY DEF RunEnds, IInv, TypeOK
<1>3. \/ active = r /\ active' = None /\ early' = early
      \/ active # r /\ active' = active /\ early' = early \cup {r}
  BY DEF RunEnds
<1>4. RunInv'
  <2>1. \A s \in Runs : /\ runs'[s].slot = runs[s].slot
                        /\ runs'[s].state = "none" => runs[s].state = "none"
    BY <1>1, <1>2
  <2> QED
    BY <1>1, <2>1 DEF IInv, RunInv
<1>5. ActiveIsRunning'
  BY <1>2, <1>3, NoneAssumption DEF IInv, RegisterInv, ActiveIsRunning, TypeOK
<1>6. ASSUME NEW b \in Actors, At(b, "register")'
      PROVE  /\ act'[b].run \in Runs /\ runs'[act'[b].run].state # "none"
             /\ active' # act'[b].run
             /\ act'[b].run \in early' \/ runs'[act'[b].run].state \in Going
             /\ \A c \in Actors : At(c, "register")' /\ act'[c].run = act'[b].run => b = c
  BY <1>1, <1>2, <1>3, <1>6, NoneAssumption DEF IInv, RegisterInv, At
<1> QED
  BY <1>4, <1>5, <1>6 DEF RegisterInv

LEMMA BookInv ==
  ASSUME IInv, NEW r \in Runs, Book(r)
  PROVE  RunInv' /\ RegisterInv'
<1>1. UNCHANGED <<active, early, act>> /\ runs[r].state = "over"
  BY DEF Book, SameMemory
<1>2. /\ runs'[r].state = "gone" /\ runs'[r].slot = runs[r].slot
      /\ \A s \in Runs \ {r} : runs'[s] = runs[s]
  BY DEF Book, IInv, TypeOK
<1>3. /\ \A t \in Times : slot[t].state # "open" => slot'[t].state # "open"
      /\ \A t \in Times : t # runs[r].slot => slot'[t] = slot[t]
  BY DEF Book, finish_slot, IInv, TypeOK
<1>4. RunInv'
  <2>1. \A s \in Runs : /\ runs'[s].slot = runs[s].slot /\ runs[s].slot \in Instants
                        /\ runs'[s].state = "none" => runs[s].state = "none"
    BY <1>1, <1>2 DEF IInv, TypeOK
  <2>2. act[Loop].pc \in Claimed => /\ act[Loop].due \in Times
                                    /\ slot'[act[Loop].due].state = "running"
    BY <1>3 DEF IInv, RunInv, HoldInv, Holds, LoopHolds, Actors
  <2> QED
    BY <1>1, <1>3, <2>1, <2>2 DEF IInv, RunInv, Instants
<1>5. ActiveIsRunning'
  BY <1>1, <1>2 DEF IInv, RegisterInv, ActiveIsRunning, TypeOK, Going
<1>6. ASSUME NEW b \in Actors, At(b, "register")'
      PROVE  /\ act'[b].run \in Runs /\ runs'[act'[b].run].state # "none"
             /\ active' # act'[b].run
             /\ act'[b].run \in early' \/ runs'[act'[b].run].state \in Going
             /\ \A c \in Actors : At(c, "register")' /\ act'[c].run = act'[b].run => b = c
  BY <1>1, <1>2, <1>6 DEF IInv, RegisterInv, At, Going
<1> QED
  BY <1>4, <1>5, <1>6 DEF RegisterInv

LEMMA CrashInv ==
  ASSUME IInv, Crash
  PROVE  RunInv' /\ RegisterInv'
<1>1. /\ \A a \in Actors : act'[a].pc = "idle"
      /\ active' = None /\ UNCHANGED slot
  BY Resting DEF Crash, SameDb
<1>2. \A s \in Runs : /\ runs'[s].slot = runs[s].slot
                      /\ runs'[s].state = "none" => runs[s].state = "none"
  BY DEF Crash, IInv, TypeOK
<1>3. act'[Loop].pc \notin Claimed
  BY <1>1 DEF Actors, Claimed
<1>4. RunInv'
  BY <1>1, <1>2, <1>3 DEF IInv, RunInv
<1> QED
  BY <1>1, <1>4 DEF RegisterInv, ActiveIsRunning, At

LEMMA Step ==
  ASSUME IInv, [Next]_vars
  PROVE  IInv'
<1>1. TypeOK' /\ HoldInv'
  BY TypeStep DEF IInv
<1>2. ASSUME NEW a \in Actors, Dispatch(a) PROVE RunInv' /\ RegisterInv'
  BY <1>2, DispatchQuiet, QuietInv, ClaimInv, SubmitInv, SettleInv, EnterInv DEF Dispatch, IInv
<1>3. CASE RunLoop \/ LoopError
  <2>1. CASE Dispatch(Loop)
    BY <1>1, <1>2, <2>1 DEF Actors, IInv
  <2>2. CASE \/ LoopNow \/ LoopList \/ reject_schedule \/ LoopPass \/ LoopAdvance \/ LoopError
    <3>1. Bystands
      BY <2>2, LoopQuiet, Zenon DEF IInv
    <3> QED
      BY <1>1, <3>1, QuietInv DEF IInv
  <2> QED
    BY <1>3, <2>1, <2>2 DEF RunLoop
<1>4. ASSUME NEW u \in Users, UserGoes(u) \/ UserCalls(u) PROVE RunInv' /\ RegisterInv'
  BY <1>2, <1>4, UserQuiet, QuietInv, CancelInv DEF Actors, IInv
<1>5. CASE UNCHANGED vars \/ ExtensionGoes \/ Register \/ Unregister \/ Tick
  <2>1. Bystands
    BY <1>5, ElsewhereQuiet, Zenon
  <2> QED
    BY <1>1, <2>1, QuietInv DEF IInv
<1> QED
  BY <1>1, <1>3, <1>4, <1>5, EndInv, BookInv, CrashInv DEF Next, IInv

LEMMA InitIInv == Init => IInv
<1> SUFFICES ASSUME Init PROVE IInv
  OBVIOUS
<1> USE DEF Init
<1>1. row \in Tasks \cup {None}
  <2>1. {"user", None} \subseteq Reasons /\ {"active", "suspended", "cancelled"} \subseteq States
    BY DEF Reasons, States
  <2>2. \A s \in Schedules : \A c \in s \cup {None} : c \in Instants
    BY ScheduleAssumption DEF Instants
  <2>3. ASSUME NEW s \in Schedules, NEW c \in s \cup {None}
        PROVE  [ schedule |-> s, enabled |-> TRUE, cursor |-> c,
                 state |-> "active", reason |-> None ] \in Tasks
    BY <2>1, <2>2, <2>3 DEF Tasks
  <2>4. ASSUME NEW s \in Schedules, NEW left \in {<<"suspended", "user">>, <<"cancelled", None>>}
        PROVE  [ schedule |-> s, enabled |-> FALSE, cursor |-> None,
                 state |-> left[1], reason |-> left[2] ] \in Tasks
    <3>1. left[1] \in States /\ left[2] \in Reasons /\ None \in Instants
      BY <2>1, <2>4 DEF Instants
    <3> QED
      BY <3>1, <2>4 DEF Tasks
  <2> QED
    BY <2>3, <2>4
<1>2. TypeOK
  <2>1. now \in Times /\ calls \in 0..MaxCalls /\ faults \in 0..MaxFaults /\ orphaned \subseteq Times
    BY TimerBoundsAssumption, ScheduleAssumption
  <2>2. slot \in [Times -> [state : {"open", "running", "ended"}, run : Runs \cup {None}]]
    OBVIOUS
  <2>3. act \in [Actors -> ActType]
    BY Resting
  <2>4. runs \in [Runs -> [state : {"none", "over", "gone"} \cup Going, slot : Instants]]
    BY DEF Instants
  <2>5. /\ registered \in BOOLEAN /\ active \in Runs \cup {None} /\ early \subseteq Runs
        /\ extension \in [pc : {"idle", "listing", "resuming", "suspending"}, next : Instants]
    BY DEF Rest, Instants
  <2> QED
    BY <1>1, <2>1, <2>2, <2>3, <2>4, <2>5 DEF TypeOK, ActType
<1>3. HoldInv
  BY Resting DEF HoldInv
<1>4. RunInv /\ RegisterInv
  BY NoneAssumption, Resting DEF RunInv, RegisterInv, ActiveIsRunning, At, Actors, Claimed
<1> QED
  BY <1>2, <1>3, <1>4 DEF IInv

LEMMA Invariant == Spec => []IInv
  BY InitIInv, Step, PTL DEF Spec

-----------------------------------------------------------------------------
(* The users' intent. *)

LEMMA DisabledRows ==
  ASSUME row \in Tasks, ~row.enabled
  PROVE  /\ ~is_schedulable(row)
         /\ \A c : ~is_schedulable(set_wakeup(c)) /\ ~is_schedulable(resume_from_missing(c))
         /\ \A why : ~is_schedulable(set_dependency_missing(why))
         /\ ~is_schedulable(suspend_active_for_runner)
         /\ \A s, why : ~is_schedulable(set_state(s, FALSE, why))
<1> USE DEF Tasks, is_schedulable
<1>1. ~is_schedulable(row)
  OBVIOUS
<1>2. \A c : ~is_schedulable(set_wakeup(c))
  BY DEF set_wakeup
<1>3. \A c : ~is_schedulable(resume_from_missing(c))
  BY DEF resume_from_missing
<1>4. \A why : ~is_schedulable(set_dependency_missing(why))
  BY DEF set_dependency_missing
<1>5. ~is_schedulable(suspend_active_for_runner)
  BY <1>1, Zenon DEF suspend_active_for_runner
<1>6. \A s, why : ~is_schedulable(set_state(s, FALSE, why))
  BY DEF set_state
<1> QED
  BY <1>1, <1>2, <1>3, <1>4, <1>5, <1>6

LEMMA IntentStep ==
  ASSUME IInv, [Next]_vars, row # None, ~row.enabled, is_schedulable(row')
  PROVE  UserActs
<1>1. row \in Tasks
  BY DEF IInv, TypeOK
<1>2. row' # row
  BY <1>1, DisabledRows
<1> HIDE DEF is_schedulable
<1>3. ASSUME NEW a \in Actors, Dispatch(a) PROVE FALSE
  <2>1. WriteMissing(a)
    BY <1>2, <1>3 DEF Dispatch, Claim, Check, SubmitRefused, SubmitAccepted, finish_rejected,
       register_active_run, attach_scheduled_run, SameDb
  <2> QED
    BY <1>1, <2>1, DisabledRows DEF WriteMissing
<1>4. ~(RunLoop \/ LoopError)
  <2>1. RunLoop \/ LoopError => reject_schedule \/ LoopPass \/ LoopAdvance
    BY <1>2, <1>3 DEF RunLoop, LoopNow, LoopList, LoopError, SameDb, Actors
  <2> QED
    BY <1>1, <1>2, <2>1, DisabledRows DEF reject_schedule, LoopPass, LoopAdvance
<1>5. ~(ExtensionGoes \/ Register \/ Unregister)
  BY <1>1, <1>2, DisabledRows DEF ExtensionGoes, ListMissing, ResumeMissing, SuspendMissing,
     Register, Unregister, SameDb
<1>6. ~(Tick \/ Crash \/ \E r \in Runs : RunEnds(r) \/ Book(r)) /\ ~(UNCHANGED vars)
  BY <1>2 DEF Tick, Crash, RunEnds, Book, SameDb, vars
<1>7. PICK u \in Users : UserGoes(u) \/ UserCalls(u)
  BY <1>4, <1>5, <1>6 DEF Next
<1>8. u \in Actors
  BY DEF Actors
<1>9. CASE UserCalls(u)
  <2>1. Calls(u)
    BY <1>9, Zenon DEF UserCalls, SaveTask, DeleteTask, SuspendTask, ResumeGet, CancelGet, RunNow
  <2>2. calls \in Nat
    BY TimerBoundsAssumption DEF IInv, TypeOK
  <2> QED
    BY <2>1, <2>2 DEF Calls, UserActs
<1>10. CASE UserGoes(u)
  <2>1. ResumeState(u)
    <3>1. ~CheckNow(u) /\ ~CancelRun(u)
      BY <1>2 DEF CheckNow, CancelRun, SameDb
    <3>2. ~ResumeWakeup(u) /\ ~CancelState(u)
      BY <1>1, DisabledRows DEF ResumeWakeup, CancelState
    <3> QED
      BY <1>3, <1>8, <1>10, <3>1, <3>2 DEF UserGoes
  <2>2. act[u].pc = "resuming" /\ act'[u].pc = "waking"
    BY <1>8, <2>1 DEF ResumeState, At, Goes, IInv, TypeOK
  <2> QED
    BY <2>2 DEF UserActs
<1> QED
  BY <1>7, <1>9, <1>10

-----------------------------------------------------------------------------
(* The occurrences. *)

LEMMA SameOccurrences ==
  ASSUME \A t \in Times : slot'[t].state = slot[t].state,
         \A r \in Runs : runs'[r].slot = runs[r].slot
  PROVE  UNCHANGED <<Stage, Starts>>
<1>1. Stage' = Stage
  BY DEF Stage
<1>2. \A t \in Times : {r \in Runs : runs'[r].slot = t} = {r \in Runs : runs[r].slot = t}
  OBVIOUS
<1>3. Starts' = Starts
  BY <1>2 DEF Starts
<1> QED
  BY <1>1, <1>3

(* The unique key: an occurrence is taken when it is open. *)
LEMMA ClaimTakes ==
  ASSUME IInv, NEW a \in Actors, Claim(a), slot[act[a].due].state = "open"
  PROVE  Once!Next
<1> DEFINE t == act[a].due
<1>1. t \in Times
  BY DEF IInv, HoldInv, Holds, UserHolds, UserPlaces, LoopHolds, Claim, At
<1>2. slot' = [slot EXCEPT ![t].state = "running"] /\ UNCHANGED runs
  BY DEF Claim
<1>3. /\ slot'[t].state = "running" /\ \A s \in Times \ {t} : slot'[s] = slot[s]
  BY <1>1, <1>2 DEF IInv, TypeOK
<1> HIDE DEF t
<1>4. slot[t].state = "open"
  BY DEF t
<1>5. Stage[t] = "open" /\ Stage' = [Stage EXCEPT ![t] = "taken"]
  BY <1>1, <1>3, <1>4 DEF Stage
<1>6. UNCHANGED Starts
  BY <1>2 DEF Starts
<1> QED
  BY <1>1, <1>5, <1>6 DEF Once!Next, Once!Take

LEMMA SubmitStarts ==
  ASSUME IInv, NEW r \in Runs, SubmitAccepted(Loop, r)
  PROVE  Once!Next
<1> DEFINE t == act[Loop].due
<1>1. /\ t \in Times /\ slot[t].state = "running" /\ \A s \in Runs : runs[s].slot # t
  BY DEF IInv, HoldInv, Holds, LoopHolds, RunInv, Claimed, SubmitAccepted, At, Actors
<1>2. /\ runs'[r].slot = t /\ \A s \in Runs \ {r} : runs'[s] = runs[s]
      /\ runs[r].slot = None /\ UNCHANGED slot
  BY DEF SubmitAccepted, IInv, TypeOK, RunInv, SameDb
<1> HIDE DEF t
<1>3. {s \in Runs : runs[s].slot = t} = {} /\ {s \in Runs : runs'[s].slot = t} = {r}
  BY <1>1, <1>2
<1>4. \A x \in Times \ {t} : {s \in Runs : runs'[s].slot = x} = {s \in Runs : runs[s].slot = x}
  BY <1>1, <1>2, NoneAssumption
<1>5. Starts[t] = 0
  BY <1>1, <1>3, FS_EmptySet DEF Starts
<1>6. Starts' = [Starts EXCEPT ![t] = 1]
  <2>1. Cardinality({r}) = 1
    BY FS_Singleton
  <2>2. /\ Starts' = [x \in Times |-> Cardinality({s \in Runs : runs'[s].slot = x})]
        /\ Starts  = [x \in Times |-> Cardinality({s \in Runs : runs[s].slot = x})]
    BY DEF Starts
  <2>3. Starts'[t] = 1 /\ \A x \in Times \ {t} : Starts'[x] = Starts[x]
    BY <1>1, <1>3, <1>4, <2>1, <2>2
  <2> QED
    BY <1>1, <2>2, <2>3
<1>7. Stage[t] = "taken" /\ UNCHANGED Stage
  BY <1>1, <1>2 DEF Stage
<1> QED
  BY <1>1, <1>5, <1>6, <1>7 DEF Once!Next, Once!Start

(* The end is guarded by the state of the row. *)
LEMMA FinishEnds ==
  ASSUME IInv, NEW t \in Instants, NEW run \in Runs \cup {None}, slot' = finish_slot(t, run),
         \A r \in Runs : runs'[r].slot = runs[r].slot
  PROVE  Once!Next \/ UNCHANGED <<Stage, Starts>>
<1>1. CASE t # None /\ slot[t].state = "running"
  <2>1. t \in Times
    BY <1>1 DEF Instants
  <2>2. slot'[t].state = "ended" /\ \A s \in Times \ {t} : slot'[s] = slot[s]
    BY <1>1, <2>1 DEF finish_slot, IInv, TypeOK
  <2>3. Stage[t] = "taken" /\ Stage' = [Stage EXCEPT ![t] = "ended"]
    BY <1>1, <2>1, <2>2 DEF Stage
  <2>4. \A x \in Times : {r \in Runs : runs'[r].slot = x} = {r \in Runs : runs[r].slot = x}
    OBVIOUS
  <2>5. UNCHANGED Starts
    BY <2>4 DEF Starts
  <2> QED
    BY <2>1, <2>3, <2>5 DEF Once!Next, Once!End
<1>2. CASE ~(t # None /\ slot[t].state = "running")
  BY <1>2, SameOccurrences DEF finish_slot
<1> QED
  BY <1>1, <1>2

LEMMA OnceStep ==
  ASSUME IInv, [Next]_vars
  PROVE  [Once!Next]_<<Stage, Starts>>
<1> DEFINE Well == Once!Next \/ UNCHANGED <<Stage, Starts>>
<1>1. Unmoved => Well
  BY SameOccurrences DEF Unmoved
<1>2. ASSUME NEW a \in Actors, Dispatch(a) PROVE Well
  <2>1. CASE Claim(a)
    <3>1. slot[act[a].due].state # "open" => UNCHANGED <<slot, runs>>
      BY <2>1 DEF Claim
    <3> QED
      BY <2>1, <3>1, ClaimTakes, SameOccurrences
  <2>2. CASE Check(a) \/ SubmitRefused(a) \/ WriteMissing(a) \/ register_active_run(a)
    BY <2>2, SameOccurrences DEF Check, SubmitRefused, WriteMissing, register_active_run, SameDb
  <2>3. ASSUME NEW r \in Runs, SubmitAccepted(a, r) PROVE Well
    <3>1. CASE a = Loop
      BY <2>3, <3>1, SubmitStarts
    <3>2. CASE a # Loop
      <4>1. act[a].due = None /\ runs[r].slot = None
        BY <2>3, <3>2 DEF SubmitAccepted, At, IInv, HoldInv, Holds, UserHolds, RunInv
      <4>2. \A s \in Runs : runs'[s].slot = runs[s].slot
        BY <2>3, <4>1 DEF SubmitAccepted, IInv, TypeOK
      <4> QED
        BY <2>3, <4>2, SameOccurrences DEF SubmitAccepted, SameDb
    <3> QED
      BY <3>1, <3>2
  <2>4. CASE finish_rejected(a)
    <3>1. act[a].due \in Instants /\ None \in Runs \cup {None}
      BY DEF IInv, TypeOK
    <3> QED
      BY <2>4, <3>1, FinishEnds DEF finish_rejected
  <2>5. CASE attach_scheduled_run(a)
    <3>1. \A t \in Times : slot'[t].state = slot[t].state
      BY <2>5 DEF attach_scheduled_run, IInv, TypeOK
    <3> QED
      BY <2>5, <3>1, SameOccurrences DEF attach_scheduled_run
  <2> QED
    BY <1>2, <2>1, <2>2, <2>3, <2>4, <2>5 DEF Dispatch
<1>3. ASSUME NEW u \in Users, CancelRun(u) PROVE Well
  <2>1. \A s \in Runs : runs'[s].slot = runs[s].slot
    BY <1>3 DEF CancelRun, IInv, TypeOK
  <2> QED
    BY <1>3, <2>1, SameOccurrences DEF CancelRun, SameDb
<1>4. ASSUME NEW r \in Runs, RunEnds(r) PROVE Well
  <2>1. \A s \in Runs : runs'[s].slot = runs[s].slot
    BY <1>4 DEF RunEnds, IInv, TypeOK
  <2> QED
    BY <1>4, <2>1, SameOccurrences DEF RunEnds, SameDb
<1>5. ASSUME NEW r \in Runs, Book(r) PROVE Well
  <2>1. (\A s \in Runs : runs'[s].slot = runs[s].slot) /\ runs[r].slot \in Instants
    BY <1>5 DEF Book, IInv, TypeOK
  <2> QED
    BY <1>5, <2>1, FinishEnds DEF Book
<1>6. ASSUME Crash PROVE Well
  <2>1. \A s \in Runs : runs'[s].slot = runs[s].slot
    BY <1>6 DEF Crash, IInv, TypeOK
  <2> QED
    BY <1>6, <2>1, SameOccurrences DEF Crash, SameDb
<1>7. Bystands => Well
  BY <1>1 DEF Bystands
<1> HIDE DEF Well
<1>8. RunLoop \/ LoopError => Well
  <2>1. CASE Dispatch(Loop)
    BY <1>2, <2>1 DEF Actors
  <2>2. CASE \/ LoopNow \/ LoopList \/ reject_schedule \/ LoopPass \/ LoopAdvance \/ LoopError
    <3>1. Bystands
      BY <2>2, LoopQuiet, Zenon DEF IInv
    <3> QED
      BY <1>7, <3>1
  <2> QED
    BY <2>1, <2>2 DEF RunLoop
<1>9. ASSUME NEW u \in Users, UserGoes(u) \/ UserCalls(u) PROVE Well
  BY <1>2, <1>3, <1>7, <1>9, UserQuiet DEF Actors, IInv
<1>10. ExtensionGoes \/ Register \/ Unregister \/ Tick \/ UNCHANGED vars => Well
  <2>1. ExtensionGoes \/ Register \/ Unregister \/ Tick \/ UNCHANGED vars => Bystands
    BY ElsewhereQuiet, Zenon
  <2> QED
    BY <1>7, <2>1
<1>11. Well
  <2>1. CASE Next
    <3>1. \/ RunLoop \/ LoopError
          \/ \E u \in Users : UserGoes(u) \/ UserCalls(u)
          \/ ExtensionGoes \/ Register \/ Unregister \/ Tick
          \/ \E r \in Runs : RunEnds(r) \/ Book(r)
          \/ Crash
      BY <2>1, Zenon DEF Next
    <3>2. (\E u \in Users : UserGoes(u) \/ UserCalls(u)) => Well
      BY <1>9
    <3>3. (\E r \in Runs : RunEnds(r) \/ Book(r)) => Well
      BY <1>4, <1>5
    <3> QED
      BY <1>6, <1>8, <1>10, <3>1, <3>2, <3>3
  <2> QED
    BY <1>10, <2>1
<1> QED
  BY <1>11 DEF Well

-----------------------------------------------------------------------------
(* Every variable of the timer keeps its type: rows, occurrences, runs, and *)
(* what the loop and each call hold (timer_core.rs, store.rs).              *)
THEOREM TypeCorrect == Spec => []TypeOK
  BY Invariant, PTL DEF IInv

(* What active_runs names goes on, although a run may end before it is     *)
(* registered (register_active_run, the completion hook).                  *)
THEOREM ActiveGoesOn == Spec => []ActiveIsRunning
<1>1. IInv => ActiveIsRunning
  BY DEF IInv, RegisterInv
<1> QED
  BY <1>1, Invariant, PTL

(* Nobody but a user schedules what a user has disabled: neither the loop  *)
(* with what it read before, nor a registration.                           *)
THEOREM UsersDecide == Spec => IntentKept
<1> DEFINE Kept == row # None /\ ~row.enabled /\ is_schedulable(row') => UserActs
<1>1. IInv /\ [Next]_vars => [Kept]_vars
  BY IntentStep
<1> QED
  BY <1>1, Invariant, PTL DEF Spec, IntentKept

(* The timer implements Occurrences: an occurrence is taken once, starts   *)
(* one run at most and ends once (claim_scheduled_run, finish_scheduled_run *)
(* and the dispatch between them).                                         *)
THEOREM ImplementsOccurrences == Spec => OnceEach
<1>1. Init => Once!Init
  <2> SUFFICES ASSUME Init PROVE Once!Init
    OBVIOUS
  <2>1. \A t \in Times : {r \in Runs : runs[r].slot = t} = {}
    BY NoneAssumption DEF Init
  <2>2. Starts = [t \in Times |-> 0]
    BY <2>1, FS_EmptySet DEF Starts
  <2>3. Stage = [t \in Times |-> "open"]
    BY DEF Init, Stage
  <2> QED
    BY <2>2, <2>3 DEF Once!Init
<1>2. IInv /\ [Next]_vars => [Once!Next]_<<Stage, Starts>>
  BY OnceStep
<1> QED
  BY <1>1, <1>2, Invariant, PTL DEF Spec, OnceEach, Once!Spec
=============================================================================
