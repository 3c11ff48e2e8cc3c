-------------------------- MODULE RunManagerProofs --------------------------
(***************************************************************************)
(* Proofs about RunManager for every set of runs, devices and waiters and  *)
(* every size of the archive: a device has one run, an end is one and the  *)
(* same everywhere, the journal is true, and who waits is told the truth.  *)
(***************************************************************************)
EXTENDS RunManager, TLAPS, SequenceTheorems

(***************************************************************************)
(* The archive as a sequence without repetition.                           *)
(***************************************************************************)
In(h, r) == \E i \in DOMAIN h : h[i] = r
Distinct(h) == \A i, j \in DOMAIN h : h[i] = h[j] => i = j

LEMMA AppendTo ==
  ASSUME NEW S, NEW s \in Seq(S), NEW x \in S
  PROVE  /\ Append(s, x) \in Seq(S) /\ Len(Append(s, x)) = Len(s) + 1
         /\ DOMAIN Append(s, x) = 1..(Len(s) + 1)
         /\ \A i \in 1..Len(s) : Append(s, x)[i] = s[i]
         /\ Append(s, x)[Len(s) + 1] = x
  OBVIOUS

(* What finalize does to a full archive, and to one with room. *)
LEMMA Shifted ==
  ASSUME NEW h \in Seq(Runs), NEW r \in Runs, Distinct(h), ~In(h, r),
         h # <<>>, NEW g, g = Append(Tail(h), r)
  PROVE  /\ g \in Seq(Runs) /\ Distinct(g) /\ Len(g) = Len(h) /\ In(g, r)
         /\ \A q : In(g, q) => q = r \/ In(h, q)
         /\ \A q : In(h, q) => In(g, q) \/ q = Head(h)
<1>a. Len(h) \in Nat
  BY LenProperties
<1>b. h \in [1..Len(h) -> Runs] /\ Len(h) \in Nat /\ DOMAIN h = 1..Len(h)
  BY LenProperties
<1> DEFINE t == Tail(h)
<1>1. /\ t \in Seq(Runs) /\ Len(t) = Len(h) - 1 /\ DOMAIN t = 1..(Len(h) - 1)
      /\ \A i \in 1..(Len(h) - 1) : t[i] = h[i + 1]
      /\ Head(h) = h[1] /\ Len(h) >= 1
  BY <1>b, HeadTailProperties, LenProperties, EmptySeq
<1> HIDE DEF t
<1>2. g = Append(t, r)
  BY DEF t
<1>3. /\ g \in Seq(Runs) /\ Len(g) = Len(h) /\ DOMAIN g = 1..Len(h)
      /\ \A i \in 1..(Len(h) - 1) : g[i] = h[i + 1]
      /\ g[Len(h)] = r
  <2>1. /\ g \in Seq(Runs) /\ Len(g) = Len(t) + 1 /\ DOMAIN g = 1..(Len(t) + 1)
        /\ \A i \in 1..Len(t) : g[i] = t[i]
        /\ g[Len(t) + 1] = r
    BY <1>1, <1>2, AppendTo
  <2>2. Len(t) + 1 = Len(h)
    BY <1>b, <1>1
  <2> QED
    BY <1>1, <2>1, <2>2
<1>4. \A i \in 1..(Len(h) - 1) : i + 1 \in 1..Len(h) /\ g[i] = h[i + 1] /\ g[i] # r
  <2> SUFFICES ASSUME NEW i \in 1..(Len(h) - 1)
               PROVE  i + 1 \in 1..Len(h) /\ g[i] = h[i + 1] /\ g[i] # r
    OBVIOUS
  <2>1. i + 1 \in 1..Len(h)
    BY <1>b, <1>1
  <2> QED
    BY <1>b, <1>3, <2>1 DEF In
<1>5. Distinct(g)
  <2> SUFFICES ASSUME NEW i \in 1..Len(h), NEW j \in 1..Len(h), g[i] = g[j]
               PROVE  i = j
    BY <1>3 DEF Distinct
  <2>0. \A k \in 1..Len(h) : g[k] = r => k = Len(h)
    <3> SUFFICES ASSUME NEW k \in 1..Len(h), k # Len(h) PROVE g[k] # r
      OBVIOUS
    <3>1. k \in 1..(Len(h) - 1)
      BY <1>a
    <3> QED
      BY <1>4, <3>1
  <2>1. CASE i = Len(h) \/ j = Len(h)
    BY <1>3, <2>0, <2>1
  <2>2. CASE i # Len(h) /\ j # Len(h)
    <3>1. i \in 1..(Len(h) - 1) /\ j \in 1..(Len(h) - 1)
      BY <1>a, <2>2
    <3>2. i + 1 = j + 1
      BY <1>b, <1>4, <3>1 DEF Distinct
    <3> QED
      BY <3>2
  <2> QED
    BY <2>1, <2>2
<1>6. In(g, r) /\ \A q : In(g, q) => q = r \/ In(h, q)
  <2>1. Len(h) \in DOMAIN g
    <3>1. Len(h) \in 1..Len(h)
      BY <1>a, <1>1
    <3> QED
      BY <1>3, <3>1
  <2>2. ASSUME NEW i \in 1..Len(h) PROVE g[i] = r \/ In(h, g[i])
    <3>1. CASE i = Len(h)
      BY <1>3, <3>1
    <3>2. CASE i # Len(h)
      <4>1. i \in 1..(Len(h) - 1)
        BY <1>a, <3>2
      <4> QED
        BY <1>b, <1>4, <4>1 DEF In
    <3> QED
      BY <3>1, <3>2
  <2> QED
    BY <1>3, <2>1, <2>2 DEF In
<1>7. ASSUME NEW q, In(h, q) PROVE In(g, q) \/ q = Head(h)
  <2>1. PICK i \in 1..Len(h) : h[i] = q
    BY <1>b, <1>7 DEF In
  <2>2. CASE i = 1
    BY <1>1, <2>1, <2>2
  <2>3. CASE i # 1
    <3>1. i - 1 \in 1..(Len(h) - 1) /\ (i - 1) + 1 = i
      BY <1>b, <2>1, <2>3
    <3>2. i - 1 \in 1..Len(h)
      BY <1>a, <3>1
    <3>3. i - 1 \in DOMAIN g /\ g[i - 1] = q
      BY <1>3, <2>1, <3>1, <3>2
    <3> QED
      BY <3>3 DEF In
  <2> QED
    BY <2>2, <2>3
<1> QED
  BY <1>3, <1>5, <1>6, <1>7

LEMMA Pushed ==
  ASSUME NEW h \in Seq(Runs), NEW r \in Runs, Distinct(h), ~In(h, r),
         NEW g, g = Append(h, r)
  PROVE  /\ g \in Seq(Runs) /\ Distinct(g) /\ Len(g) = Len(h) + 1 /\ In(g, r)
         /\ \A q : In(g, q) <=> q = r \/ In(h, q)
<1>a. Len(h) \in Nat
  BY LenProperties
<1>b. h \in [1..Len(h) -> Runs] /\ Len(h) \in Nat /\ DOMAIN h = 1..Len(h)
  BY LenProperties
<1>1. /\ g \in Seq(Runs) /\ Len(g) = Len(h) + 1 /\ DOMAIN g = 1..(Len(h) + 1)
      /\ \A i \in 1..Len(h) : g[i] = h[i]
      /\ g[Len(h) + 1] = r
  BY <1>b, AppendTo
<1>2. Distinct(g)
  <2> SUFFICES ASSUME NEW i \in 1..(Len(h) + 1), NEW j \in 1..(Len(h) + 1), g[i] = g[j]
               PROVE  i = j
    BY <1>1 DEF Distinct
  <2>1. \A k \in 1..(Len(h) + 1) : g[k] = r => k = Len(h) + 1
    <3> SUFFICES ASSUME NEW k \in 1..(Len(h) + 1), k # Len(h) + 1 PROVE g[k] # r
      OBVIOUS
    <3>1. k \in 1..Len(h)
      BY <1>a
    <3> QED
      BY <1>b, <1>1, <3>1 DEF In
  <2>2. CASE i = Len(h) + 1 \/ j = Len(h) + 1
    BY <1>1, <2>1, <2>2
  <2>3. CASE i # Len(h) + 1 /\ j # Len(h) + 1
    <3>1. i \in 1..Len(h) /\ j \in 1..Len(h)
      BY <1>a, <2>3
    <3> QED
      BY <1>b, <1>1, <3>1 DEF Distinct
  <2> QED
    BY <2>2, <2>3
<1>3. In(g, r) /\ \A q : In(g, q) <=> q = r \/ In(h, q)
  BY <1>b, <1>1 DEF In
<1> QED
  BY <1>1, <1>2, <1>3

(* What the removal of a record does to the archive. *)
LEMMA Removed ==
  ASSUME NEW h \in Seq(Runs), NEW r \in Runs, Distinct(h), NEW g, g = Without(h, r)
  PROVE  /\ g \in Seq(Runs) /\ Distinct(g) /\ Len(g) <= Len(h)
         /\ \A q : In(g, q) <=> (In(h, q) /\ q # r)
<1>0. Len(h) \in Nat
  BY LenProperties
<1>1. h \in [1..Len(h) -> Runs] /\ Len(h) \in Nat /\ DOMAIN h = 1..Len(h)
  BY LenProperties
<1>2. CASE ~In(h, r)
  <2>1. g = h
    BY <1>2 DEF Without, In
  <2> QED
    BY <1>1, <1>2, <2>1
<1>3. CASE In(h, r)
  <2> DEFINE k == CHOOSE i \in DOMAIN h : h[i] = r
  <2>1. k \in 1..Len(h) /\ h[k] = r
    BY <1>1, <1>3 DEF In
  <2>2. g = [i \in 1..(Len(h) - 1) |-> IF i < k THEN h[i] ELSE h[i + 1]]
    BY <1>3 DEF Without, In
  <2> HIDE DEF k
  <2>3. Len(h) - 1 \in Nat /\ \A i \in 1..(Len(h) - 1) : i \in 1..Len(h) /\ i + 1 \in 1..Len(h)
    BY <1>1, <2>1
  <2>4. g \in [1..(Len(h) - 1) -> Runs]
    BY <1>1, <2>2, <2>3
  <2>5. g \in Seq(Runs) /\ Len(g) = Len(h) - 1 /\ DOMAIN g = 1..(Len(h) - 1)
    BY <2>3, <2>4
  <2>6. \A i \in 1..(Len(h) - 1) : g[i] = IF i < k THEN h[i] ELSE h[i + 1]
    BY <2>2
  <2> DEFINE from(i) == IF i < k THEN i ELSE i + 1
  <2>a. ASSUME NEW i \in 1..(Len(h) - 1)
        PROVE  from(i) \in DOMAIN h /\ g[i] = h[from(i)] /\ from(i) # k
    <3>1. CASE i < k
      BY <1>1, <2>1, <2>3, <2>6, <3>1
    <3>2. CASE ~(i < k)
      BY <1>1, <2>1, <2>3, <2>6, <3>2
    <3> QED
      BY <3>1, <3>2
  <2>b. \A i, j \in 1..(Len(h) - 1) : from(i) = from(j) => i = j
    BY <1>1, <2>1
  <2> HIDE DEF from
  <2>7. Distinct(g)
    BY <2>5, <2>a, <2>b DEF Distinct
  <2>8. ASSUME NEW q, In(g, q) PROVE In(h, q) /\ q # r
    <3>1. PICK i \in 1..(Len(h) - 1) : g[i] = q
      BY <2>5, <2>8 DEF In
    <3>2. from(i) \in DOMAIN h /\ h[from(i)] = q /\ from(i) # k
      BY <2>a, <3>1
    <3> QED
      BY <1>1, <2>1, <3>2 DEF In, Distinct
  <2>9. ASSUME NEW q, In(h, q), q # r PROVE In(g, q)
    <3>1. PICK i \in 1..Len(h) : h[i] = q
      BY <1>1, <2>9 DEF In
    <3>2. i # k
      BY <2>1, <2>9, <3>1
    <3>3. CASE i < k
      <4>1. i \in 1..(Len(h) - 1) /\ g[i] = q
        BY <1>1, <2>1, <2>6, <3>1, <3>3
      <4> QED
        BY <2>5, <4>1 DEF In
    <3>4. CASE i > k
      <4>1. i - 1 \in 1..(Len(h) - 1) /\ ~(i - 1 < k) /\ g[i - 1] = q
        BY <1>1, <2>1, <2>6, <3>1, <3>4
      <4> QED
        BY <2>5, <4>1 DEF In
    <3> QED
      BY <1>1, <2>1, <3>2, <3>3, <3>4
  <2> QED
    BY <1>1, <2>5, <2>7, <2>8, <2>9
<1> QED
  BY <1>2, <1>3

-----------------------------------------------------------------------------
(***************************************************************************)
(* The inductive invariant.                                                *)
(***************************************************************************)
Before  == {"unborn", "admitting"}
Early   == {"queued", "preparing", "marking", "entering", "executing", "releasing",
            "completing"}
Holding == {"marking", "entering", "executing", "releasing"}
Ended   == {"persisting", "observing", "done"}

(* The registry: its keys are the active runs, and a slot that is taken is *)
(* taken by the run that is active on the device.                          *)
SlotInv ==
  /\ \A r \in Runs : Active(r) <=> r \in runs
  /\ \A r \in runs : slot[device[r]] = r
  /\ \A d \in Devices : slot[d] # NoRun => slot[d] \in runs /\ device[slot[d]] = d
  /\ \A r \in Runs : lease[r] => pc[r] \in Holding
  /\ maintenance => runs = {}

(* What the hook of a run may have been told: nothing, or one end. *)
OneEnd(s) == << <<s, s>> >>
Tellings == {<<>>} \cup { OneEnd(s) : s \in Terminal }

(* The end of one run: its state is terminal from Complete or Finalize on, *)
(* the outcome that the hook gets is that state, and a cancellation leaves *)
(* the record only where the end will still be "cancelled".                *)
End(r) ==
  /\ hook[r] <=> told[r] = <<>>
  /\ told[r] # <<>> => /\ told[r] = OneEnd(record[r])
                       /\ pc[r] \in {"dropping", "lost"} \cup Ended
  /\ observed[r] # "none" => observed[r] = record[r] /\ pc[r] \in {"done", "lost"}
  /\ pc[r] = "done" => told[r] # <<>>
  /\ pc[r] \in Before => record[r] = "starting" /\ ~cancelled[r]
  /\ pc[r] \in Early => record[r] \notin Terminal
  /\ (pc[r] \in {"hooking"} \cup Ended \/ told[r] # <<>>) => record[r] \in Terminal
  /\ pc[r] = "hooking" => outcome[r] = record[r]
  /\ pc[r] \in {"releasing", "completing"} => outcome[r] \in Terminal
  /\ cancelled[r] => record[r] \in {"running", "stopping", "cancelled"}

EndInv == told \in [Runs -> Tellings] /\ \A r \in Runs : End(r)

(* The archive and the journal row of one run, as far as its task got.     *)
Kept(r) ==
  /\ Archived(r) => pc[r] \in Ended
  /\ pc[r] = "persisting" => archiveGate = r
  /\ pc[r] \in Ended => Archived(r) \/ r \in forgotten
  /\ journal[r] \notin {"absent", "starting"} =>
       pc[r] = "lost" \/ (pc[r] \in {"observing", "done"} /\ journal[r] = record[r])
  /\ pc[r] \in Before => journal[r] = "absent"
  /\ journal[r] = "starting" => Active(r) \/ pc[r] = "persisting" \/ r \in unwritten
  /\ r \in removed => /\ journal[r] = "absent" /\ ~Archived(r)
                      /\ pc[r] \in {"observing", "done", "lost"}

ArchiveInv == Distinct(history) /\ \A r \in Runs : Kept(r)

(* What a waiter knows, at each of its steps.  [pc, run, got] is all of it. *)
Knows(w) ==
  LET l == waiter[w].pc  r == waiter[w].run  got == waiter[w].got IN
  /\ l # "idle" => r \in Runs /\ pc[r] \notin Before \cup {"lost"}
  /\ l = "archive" => r \notin runs
  /\ l = "checking" /\ got \in Terminal => record[r] = got
  /\ l = "returned" /\ got # "gone" =>
       got \in Terminal /\ record[r] = got /\ r \notin runs
  /\ got = "gone" => l = "returned" /\ r \in forgotten

WaitInv == \A w \in Waiters : Knows(w)

IInv == TypeOK /\ SlotInv /\ EndInv /\ ArchiveInv /\ WaitInv

-----------------------------------------------------------------------------
(***************************************************************************)
(* The steps, grouped by what they touch.                                  *)
(***************************************************************************)
Claim(r) == SubmitCheck(r) \/ SubmitRefused(r)

GateMove == Maintain \/ Maintained \/ BeginShutdown \/ Drained

(* A step of run_task that sets only its locals. *)
LocalMove(r) ==
  \E l \in Early \cup {"dropping"}, o \in Terminal \cup {"none"}, holds \in BOOLEAN :
    /\ pc[r] \in Early
    /\ l \in {"releasing", "completing"} => o \in Terminal
    /\ holds => l \in Holding
    /\ Local(r, l, o, holds)

(* A step that leaves everything but the waiters alone. *)
Aside ==
  /\ waiter' \in [Waiters -> WaiterType]
  /\ UNCHANGED <<registry, archive, gates, pc, task, restarts, ghosts>>

LEMMA LocalSteps ==
  ASSUME TypeOK, EndInv, NEW r \in Runs,
         \/ Begin(r) \/ PrepareFailed(r) \/ Prepared(r) \/ Enter(r) \/ Executed(r)
         \/ Released(r) \/ Panic(r)
  PROVE  LocalMove(r)
<1>1. CASE Begin(r)
  BY <1>1 DEF Begin, LocalMove, Early, Holding, Terminal
<1>2. CASE PrepareFailed(r)
  BY <1>2 DEF PrepareFailed, LocalMove, Early, Holding, Terminal
<1>3. CASE Prepared(r)
  BY <1>3 DEF Prepared, LocalMove, Early, Holding, Terminal
<1>4. CASE Enter(r)
  BY <1>4 DEF Enter, LocalMove, Early, Holding, Terminal
<1>5. CASE Executed(r)
  <2>1. PICK o \in {"success", "failed"} :
          Local(r, "releasing", IF cancelled[r] THEN "cancelled" ELSE o, TRUE)
    BY <1>5 DEF Executed
  <2>2. pc[r] = "executing"
    BY <1>5 DEF Executed
  <2> QED
    BY <2>1, <2>2 DEF LocalMove, Early, Holding, Terminal
<1>6. CASE Released(r)
  <2>1. outcome[r] \in Terminal
    BY <1>6 DEF Released, EndInv, End
  <2> QED
    BY <1>6, <2>1 DEF Released, LocalMove, Early, Holding
<1>7. CASE Panic(r)
  BY <1>7 DEF Panic, LocalMove, Early, Holding, Terminal
<1> QED
  BY <1>1, <1>2, <1>3, <1>4, <1>5, <1>6, <1>7

(* The steps of a waiter keep its record in its type. *)
LEMMA WaiterSteps ==
  ASSUME TypeOK, NEW w \in Waiters,
         \/ \E r \in Runs : Wait(w, r)
         \/ GetRun(w) \/ CheckSnapshot(w) \/ Await(w) \/ WaitEnds(w)
  PROVE  Aside
<1>0. waiter \in [Waiters -> WaiterType] /\ record \in [Runs -> States]
  BY DEF TypeOK
<1>1. ASSUME NEW rec \in WaiterType, Step(w, rec) PROVE Aside
  BY <1>0, <1>1 DEF Step, Aside
<1>2. ASSUME NEW r \in Runs, Wait(w, r) PROVE Aside
  <2>1. [pc |-> "looking", run |-> r, got |-> "none", woken |-> FALSE] \in WaiterType
    BY DEF WaiterType
  <2> QED
    BY <1>1, <1>2, <2>1 DEF Wait
<1>3. CASE GetRun(w)
  <2>1. ASSUME waiter[w].run \in Runs, Seen(w) PROVE Aside
    <3>1. [waiter[w] EXCEPT !.got = record[waiter[w].run], !.pc = "checking"] \in WaiterType
      BY <1>0, <2>1 DEF WaiterType
    <3> QED
      BY <1>1, <2>1, <3>1 DEF Seen
  <2>2. [waiter[w] EXCEPT !.pc = "archive"] \in WaiterType
    BY <1>0 DEF WaiterType
  <2>3. [waiter[w] EXCEPT !.got = "gone", !.pc = "returned"] \in WaiterType
    BY <1>0 DEF WaiterType
  <2>4. waiter[w].run \in runs \/ Archived(waiter[w].run) => waiter[w].run \in Runs
    <3>1. runs \subseteq Runs /\ history \in Seq(Runs)
      BY DEF TypeOK
    <3> QED
      BY <3>1, LenProperties DEF Archived
  <2> QED
    BY <1>1, <1>3, <2>1, <2>2, <2>3, <2>4 DEF GetRun
<1>4. CASE CheckSnapshot(w)
  <2>1. \A l \in {"returned", "waiting"} : [waiter[w] EXCEPT !.pc = l] \in WaiterType
    BY <1>0 DEF WaiterType
  <2> QED
    BY <1>1, <1>4, <2>1 DEF CheckSnapshot
<1>5. CASE Await(w)
  <2>1. [waiter[w] EXCEPT !.pc = "looking", !.got = "none", !.woken = FALSE] \in WaiterType
    BY <1>0 DEF WaiterType
  <2> QED
    BY <1>1, <1>5, <2>1 DEF Await
<1>6. CASE WaitEnds(w)
  <2>1. Idle \in WaiterType
    BY DEF Idle, WaiterType
  <2> QED
    BY <1>1, <1>6, <2>1 DEF WaitEnds
<1> QED
  BY <1>2, <1>3, <1>4, <1>5, <1>6

LEMMA Kinds ==
  ASSUME TypeOK, EndInv, [Next]_vars
  PROVE  \/ \E r \in Runs :
              \/ Claim(r) \/ SubmitInner(r) \/ LocalMove(r) \/ MarkRunning(r) \/ Complete(r)
              \/ CallHook(r) \/ Finalize(r) \/ Finished(r) \/ Observe(r)
              \/ Cancel(r) \/ DeleteRecord(r)
         \/ Aside \/ GateMove \/ DrainTimeout \/ Restart
<1>1. CASE UNCHANGED vars
  <2>1. waiter \in [Waiters -> WaiterType]
    BY DEF TypeOK
  <2> QED
    BY <1>1, <2>1 DEF Aside, vars
<1>2. CASE Next
  BY <1>2, LocalSteps, WaiterSteps DEF Next, RunTask, Claim, GateMove
<1> QED
  BY <1>1, <1>2

(* A notification only marks the waiters it reaches. *)
LEMMA Notified ==
  ASSUME waiter \in [Waiters -> WaiterType], Notify
  PROVE  /\ waiter' \in [Waiters -> WaiterType]
         /\ \A w \in Waiters : /\ waiter'[w].pc = waiter[w].pc
                               /\ waiter'[w].run = waiter[w].run
                               /\ waiter'[w].got = waiter[w].got
<1> SUFFICES ASSUME NEW w \in Waiters
             PROVE  /\ [waiter[w] EXCEPT !.woken = TRUE] \in WaiterType
                    /\ \A f \in {"pc", "run", "got"} :
                         [waiter[w] EXCEPT !.woken = TRUE][f] = waiter[w][f]
  BY DEF Notify, WaiterType
<1> QED
  BY DEF WaiterType

-----------------------------------------------------------------------------
(***************************************************************************)
(* The steps that push a record to the archive, or take one out of it.     *)
(***************************************************************************)
LEMMA FinalizeArchives ==
  ASSUME TypeOK, ArchiveInv, NEW r \in Runs, Finalize(r)
  PROVE  /\ history' \in Seq(Runs) /\ Len(history') <= HistoryCap
         /\ Distinct(history') /\ In(history', r)
         /\ \A q : In(history', q) => q = r \/ In(history, q)
         /\ \A q : In(history, q) => In(history', q) \/ q \in forgotten'
         /\ forgotten \subseteq forgotten' /\ forgotten' \subseteq Runs
<1> DEFINE full == Len(history) >= HistoryCap
<1>1. /\ history \in Seq(Runs) /\ Len(history) <= HistoryCap /\ Len(history) \in Nat
      /\ HistoryCap \in Nat /\ HistoryCap > 0 /\ forgotten \subseteq Runs
  BY BoundsAssumption, LenProperties DEF TypeOK
<1>2. full => history # <<>> /\ Head(history) \in Runs
  <2> SUFFICES ASSUME full PROVE history # <<>> /\ Head(history) \in Runs
    OBVIOUS
  <2>1. history # <<>>
    BY <1>1
  <2> QED
    BY <1>1, <2>1, HeadTailProperties
<1>3. /\ history' = Append(IF full THEN Tail(history) ELSE history, r)
      /\ forgotten' = IF full THEN forgotten \cup {Head(history)} ELSE forgotten
      /\ pc[r] = "dropping"
  BY DEF Finalize
<1>4. Distinct(history) /\ ~In(history, r)
  BY <1>3 DEF ArchiveInv, Kept, Archived, In, Ended
<1>5. CASE full
  <2>1. history' = Append(Tail(history), r) /\ history # <<>>
    BY <1>2, <1>3, <1>5
  <2>2. /\ history' \in Seq(Runs) /\ Distinct(history') /\ Len(history') = Len(history)
        /\ In(history', r)
        /\ \A q : In(history', q) => q = r \/ In(history, q)
        /\ \A q : In(history, q) => In(history', q) \/ q = Head(history)
    BY <1>1, <1>4, <2>1, Shifted
  <2> QED
    BY <1>1, <1>2, <1>3, <1>5, <2>2
<1>6. CASE ~full
  <2>1. history' = Append(history, r) /\ forgotten' = forgotten
    BY <1>3, <1>6
  <2>2. /\ history' \in Seq(Runs) /\ Distinct(history') /\ Len(history') = Len(history) + 1
        /\ In(history', r)
        /\ \A q : In(history', q) <=> q = r \/ In(history, q)
    BY <1>1, <1>4, <2>1, Pushed
  <2>3. Len(history') <= HistoryCap
    BY <1>1, <1>6, <2>2
  <2> QED
    BY <1>1, <2>1, <2>2, <2>3
<1> QED
  BY <1>5, <1>6

LEMMA DeleteRemoves ==
  ASSUME TypeOK, ArchiveInv, NEW r \in Runs, DeleteRecord(r)
  PROVE  /\ history' \in Seq(Runs) /\ Len(history') <= HistoryCap /\ Distinct(history')
         /\ \A q : In(history', q) <=> (In(history, q) /\ q # r)
<1>1. history \in Seq(Runs) /\ Len(history) <= HistoryCap /\ Distinct(history)
  BY DEF TypeOK, ArchiveInv
<1>2. history' = Without(history, r)
  BY DEF DeleteRecord
<1>3. /\ history' \in Seq(Runs) /\ Distinct(history') /\ Len(history') <= Len(history)
      /\ \A q : In(history', q) <=> (In(history, q) /\ q # r)
  BY <1>1, <1>2, Removed
<1>4. Len(history) \in Nat /\ Len(history') \in Nat /\ HistoryCap \in Nat
  BY <1>1, <1>3, LenProperties, BoundsAssumption
<1> QED
  BY <1>1, <1>3, <1>4

(***************************************************************************)
(* The types.                                                              *)
(***************************************************************************)
LEMMA TypeStep ==
  ASSUME TypeOK, EndInv, ArchiveInv, [Next]_vars
  PROVE  TypeOK'
<1> USE DEF States, Terminal
<1>0. waiter \in [Waiters -> WaiterType]
  BY DEF TypeOK
<1>1. ASSUME NEW r \in Runs, Claim(r) PROVE TypeOK'
  BY <1>1 DEF Claim, SubmitCheck, SubmitRefused, Goto, TypeOK, PCs, registry, archive,
     gates, task, ghosts
<1>2. ASSUME NEW r \in Runs, SubmitInner(r) PROVE TypeOK'
  BY <1>2, Notified DEF SubmitInner, Persist, Goto, TypeOK, PCs, gates, task
<1>3. ASSUME NEW r \in Runs, LocalMove(r) PROVE TypeOK'
  <2>1. PICK l \in Early \cup {"dropping"}, o \in Terminal \cup {"none"}, b \in BOOLEAN :
          Local(r, l, o, b)
    BY <1>3 DEF LocalMove
  <2> QED
    BY <2>1 DEF Local, Goto, TypeOK, PCs, Early, registry, archive, gates, ghosts
<1>4. ASSUME NEW r \in Runs, MarkRunning(r) PROVE TypeOK'
  BY <1>0, <1>4, Notified DEF MarkRunning, Goto, TypeOK, PCs, archive, gates, task, ghosts
<1>5. ASSUME NEW r \in Runs, Complete(r) PROVE TypeOK'
  <2>1. outcome[r] \in Terminal
    BY <1>5 DEF Complete, EndInv, End
  <2>2. record' \in [Runs -> States] /\ outcome' \in [Runs -> Terminal \cup {"none"}]
    BY <1>5, <2>1 DEF Complete, TypeOK
  <2>3. waiter' \in [Waiters -> WaiterType]
    BY <1>0, <1>5, Notified DEF Complete
  <2> QED
    BY <1>5, <2>2, <2>3 DEF Complete, Goto, TypeOK, PCs, archive, gates, ghosts
<1>6. ASSUME NEW r \in Runs, CallHook(r) PROVE TypeOK'
  BY <1>6 DEF CallHook, Tell, Goto, TypeOK, PCs, registry, archive, gates
<1>7. ASSUME NEW r \in Runs, Finalize(r) PROVE TypeOK'
  <2>1. history' \in Seq(Runs) /\ Len(history') <= HistoryCap /\ forgotten' \subseteq Runs
    BY <1>7, FinalizeArchives
  <2>2. slot' \in [Devices -> Runs \cup {NoRun}] /\ record' \in [Runs -> States]
    BY <1>7 DEF Finalize, Final, TypeOK
  <2> QED
    BY <1>7, <2>1, <2>2 DEF Finalize, Goto, TypeOK, PCs, gates, task
<1>8. ASSUME NEW r \in Runs, Finished(r) PROVE TypeOK'
  <2>1. record[r] \in Terminal
    BY <1>8 DEF Finished, EndInv, End, Ended
  <2>2. journal' \in [Runs -> {"absent", "starting"} \cup Terminal] /\ unwritten' \subseteq Runs
    BY <1>8, <2>1 DEF Finished, Persist, TypeOK
  <2>3. waiter' \in [Waiters -> WaiterType]
    BY <1>0, <1>8, Notified DEF Finished
  <2> QED
    BY <1>8, <2>2, <2>3 DEF Finished, Goto, TypeOK, PCs, registry, gates, task
<1>9. ASSUME NEW r \in Runs, Observe(r) PROVE TypeOK'
  <2>1. record[r] \in Terminal
    BY <1>9 DEF Observe, EndInv, End, Ended
  <2> QED
    BY <1>9, <2>1 DEF Observe, Tell, Goto, TypeOK, PCs, registry, archive, gates
<1>10. ASSUME NEW r \in Runs, Cancel(r) PROVE TypeOK'
  BY <1>0, <1>10, Notified DEF Cancel, TypeOK, archive, gates, task, ghosts
<1>11. ASSUME NEW r \in Runs, DeleteRecord(r) PROVE TypeOK'
  <2>1. history' \in Seq(Runs) /\ Len(history') <= HistoryCap
    BY <1>11, DeleteRemoves
  <2> QED
    BY <1>11, <2>1 DEF DeleteRecord, TypeOK, registry, gates, task
<1>12. ASSUME Aside PROVE TypeOK'
  BY <1>12 DEF Aside, TypeOK, registry, archive, gates, task, ghosts
<1>13. ASSUME GateMove PROVE TypeOK'
  BY <1>13 DEF GateMove, Maintain, Maintained, BeginShutdown, Drained, TypeOK, registry,
     archive, task, ghosts
<1>14. ASSUME DrainTimeout PROVE TypeOK'
  <2>1. record' \in [Runs -> States] /\ cancelled' \in [Runs -> BOOLEAN]
    BY <1>14 DEF DrainTimeout, TypeOK
  <2> QED
    BY <1>0, <1>14, <2>1, Notified DEF DrainTimeout, TypeOK, archive, task, ghosts
<1>15. ASSUME Restart PROVE TypeOK'
  <2>1. Idle \in WaiterType /\ <<>> \in Seq(Runs) /\ Len(<<>>) = 0
    BY DEF Idle, WaiterType
  <2>2. restarts' \in Nat /\ HistoryCap \in Nat
    BY <1>15, BoundsAssumption DEF Restart, TypeOK
  <2>3. history' \in Seq(Runs) /\ Len(history') <= HistoryCap
    BY <1>15, <2>1, <2>2 DEF Restart
  <2>4. pc' \in [Runs -> PCs] /\ journal' \in [Runs -> {"absent", "starting"} \cup Terminal]
    BY <1>15 DEF Restart, TypeOK, PCs
  <2> QED
    BY <1>15, <2>1, <2>2, <2>3, <2>4 DEF Restart, TypeOK, ghosts
<1> QED
  BY Kinds, <1>1, <1>2, <1>3, <1>4, <1>5, <1>6, <1>7, <1>8, <1>9, <1>10, <1>11, <1>12,
     <1>13, <1>14, <1>15

-----------------------------------------------------------------------------
(***************************************************************************)
(* The registry.                                                           *)
(***************************************************************************)

(* The parts of TypeOK that speak of the registry and of the tasks. *)
LEMMA TaskTypes ==
  ASSUME TypeOK
  PROVE  /\ slot \in [Devices -> Runs \cup {NoRun}] /\ runs \subseteq Runs
         /\ device \in [Runs -> Devices] /\ pc \in [Runs -> PCs]
         /\ record \in [Runs -> States] /\ cancelled \in [Runs -> BOOLEAN]
         /\ outcome \in [Runs -> Terminal \cup {"none"}]
         /\ lease \in [Runs -> BOOLEAN] /\ hook \in [Runs -> BOOLEAN]
         /\ observed \in [Runs -> Terminal \cup {"none"}]
         /\ journal \in [Runs -> {"absent", "starting"} \cup Terminal]
         /\ waiter \in [Waiters -> WaiterType]
  BY DEF TypeOK

LEMMA SlotStep ==
  ASSUME TypeOK, EndInv, SlotInv, [Next]_vars
  PROVE  SlotInv'
<1> USE TaskTypes, NoRunAssumption DEF SlotInv, Active, Holding
<1>1. ASSUME NEW r \in Runs, Claim(r) PROVE SlotInv'
  BY <1>1 DEF Claim, SubmitCheck, SubmitRefused, Goto, registry, gates, task
<1>2. ASSUME NEW r \in Runs, SubmitInner(r) PROVE SlotInv'
  <2>1. pc[r] = "admitting" /\ ~maintenance /\ slot[device[r]] = NoRun
    BY <1>2 DEF SubmitInner, Refuses
  <2>2. /\ pc' = [pc EXCEPT ![r] = "queued"] /\ runs' = runs \cup {r}
        /\ slot' = [slot EXCEPT ![device[r]] = r]
        /\ device' = device /\ lease' = lease /\ maintenance' = maintenance
    BY <1>2 DEF SubmitInner, Goto, gates, task
  <2> QED
    BY <2>1, <2>2
<1>3. ASSUME NEW r \in Runs, LocalMove(r) PROVE SlotInv'
  <2>1. PICK l \in Early \cup {"dropping"}, o \in Terminal \cup {"none"}, b \in BOOLEAN :
          /\ pc[r] \in Early
          /\ l \in {"releasing", "completing"} => o \in Terminal
          /\ b => l \in Holding
          /\ Local(r, l, o, b)
    BY <1>3 DEF LocalMove
  <2>2. /\ pc' = [pc EXCEPT ![r] = l] /\ lease' = [lease EXCEPT ![r] = b]
        /\ UNCHANGED <<slot, runs, device, maintenance>>
    BY <2>1 DEF Local, Goto, registry, gates
  <2> QED
    BY <2>1, <2>2 DEF Early
<1>4. ASSUME NEW r \in Runs, MarkRunning(r) PROVE SlotInv'
  BY <1>4 DEF MarkRunning, Goto, gates, task
<1>5. ASSUME NEW r \in Runs, Complete(r) PROVE SlotInv'
  BY <1>5 DEF Complete, Goto, gates
<1>6. ASSUME NEW r \in Runs, CallHook(r) PROVE SlotInv'
  BY <1>6 DEF CallHook, Goto, registry, gates
<1>7. ASSUME NEW r \in Runs, Finalize(r) PROVE SlotInv'
  <2>1. pc[r] = "dropping" /\ r \in runs
    BY <1>7 DEF Finalize
  <2>2. /\ pc' = [pc EXCEPT ![r] = "persisting"] /\ runs' = runs \ {r}
        /\ slot' = [d \in Devices |-> IF d = device[r] /\ slot[d] = r THEN NoRun ELSE slot[d]]
        /\ device' = device /\ lease' = lease /\ maintenance' = maintenance
    BY <1>7 DEF Finalize, Goto, gates, task
  <2> QED
    BY <2>1, <2>2
<1>8. ASSUME NEW r \in Runs, Finished(r) PROVE SlotInv'
  BY <1>8 DEF Finished, Goto, registry, gates, task
<1>9. ASSUME NEW r \in Runs, Observe(r) PROVE SlotInv'
  BY <1>9 DEF Observe, Goto, registry, gates
<1>10. ASSUME NEW r \in Runs, Cancel(r) PROVE SlotInv'
  BY <1>10 DEF Cancel, gates, task
<1>11. ASSUME NEW r \in Runs, DeleteRecord(r) PROVE SlotInv'
  BY <1>11 DEF DeleteRecord, registry, gates, task
<1>12. ASSUME Aside PROVE SlotInv'
  BY <1>12 DEF Aside, registry, gates, task
<1>13. ASSUME GateMove PROVE SlotInv'
  BY <1>13 DEF GateMove, Maintain, Maintained, BeginShutdown, Drained, registry, task
<1>14. ASSUME DrainTimeout PROVE SlotInv'
  BY <1>14 DEF DrainTimeout, task
<1>15. ASSUME Restart PROVE SlotInv'
  BY <1>15 DEF Restart, PCs
<1> QED
  BY Kinds, <1>1, <1>2, <1>3, <1>4, <1>5, <1>6, <1>7, <1>8, <1>9, <1>10, <1>11, <1>12,
     <1>13, <1>14, <1>15

(***************************************************************************)
(* The end of a run.                                                       *)
(***************************************************************************)
LEMMA TellsOne ==
  ASSUME NEW s \in Terminal
  PROVE  Append(<<>>, <<s, s>>) = OneEnd(s) /\ OneEnd(s) \in Tellings /\ OneEnd(s) # <<>>
  BY DEF OneEnd, Tellings

(* A step that leaves a run alone leaves its end alone. *)
LEMMA EndKept ==
  ASSUME NEW q \in Runs, End(q),
         pc'[q] = pc[q], record'[q] = record[q], cancelled'[q] = cancelled[q],
         outcome'[q] = outcome[q], hook'[q] = hook[q], told'[q] = told[q],
         observed'[q] = observed[q]
  PROVE  End(q)'
  BY DEF End

LEMMA EndStep ==
  ASSUME TypeOK, SlotInv, EndInv, [Next]_vars
  PROVE  EndInv'
<1> USE TaskTypes
<1>0. told \in [Runs -> Tellings] /\ \A q \in Runs : End(q)
  BY DEF EndInv
<1>s. \A q \in Runs : q \in runs <=> Active(q)
  BY DEF SlotInv
<1>1. ASSUME NEW r \in Runs, Claim(r) PROVE EndInv'
  <2>1. /\ pc[r] \in Before /\ \E l \in Before : pc' = [pc EXCEPT ![r] = l]
        /\ UNCHANGED <<record, cancelled, outcome, hook, told, observed>>
    BY <1>1 DEF Claim, SubmitCheck, SubmitRefused, Goto, registry, task, ghosts, Before
  <2>2. End(r)'
    BY <1>0, <2>1 DEF End, Before, Early, Ended
  <2>3. ASSUME NEW q \in Runs, q # r PROVE End(q)'
    BY <1>0, <2>1, <2>3, EndKept
  <2> QED
    BY <1>0, <2>1, <2>2, <2>3 DEF EndInv
<1>2. ASSUME NEW r \in Runs, SubmitInner(r) PROVE EndInv'
  <2>1. /\ pc[r] \in Before /\ pc' = [pc EXCEPT ![r] = "queued"]
        /\ record' = [record EXCEPT ![r] = "starting"]
        /\ UNCHANGED <<cancelled, outcome, hook, told, observed>>
    BY <1>2 DEF SubmitInner, Goto, task, Before
  <2>2. End(r)'
    BY <1>0, <2>1 DEF End, Before, Early, Ended, Terminal
  <2>3. ASSUME NEW q \in Runs, q # r PROVE End(q)'
    BY <1>0, <2>1, <2>3, EndKept
  <2> QED
    BY <1>0, <2>1, <2>2, <2>3 DEF EndInv
<1>3. ASSUME NEW r \in Runs, LocalMove(r) PROVE EndInv'
  <2>1. PICK l \in Early \cup {"dropping"}, o \in Terminal \cup {"none"}, b \in BOOLEAN :
          /\ pc[r] \in Early
          /\ l \in {"releasing", "completing"} => o \in Terminal
          /\ b => l \in Holding
          /\ Local(r, l, o, b)
    BY <1>3 DEF LocalMove
  <2>2. /\ pc' = [pc EXCEPT ![r] = l] /\ outcome' = [outcome EXCEPT ![r] = o]
        /\ UNCHANGED <<record, cancelled, hook, told, observed>>
    BY <2>1 DEF Local, Goto, registry, ghosts
  <2>3. End(r)'
    BY <1>0, <2>1, <2>2 DEF End, Before, Early, Ended
  <2>4. ASSUME NEW q \in Runs, q # r PROVE End(q)'
    BY <1>0, <2>2, <2>4, EndKept
  <2> QED
    BY <1>0, <2>2, <2>3, <2>4 DEF EndInv
<1>4. ASSUME NEW r \in Runs, MarkRunning(r) PROVE EndInv'
  <2>1. /\ pc[r] = "marking" /\ pc' = [pc EXCEPT ![r] = "entering"]
        /\ record' = IF r \in runs THEN [record EXCEPT ![r] = "running"] ELSE record
        /\ UNCHANGED <<cancelled, outcome, hook, told, observed>>
    BY <1>4 DEF MarkRunning, Goto, task, ghosts
  <2>2. End(r)'
    BY <1>0, <2>1 DEF End, Before, Early, Ended, Terminal
  <2>3. ASSUME NEW q \in Runs, q # r PROVE End(q)'
    BY <1>0, <2>1, <2>3, EndKept
  <2> QED
    BY <1>0, <2>1, <2>2, <2>3 DEF EndInv
<1>5. ASSUME NEW r \in Runs, Complete(r) PROVE EndInv'
  <2>1. pc[r] = "completing" /\ pc' = [pc EXCEPT ![r] = "hooking"]
    BY <1>5 DEF Complete, Goto
  <2>2. r \in runs /\ record[r] \notin Terminal /\ outcome[r] \in Terminal
    BY <1>0, <1>s, <2>1 DEF End, Early, Active
  <2> DEFINE final == IF cancelled[r] THEN "cancelled" ELSE outcome[r]
  <2>3. /\ final \in Terminal /\ (cancelled[r] => final = "cancelled")
        /\ record' = [record EXCEPT ![r] = final]
        /\ outcome' = IF record'[r] = "cancelled"
                        THEN [outcome EXCEPT ![r] = "cancelled"] ELSE outcome
        /\ UNCHANGED <<cancelled, hook, told, observed>>
    BY <1>5, <2>2 DEF Complete, Terminal, ghosts
  <2>4. record'[r] = final /\ outcome'[r] = final
    <3>1. final = "cancelled" \/ final = outcome[r]
      OBVIOUS
    <3> HIDE DEF final
    <3> QED
      BY <2>3, <3>1
  <2>5. End(r)'
    <3> HIDE DEF final
    <3> QED
      BY <1>0, <2>1, <2>2, <2>3, <2>4 DEF End, Before, Early, Ended
  <2>6. ASSUME NEW q \in Runs, q # r PROVE End(q)'
    <3> HIDE DEF final
    <3> QED
      BY <1>0, <2>1, <2>3, <2>6, EndKept
  <2> QED
    BY <1>0, <2>3, <2>5, <2>6 DEF EndInv
<1>6. ASSUME NEW r \in Runs, CallHook(r) PROVE EndInv'
  <2>1. /\ pc[r] = "hooking" /\ pc' = [pc EXCEPT ![r] = "dropping"]
        /\ hook' = [hook EXCEPT ![r] = FALSE]
        /\ told' = IF hook[r] THEN [told EXCEPT ![r] = Append(@, <<record[r], outcome[r]>>)]
                   ELSE told
        /\ UNCHANGED <<record, cancelled, outcome, observed>>
    BY <1>6 DEF CallHook, Tell, Goto, registry
  <2>2. record[r] \in Terminal /\ outcome[r] = record[r] /\ hook[r] /\ told[r] = <<>>
    BY <1>0, <2>1 DEF End, Ended
  <2>3. told' = [told EXCEPT ![r] = OneEnd(record[r])] /\ OneEnd(record[r]) \in Tellings
        /\ OneEnd(record[r]) # <<>>
    <3>1. told' = [told EXCEPT ![r] = Append(<<>>, <<record[r], record[r]>>)]
      BY <2>1, <2>2
    <3> QED
      BY <2>2, <3>1, TellsOne
  <2>4. End(r)'
    BY <1>0, <2>1, <2>2, <2>3 DEF End, Before, Early, Ended
  <2>5. ASSUME NEW q \in Runs, q # r PROVE End(q)'
    BY <1>0, <2>1, <2>3, <2>5, EndKept
  <2> QED
    BY <1>0, <2>3, <2>4, <2>5 DEF EndInv
<1>7. ASSUME NEW r \in Runs, Finalize(r) PROVE EndInv'
  <2>1. /\ pc[r] = "dropping" /\ pc' = [pc EXCEPT ![r] = "persisting"]
        /\ record' = [record EXCEPT ![r] = Final(r)]
        /\ UNCHANGED <<cancelled, outcome, hook, told, observed>>
    BY <1>7 DEF Finalize, Goto, task
  <2>2. /\ Final(r) \in Terminal /\ (record[r] \in Terminal => Final(r) = record[r])
        /\ cancelled[r] => Final(r) = "cancelled"
    BY <1>0 DEF Final, Terminal, End
  <2>3. End(r)'
    BY <1>0, <2>1, <2>2 DEF End, Before, Early, Ended
  <2>4. ASSUME NEW q \in Runs, q # r PROVE End(q)'
    BY <1>0, <2>1, <2>4, EndKept
  <2> QED
    BY <1>0, <2>1, <2>3, <2>4 DEF EndInv
<1>8. ASSUME NEW r \in Runs, Finished(r) PROVE EndInv'
  <2>1. /\ pc[r] = "persisting" /\ pc' = [pc EXCEPT ![r] = "observing"]
        /\ UNCHANGED <<record, cancelled, outcome, hook, told, observed>>
    BY <1>8 DEF Finished, Goto, registry, task
  <2>2. End(r)'
    BY <1>0, <2>1 DEF End, Before, Early, Ended
  <2>3. ASSUME NEW q \in Runs, q # r PROVE End(q)'
    BY <1>0, <2>1, <2>3, EndKept
  <2> QED
    BY <1>0, <2>1, <2>2, <2>3 DEF EndInv
<1>9. ASSUME NEW r \in Runs, Observe(r) PROVE EndInv'
  <2>1. /\ pc[r] = "observing" /\ pc' = [pc EXCEPT ![r] = "done"]
        /\ observed' = [observed EXCEPT ![r] = record[r]]
        /\ hook' = [hook EXCEPT ![r] = FALSE]
        /\ told' = IF hook[r] THEN [told EXCEPT ![r] = Append(@, <<record[r], record[r]>>)]
                   ELSE told
        /\ UNCHANGED <<record, cancelled, outcome>>
    BY <1>9 DEF Observe, Tell, Goto, registry
  <2>2. record[r] \in Terminal /\ (hook[r] <=> told[r] = <<>>)
        /\ (told[r] # <<>> => told[r] = OneEnd(record[r]))
    BY <1>0, <2>1 DEF End, Ended
  <2>3. told' = [told EXCEPT ![r] = OneEnd(record[r])] /\ OneEnd(record[r]) \in Tellings
        /\ OneEnd(record[r]) # <<>>
    <3>1. CASE hook[r]
      <4>1. told' = [told EXCEPT ![r] = Append(<<>>, <<record[r], record[r]>>)]
        BY <2>1, <2>2, <3>1
      <4> QED
        BY <2>2, <4>1, TellsOne
    <3>2. CASE ~hook[r]
      BY <1>0, <2>1, <2>2, <3>2, TellsOne
    <3> QED
      BY <3>1, <3>2
  <2>4. End(r)'
    <3>1. /\ pc'[r] = "done" /\ observed'[r] = record[r] /\ ~hook'[r]
          /\ told'[r] = OneEnd(record[r]) /\ record'[r] = record[r]
          /\ cancelled'[r] = cancelled[r]
      BY <1>0, <2>1, <2>3
    <3>2. cancelled[r] => record[r] \in {"running", "stopping", "cancelled"}
      BY <1>0 DEF End
    <3> QED
      BY <2>2, <2>3, <3>1, <3>2 DEF End, Before, Early, Ended
  <2>5. ASSUME NEW q \in Runs, q # r PROVE End(q)'
    BY <1>0, <2>1, <2>3, <2>5, EndKept
  <2> QED
    BY <1>0, <2>3, <2>4, <2>5 DEF EndInv

<1>10. ASSUME NEW r \in Runs, Cancel(r) PROVE EndInv'
  <2>1. /\ r \in runs /\ record[r] \notin Terminal
        /\ cancelled' = [cancelled EXCEPT ![r] = TRUE]
        /\ record' = [record EXCEPT ![r] = "stopping"]
        /\ UNCHANGED <<pc, outcome, hook, told, observed>>
    BY <1>10 DEF Cancel, task, ghosts
  <2>2. Active(r)
    BY <1>s, <2>1
  <2>3. End(r)'
    BY <1>0, <2>1, <2>2 DEF End, Active, Before, Early, Ended, Terminal
  <2>4. ASSUME NEW q \in Runs, q # r PROVE End(q)'
    BY <1>0, <2>1, <2>4, EndKept
  <2> QED
    BY <1>0, <2>1, <2>3, <2>4 DEF EndInv
<1>11. ASSUME NEW r \in Runs, DeleteRecord(r) PROVE EndInv'
  <2>1. UNCHANGED <<pc, record, cancelled, outcome, hook, told, observed>>
    BY <1>11 DEF DeleteRecord, registry, task
  <2> QED
    BY <1>0, <2>1, EndKept DEF EndInv
<1>12. ASSUME Aside \/ GateMove PROVE EndInv'
  <2>1. UNCHANGED <<pc, record, cancelled, outcome, hook, told, observed>>
    BY <1>12 DEF Aside, GateMove, Maintain, Maintained, BeginShutdown, Drained, registry,
       task, ghosts
  <2> QED
    BY <1>0, <2>1, EndKept DEF EndInv
<1>13. ASSUME DrainTimeout PROVE EndInv'
  <2>1. /\ \A q \in Runs :
             LET hit == q \in runs /\ record[q] \notin Terminal IN
             /\ cancelled'[q] = (cancelled[q] \/ hit)
             /\ record'[q] = IF hit THEN "stopping" ELSE record[q]
        /\ UNCHANGED <<pc, outcome, hook, told, observed>>
    BY <1>13 DEF DrainTimeout, task, ghosts
  <2>2. ASSUME NEW q \in Runs, q \in runs /\ record[q] \notin Terminal PROVE End(q)'
    <3>1. Active(q)
      BY <1>s, <2>2
    <3>2. cancelled'[q] /\ record'[q] = "stopping"
      BY <2>1, <2>2
    <3> QED
      BY <1>0, <2>1, <2>2, <3>1, <3>2 DEF End, Active, Before, Early, Ended, Terminal
  <2>3. ASSUME NEW q \in Runs, ~(q \in runs /\ record[q] \notin Terminal) PROVE End(q)'
    BY <1>0, <2>1, <2>3, EndKept
  <2> QED
    BY <1>0, <2>1, <2>2, <2>3 DEF EndInv
<1>14. ASSUME Restart PROVE EndInv'
  <2>1. /\ pc' = [q \in Runs |-> IF pc[q] \in Before THEN "unborn" ELSE "lost"]
        /\ UNCHANGED <<record, cancelled, outcome, hook, told, observed>>
    BY <1>14 DEF Restart, ghosts, Before
  <2>2. ASSUME NEW q \in Runs PROVE End(q)'
    BY <1>0, <2>1, <2>2 DEF End, Before, Early, Ended
  <2> QED
    BY <1>0, <2>1, <2>2 DEF EndInv
<1> QED
  BY Kinds, <1>1, <1>2, <1>3, <1>4, <1>5, <1>6, <1>7, <1>8, <1>9, <1>10, <1>11, <1>12,
     <1>13, <1>14

(***************************************************************************)
(* The archive and the journal.                                            *)
(***************************************************************************)

(* A step that leaves a run alone leaves what is kept of it alone, though   *)
(* other runs come into the archive or push it out.                         *)
LEMMA KeptKept ==
  ASSUME NEW q \in Runs, Kept(q),
         pc'[q] = pc[q], record'[q] = record[q], journal'[q] = journal[q],
         q \in unwritten => q \in unwritten',
         pc[q] = "persisting" => archiveGate' = archiveGate,
         In(history', q) => In(history, q),
         In(history, q) => In(history', q) \/ q \in forgotten',
         q \in forgotten => q \in forgotten',
         q \in removed' => q \in removed
  PROVE  Kept(q)'
  BY DEF Kept, Archived, In, Active

LEMMA ArchiveStep ==
  ASSUME TypeOK, SlotInv, EndInv, ArchiveInv, [Next]_vars
  PROVE  ArchiveInv'
<1> USE TaskTypes, NoRunAssumption
<1>0. Distinct(history) /\ \A q \in Runs : Kept(q)
  BY DEF ArchiveInv
<1>s. \A q \in Runs : q \in runs <=> Active(q)
  BY DEF SlotInv
<1>1. ASSUME NEW r \in Runs, Claim(r) PROVE ArchiveInv'
  <2>1. /\ pc[r] \in Before /\ \E l \in Before : pc' = [pc EXCEPT ![r] = l]
        /\ UNCHANGED <<record, history, journal, archiveGate, forgotten, removed, unwritten>>
    BY <1>1 DEF Claim, SubmitCheck, SubmitRefused, Goto, registry, archive, ghosts, Before
  <2>2. Kept(r)'
    BY <1>0, <2>1 DEF Kept, Archived, Active, Before, Ended
  <2>3. ASSUME NEW q \in Runs, q # r PROVE Kept(q)'
    BY <1>0, <2>1, <2>3, KeptKept
  <2> QED
    BY <1>0, <2>1, <2>2, <2>3 DEF ArchiveInv
<1>2. ASSUME NEW r \in Runs, SubmitInner(r) PROVE ArchiveInv'
  <2>1. /\ pc[r] \in Before /\ pc' = [pc EXCEPT ![r] = "queued"]
        /\ record' = [record EXCEPT ![r] = "starting"]
        /\ \/ journal' = [journal EXCEPT ![r] = "starting"] /\ unwritten' = unwritten \ {r}
           \/ journal' = journal /\ unwritten' = unwritten \cup {r}
        /\ UNCHANGED <<history, archiveGate, forgotten, removed>>
    BY <1>2 DEF SubmitInner, Persist, Goto, Before
  <2>2. Kept(r)'
    BY <1>0, <2>1 DEF Kept, Archived, Active, Before, Ended
  <2>3. ASSUME NEW q \in Runs, q # r PROVE Kept(q)'
    BY <1>0, <2>1, <2>3, KeptKept
  <2> QED
    BY <1>0, <2>1, <2>2, <2>3 DEF ArchiveInv
<1>3. ASSUME NEW r \in Runs, NEW l \in Early \cup {"hooking", "dropping"},
             pc[r] \in Early \cup {"hooking"}, pc' = [pc EXCEPT ![r] = l],
             \A q \in Runs : q # r => record'[q] = record[q],
             UNCHANGED <<history, journal, archiveGate, forgotten, removed, unwritten>>
      PROVE  ArchiveInv'
  <2>1. Kept(r)'
    BY <1>0, <1>3 DEF Kept, Archived, Active, Before, Early, Ended
  <2>2. ASSUME NEW q \in Runs, q # r PROVE Kept(q)'
    BY <1>0, <1>3, <2>2, KeptKept
  <2> QED
    BY <1>0, <1>3, <2>1, <2>2 DEF ArchiveInv
<1>4. ASSUME NEW r \in Runs, LocalMove(r) PROVE ArchiveInv'
  <2>1. PICK l \in Early \cup {"dropping"}, o \in Terminal \cup {"none"}, b \in BOOLEAN :
          /\ pc[r] \in Early
          /\ l \in {"releasing", "completing"} => o \in Terminal
          /\ b => l \in Holding
          /\ Local(r, l, o, b)
    BY <1>4 DEF LocalMove
  <2>2. /\ pc' = [pc EXCEPT ![r] = l]
        /\ UNCHANGED <<record, history, journal, archiveGate, forgotten, removed, unwritten>>
    BY <2>1 DEF Local, Goto, registry, archive, ghosts
  <2> QED
    BY <1>3, <2>1, <2>2
<1>5. ASSUME NEW r \in Runs, MarkRunning(r) PROVE ArchiveInv'
  BY <1>3, <1>5 DEF MarkRunning, Goto, archive, ghosts, Early
<1>6. ASSUME NEW r \in Runs, Complete(r) PROVE ArchiveInv'
  BY <1>3, <1>6 DEF Complete, Goto, archive, ghosts, Early
<1>7. ASSUME NEW r \in Runs, CallHook(r) PROVE ArchiveInv'
  BY <1>3, <1>7 DEF CallHook, Goto, registry, archive
<1>8. ASSUME NEW r \in Runs, Finalize(r) PROVE ArchiveInv'
  <2>1. /\ pc[r] = "dropping" /\ pc' = [pc EXCEPT ![r] = "persisting"]
        /\ archiveGate = NoRun /\ archiveGate' = r
        /\ record' = [record EXCEPT ![r] = Final(r)]
        /\ UNCHANGED <<journal, removed, unwritten>>
    BY <1>8 DEF Finalize, Goto
  <2>2. /\ Distinct(history') /\ In(history', r)
        /\ \A q : In(history', q) => q = r \/ In(history, q)
        /\ \A q : In(history, q) => In(history', q) \/ q \in forgotten'
        /\ forgotten \subseteq forgotten'
    BY <1>8, FinalizeArchives
  <2>3. Kept(r)'
    BY <1>0, <2>1, <2>2 DEF Kept, Archived, In, Active, Before, Ended
  <2>4. ASSUME NEW q \in Runs, q # r PROVE Kept(q)'
    <3>1. pc[q] # "persisting"
      BY <1>0, <2>1 DEF Kept
    <3> QED
      BY <1>0, <2>1, <2>2, <2>4, <3>1, KeptKept
  <2> QED
    BY <2>2, <2>3, <2>4 DEF ArchiveInv
<1>9. ASSUME NEW r \in Runs, Finished(r) PROVE ArchiveInv'
  <2>1. /\ pc[r] = "persisting" /\ pc' = [pc EXCEPT ![r] = "observing"]
        /\ \/ journal' = [journal EXCEPT ![r] = record[r]] /\ unwritten' = unwritten \ {r}
           \/ journal' = journal /\ unwritten' = unwritten \cup {r}
        /\ UNCHANGED <<record, history, forgotten, removed>>
    BY <1>9 DEF Finished, Persist, Goto, registry
  <2>2. record[r] \in Terminal
    BY <2>1 DEF EndInv, End, Ended
  <2>3. Kept(r)'
    BY <1>0, <2>1, <2>2 DEF Kept, Archived, Active, Before, Ended, Terminal
  <2>4. ASSUME NEW q \in Runs, q # r PROVE Kept(q)'
    <3>1. pc[q] # "persisting"
      BY <1>0, <2>1, <2>4 DEF Kept
    <3> QED
      BY <1>0, <2>1, <2>4, <3>1, KeptKept
  <2> QED
    BY <1>0, <2>1, <2>3, <2>4 DEF ArchiveInv
<1>10. ASSUME NEW r \in Runs, Observe(r) PROVE ArchiveInv'
  <2>1. /\ pc[r] = "observing" /\ pc' = [pc EXCEPT ![r] = "done"]
        /\ UNCHANGED <<record, history, journal, archiveGate, forgotten, removed, unwritten>>
    BY <1>10 DEF Observe, Goto, registry, archive
  <2>2. Kept(r)'
    BY <1>0, <2>1 DEF Kept, Archived, Active, Before, Ended
  <2>3. ASSUME NEW q \in Runs, q # r PROVE Kept(q)'
    BY <1>0, <2>1, <2>3, KeptKept
  <2> QED
    BY <1>0, <2>1, <2>2, <2>3 DEF ArchiveInv
<1>11. ASSUME NEW r \in Runs, Cancel(r) PROVE ArchiveInv'
  <2>1. /\ record' = [record EXCEPT ![r] = "stopping"] /\ r \in runs
        /\ UNCHANGED <<pc, history, journal, archiveGate, forgotten, removed, unwritten>>
    BY <1>11 DEF Cancel, archive, ghosts
  <2>2. Kept(r)'
    BY <1>0, <1>s, <2>1 DEF Kept, Archived, Active
  <2>3. ASSUME NEW q \in Runs, q # r PROVE Kept(q)'
    BY <1>0, <2>1, <2>3, KeptKept
  <2> QED
    BY <1>0, <2>1, <2>2, <2>3 DEF ArchiveInv
<1>12. ASSUME NEW r \in Runs, DeleteRecord(r) PROVE ArchiveInv'
  <2>1. /\ archiveGate = NoRun /\ r \notin runs
        /\ In(history, r) \/ journal[r] # "absent"
        /\ journal' = [journal EXCEPT ![r] = "absent"]
        /\ forgotten' = forgotten \cup {r} /\ removed' = removed \cup {r}
        /\ UNCHANGED <<pc, record, archiveGate, unwritten>>
    BY <1>12 DEF DeleteRecord, registry, Archived, In
  <2>2. Distinct(history') /\ \A q : In(history', q) <=> (In(history, q) /\ q # r)
    BY <1>12, DeleteRemoves
  <2>3. pc[r] \in {"observing", "done", "lost"}
    <3>1. ~Active(r) /\ pc[r] # "persisting"
      BY <1>0, <1>s, <2>1 DEF Kept
    <3>2. pc[r] \notin Before
      BY <1>0, <2>1 DEF Kept, Archived, In, Before, Ended
    <3>3. pc[r] \in PCs
      OBVIOUS
    <3> QED
      BY <3>1, <3>2, <3>3 DEF Active, Before, PCs
  <2>4. Kept(r)'
    BY <1>0, <2>1, <2>2, <2>3 DEF Kept, Archived, In, Active, Before, Ended
  <2>5. ASSUME NEW q \in Runs, q # r PROVE Kept(q)'
    BY <1>0, <2>1, <2>2, <2>5, KeptKept
  <2> QED
    BY <2>2, <2>4, <2>5 DEF ArchiveInv
<1>13. ASSUME Aside \/ GateMove PROVE ArchiveInv'
  <2>1. UNCHANGED <<pc, record, history, journal, archiveGate, forgotten, removed, unwritten>>
    BY <1>13 DEF Aside, GateMove, Maintain, Maintained, BeginShutdown, Drained, registry,
       archive, ghosts
  <2> QED
    BY <1>0, <2>1, KeptKept DEF ArchiveInv
<1>14. ASSUME DrainTimeout PROVE ArchiveInv'
  <2>1. /\ \A q \in Runs : q \notin runs => record'[q] = record[q]
        /\ UNCHANGED <<pc, history, journal, archiveGate, forgotten, removed, unwritten>>
    BY <1>14 DEF DrainTimeout, archive, ghosts
  <2>2. ASSUME NEW q \in Runs PROVE Kept(q)'
    <3>1. CASE q \in runs
      BY <1>0, <1>s, <2>1, <3>1 DEF Kept, Archived, Active
    <3>2. CASE q \notin runs
      BY <1>0, <2>1, <3>2, KeptKept
    <3> QED
      BY <3>1, <3>2
  <2> QED
    BY <1>0, <2>1, <2>2 DEF ArchiveInv
<1>15. ASSUME Restart PROVE ArchiveInv'
  <2>1. /\ pc' = [q \in Runs |-> IF pc[q] \in Before THEN "unborn" ELSE "lost"]
        /\ journal' = [q \in Runs |-> IF journal[q] = "starting" THEN "failed" ELSE journal[q]]
        /\ history' = <<>>
        /\ UNCHANGED <<record, forgotten, removed, unwritten>>
    BY <1>15 DEF Restart, ghosts, Before
  <2>2. Distinct(<<>>) /\ \A q : ~In(<<>>, q)
    BY DEF Distinct, In
  <2>3. ASSUME NEW q \in Runs PROVE Kept(q)'
    <3>1. ~Archived(q)'
      BY <2>1, <2>2 DEF Archived, In
    <3> QED
      BY <1>0, <2>1, <3>1 DEF Kept, Active, Before, Ended
  <2> QED
    BY <2>1, <2>2, <2>3 DEF ArchiveInv
<1> QED
  BY Kinds, <1>1, <1>2, <1>4, <1>5, <1>6, <1>7, <1>8, <1>9, <1>10, <1>11, <1>12, <1>13,
     <1>14, <1>15

(***************************************************************************)
(* The waiters.                                                            *)
(***************************************************************************)

(* A published end is never changed: only an active run's record is, and   *)
(* what Complete and Finalize write over is not terminal.                  *)
LEMMA EndIsFinal ==
  ASSUME TypeOK, SlotInv, EndInv, [Next]_vars, NEW q \in Runs, record[q] \in Terminal
  PROVE  record'[q] = record[q]
<1> USE TaskTypes
<1>0. End(q)
  BY DEF EndInv
<1>1. ASSUME NEW r \in Runs, SubmitInner(r) PROVE record'[q] = record[q]
  BY <1>0, <1>1 DEF SubmitInner, End, Before, Terminal
<1>2. ASSUME NEW r \in Runs, MarkRunning(r) PROVE record'[q] = record[q]
  BY <1>0, <1>2 DEF MarkRunning, End, Early
<1>3. ASSUME NEW r \in Runs, Complete(r) PROVE record'[q] = record[q]
  BY <1>3 DEF Complete
<1>4. ASSUME NEW r \in Runs, Finalize(r) PROVE record'[q] = record[q]
  BY <1>4 DEF Finalize, Final
<1>5. ASSUME NEW r \in Runs, Cancel(r) PROVE record'[q] = record[q]
  BY <1>5 DEF Cancel
<1>6. ASSUME DrainTimeout PROVE record'[q] = record[q]
  BY <1>6 DEF DrainTimeout
<1>7. ASSUME NEW r \in Runs, \/ Claim(r) \/ LocalMove(r) \/ CallHook(r) \/ Finished(r)
                             \/ Observe(r) \/ DeleteRecord(r)
      PROVE  record' = record
  BY <1>7 DEF Claim, SubmitCheck, SubmitRefused, LocalMove, Local, CallHook, Finished,
     Observe, DeleteRecord, registry
<1>8. ASSUME Aside \/ GateMove \/ Restart PROVE record' = record
  BY <1>8 DEF Aside, GateMove, Maintain, Maintained, BeginShutdown, Drained, Restart, registry
<1> QED
  BY Kinds, <1>1, <1>2, <1>3, <1>4, <1>5, <1>6, <1>7, <1>8

(* A run that was submitted stays submitted, and one that is over is not    *)
(* made active again, until the process dies.                              *)
LEMMA NeverBack ==
  ASSUME TypeOK, EndInv, [Next]_vars, ~Restart, NEW q \in Runs,
         pc[q] \notin Before \cup {"lost"}
  PROVE  /\ pc'[q] \notin Before \cup {"lost"}
         /\ q \notin runs => q \notin runs'
         /\ forgotten \subseteq forgotten'
<1> USE TaskTypes DEF Before
<1>1. ASSUME NEW r \in Runs, Claim(r) \/ SubmitInner(r)
      PROVE  /\ \E l \in {"unborn", "admitting", "queued"} : pc' = [pc EXCEPT ![r] = l]
             /\ pc[r] \in Before /\ runs' \subseteq runs \cup {r} /\ forgotten' = forgotten
  BY <1>1 DEF Claim, SubmitCheck, SubmitRefused, SubmitInner, Goto, registry, ghosts
<1>2. ASSUME NEW r \in Runs, LocalMove(r)
      PROVE  /\ \E l \in Early \cup {"dropping"} : pc' = [pc EXCEPT ![r] = l]
             /\ runs' = runs /\ forgotten' = forgotten
  BY <1>2 DEF LocalMove, Local, Goto, registry, ghosts
<1>3. ASSUME NEW r \in Runs, \/ MarkRunning(r) \/ Complete(r) \/ CallHook(r)
                             \/ Finished(r) \/ Observe(r)
      PROVE  /\ \E l \in {"entering", "hooking", "dropping", "observing", "done"} :
                  pc' = [pc EXCEPT ![r] = l]
             /\ runs' = runs /\ forgotten' = forgotten
  BY <1>3 DEF MarkRunning, Complete, CallHook, Finished, Observe, Goto, registry, ghosts
<1>4. ASSUME NEW r \in Runs, Finalize(r)
      PROVE  /\ pc' = [pc EXCEPT ![r] = "persisting"]
             /\ runs' \subseteq runs /\ forgotten \subseteq forgotten'
  BY <1>4 DEF Finalize, Goto
<1>5. ASSUME NEW r \in Runs, Cancel(r) \/ DeleteRecord(r)
      PROVE  pc' = pc /\ runs' = runs /\ forgotten \subseteq forgotten'
  BY <1>5 DEF Cancel, DeleteRecord, registry, ghosts
<1>6. ASSUME Aside \/ GateMove \/ DrainTimeout
      PROVE  pc' = pc /\ runs' = runs /\ forgotten' = forgotten
  BY <1>6 DEF Aside, GateMove, Maintain, Maintained, BeginShutdown, Drained, DrainTimeout,
     registry, ghosts
<1> QED
  BY Kinds, <1>1, <1>2, <1>3, <1>4, <1>5, <1>6 DEF Early

(* A waiter that does not move still knows what it knew. *)
LEMMA StillKnows ==
  ASSUME TypeOK, SlotInv, EndInv, [Next]_vars, ~Restart,
         NEW w \in Waiters, Knows(w),
         waiter'[w].pc = waiter[w].pc, waiter'[w].run = waiter[w].run,
         waiter'[w].got = waiter[w].got
  PROVE  Knows(w)'
<1>1. CASE waiter[w].pc = "idle"
  BY <1>1 DEF Knows
<1>2. CASE waiter[w].pc # "idle"
  <2> DEFINE r == waiter[w].run
  <2>1. r \in Runs /\ pc[r] \notin Before \cup {"lost"}
    BY <1>2 DEF Knows
  <2>2. /\ pc'[r] \notin Before \cup {"lost"} /\ (r \notin runs => r \notin runs')
        /\ forgotten \subseteq forgotten'
        /\ record[r] \in Terminal => record'[r] = record[r]
    BY <2>1, NeverBack, EndIsFinal
  <2> QED
    BY <1>2, <2>1, <2>2 DEF Knows
<1> QED
  BY <1>1, <1>2

LEMMA WaitStep ==
  ASSUME TypeOK, SlotInv, EndInv, ArchiveInv, WaitInv, [Next]_vars
  PROVE  WaitInv'
<1> USE TaskTypes
<1>0. waiter \in [Waiters -> WaiterType] /\ \A w \in Waiters : Knows(w)
  BY DEF WaitInv
<1>1. ASSUME NEW w \in Waiters, NEW rec, Step(w, rec), ~Restart,
             rec.pc # "idle" => rec.run \in Runs /\ pc[rec.run] \notin Before \cup {"lost"},
             rec.pc = "archive" => rec.run \notin runs,
             rec.pc = "checking" /\ rec.got \in Terminal => record[rec.run] = rec.got,
             rec.pc = "returned" /\ rec.got # "gone" =>
               rec.got \in Terminal /\ record[rec.run] = rec.got /\ rec.run \notin runs,
             rec.got = "gone" => rec.pc = "returned" /\ rec.run \in forgotten
      PROVE  WaitInv'
  <2>1. /\ waiter' = [waiter EXCEPT ![w] = rec]
        /\ UNCHANGED <<runs, record, pc, forgotten>>
    BY <1>1 DEF Step, registry, ghosts
  <2>2. Knows(w)'
    BY <1>0, <1>1, <2>1 DEF Knows
  <2>3. ASSUME NEW v \in Waiters, v # w PROVE Knows(v)'
    BY <1>0, <1>1, <2>1, <2>3, StillKnows
  <2> QED
    BY <2>2, <2>3 DEF WaitInv

<1>2. ASSUME NEW w \in Waiters, NEW r \in Runs, Wait(w, r), ~Restart PROVE WaitInv'
  <2> DEFINE rec == [pc |-> "looking", run |-> r, got |-> "none", woken |-> FALSE]
  <2>1. rec.pc = "looking" /\ rec.run = r /\ rec.got = "none"
    OBVIOUS
  <2>2. Step(w, rec) /\ pc[r] \notin Before \cup {"lost"}
    BY <1>2 DEF Wait, Before
  <2> HIDE DEF rec
  <2> QED
    BY <1>1, <1>2, <2>1, <2>2 DEF Terminal
<1>3. ASSUME NEW w \in Waiters, waiter[w].pc # "idle", Seen(w), ~Restart PROVE WaitInv'
  <2> DEFINE rec == [waiter[w] EXCEPT !.got = record[waiter[w].run], !.pc = "checking"]
  <2>0. waiter[w].run \in Runs /\ pc[waiter[w].run] \notin Before \cup {"lost"}
    BY <1>0, <1>3 DEF Knows
  <2>1. /\ rec.pc = "checking" /\ rec.run = waiter[w].run
        /\ rec.got = record[waiter[w].run] /\ rec.got \in States
    BY <1>0, <2>0 DEF WaiterType
  <2>2. Step(w, rec)
    BY <1>3 DEF Seen
  <2> HIDE DEF rec
  <2> QED
    BY <1>1, <1>3, <2>0, <2>1, <2>2 DEF States, Terminal
<1>4. ASSUME NEW w \in Waiters, GetRun(w), ~Restart PROVE WaitInv'
  <2> DEFINE r == waiter[w].run
  <2>1. waiter[w].pc \in {"looking", "archive"}
    BY <1>4 DEF GetRun, Waiting
  <2>2. r \in Runs /\ pc[r] \notin Before \cup {"lost"}
    BY <1>0, <2>1 DEF Knows
  <2>3. CASE Seen(w)
    BY <1>3, <1>4, <2>1, <2>3
  <2>4. CASE r \notin runs /\ Step(w, [waiter[w] EXCEPT !.pc = "archive"])
    <3> DEFINE rec == [waiter[w] EXCEPT !.pc = "archive"]
    <3>1. rec.pc = "archive" /\ rec.run = r /\ rec.got = waiter[w].got
      BY <1>0 DEF WaiterType
    <3>2. rec.got # "gone"
      BY <1>0, <2>1, <3>1 DEF Knows
    <3>3. Step(w, rec)
      BY <2>4
    <3> HIDE DEF rec
    <3> QED
      BY <1>1, <1>4, <2>2, <2>4, <3>1, <3>2, <3>3
  <2>5. CASE /\ waiter[w].pc = "archive" /\ ~Archived(r)
             /\ Step(w, [waiter[w] EXCEPT !.got = "gone", !.pc = "returned"])
    <3> DEFINE rec == [waiter[w] EXCEPT !.got = "gone", !.pc = "returned"]
    <3>1. rec.pc = "returned" /\ rec.run = r /\ rec.got = "gone"
      BY <1>0 DEF WaiterType
    <3>2. r \in forgotten
      <4>1. r \notin runs
        BY <1>0, <2>5 DEF Knows
      <4>2. ~Active(r)
        BY <2>2, <4>1 DEF SlotInv
      <4>3. pc[r] \in Ended
        BY <2>2, <4>2 DEF PCs, Active, Before, Ended
      <4> QED
        BY <2>2, <2>5, <4>3 DEF ArchiveInv, Kept
    <3>3. Step(w, rec)
      BY <2>5
    <3> HIDE DEF rec
    <3> QED
      BY <1>1, <1>4, <2>2, <3>1, <3>2, <3>3
  <2> QED
    BY <1>4, <2>3, <2>4, <2>5 DEF GetRun, Waiting
<1>5. ASSUME NEW w \in Waiters, CheckSnapshot(w), ~Restart PROVE WaitInv'
  <2> DEFINE over == waiter[w].got \in Terminal /\ waiter[w].run \notin runs
             rec == [waiter[w] EXCEPT !.pc = IF over THEN "returned" ELSE "waiting"]
  <2>1. waiter[w].pc = "checking" /\ Step(w, rec)
    BY <1>5 DEF CheckSnapshot, Waiting
  <2>2. /\ rec.pc = IF over THEN "returned" ELSE "waiting"
        /\ rec.run = waiter[w].run /\ rec.got = waiter[w].got
    BY <1>0 DEF WaiterType
  <2>3. /\ waiter[w].run \in Runs /\ pc[waiter[w].run] \notin Before \cup {"lost"}
        /\ waiter[w].got # "gone"
        /\ waiter[w].got \in Terminal => record[waiter[w].run] = waiter[w].got
    BY <1>0, <2>1 DEF Knows
  <2> HIDE DEF rec
  <2> QED
    BY <1>1, <1>5, <2>1, <2>2, <2>3
<1>6. ASSUME NEW w \in Waiters, Await(w), ~Restart PROVE WaitInv'
  <2> DEFINE rec == [waiter[w] EXCEPT !.pc = "looking", !.got = "none", !.woken = FALSE]
  <2>1. waiter[w].pc = "waiting" /\ Step(w, rec)
    BY <1>6 DEF Await, Waiting
  <2>2. rec.pc = "looking" /\ rec.run = waiter[w].run /\ rec.got = "none"
    BY <1>0 DEF WaiterType
  <2>3. waiter[w].run \in Runs /\ pc[waiter[w].run] \notin Before \cup {"lost"}
    BY <1>0, <2>1 DEF Knows
  <2> HIDE DEF rec
  <2> QED
    BY <1>1, <1>6, <2>1, <2>2, <2>3 DEF Terminal
<1>7. ASSUME NEW w \in Waiters, WaitEnds(w), ~Restart PROVE WaitInv'
  <2>1. Idle.pc = "idle" /\ Idle.got = "none"
    BY DEF Idle
  <2>2. Step(w, Idle)
    BY <1>7 DEF WaitEnds
  <2> QED
    BY <1>1, <1>7, <2>1, <2>2 DEF Terminal
<1>8. ASSUME Notify \/ waiter' = waiter, ~Restart PROVE WaitInv'
  <2>1. \A w \in Waiters : /\ waiter'[w].pc = waiter[w].pc
                           /\ waiter'[w].run = waiter[w].run
                           /\ waiter'[w].got = waiter[w].got
    BY <1>0, <1>8, Notified
  <2> QED
    BY <1>0, <1>8, <2>1, StillKnows DEF WaitInv
<1>9. CASE Restart
  <2>1. \A w \in Waiters : waiter'[w] = Idle
    BY <1>9 DEF Restart
  <2>2. Idle.pc = "idle" /\ Idle.got = "none"
    BY DEF Idle
  <2> QED
    BY <2>1, <2>2 DEF WaitInv, Knows
<1>10. ASSUME NEW r \in Runs,
              \/ SubmitCheck(r) \/ SubmitRefused(r) \/ SubmitInner(r) \/ RunTask(r)
              \/ Cancel(r) \/ DeleteRecord(r)
       PROVE  Notify \/ waiter' = waiter
  <2>1. CASE RunTask(r)
    BY <2>1 DEF RunTask, Begin, PrepareFailed, Prepared, MarkRunning, Enter, Executed,
       Released, Complete, CallHook, Panic, Finalize, Finished, Observe, Local
  <2> QED
    BY <1>10, <2>1 DEF SubmitCheck, SubmitRefused, SubmitInner, Cancel, DeleteRecord
<1>11. ASSUME Maintain \/ Maintained \/ BeginShutdown \/ Drained \/ DrainTimeout
       PROVE  Notify \/ waiter' = waiter
  BY <1>11 DEF Maintain, Maintained, BeginShutdown, Drained, DrainTimeout
<1>12. CASE UNCHANGED vars /\ ~Restart
  BY <1>8, <1>12 DEF vars
<1> QED
  BY <1>2, <1>4, <1>5, <1>6, <1>7, <1>8, <1>9, <1>10, <1>11, <1>12 DEF Next

-----------------------------------------------------------------------------
(***************************************************************************)
(* The theorems.                                                           *)
(***************************************************************************)
LEMMA InitIInv == Init => IInv
<1> SUFFICES ASSUME Init PROVE IInv
  OBVIOUS
<1> USE DEF Init
<1>1. TypeOK
  <2>1. Idle \in WaiterType /\ <<>> \in Seq(Runs) /\ Len(<<>>) = 0 /\ HistoryCap \in Nat
    BY BoundsAssumption DEF Idle, WaiterType
  <2>2. Len(<<>>) <= HistoryCap
    BY <2>1
  <2> QED
    BY <2>1, <2>2 DEF TypeOK, PCs, States, Terminal
<1>2. SlotInv
  BY DEF SlotInv, Active
<1>3. EndInv
  BY DEF EndInv, End, Tellings, Before, Early, Ended, Terminal
<1>4. ArchiveInv
  BY DEF ArchiveInv, Distinct, Kept, Archived, Active, Before, Ended
<1>5. WaitInv
  BY DEF WaitInv, Knows, Idle, Terminal
<1> QED
  BY <1>1, <1>2, <1>3, <1>4, <1>5 DEF IInv

LEMMA NextIInv == IInv /\ [Next]_vars => IInv'
  BY TypeStep, SlotStep, EndStep, ArchiveStep, WaitStep DEF IInv

LEMMA Invariant == Spec => []IInv
  BY InitIInv, NextIInv, PTL DEF Spec

(* Every variable of the registry keeps its type (RunManager and its locals). *)
THEOREM TypeCorrect == Spec => []TypeOK
  BY Invariant, PTL DEF IInv

(* A device is given to one run, whatever panics, and maintenance gets what *)
(* no run has: submit_inner under active_by_device, finalize, and           *)
(* try_idle_maintenance.                                                    *)
THEOREM ExclusiveAdmission == Spec => []AdmissionIsExclusive
<1>1. IInv => AdmissionIsExclusive
  <2> SUFFICES ASSUME IInv PROVE AdmissionIsExclusive
    OBVIOUS
  <2>1. TypeOK /\ SlotInv
    BY DEF IInv
  <2>2. ASSUME NEW r \in Runs, lease[r] PROVE r \in runs /\ slot[device[r]] = r
    BY <2>1, <2>2 DEF SlotInv, Active, Holding
  <2>3. ASSUME NEW r \in Runs PROVE Active(r) <=> (r \in runs /\ slot[device[r]] = r)
    BY <2>1 DEF SlotInv
  <2>4. OneRunPerDevice
    BY <2>2, <2>3 DEF OneRunPerDevice
  <2>5. MaintenanceIsQuiet
    BY <2>1, <2>2, <2>3 DEF MaintenanceIsQuiet, SlotInv
  <2> QED
    BY <2>4, <2>5 DEF AdmissionIsExclusive
<1> QED
  BY <1>1, Invariant, PTL

(* An accepted cancellation wins over what the executor answers, for the    *)
(* archive, the hook and the observer: mark_terminal_checked, finalize.     *)
THEOREM CancellationWins == Spec => []CancelWins
<1>1. IInv => CancelWins
  <2> SUFFICES ASSUME IInv, NEW r \in Runs, cancelled[r]
               PROVE  /\ record[r] \in {"running", "stopping", "cancelled"}
                      /\ \A i \in DOMAIN told[r] : told[r][i] = <<"cancelled", "cancelled">>
                      /\ observed[r] \in {"none", "cancelled"}
    BY DEF CancelWins
  <2>1. End(r)
    BY DEF IInv, EndInv
  <2>2. told[r] # <<>> => told[r] = << <<"cancelled", "cancelled">> >>
    BY <2>1 DEF End, OneEnd, Terminal
  <2>3. observed[r] \in {"none", "cancelled"}
    <3>1. observed[r] \in Terminal \cup {"none"}
      BY DEF IInv, TypeOK
    <3> QED
      BY <2>1, <3>1 DEF End, Terminal
  <2>4. ASSUME NEW i \in DOMAIN told[r] PROVE told[r][i] = <<"cancelled", "cancelled">>
    BY <2>2, <2>4
  <2> QED
    BY <2>1, <2>3, <2>4 DEF End
<1> QED
  BY <1>1, Invariant, PTL

(* One run has one end: the hook is called once, with the state that the    *)
(* observer, the archive and the journal have too (FinishGuard).            *)
THEOREM RunsEndOnce == Spec => []EndsOnce
<1>1. IInv => EndsOnce
  <2> SUFFICES ASSUME IInv PROVE EndsOnce
    OBVIOUS
  <2>1. ASSUME NEW r \in Runs
        PROVE  /\ End(r) /\ Kept(r) /\ told[r] \in Tellings
    BY DEF IInv, EndInv, ArchiveInv
  <2>2. ASSUME NEW r \in Runs
        PROVE  /\ \A i \in DOMAIN told[r] : told[r][i] = <<record[r], record[r]>>
               /\ Len(told[r]) <= 1
               /\ pc[r] = "done" => Len(told[r]) = 1
    <3>1. CASE told[r] = <<>>
      BY <2>1, <3>1 DEF End
    <3>2. CASE told[r] = << <<record[r], record[r]>> >>
      BY <3>2
    <3> QED
      BY <2>1, <3>1, <3>2 DEF End, OneEnd
  <2>3. ASSUME NEW r \in Runs
        PROVE  /\ observed[r] \in {"none", record[r]}
               /\ Archived(r) => /\ record[r] \in Terminal
                                 /\ journal[r] \in {"absent", "starting", record[r]}
    BY <2>1 DEF End, Kept, Ended
  <2> QED
    BY <2>2, <2>3 DEF EndsOnce, OutcomesAgree, HookOnce
<1> QED
  BY <1>1, Invariant, PTL

(* The rows of the journal are the runs there were: a row that says         *)
(* "starting" is that of a run under way, or its write failed, and a        *)
(* removed record does not come back (finalize, delete_terminal_records).   *)
THEOREM TrueJournal == Spec => []JournalIsTrue
<1>1. IInv => JournalIsTrue
  BY DEF IInv, TypeOK, ArchiveInv, Kept, JournalIsTrue, NoGhostRows, RemovedStaysRemoved
<1> QED
  BY <1>1, Invariant, PTL

(* wait_terminal returns a run only when it is over, with its final state,  *)
(* and calls unknown only what the archive has dropped.                     *)
THEOREM SoundWaits == Spec => []WaitsAreSound
<1>1. IInv => WaitsAreSound
  <2> SUFFICES ASSUME IInv PROVE WaitsAreSound
    OBVIOUS
  <2>1. TypeOK /\ SlotInv /\ \A w \in Waiters : Knows(w)
    BY DEF IInv, WaitInv
  <2>2. NoGap
    BY <2>1 DEF NoGap, Knows
  <2>3. ASSUME NEW w \in Waiters, waiter[w].pc = "returned", waiter[w].got # "gone"
        PROVE  LET r == waiter[w].run IN
               ~lease[r] /\ slot[device[r]] # r /\ record[r] = waiter[w].got
    <3> DEFINE r == waiter[w].run
    <3>1. r \in Runs /\ r \notin runs /\ record[r] = waiter[w].got
      BY <2>1, <2>3 DEF Knows
    <3>2. ~lease[r]
      BY <2>1, <3>1 DEF SlotInv, Active, Holding
    <3>3. slot[device[r]] # r
      BY <2>1, <3>1, NoRunAssumption, TaskTypes DEF SlotInv
    <3> QED
      BY <3>1, <3>2, <3>3
  <2> QED
    BY <2>2, <2>3 DEF WaitsAreSound, WaitMeansReleased, Waiting
<1> QED
  BY <1>1, Invariant, PTL

(* No step changes a published terminal state: no late cancellation, no     *)
(* mark_state, no second end.                                               *)
THEOREM FinalTerminal == Spec => TerminalIsFinal
<1>1. IInv /\ [Next]_vars => [\A r \in Runs : record[r] \in Terminal => record'[r] = record[r]]_vars
  BY EndIsFinal DEF IInv
<1> QED
  BY <1>1, Invariant, PTL DEF Spec, TerminalIsFinal
=============================================================================
