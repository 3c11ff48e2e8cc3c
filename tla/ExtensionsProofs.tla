-------------------------- MODULE ExtensionsProofs --------------------------
(* Proofs about Extensions for every set of extensions, of versions and of   *)
(* requirements, for any number of requests and calls and for every bound:   *)
(* the types, and every safety property.                                     *)
EXTENDS Extensions, TLAPS, FiniteSetTheorems, WellFoundedInduction

-----------------------------------------------------------------------------
(* Where an operation can be.                                                *)

(* The sections of each kind of operation, and those it may begin with when  *)
(* it takes the lock.                                                        *)
Changes == {"update", "quiet", "uninstall", "remove"}
StepsOf(kind) ==
    CASE kind = "install" ->
           {"install", "record", "enable", "start", "register", "publish", "degrade"}
      [] kind = "enable" -> {"enable", "start", "register", "publish"}
      [] kind = "disable" -> {"disable", "stopped"}
      [] kind \in {"update", "quiet"} ->
           {kind, "stopped", "archive", "select", "rollback", "start", "register", "publish"}
      [] kind \in {"uninstall", "remove"} ->
           {kind, "stopped", "files", "forget", "start", "register", "publish"}
      [] kind = "reconcile" -> {"clear", "start", "register", "publish", "degraded"}
      [] OTHER -> {}
Jobs == Requests \cup {"start", "rollback", "degrade", "clear", "degraded"}

Toward(o, pcs) == o.pc \in pcs \/ (o.pc = "lock" /\ o.job \in pcs)
Again == {"start", "register", "publish"}

(* An operation that changes an extension, from the moment it was stopped.   *)
Changing(o) ==
    o.kind \in Changes
    /\ Toward(o, {"archive", "select", "rollback", "files", "forget"} \cup Again)

(* An operation after a step.                                                *)
Turned(o, pc, job, was, old, first, err) ==
    [pc |-> pc, kind |-> o.kind, id |-> o.id, ver |-> o.ver, job |-> job,
     was |-> was, old |-> old, first |-> first, err |-> err]
Onto(o, pc) == Turned(o, pc, o.job, o.was, o.old, o.first, o.err)

Resting(o) == o.pc \in {"idle", "next"}
Placed(o) ==
    /\ Resting(o) => o = Onto(Idle, o.pc)
    /\ ~Resting(o) => o.id \in Ids
    /\ o.pc \in {"gate", "lock"} => o.job \in StepsOf(o.kind) \cap Jobs
    /\ o.pc = "gate" => o.job # "install" /\ (o.kind \in Changes => o.job = o.kind)
    /\ o.pc \in Sections => o.pc \in StepsOf(o.kind)
    /\ o.kind \in {"install"} \cup Changes => o.ver \in Versions
    /\ o.first => o.was
    /\ o.was => o.kind \in Changes /\ (o.pc = "stopped" \/ Changing(o))
    /\ o.kind \in Changes /\ Toward(o, {"stopped", "rollback"} \cup Again) => o.was
    /\ o.pc = "degrade" \/ (o.pc \in {"gate", "lock"} /\ o.job = "degrade") =>
         o.err \notin {"none", "unregister"}

PlaceInv ==
    /\ \A m \in Procs : Placed(op[m])
    /\ \A m \in Managers : op[m].kind # "reconcile" /\ op[m].pc # "next"
    /\ op[Boot].kind \in {"reconcile", "none"}
    /\ IF booted THEN op[Boot] = Idle /\ todo = {}
       ELSE /\ \A m \in Managers : op[m] = Idle
            /\ \A c \in Callers : call[c].pc = "idle"
    /\ op[Boot].pc = "idle" => todo = {}

(* Who changes something has the operation lock, and who works on an         *)
(* extension its gate; the installation of files does without the gate.      *)
Holds(o) ==
    \/ o.pc \in Sections \ {"install", "record"}
    \/ o.pc = "lock" /\ o.job # "install"

LockInv == \A m \in Procs : lock = m <=> op[m].pc \in Sections

GateInv ==
    /\ \A m \in Procs : Holds(op[m]) => gate[op[m].id].writer = m
    /\ \A i \in Ids : gate[i].writer # NoOne =>
         /\ Holds(op[gate[i].writer]) /\ op[gate[i].writer].id = i
         /\ gate[i].readers = {}
    /\ \A c \in Callers : call[c].pc = "runs" =>
         call[c].id \in Ids /\ c \in gate[call[c].id].readers
    /\ \A i \in Ids : \A c \in gate[i].readers : call[c].pc = "runs" /\ call[c].id = i

-----------------------------------------------------------------------------
(* What is true of an extension while an operation is at a place.            *)

Down(i) == i \notin live /\ record[i].state # "running"

(* The removal of a version that is not the active one leaves the extension  *)
(* running.                                                                  *)
Aside(o) ==
    /\ o.kind = "uninstall" /\ ~o.was
    /\ record[o.id].state # "none" /\ o.ver # record[o.id].active

StoppedAt(o, i) ==
    o.pc = "stopped" =>
        /\ i \notin live /\ inst[i] = 0 /\ Readable(i)
        /\ o.kind # "disable" => record[i].state = "running"

StartedAt(o, i) ==
    o.pc \in {"register", "publish"} =>
        /\ record[i].state = "enabled" /\ Provided(i) /\ Readable(i)
        /\ inst[i] = IF i \in Resident THEN record[i].active ELSE 0
        /\ o.pc = "register" => i \notin live
        /\ o.pc = "publish" => i \in live /\ i \in runner

ChangedAt(o, i) ==
    Changing(o) =>
        /\ o.was => record[i].state \in {"enabled", "failed"}
        /\ o.pc # "publish" => Down(i) \/ (o.pc \in {"files", "forget"} /\ Aside(o))

FilesAt(o, i) ==
    /\ o.pc \in {"archive", "files"} => Readable(i)
    /\ o.pc = "select" => o.ver \in disk[i]
    /\ o.pc = "files" \/ (o.pc = "stopped" /\ o.kind \in {"uninstall", "remove"}) =>
         o.ver \in disk[i]
    /\ o.pc = "forget" =>
         /\ o.kind = "remove" => disk[i] = {}
         /\ Aside(o) => disk[i] # {}
         /\ record[i].state # "none" /\ o.ver # record[i].active /\ disk[i] # {} =>
              record[i].active \in disk[i]

WorkAt(m) ==
    LET o == op[m]  i == op[m].id IN
    /\ StoppedAt(o, i) /\ StartedAt(o, i)
    /\ ChangedAt(o, i) /\ FilesAt(o, i)
WorkInv == \A m \in Procs : WorkAt(m)

RecordInv ==
    \A i \in Ids :
        /\ IsFiniteSet(disk[i])
        /\ record[i].state = "disabled" => record[i].err \in {"none", "unregister"}

(* Nobody is in the middle of a start of the extension: then the marker, the *)
(* record, the runners and the instance agree.                               *)
LiveAt(i) ==
    IF i \in live
    THEN /\ record[i].state = "running" /\ i \in runner
         /\ record[i].active \in disk[i]
         /\ i \in Resident => inst[i] = record[i].active
    ELSE inst[i] = 0
LiveInv ==
    \A i \in Ids :
        (\A m \in Procs : ~(op[m].id = i /\ op[m].pc \in {"register", "publish"}))
            => LiveAt(i)

-----------------------------------------------------------------------------
(* The reconciliation.                                                       *)

(* It has an extension of which the record still says running.               *)
Clearing(o) == o.pc \in {"gate", "lock", "clear"} /\ o.job = "clear"
BootInv ==
    LET o == op[Boot]  i == op[Boot].id IN
    /\ \A j \in todo : record[j].state = "running" /\ j \notin live
    /\ ~Resting(o) =>
         /\ i \notin todo
         /\ Clearing(o) \/ Toward(o, {"degraded"} \cup Again)
         /\ Clearing(o) => record[i].state = "running" /\ i \notin live
         /\ ~Clearing(o) =>
              /\ record[i].state \in {"enabled", "failed"}
              /\ o.pc # "publish" => i \notin live

(* What must come back can: its providers must as well and are accepted, and *)
(* either it waits, or it is being started after them, or it runs.           *)
Owing(i) ==
    /\ ~Cyclic(i)
    /\ \A j \in Requires(i, record[i].active) :
         j \in owed /\ Accepts(i, j, record[j].active)
    /\ i \in todo \/ Up(i) \/ (op[Boot].id = i /\ ~Resting(op[Boot])
                                /\ ~Toward(op[Boot], {"degraded"}))
OwedInv ==
    owed # {} =>
        /\ ListOk /\ \A m \in Managers : op[m] = Idle
        /\ booted \/ op[Boot].pc # "idle"
        /\ \A i \in owed : Owing(i)
        /\ ~Resting(op[Boot]) /\ op[Boot].id \in owed =>
             /\ Requires(op[Boot].id, record[op[Boot].id].active) \cap todo = {}
             /\ Toward(op[Boot], {"start"}) => record[op[Boot].id].state = "enabled"

-----------------------------------------------------------------------------
(* Providers.                                                                *)

Listed(i) == Readable(i) \/ (record[i].state = "none" /\ disk[i] = {})
Uses(e, i) == Up(e) /\ i \in Requires(e, record[e].active)

FitAt(e, i) ==
    /\ i # e /\ record[i].state # "none" /\ Accepts(e, i, record[i].active)
    /\ Up(i) \/ i \in lost \/ \E m \in Procs : op[m].was /\ op[m].id = i
FitInv == \A e, i \in Ids : Uses(e, i) => FitAt(e, i)

(* What an operation that changes a provider was allowed to make of it.      *)
Removes(o) ==
    /\ o.kind \in {"uninstall", "remove"} /\ o.pc \in {"stopped", "files", "forget"}
    /\ o.kind = "remove" \/ o.was \/ o.ver = record[o.id].active
Left(m) == IF At(m, "forget") THEN disk[op[m].id] ELSE Remaining(m)
AcceptAt(m) ==
    LET o == op[m]  i == op[m].id IN
    \A e \in Ids : Uses(e, i) =>
        /\ o.pc = "stopped" => o.kind # "disable"
        /\ o.kind \in {"update", "quiet"} /\ o.pc \in {"stopped", "archive", "select"} =>
             Accepts(e, i, o.ver)
        /\ o.first \/ Toward(o, {"rollback"}) => Accepts(e, i, o.old)
        /\ Toward(o, {"rollback"}) => i \in lost
        /\ Removes(o) => Left(m) # {} /\ Accepts(e, i, Highest(Left(m)))
AcceptInv == \A m \in Procs : AcceptAt(m)

OthersAt(m) ==
    op[m].was /\ op[m].pc \in {"stopped", "archive", "select", "files", "forget"} =>
        \A i \in Ids \ {op[m].id} : Listed(i)
OthersInv == \A m \in Procs : OthersAt(m)

Control == TypeOK /\ PlaceInv /\ LockInv /\ GateInv
State == RecordInv /\ WorkInv /\ LiveInv
Providers == FitInv /\ AcceptInv /\ OthersInv

-----------------------------------------------------------------------------
(* Without a death between the files of an extension and its record.         *)
ListInv ==
    \A i \in Ids : Listed(i) \/ \E m \in Managers : At(m, "forget") /\ op[m].id = i
StaleInv ==
    \A i \in Ids : record[i].state = "running" /\ i \notin live =>
        \/ /\ ~booted
           /\ At(Boot, "idle") \/ i \in todo \/ (Clearing(op[Boot]) /\ op[Boot].id = i)
        \/ \E m \in Procs : At(m, "stopped") /\ op[m].id = i

(* The files of an installation are there before its record.                *)
ArchivedInv == \A m \in Procs : At(m, "record") => op[m].ver \in disk[op[m].id]

USE ExtensionsAssumption

-----------------------------------------------------------------------------
(* The graph of the requirements: a way of n steps from a to b.              *)
Path(a, b, n) ==
  \E path \in [0..n -> Ids] :
    /\ path[0] = a /\ path[n] = b
    /\ \A k \in 0..(n - 1) : <<path[k], path[k + 1]>> \in Edges

(* Of a set of numbers there is a least one. *)
LEMMA Least ==
  ASSUME NEW S \in SUBSET Nat, S # {}
  PROVE  \E n \in S : \A k \in S : n <= k
<1> DEFINE less == OpToRel(<, Nat)
<1>1. \A x, y \in Nat : <<x, y>> \in less <=> x < y
  BY DEF OpToRel
<1> HIDE DEF less
<1>2. PICK n \in S : \A k \in S : ~(<<k, n>> \in less)
  BY NatLessThanWellFounded, WFMin, Zenon DEF less
<1>3. ASSUME NEW k \in S PROVE n <= k
  <2>1. ~(k < n) /\ k \in Nat /\ n \in Nat
    BY <1>1, <1>2
  <2> QED
    BY <2>1
<1> QED
  BY <1>3

(* A way that passes more places than there are passes one of them twice and *)
(* has a shorter one.                                                        *)
LEMMA Shortcut ==
  ASSUME NEW a, NEW b, NEW n \in Nat, n > Cardinality(Ids), Path(a, b, n)
  PROVE  \E m \in 1..(n - 1) : Path(a, b, m)
<1>1. PICK path \in [0..n -> Ids] :
        /\ path[0] = a /\ path[n] = b
        /\ \A k \in 0..(n - 1) : <<path[k], path[k + 1]>> \in Edges
  BY DEF Path
<1>2. Cardinality(Ids) \in Nat
  BY FS_CardinalityType
<1> DEFINE f == [k \in 1..n |-> path[k]]
<1>3. f \in [1..n -> Ids]
  OBVIOUS
<1>4. IsFiniteSet(1..n) /\ Cardinality(1..n) = n
  BY FS_Interval
<1>5. PICK u, w \in 1..n : u # w /\ f[u] = f[w]
  <2> HIDE DEF f
  <2> QED
    BY <1>2, <1>3, <1>4, FS_PigeonHole
<1>6. PICK x, y \in 1..n : x < y /\ path[x] = path[y]
  <2>1. path[u] = path[w]
    BY <1>5
  <2>2. CASE u < w
    BY <2>1, <2>2
  <2>3. CASE w < u
    BY <2>1, <2>3
  <2> QED
    BY <1>5, <2>2, <2>3
<1> DEFINE m == n - (y - x)
           short == [k \in 0..m |-> IF k <= x THEN path[k] ELSE path[k + (y - x)]]
<1>7. m \in 1..(n - 1) /\ x <= m
  BY <1>6
<1>8. short \in [0..m -> Ids]
  BY <1>6, <1>7
<1>9. short[0] = a /\ short[m] = b
  <2>1. CASE x = m
    BY <1>1, <1>6, <1>7, <2>1
  <2>2. CASE x # m
    BY <1>1, <1>6, <1>7, <2>2
  <2> QED
    BY <2>1, <2>2
<1>10. ASSUME NEW k \in 0..(m - 1)
       PROVE  <<short[k], short[k + 1]>> \in Edges
  <2>1. CASE k < x
    <3>1. short[k] = path[k] /\ short[k + 1] = path[k + 1] /\ k \in 0..(n - 1)
      BY <1>6, <1>7, <2>1
    <3> QED
      BY <1>1, <3>1
  <2>2. CASE k = x
    <3>1. short[k] = path[y] /\ short[k + 1] = path[y + 1] /\ y \in 0..(n - 1)
      BY <1>6, <1>7, <2>2
    <3> QED
      BY <1>1, <3>1
  <2>3. CASE k > x
    <3>1. /\ short[k] = path[k + (y - x)] /\ short[k + 1] = path[(k + (y - x)) + 1]
          /\ k + (y - x) \in 0..(n - 1)
      BY <1>6, <1>7, <2>3
    <3> QED
      BY <1>1, <3>1
  <2> QED
    BY <1>7, <2>1, <2>2, <2>3
<1>11. Path(a, b, m)
  <2> HIDE DEF short, m
  <2> QED
    BY <1>8, <1>9, <1>10 DEF Path
<1> QED
  BY <1>7, <1>11

(* So Reaches, which looks at ways no longer than there are extensions, is   *)
(* about ways of any length...                                               *)
LEMMA AnyLength ==
  ASSUME NEW a, NEW b, NEW n \in Nat \ {0}, Path(a, b, n)
  PROVE  Reaches(a, b)
<1> DEFINE S == {k \in Nat \ {0} : Path(a, b, k)}
<1>1. S \in SUBSET Nat /\ S # {}
  OBVIOUS
<1>2. PICK m \in S : \A k \in S : m <= k
  <2> HIDE DEF S
  <2> QED
    BY <1>1, Least
<1>3. m <= Cardinality(Ids)
  <2>1. Cardinality(Ids) \in Nat
    BY FS_CardinalityType
  <2> SUFFICES ASSUME m > Cardinality(Ids) PROVE FALSE
    BY <2>1
  <2>2. PICK k \in 1..(m - 1) : Path(a, b, k)
    BY Shortcut
  <2> QED
    BY <1>2, <2>2
<1>4. m \in 1..Cardinality(Ids)
  BY <1>3, FS_CardinalityType
<1> QED
  BY <1>4 DEF Reaches, Path

(* And the other way round: to reach is to have a path.                    *)
LEMMA Ways ==
  ASSUME NEW a, NEW b, Reaches(a, b)
  PROVE  \E n \in Nat \ {0} : Path(a, b, n)
<1>1. PICK n \in 1..Cardinality(Ids) : Path(a, b, n)
  BY DEF Reaches, Path
<1> QED
  BY <1>1, FS_CardinalityType

(* ...and goes on along the edges.                                           *)
LEMMA OneEdge ==
  ASSUME NEW a \in Ids, NEW b \in Ids, <<a, b>> \in Edges
  PROVE  Reaches(a, b)
<1> DEFINE path == [k \in 0..1 |-> IF k = 0 THEN a ELSE b]
<1>1. path \in [0..1 -> Ids] /\ path[0] = a /\ path[1] = b
  OBVIOUS
<1>2. \A k \in 0..(1 - 1) : <<path[k], path[k + 1]>> \in Edges
  BY <1>1
<1>3. Path(a, b, 1)
  <2> HIDE DEF path
  <2> QED
    BY <1>1, <1>2 DEF Path
<1> QED
  BY <1>3, AnyLength

(* Reaching goes on along an edge.                                         *)
LEMMA Onwards ==
  ASSUME NEW a, NEW b, NEW c \in Ids, Reaches(a, b), <<b, c>> \in Edges
  PROVE  Reaches(a, c)
<1>1. PICK n \in Nat \ {0} : Path(a, b, n)
  BY Ways
<1>2. PICK path \in [0..n -> Ids] :
        /\ path[0] = a /\ path[n] = b
        /\ \A k \in 0..(n - 1) : <<path[k], path[k + 1]>> \in Edges
  BY <1>1 DEF Path
<1> DEFINE long == [k \in 0..(n + 1) |-> IF k <= n THEN path[k] ELSE c]
<1>3. long \in [0..(n + 1) -> Ids] /\ long[0] = a /\ long[n + 1] = c
  BY <1>2
<1>4. ASSUME NEW k \in 0..((n + 1) - 1)
      PROVE  <<long[k], long[k + 1]>> \in Edges
  <2>1. CASE k < n
    BY <1>2, <2>1
  <2>2. CASE k = n
    BY <1>2, <2>2
  <2> QED
    BY <2>1, <2>2
<1>5. Path(a, c, n + 1)
  <2> HIDE DEF long
  <2> QED
    BY <1>3, <1>4 DEF Path
<1> QED
  BY <1>5, AnyLength

(* It can be led back along an edge.                                       *)
LEMMA Backwards ==
  ASSUME NEW a \in Ids, NEW b, NEW c, <<a, b>> \in Edges, Reaches(b, c)
  PROVE  Reaches(a, c)
<1>1. PICK n \in Nat \ {0} : Path(b, c, n)
  BY Ways
<1>2. PICK path \in [0..n -> Ids] :
        /\ path[0] = b /\ path[n] = c
        /\ \A k \in 0..(n - 1) : <<path[k], path[k + 1]>> \in Edges
  BY <1>1 DEF Path
<1> DEFINE long == [k \in 0..(n + 1) |-> IF k = 0 THEN a ELSE path[k - 1]]
<1>3. long \in [0..(n + 1) -> Ids] /\ long[0] = a /\ long[n + 1] = c
  BY <1>2
<1>4. ASSUME NEW k \in 0..((n + 1) - 1)
      PROVE  <<long[k], long[k + 1]>> \in Edges
  <2>1. CASE k = 0
    BY <1>2, <2>1
  <2>2. CASE k # 0
    <3>1. long[k] = path[k - 1] /\ long[k + 1] = path[(k - 1) + 1] /\ k - 1 \in 0..(n - 1)
      BY <2>2
    <3> QED
      BY <1>2, <3>1
  <2> QED
    BY <2>1, <2>2
<1>5. Path(a, c, n + 1)
  <2> HIDE DEF long
  <2> QED
    BY <1>3, <1>4 DEF Path
<1> QED
  BY <1>5, AnyLength

(* A set of extensions each of which requires another of the set has a cycle *)
(* in it.                                                                    *)
LEMMA FirstOfAll ==
  ASSUME NEW S \in SUBSET Ids, S # {}, \A i \in S : ~Reaches(i, i)
  PROVE  \E i \in S : \A j \in S : <<i, j>> \notin Edges
<1> SUFFICES ASSUME \A i \in S : \E j \in S : <<i, j>> \in Edges
             PROVE  FALSE
  OBVIOUS
<1> DEFINE Runs(n) == \E path \in [0..n -> S] :
                         \A k \in 0..(n - 1) : <<path[k], path[k + 1]>> \in Edges
           T == {n \in Nat : ~Runs(n)}
<1>1. Runs(0)
  <2>1. PICK i \in S : TRUE
    OBVIOUS
  <2> DEFINE path == [k \in 0..0 |-> i]
  <2>2. path \in [0..0 -> S] /\ 0..(0 - 1) = {}
    BY <2>1
  <2> HIDE DEF path
  <2> QED
    BY <2>2
<1>2. ASSUME NEW n \in Nat, Runs(n)
      PROVE  Runs(n + 1)
  <2>1. PICK path \in [0..n -> S] : \A k \in 0..(n - 1) : <<path[k], path[k + 1]>> \in Edges
    BY <1>2
  <2>2. path[n] \in S
    BY <2>1
  <2>3. PICK j \in S : <<path[n], j>> \in Edges
    BY <2>2
  <2> DEFINE long == [k \in 0..(n + 1) |-> IF k <= n THEN path[k] ELSE j]
  <2>4. long \in [0..(n + 1) -> S]
    BY <2>1
  <2>5. ASSUME NEW k \in 0..((n + 1) - 1)
        PROVE  <<long[k], long[k + 1]>> \in Edges
    <3>1. CASE k < n
      BY <2>1, <3>1
    <3>2. CASE k = n
      BY <2>3, <3>2
    <3> QED
      BY <3>1, <3>2
  <2> HIDE DEF long
  <2> QED
    BY <2>4, <2>5
<1>3. \A n \in Nat : Runs(n)
  <2> SUFFICES ASSUME T # {} PROVE FALSE
    OBVIOUS
  <2>1. T \in SUBSET Nat
    OBVIOUS
  <2>2. PICK n \in T : \A k \in T : n <= k
    <3> HIDE DEF T
    <3> QED
      BY <2>1, Least
  <2>3. n # 0 /\ n \in Nat /\ ~Runs(n)
    BY <1>1, <2>2
  <2>4. n - 1 \in Nat /\ n - 1 \notin T
    BY <2>2, <2>3
  <2>5. Runs(n - 1)
    BY <2>4
  <2>6. Runs((n - 1) + 1)
    <3> HIDE DEF Runs
    <3> QED
      BY <1>2, <2>4, <2>5
  <2> QED
    BY <2>3, <2>6
<1> DEFINE N == Cardinality(Ids)
<1>4. N \in Nat
  BY FS_CardinalityType
<1>5. PICK path \in [0..N -> S] : \A k \in 0..(N - 1) : <<path[k], path[k + 1]>> \in Edges
  <2> HIDE DEF N
  <2> QED
    BY <1>3, <1>4
<1>6. PICK u, w \in 0..N : u # w /\ path[u] = path[w]
  <2>1. IsFiniteSet(S) /\ Cardinality(S) <= N /\ Cardinality(S) \in Nat
    BY FS_Subset, FS_CardinalityType
  <2>2. IsFiniteSet(0..N) /\ Cardinality(0..N) = N + 1
    BY <1>4, FS_Interval
  <2>3. Cardinality(S) < Cardinality(0..N)
    BY <1>4, <2>1, <2>2
  <2> HIDE DEF N
  <2> QED
    BY <2>1, <2>2, <2>3, FS_PigeonHole
<1>7. PICK x, y \in 0..N : x < y /\ path[x] = path[y]
  <2> HIDE DEF N
  <2>2. CASE u < w
    BY <1>6, <2>2
  <2>3. CASE w < u
    BY <1>6, <2>3
  <2> QED
    BY <1>4, <1>6, <2>2, <2>3
<1> DEFINE round == [k \in 0..(y - x) |-> path[x + k]]
<1> HIDE DEF N
<1>8. /\ round \in [0..(y - x) -> Ids] /\ y - x \in Nat \ {0}
      /\ round[0] = path[x] /\ round[y - x] = path[x]
  BY <1>4, <1>7
<1>9. ASSUME NEW k \in 0..((y - x) - 1)
      PROVE  <<round[k], round[k + 1]>> \in Edges
  <2>1. round[k] = path[x + k] /\ round[k + 1] = path[(x + k) + 1] /\ x + k \in 0..(N - 1)
    BY <1>4, <1>7
  <2> QED
    BY <1>5, <2>1
<1>10. Path(path[x], path[x], y - x)
  <2> HIDE DEF round
  <2> QED
    BY <1>8, <1>9 DEF Path
<1>11. Reaches(path[x], path[x]) /\ path[x] \in S
  BY <1>8, <1>10, AnyLength, <1>5, <1>7
<1> QED
  BY <1>11

-----------------------------------------------------------------------------
(* How an operation moves.                                                   *)

USE DEF Procs, At

(* The sections of each kind of operation, spelled out.                    *)
LEMMA Steps ==
  /\ StepsOf("install") =
       {"install", "record", "enable", "start", "register", "publish", "degrade"}
  /\ StepsOf("enable") = {"enable", "start", "register", "publish"}
  /\ StepsOf("disable") = {"disable", "stopped"}
  /\ StepsOf("update") =
       {"update", "stopped", "archive", "select", "rollback", "start", "register", "publish"}
  /\ StepsOf("quiet") =
       {"quiet", "stopped", "archive", "select", "rollback", "start", "register", "publish"}
  /\ StepsOf("uninstall") =
       {"uninstall", "stopped", "files", "forget", "start", "register", "publish"}
  /\ StepsOf("remove") =
       {"remove", "stopped", "files", "forget", "start", "register", "publish"}
  /\ StepsOf("reconcile") = {"clear", "start", "register", "publish", "degraded"}
  /\ StepsOf("none") = {}
BY DEF StepsOf

(* Which kinds of operation come to a section. *)
LEMMA KindsAt ==
  ASSUME NEW o \in Operations, Placed(o), o.pc \in Sections
  PROVE  /\ o.kind \in Requests \cup {"reconcile"}
         /\ o.pc = "install" => o.kind = "install"
         /\ o.pc = "record" => o.kind = "install"
         /\ o.pc = "degrade" => o.kind = "install"
         /\ o.pc = "enable" => o.kind \in {"install", "enable"}
         /\ o.pc = "disable" => o.kind = "disable"
         /\ o.pc = "stopped" => o.kind \in Changes \cup {"disable"}
         /\ o.pc \in {"archive", "select", "rollback"} => o.kind \in {"update", "quiet"}
         /\ o.pc \in {"files", "forget"} => o.kind \in {"uninstall", "remove"}
         /\ o.pc \in {"update", "quiet", "uninstall", "remove"} => o.kind = o.pc
         /\ o.pc \in {"clear", "degraded"} => o.kind = "reconcile"
         /\ o.pc \in Again => o.kind # "disable"
<1>1. o.pc \in StepsOf(o.kind) /\ o.kind \in Requests \cup {"reconcile", "none"}
  BY DEF Placed, Operations
<1> USE DEF Requests
<1>2. o.kind # "none"
  BY <1>1, Steps
<1>3. CASE o.kind = "install"
  BY <1>1, <1>3, Steps DEF Changes, Again
<1>4. CASE o.kind = "enable"
  BY <1>1, <1>4, Steps DEF Changes, Again
<1>5. CASE o.kind = "disable"
  BY <1>1, <1>5, Steps DEF Changes, Again
<1>6. CASE o.kind = "update"
  BY <1>1, <1>6, Steps DEF Changes, Again
<1>7. CASE o.kind = "quiet"
  BY <1>1, <1>7, Steps DEF Changes, Again
<1>8. CASE o.kind = "uninstall"
  BY <1>1, <1>8, Steps DEF Changes, Again
<1>9. CASE o.kind = "remove"
  BY <1>1, <1>9, Steps DEF Changes, Again
<1>10. CASE o.kind = "reconcile"
  BY <1>1, <1>10, Steps DEF Changes, Again
<1> QED
  BY <1>1, <1>2, <1>3, <1>4, <1>5, <1>6, <1>7, <1>8, <1>9, <1>10

(* Who is in a section is alone in it, and no other has its gate. *)
LEMMA Alone ==
  ASSUME Control, NEW m \in Procs, op[m].pc \in Sections
  PROVE  /\ op[m] \in Operations /\ Placed(op[m])
         /\ op[m].id \in Ids /\ lock = m
         /\ \A q \in Procs : q # m => op[q].pc \notin Sections
         /\ Holds(op[m]) => \A q \in Procs : q # m /\ Holds(op[q]) => op[q].id # op[m].id
<1>1. op[m] \in Operations /\ Placed(op[m])
  BY DEF Control, TypeOK, PlaceInv
<1>2. op[m].id \in Ids
  BY <1>1 DEF Placed, Resting, Sections
<1>3. lock = m /\ \A q \in Procs : q # m => op[q].pc \notin Sections
  BY DEF Control, LockInv
<1>4. ASSUME Holds(op[m]), NEW q \in Procs, q # m, Holds(op[q])
      PROVE  op[q].id # op[m].id
  BY <1>4 DEF Control, GateInv
<1> QED
  BY <1>1, <1>2, <1>3, <1>4

Gate == [writer : Procs \cup {NoOne}, readers : SUBSET Callers]

(* The gate of i is let go, if m holds it. *)
Opens(m, i) ==
  /\ gate' \in [Ids -> Gate]
  /\ \A j \in Ids : j # i => gate'[j] = gate[j]
  /\ gate'[i].readers = gate[i].readers
  /\ gate'[i].writer = IF gate[i].writer = m THEN NoOne ELSE gate[i].writer

(* What letting go of the gate does.                                       *)
LEMMA OpenGateOpens ==
  ASSUME TypeOK, NEW m \in Procs, op[m].id \in Ids, OpenGate(m)
  PROVE  Opens(m, op[m].id)
<1> DEFINE i == op[m].id
<1> DEFINE g == [writer |-> IF gate[i].writer = m THEN NoOne ELSE gate[i].writer,
                 readers |-> gate[i].readers]
<1>1. gate \in [Ids -> Gate]
  BY DEF TypeOK, Gate
<1>2. gate[i] \in Gate
  BY <1>1
<1>3. g \in Gate /\ [gate[i] EXCEPT !.writer = IF @ = m THEN NoOne ELSE @] = g
  BY <1>2 DEF Gate
<1>4. gate' = [gate EXCEPT ![i] = g]
  BY <1>3 DEF OpenGate
<1>5. g.writer = (IF gate[i].writer = m THEN NoOne ELSE gate[i].writer) /\ g.readers = gate[i].readers
  OBVIOUS
<1> HIDE DEF g
<1>6. gate' \in [Ids -> Gate] /\ gate'[i] = g /\ \A j \in Ids : j # i => gate'[j] = gate[j]
  BY <1>1, <1>3, <1>4
<1> QED
  BY <1>5, <1>6 DEF Opens

Same(o, n) == n.kind = o.kind /\ n.id = o.id /\ n.ver = o.ver
Rested(m) == Onto(Idle, IF m = Boot THEN "next" ELSE "idle")

Continues(m, i) ==
  /\ UNCHANGED <<gate, lock>> /\ Same(op[m], op'[m])
  /\ op'[m].pc \in Sections /\ (Holds(op'[m]) <=> Holds(op[m]))
Pauses(m, i) ==
  /\ gate' = gate /\ lock' = NoOne /\ Same(op[m], op'[m])
  /\ op'[m].pc = "lock" /\ op'[m].job # "install" /\ Holds(op[m])
Reopens(m, i) ==
  /\ Opens(m, i) /\ lock' = NoOne /\ Same(op[m], op'[m]) /\ op'[m].pc = "gate"
Returns(m, i) ==
  /\ Opens(m, i) /\ lock' = NoOne /\ op'[m] = Rested(m)

Moves(m, i) ==
  /\ op' \in [Procs -> Operations] /\ Placed(op'[m])
  /\ \A q \in Procs : q # m => op'[q] = op[q]
  /\ Continues(m, i) \/ Pauses(m, i) \/ Reopens(m, i) \/ Returns(m, i)

(* A step that moves as above keeps the places, the lock and the gates.    *)
LEMMA ControlMoves ==
  ASSUME Control, NEW m \in Procs, op[m].pc \in Sections, NEW i \in Ids, op[m].id = i,
         Moves(m, i), UNCHANGED <<call, todo, booted>>
  PROVE  PlaceInv' /\ LockInv' /\ GateInv'
<1>1. /\ op[m] \in Operations /\ Placed(op[m]) /\ lock = m
      /\ \A q \in Procs : q # m => op[q].pc \notin Sections
      /\ Holds(op[m]) => \A q \in Procs : q # m /\ Holds(op[q]) => op[q].id # i
  BY Alone
<1>2. Rested(m).pc = (IF m = Boot THEN "next" ELSE "idle") /\ Rested(m).kind = "none"
  BY DEF Rested, Onto, Turned, Idle
<1>3. op[m].pc \notin {"idle", "next", "gate", "lock"}
  BY DEF Sections
<1>4. ~Holds(Rested(m))
  BY <1>2 DEF Holds, Sections
<1>5. op'[m].pc = "gate" => ~Holds(op'[m])
  BY DEF Holds, Sections
<1>6. LockInv'
  <2>1. ASSUME NEW q \in Procs, q # m PROVE (lock = q <=> op[q].pc \in Sections)'
    BY <1>1, <2>1 DEF Moves, Continues, Pauses, Reopens, Returns
  <2>2. (lock = m <=> op[m].pc \in Sections)'
    BY <1>1, <1>2 DEF Moves, Continues, Pauses, Reopens, Returns, Sections
  <2> QED
    BY <2>1, <2>2 DEF LockInv
<1>7. GateInv'
  <2>0. m # NoOne /\ NoOne \notin Procs /\ GateInv /\ gate \in [Ids -> Gate]
    BY DEF Control, TypeOK, Gate
  <2>1. CASE gate' = gate /\ Same(op[m], op'[m]) /\ (Holds(op'[m]) <=> Holds(op[m]))
    <3>1. \A q \in Procs : op'[q].id = op[q].id /\ (Holds(op'[q]) <=> Holds(op[q]))
      BY <2>1 DEF Moves, Same
    <3>2. \A j \in Ids : gate[j].writer \in Procs \cup {NoOne}
      BY <2>0 DEF Gate
    <3>3. gate' = gate /\ call' = call
      BY <2>1
    <3> QED
      BY <2>0, <3>1, <3>2, <3>3 DEF GateInv
  <2>2. CASE Opens(m, i) /\ ~Holds(op'[m])
    <3>1. ASSUME NEW q \in Procs, Holds(op'[q]) PROVE gate'[op'[q].id].writer = q
      <4>1. q # m /\ op'[q] = op[q] /\ gate[op[q].id].writer = q
        BY <2>2, <2>0, <3>1 DEF Moves, GateInv
      <4>2. op[q].id \in Ids
        BY <4>1, <3>1 DEF Control, PlaceInv, Placed, Resting, Holds, Sections
      <4> QED
        BY <2>2, <4>1, <4>2 DEF Opens
    <3>2. ASSUME NEW j \in Ids, gate'[j].writer # NoOne
          PROVE  /\ Holds(op'[gate'[j].writer]) /\ op'[gate'[j].writer].id = j
                 /\ gate'[j].readers = {}
      <4>1. gate'[j].writer = gate[j].writer /\ gate'[j].readers = gate[j].readers
        BY <2>2, <3>2 DEF Opens
      <4>2. gate[j].writer # m
        BY <2>0, <2>2, <3>2, <4>1 DEF Opens, GateInv
      <4>3. gate[j].writer \in Procs
        BY <2>0, <3>2, <4>1 DEF Gate
      <4> QED
        BY <2>0, <3>2, <4>1, <4>2, <4>3 DEF GateInv, Moves
    <3>3. \A j \in Ids : gate'[j].readers = gate[j].readers
      BY <2>2 DEF Opens
    <3>4. call' = call
      OBVIOUS
    <3> QED
      BY <2>0, <3>1, <3>2, <3>3, <3>4 DEF GateInv
  <2> QED
    BY <1>4, <1>5, <2>1, <2>2 DEF Moves, Continues, Pauses, Reopens, Returns, Holds
<1>8. PlaceInv'
  <2>0. PlaceInv
    BY DEF Control
  <2>1. \A q \in Procs : Placed(op'[q])
    BY <2>0 DEF PlaceInv, Moves
  <2>2. (op'[m].kind \in {op[m].kind, "none"} /\ op'[m].pc # "idle") \/ m # Boot
    BY <1>2, <1>3 DEF Moves, Continues, Pauses, Reopens, Returns, Same, Sections
  <2>3. op'[m].kind \in {op[m].kind, "none"} /\ (m = Boot => op'[m].pc # "idle") /\ (m # Boot => op'[m].pc # "next")
    BY <1>2, <1>3 DEF Moves, Continues, Pauses, Reopens, Returns, Same, Sections
  <2>4. \A q \in Procs : q # m => op'[q] = op[q]
    BY DEF Moves
  <2>5. \A q \in Managers : op'[q].kind # "reconcile" /\ op'[q].pc # "next"
    BY <2>0, <2>3, <2>4 DEF PlaceInv
  <2>6. op'[Boot].kind \in {"reconcile", "none"} /\ (op'[Boot].pc = "idle" => todo' = {})
    BY <2>0, <2>3, <2>4 DEF PlaceInv
  <2>7. CASE booted
    <3>1. m # Boot
      BY <1>3, <2>0, <2>7 DEF PlaceInv, Idle
    <3> QED
      BY <2>0, <2>1, <2>4, <2>5, <2>6, <2>7, <3>1 DEF PlaceInv
  <2>8. CASE ~booted
    <3>1. m = Boot
      BY <1>3, <2>0, <2>8 DEF PlaceInv, Idle
    <3> QED
      BY <2>0, <2>1, <2>4, <2>5, <2>6, <2>8, <3>1 DEF PlaceInv
  <2> QED
    BY <2>7, <2>8
<1> QED
  BY <1>6, <1>7, <1>8

-----------------------------------------------------------------------------
(* What an operation changes.                                                *)

GoesOn(m, i, pc) == Continues(m, i) /\ op'[m] = Onto(op[m], pc)

(* An operation becomes another one.                                       *)
LEMMA Turn ==
  ASSUME op \in [Procs -> Operations], NEW m \in Procs, NEW n \in Operations,
         op' = [op EXCEPT ![m] = n]
  PROVE  op' \in [Procs -> Operations] /\ op'[m] = n /\ \A q \in Procs : q # m => op'[q] = op[q]
OBVIOUS

(* It goes to another place.                                               *)
LEMMA Ontos ==
  ASSUME NEW o \in Operations, NEW pc
  PROVE  [o EXCEPT !.pc = pc] = Onto(o, pc)
BY DEF Onto, Turned, Operations

(* Go does so, for the operation that takes the step.                      *)
LEMMA GoTurns ==
  ASSUME op \in [Procs -> Operations], NEW m \in Procs,
         NEW pc \in Sections, Go(m, pc)
  PROVE  /\ op' \in [Procs -> Operations] /\ op'[m] = Onto(op[m], pc)
         /\ \A q \in Procs : q # m => op'[q] = op[q]
<1>1. op[m] \in Operations
  OBVIOUS
<1>2. [op[m] EXCEPT !.pc = pc] = Onto(op[m], pc)
  BY <1>1, Ontos
<1>3. Onto(op[m], pc) \in Operations
  BY <1>1 DEF Onto, Turned, Operations
<1>4. op' = [op EXCEPT ![m] = Onto(op[m], pc)]
  BY <1>2 DEF Go
<1> QED
  BY <1>3, <1>4, Turn

(* An operation that is over.                                              *)
LEMMA RestedType ==
  ASSUME NEW m \in Procs
  PROVE  /\ Rested(m) \in Operations /\ Placed(Rested(m)) /\ Resting(Rested(m))
         /\ Rested(m).kind = "none" /\ Rested(m).job = "none" /\ Rested(m).id = NoOne
         /\ ~Rested(m).was /\ ~Rested(m).first /\ Rested(m).err = "none"
         /\ Rested(m).pc = IF m = Boot THEN "next" ELSE "idle"
<1> DEFINE r == Rested(m)
<1>1. r = [pc |-> IF m = Boot THEN "next" ELSE "idle", kind |-> "none", id |-> NoOne, ver |-> 0,
           job |-> "none", was |-> FALSE, old |-> 0, first |-> FALSE, err |-> "none"]
  BY DEF Rested, Onto, Turned, Idle
<1>2. r \in Operations
  BY <1>1 DEF Operations, Errors
<1>3. /\ r.pc = (IF m = Boot THEN "next" ELSE "idle") /\ r.kind = "none" /\ r.id = NoOne
      /\ r.job = "none" /\ ~r.was /\ ~r.first /\ r.err = "none"
  BY <1>1
<1>4. r = Onto(Idle, r.pc)
  BY <1>3 DEF Rested
<1> HIDE DEF r
<1>5. Placed(r)
  BY <1>3, <1>4 DEF Placed, Resting, Sections, Changes, Toward
<1> QED
  BY <1>2, <1>3, <1>5 DEF r, Resting

(* Done returns.                                                           *)
LEMMA DoneReturns ==
  ASSUME Control, NEW m \in Procs, NEW i \in Ids, op[m].id = i, Done(m)
  PROVE  Moves(m, i) /\ Returns(m, i)
<1>1. op \in [Procs -> Operations] /\ TypeOK
  BY DEF Control, TypeOK
<1>2. op' = [op EXCEPT ![m] = Rested(m)]
  <2>1. CASE m = Boot
    <3>1. [Idle EXCEPT !.pc = "next"] = Onto(Idle, "next")
      <4>1. Idle \in Operations
        BY DEF Idle, Operations, Errors
      <4> QED
        BY <4>1, Ontos
    <3> QED
      BY <2>1, <3>1 DEF Done, Rested
  <2>2. CASE m # Boot
    <3>1. Idle = Onto(Idle, "idle")
      BY DEF Onto, Turned, Idle
    <3> QED
      BY <2>2, <3>1 DEF Done, Rested
  <2> QED
    BY <2>1, <2>2
<1>3. op' \in [Procs -> Operations] /\ op'[m] = Rested(m) /\ \A q \in Procs : q # m => op'[q] = op[q]
  BY <1>1, <1>2, RestedType, Turn
<1>4. Opens(m, i) /\ lock' = NoOne
  BY <1>1, OpenGateOpens DEF Done, Unlock
<1> QED
  BY <1>3, <1>4, RestedType DEF Moves, Returns

(* The step is about extension i only. *)
Frame(i) ==
  /\ record' \in [Ids -> Records] /\ \A j \in Ids : j # i => record'[j] = record[j]
  /\ disk' \in [Ids -> SUBSET Versions] /\ \A j \in Ids : j # i => disk'[j] = disk[j]
  /\ inst' \in [Ids -> Versions \cup {0}] /\ \A j \in Ids : j # i => inst'[j] = inst[j]
  /\ live' \subseteq Ids /\ \A j \in Ids : j # i => (j \in live' <=> j \in live)
  /\ runner' \subseteq Ids /\ \A j \in Ids : j # i => (j \in runner' <=> j \in runner)
  /\ lost' \subseteq Ids /\ \A j \in Ids : j # i => (j \in lost' <=> j \in lost)
  /\ UNCHANGED <<call, todo, booted>>
  /\ owed' \in {owed, {}}
  /\ spent' \in [ops : Nat, calls : Nat, faults : Nat, crashes : Nat]

Puts(i, s, v, e) ==
  record'[i].state = s /\ record'[i].active = v /\ record'[i].err = e

(* A fault is counted, and releases the reconciliation from what it owes.  *)
LEMMA FaultFrame ==
  ASSUME TypeOK, Fault \/ NoFault
  PROVE  owed' \in {owed, {}} /\ spent' \in [ops : Nat, calls : Nat, faults : Nat, crashes : Nat]
<1>1. spent \in [ops : Nat, calls : Nat, faults : Nat, crashes : Nat]
  BY DEF TypeOK
<1>2. CASE Fault
  <2>1. spent' = [ops |-> spent.ops, calls |-> spent.calls, faults |-> spent.faults + 1,
                  crashes |-> spent.crashes]
    BY <1>1, <1>2 DEF Fault
  <2> QED
    BY <1>1, <1>2, <2>1 DEF Fault
<1> QED
  BY <1>1, <1>2 DEF NoFault

(* The latest of some versions. *)
LEMMA HighestIn ==
  ASSUME NEW S \in SUBSET Nat, IsFiniteSet(S), S # {}
  PROVE  Highest(S) \in S /\ \A w \in S : w <= Highest(S)
<1> DEFINE Top(T) == \E v \in T : \A w \in T : w <= v
<1> DEFINE N == {n \in Nat : \E T \in SUBSET S : T # {} /\ Cardinality(T) = n /\ ~Top(T)}
<1>1. \A T \in SUBSET S : IsFiniteSet(T) /\ Cardinality(T) \in Nat
  BY FS_Subset, FS_CardinalityType
<1>2. SUFFICES ASSUME ~Top(S) PROVE FALSE
  BY DEF Highest
<1>3. N # {}
  BY <1>1, <1>2
<1> HIDE DEF N
<1>4. PICK n \in N : \A k \in N : n <= k
  BY <1>3, Least DEF N
<1>5. PICK T \in SUBSET S : T # {} /\ Cardinality(T) = n /\ ~Top(T)
  BY <1>4 DEF N
<1>6. PICK x \in T : TRUE
  BY <1>5
<1> DEFINE U == T \ {x}
<1>7. Cardinality(U) \in Nat /\ n \in Nat /\ Cardinality(U) < n
  <2>1. Cardinality(U) = Cardinality(T) - 1
    BY <1>1, <1>5, <1>6, FS_RemoveElement
  <2>2. Cardinality(U) \in Nat
    BY <1>1
  <2> QED
    BY <1>1, <1>5, <2>1, <2>2
<1>8. x \in Nat /\ T \subseteq Nat
  BY <1>6
<1>9. CASE U = {}
  BY <1>5, <1>6, <1>8, <1>9
<1>10. CASE U # {}
  <2>1. U \in SUBSET S
    OBVIOUS
  <2>2. Top(U)
    BY <1>4, <1>7, <1>10, <2>1 DEF N
  <2>3. PICK y \in U : \A w \in U : w <= y
    BY <2>2
  <2> QED
    BY <1>5, <1>6, <1>8, <2>3
<1> QED
  BY <1>9, <1>10

(* The forms in which the actions write a record.                          *)
LEMMA Rewritten ==
  ASSUME NEW r \in Records, NEW s \in States, NEW e \in Errors
  PROVE  [r EXCEPT !.state = s, !.err = e] = [state |-> s, active |-> r.active, err |-> e]
<1> DEFINE q == [r EXCEPT !.state = s]
<1>1. q \in Records /\ q = [state |-> s, active |-> r.active, err |-> r.err]
  BY DEF Records
<1>2. [r EXCEPT !.state = s, !.err = e] = [q EXCEPT !.err = e]
  OBVIOUS
<1>3. q.state = s /\ q.active = r.active
  BY <1>1
<1> HIDE DEF q
<1>4. [q EXCEPT !.err = e] = [state |-> q.state, active |-> q.active, err |-> e]
  BY <1>1 DEF Records
<1> QED
  BY <1>2, <1>3, <1>4

(* Write keeps the active version and changes the rest.                    *)
LEMMA WritePuts ==
  ASSUME TypeOK, NEW i \in Ids, record[i].state # "none" \/ (Readable(i) /\ IsFiniteSet(disk[i])),
         NEW s \in States, NEW e \in Errors, Write(i, s, e)
  PROVE  /\ record' \in [Ids -> Records] /\ \A j \in Ids : j # i => record'[j] = record[j]
         /\ Puts(i, s, Record(i).active, e)
<1> DEFINE a == Record(i).active
<1> DEFINE n == [state |-> s, active |-> a, err |-> e]
<1>1. record \in [Ids -> Records] /\ record[i] \in Records /\ disk[i] \in SUBSET Versions
  BY DEF TypeOK
<1>2. a \in Versions \cup {0}
  BY <1>1 DEF Record, Readable, Records
<1>3. n \in Records
  BY <1>2 DEF Records
<1>0. Record(i) \in Records
  BY <1>1, <1>2 DEF Record, Installed, Records, States, Errors
<1>4. [Record(i) EXCEPT !.state = s, !.err = e] = n
  BY <1>0, Rewritten
<1>5. record' = [record EXCEPT ![i] = n]
  BY <1>4 DEF Write
<1>6. n.state = s /\ n.active = a /\ n.err = e
  OBVIOUS
<1> HIDE DEF n, a
<1>7. record' \in [Ids -> Records] /\ record'[i] = n /\ \A j \in Ids : j # i => record'[j] = record[j]
  BY <1>1, <1>3, <1>5
<1> QED
  BY <1>6, <1>7 DEF Puts, a
(* The forms in which the actions write an operation. *)
LEMMA Sectioned ==
  ASSUME NEW m \in Procs, op[m] \in Operations, NEW job, NEW first
  PROVE  /\ Section(m, job) =
              Turned(op[m], "lock", job, op[m].was, op[m].old, op[m].first, op[m].err)
         /\ [Section(m, job) EXCEPT !.first = first] =
              Turned(op[m], "lock", job, op[m].was, op[m].old, first, op[m].err)
<1> DEFINE q == Onto(op[m], "lock")
<1> DEFINE s == Turned(op[m], "lock", job, op[m].was, op[m].old, op[m].first, op[m].err)
<1>1. [op[m] EXCEPT !.pc = "lock"] = q
  BY Ontos
<1>2. Section(m, job) = [[op[m] EXCEPT !.pc = "lock"] EXCEPT !.job = job]
  BY DEF Section
<1>3. [q EXCEPT !.job = job] = s
  BY DEF Onto, Turned
<1>4. Section(m, job) = s
  BY <1>1, <1>2, <1>3
<1>5. [s EXCEPT !.first = first] =
        Turned(op[m], "lock", job, op[m].was, op[m].old, first, op[m].err)
  BY DEF Turned
<1> QED
  BY <1>4, <1>5

(* The same, with the error told.                                          *)
LEMMA Told ==
  ASSUME NEW m \in Procs, op[m] \in Operations, NEW err
  PROVE  [Section(m, "degraded") EXCEPT !.err = err] =
           Turned(op[m], "lock", "degraded", op[m].was, op[m].old, op[m].first, err)
<1> DEFINE s == Turned(op[m], "lock", "degraded", op[m].was, op[m].old, op[m].first, op[m].err)
<1>1. Section(m, "degraded") = s
  BY Sectioned
<1>2. [s EXCEPT !.err = err] =
        Turned(op[m], "lock", "degraded", op[m].was, op[m].old, op[m].first, err)
  BY DEF Turned
<1> QED
  BY <1>1, <1>2

(* The operation waits for the gate again.                                 *)
LEMMA Gated ==
  ASSUME op \in [Procs -> Operations], NEW m \in Procs, NEW job
  PROVE  [op EXCEPT ![m].pc = "gate", ![m].job = job] =
           [op EXCEPT ![m] = Turned(op[m], "gate", job, op[m].was, op[m].old, op[m].first, op[m].err)]
<1> DEFINE o == op[m]
<1> DEFINE q == Onto(o, "gate")
<1> DEFINE s == Turned(o, "gate", job, o.was, o.old, o.first, o.err)
<1>1. [o EXCEPT !.pc = "gate"] = q
  BY Ontos
<1>2. [q EXCEPT !.job = job] = s
  BY DEF Onto, Turned
<1>3. [op EXCEPT ![m].pc = "gate", ![m].job = job] =
        [op EXCEPT ![m] = [[op[m] EXCEPT !.pc = "gate"] EXCEPT !.job = job]]
  OBVIOUS
<1> QED
  BY <1>1, <1>2, <1>3

(* The same, with the error told.                                          *)
LEMMA GatedTold ==
  ASSUME op \in [Procs -> Operations], NEW m \in Procs, NEW err
  PROVE  [op EXCEPT ![m].pc = "gate", ![m].job = "degrade", ![m].err = err] =
           [op EXCEPT ![m] = Turned(op[m], "gate", "degrade", op[m].was, op[m].old, op[m].first, err)]
<1> DEFINE job == "degrade"
<1> DEFINE o == op[m]
<1> DEFINE q == Onto(o, "gate")
<1> DEFINE s == Turned(o, "gate", job, o.was, o.old, o.first, o.err)
<1> DEFINE t == Turned(o, "gate", job, o.was, o.old, o.first, err)
<1>1. [o EXCEPT !.pc = "gate"] = q
  BY Ontos
<1>2. [q EXCEPT !.job = job] = s /\ [s EXCEPT !.err = err] = t
  BY DEF Onto, Turned
<1>4. [op EXCEPT ![m].pc = "gate", ![m].job = job, ![m].err = err] =
        [op EXCEPT ![m] = [[[op[m] EXCEPT !.pc = "gate"] EXCEPT !.job = job] EXCEPT !.err = err]]
  OBVIOUS
<1> QED
  BY <1>1, <1>2, <1>4

-----------------------------------------------------------------------------
(* What a step has to keep of State, for the operation and its extension. *)
StateAt(m, i) ==
  /\ IsFiniteSet(disk'[i])
  /\ record'[i].state = "disabled" => record'[i].err \in {"none", "unregister"}
  /\ WorkAt(m)'
  /\ op'[m].pc \in {"register", "publish"} \/ LiveAt(i)'
  /\ ~Holds(op[m]) =>
       /\ i \in live' <=> i \in live
       /\ record[i].state # "none" => record'[i] = record[i]
       /\ record[i].state = "none" => record'[i].state \in {"none", "installed"}

(* The other operations find what they know unchanged.                     *)
LEMMA OthersWork ==
  ASSUME Control, State, NEW m \in Procs, op[m].pc \in Sections, NEW i \in Ids, op[m].id = i,
         Moves(m, i), Frame(i), StateAt(m, i), NEW q \in Procs, q # m
  PROVE  WorkAt(q)'
<1>1. op'[q] = op[q] /\ op[q].pc \notin Sections /\ Placed(op[q])
  BY Alone DEF Moves, Control, PlaceInv
<1> DEFINE o == op[q]
<1> DEFINE j == op[q].id
<1>2. o.pc \notin {"stopped", "register", "publish", "archive", "select", "files", "forget"}
  BY <1>1 DEF Sections
<1>3. ASSUME Changing(o)
      PROVE  record'[j].state \in {"enabled", "failed"} /\ record'[j].state # "running" /\ j \notin live'
  <2>1. o.pc = "lock" /\ o.job \in {"archive", "select", "rollback", "files", "forget"} \cup Again
        /\ o.kind \in Changes
    BY <1>1, <1>3 DEF Changing, Toward, Again, Sections
  <2>2. o.job \in {"rollback", "start"} /\ o.was /\ j \in Ids
    BY <1>1, <2>1 DEF Placed, Jobs, Requests, Toward, Again, Resting
  <2>3. record[j].state \in {"enabled", "failed"} /\ j \notin live
    BY <1>3, <2>1, <2>2 DEF State, WorkInv, WorkAt, ChangedAt, Down
  <2>4. CASE j # i
    BY <2>2, <2>3, <2>4 DEF Frame
  <2>5. CASE j = i
    <3>1. ~Holds(op[m])
      BY <2>1, <2>2, <2>5, Alone DEF Holds
    <3> QED
      BY <2>3, <2>5, <3>1 DEF StateAt
  <2> QED
    BY <2>3, <2>4, <2>5
<1> QED
  BY <1>1, <1>2, <1>3 DEF WorkAt, StoppedAt, StartedAt, ChangedAt, FilesAt, Down

(* A step about one extension keeps the invariant of the state.            *)
LEMMA StateMoves ==
  ASSUME Control, State, NEW m \in Procs, op[m].pc \in Sections, NEW i \in Ids, op[m].id = i,
         Moves(m, i), Frame(i), StateAt(m, i)
  PROVE  State'
<1>1. RecordInv'
  BY DEF State, RecordInv, Frame, StateAt
<1>2. WorkInv'
  <2>1. ASSUME NEW q \in Procs PROVE WorkAt(q)'
    BY OthersWork DEF StateAt
  <2> QED
    BY <2>1 DEF WorkInv
<1>3. ASSUME NEW j \in Ids,
             \A q \in Procs : ~(op'[q].id = j /\ op'[q].pc \in {"register", "publish"})
      PROVE  LiveAt(j)'
  <2>1. CASE j = i
    <3>1. op'[m].id = i \/ op'[m].pc \notin {"register", "publish"}
      BY RestedType DEF Moves, Continues, Pauses, Reopens, Returns, Same
    <3> QED
      BY <1>3, <2>1, <3>1 DEF StateAt
  <2>2. CASE j # i
    <3>1. \A q \in Procs : ~(op[q].id = j /\ op[q].pc \in {"register", "publish"})
      BY <1>3, <2>2 DEF Moves
    <3>2. LiveAt(j)
      BY <3>1 DEF State, LiveInv
    <3> QED
      BY <2>2, <3>2 DEF LiveAt, Frame
  <2> QED
    BY <2>1, <2>2
<1>4. LiveInv'
  BY <1>3 DEF LiveInv
<1> QED
  BY <1>1, <1>2, <1>4 DEF State

(* Nobody else is in the middle of a start. *)
LEMMA LiveNow ==
  ASSUME Control, State, NEW m \in Procs, op[m].pc \in Sections,
         op[m].pc \notin {"register", "publish"}, NEW i \in Ids
  PROVE  LiveAt(i)
<1>1. \A q \in Procs : ~(op[q].id = i /\ op[q].pc \in {"register", "publish"})
  BY Alone DEF Sections
<1> QED
  BY <1>1 DEF State, LiveInv

(* It keeps the types.                                                     *)
LEMMA TypeMoves ==
  ASSUME Control, NEW m \in Procs, NEW i \in Ids, op[m].id = i, Moves(m, i), Frame(i)
  PROVE  TypeOK'
<1>1. TypeOK
  BY DEF Control
<1>2. gate' \in [Ids -> Gate]
  BY <1>1 DEF TypeOK, Gate, Moves, Continues, Pauses, Reopens, Returns, Opens
<1>3. lock' \in Procs \cup {NoOne}
  BY <1>1 DEF TypeOK, Moves, Continues, Pauses, Reopens, Returns
<1>4. owed' \subseteq Ids
  BY <1>1 DEF TypeOK, Frame
<1>5. UNCHANGED <<call, todo, booted>>
  BY DEF Frame
<1>6. op' \in [Procs -> Operations]
  BY DEF Moves
<1> QED
  BY <1>1, <1>2, <1>3, <1>4, <1>5, <1>6 DEF TypeOK, Frame, Gate

(* The ways in which an operation moves. *)
LEMMA GoMoves ==
  ASSUME Control, NEW m \in Procs, NEW i \in Ids, op[m].id = i, NEW pc \in Sections,
         Go(m, pc), UNCHANGED <<gate, lock>>, Placed(Onto(op[m], pc)),
         Holds(Onto(op[m], pc)) <=> Holds(op[m])
  PROVE  Moves(m, i) /\ GoesOn(m, i, pc)
<1>1. /\ op' \in [Procs -> Operations] /\ op'[m] = Onto(op[m], pc)
      /\ \A q \in Procs : q # m => op'[q] = op[q]
  BY GoTurns DEF Control, TypeOK
<1>2. op'[m].pc = pc /\ Same(op[m], op'[m])
  BY <1>1 DEF Onto, Turned, Same
<1> QED
  BY <1>1, <1>2 DEF Moves, Continues, GoesOn

(* The operation goes on to its next section, which it waits for.          *)
LEMMA PauseMoves ==
  ASSUME Control, NEW m \in Procs, NEW i \in Ids, op[m].id = i, NEW n \in Operations,
         op' = [op EXCEPT ![m] = n], Same(op[m], n), n.pc = "lock", n.job # "install",
         Placed(n), Holds(op[m]), gate' = gate, Unlock
  PROVE  Moves(m, i) /\ Pauses(m, i) /\ op'[m] = n
<1>1. op' \in [Procs -> Operations] /\ op'[m] = n /\ \A q \in Procs : q # m => op'[q] = op[q]
  BY DEF Control, TypeOK
<1> QED
  BY <1>1 DEF Moves, Pauses, Unlock

(* It waits for the gate again.                                            *)
LEMMA GateMoves ==
  ASSUME Control, NEW m \in Procs, NEW i \in Ids, op[m].id = i, NEW n \in Operations,
         op' = [op EXCEPT ![m] = n], Same(op[m], n), n.pc = "gate",
         Placed(n), Opens(m, i), Unlock
  PROVE  Moves(m, i) /\ Reopens(m, i) /\ op'[m] = n
<1>1. op' \in [Procs -> Operations] /\ op'[m] = n /\ \A q \in Procs : q # m => op'[q] = op[q]
  BY DEF Control, TypeOK
<1> QED
  BY <1>1 DEF Moves, Reopens, Unlock

(* An operation that returned asks for nothing. *)
LEMMA RestedWork ==
  ASSUME NEW m \in Procs, op'[m] = Rested(m)
  PROVE  /\ WorkAt(m)' /\ op'[m].pc \notin {"register", "publish", "gate", "lock"} \cup Sections
         /\ op'[m].kind = "none" /\ ~op'[m].was
<1>1. op'[m].pc \in {"idle", "next"} /\ op'[m].kind = "none" /\ ~op'[m].was
  BY RestedType DEF Resting
<1> QED
  BY <1>1 DEF WorkAt, StoppedAt, StartedAt, ChangedAt, FilesAt, Changing, Changes, Sections

(* A step that changes no extension is about any of them.                  *)
LEMMA FrameStays ==
  ASSUME TypeOK, NEW i \in Ids, UNCHANGED <<durable, process, lost>>, Rest,
         owed' \in {owed, {}},
         spent' \in [ops : Nat, calls : Nat, faults : Nat, crashes : Nat]
  PROVE  Frame(i)
BY DEF Frame, TypeOK, durable, process, Rest

(* It returns and changed nothing. *)
LEMMA DoneKeeps ==
  ASSUME Control, State, NEW m \in Procs, NEW i \in Ids, op[m].id = i,
         op[m].pc \in Sections, op[m].pc \notin {"register", "publish"},
         Done(m), UNCHANGED <<durable, process, lost>>, Rest,
         owed' \in {owed, {}},
         spent' \in [ops : Nat, calls : Nat, faults : Nat, crashes : Nat]
  PROVE  Moves(m, i) /\ Returns(m, i) /\ Frame(i) /\ StateAt(m, i)
<1>1. Moves(m, i) /\ Returns(m, i)
  BY DoneReturns
<1>2. TypeOK /\ LiveAt(i) /\ RecordInv
  BY LiveNow DEF Control, State
<1>3. Frame(i)
  BY <1>2, FrameStays
<1>4. WorkAt(m)' /\ LiveAt(i)'
  BY <1>1, <1>2, RestedWork DEF Returns, LiveAt, durable, process
<1> QED
  BY <1>1, <1>2, <1>3, <1>4 DEF StateAt, RecordInv, durable, process

(* The version an operation installs or selects has a version directory. *)
LEMMA RecordIn ==
  ASSUME TypeOK, NEW i \in Ids, IsFiniteSet(disk[i]), record[i].state # "none" \/ disk[i] # {}
  PROVE  /\ Record(i) \in Records
         /\ record[i].state # "none" => Record(i) = record[i]
         /\ record[i].state = "none" => Record(i).state = "installed" /\ Record(i).active \in disk[i]
<1>1. record[i] \in Records /\ disk[i] \in SUBSET Nat /\ disk[i] \in SUBSET Versions
  BY DEF TypeOK, Versions
<1>2. record[i].state = "none" => Highest(disk[i]) \in disk[i]
  BY <1>1, HighestIn
<1> QED
  BY <1>1, <1>2 DEF Record, Installed, Records, States, Errors

-----------------------------------------------------------------------------
(* One lemma for each action: what it does, and that State survives it.      *)

(* What each step does, and that it keeps what is known of the extension.  *)
LEMMA InstallDoes ==
  ASSUME Control, State, NEW m \in Procs, NEW i \in Ids, op[m].id = i, Install(m)
  PROVE  /\ Moves(m, i) /\ Frame(i) /\ StateAt(m, i)
         /\ UNCHANGED <<record, process, lost>>
         /\ \/ /\ ListOk /\ op[m].ver \in Versions \ disk[i]
               /\ disk'[i] = disk[i] \cup {op[m].ver} /\ GoesOn(m, i, "record")
            \/ disk' = disk /\ Returns(m, i)
<1>1. op[m].pc = "install" /\ op[m].pc \in Sections
  BY DEF Install, Sections
<1>2. op[m] \in Operations /\ Placed(op[m]) /\ op[m].kind = "install" /\ ~Holds(op[m])
  BY <1>1, Alone, KindsAt DEF Holds
<1>3. op[m].ver \in Versions /\ ~op[m].was /\ ~op[m].first
  BY <1>1, <1>2 DEF Placed, Changes
<1>4. TypeOK /\ IsFiniteSet(disk[i]) /\ (record[i].state = "disabled" => record[i].err \in {"none", "unregister"})
  BY DEF Control, State, RecordInv
<1>5. LiveAt(i)
  BY <1>1, LiveNow
<1>6. UNCHANGED <<record, process, lost>> /\ Rest /\ (Fault \/ NoFault)
  BY DEF Install
<1>7. owed' \in {owed, {}} /\ spent' \in [ops : Nat, calls : Nat, faults : Nat, crashes : Nat]
  BY <1>4, <1>6, FaultFrame
<1>8. CASE UNCHANGED disk /\ Done(m)
  <2>1. UNCHANGED <<durable, process, lost>>
    BY <1>6, <1>8 DEF durable
  <2>2. Moves(m, i) /\ Returns(m, i) /\ Frame(i) /\ StateAt(m, i)
    BY <1>1, <1>6, <1>7, <1>8, <2>1, DoneKeeps
  <2> QED
    BY <1>6, <1>8, <2>2
<1>9. CASE /\ ListOk /\ op[m].ver \notin disk[i]
           /\ disk' = [disk EXCEPT ![i] = @ \cup {op[m].ver}]
           /\ Go(m, "record") /\ UNCHANGED <<gate, lock>>
  <2> DEFINE n == Onto(op[m], "record")
  <2>1. n.pc = "record" /\ Same(op[m], n) /\ n.was = FALSE /\ n.first = FALSE
    BY <1>2, <1>3 DEF Onto, Turned, Same, Operations
  <2>2. "record" \in Sections /\ "record" \in StepsOf(op[m].kind) /\ i \in Ids
    BY <1>2, Steps DEF Sections
  <2>3. Placed(n)
    BY <1>1, <1>2, <1>3, <2>1, <2>2 DEF Placed, Resting, Changes, Toward, Changing, Same
  <2>4. ~Holds(n)
    BY <2>1 DEF Holds
  <2>5. Moves(m, i) /\ GoesOn(m, i, "record")
    BY <1>2, <1>9, <2>2, <2>3, <2>4, GoMoves
  <2>6. disk'[i] = disk[i] \cup {op[m].ver} /\ disk' \in [Ids -> SUBSET Versions]
        /\ \A j \in Ids : j # i => disk'[j] = disk[j]
    BY <1>3, <1>4, <1>9 DEF TypeOK
  <2>7. Frame(i)
    BY <1>4, <1>6, <1>7, <2>6 DEF Frame, TypeOK, process, Rest
  <2>8. IsFiniteSet(disk'[i])
    <3>1. IsFiniteSet(disk[i] \cup {op[m].ver})
      BY <1>4, FS_AddElement
    <3> QED
      BY <2>6, <3>1
  <2>9. LiveAt(i)'
    BY <1>5, <1>6, <2>6 DEF LiveAt, process
  <2>10. op'[m].pc = "record" /\ op'[m].kind = "install" /\ ~op'[m].was
    BY <1>2, <2>1, <2>5 DEF GoesOn, Same
  <2>11. WorkAt(m)'
    BY <2>10 DEF WorkAt, StoppedAt, StartedAt, ChangedAt, FilesAt, Changing, Changes
  <2>12. StateAt(m, i)
    BY <1>4, <1>6, <2>8, <2>9, <2>11 DEF StateAt, process
  <2> QED
    BY <1>3, <1>6, <1>9, <2>5, <2>6, <2>7, <2>12
<1> QED
  BY <1>8, <1>9 DEF Install

LEMMA InstallRecordsDoes ==
  ASSUME Control, State, NEW m \in Procs, NEW i \in Ids, op[m].id = i, InstallRecords(m)
  PROVE  /\ Moves(m, i) /\ Frame(i) /\ StateAt(m, i)
         /\ UNCHANGED <<disk, process, lost>>
         /\ \/ record' = record
            \/ record[i].state = "none" /\ Puts(i, "installed", op[m].ver, "none")
         /\ \/ Returns(m, i)
            \/ /\ Reopens(m, i) /\ op'[m].job = "enable" /\ ~op'[m].first
               /\ record'[i].state # "running"
<1>1. op[m].pc = "record" /\ op[m].pc \in Sections
  BY DEF InstallRecords, Sections
<1>2. op[m] \in Operations /\ Placed(op[m]) /\ op[m].kind = "install" /\ ~Holds(op[m])
  BY <1>1, Alone, KindsAt DEF Holds
<1>3. op[m].ver \in Versions /\ ~op[m].was /\ ~op[m].first
  BY <1>1, <1>2 DEF Placed, Changes
<1>4. TypeOK /\ IsFiniteSet(disk[i]) /\ (record[i].state = "disabled" => record[i].err \in {"none", "unregister"})
  BY DEF Control, State, RecordInv
<1>5. LiveAt(i)
  BY <1>1, LiveNow
<1>6. UNCHANGED <<disk, process, lost, owed, spent>> /\ Rest
  BY DEF InstallRecords
<1>7. record' \in [Ids -> Records] /\ \A j \in Ids : j # i => record'[j] = record[j]
  BY <1>3, <1>4 DEF InstallRecords, TypeOK, Records, States, Errors, Installed
<1>8. record' = record \/ (record[i].state = "none" /\ Puts(i, "installed", op[m].ver, "none"))
  BY <1>4 DEF InstallRecords, Installed, Puts, TypeOK
<1>9. Frame(i)
  BY <1>4, <1>6, <1>7 DEF Frame, TypeOK, process, Rest
<1>10. LiveAt(i)'
  BY <1>5, <1>6, <1>8 DEF LiveAt, process, Puts
<1>11. WorkAt(m)' => StateAt(m, i)
  BY <1>4, <1>6, <1>8, <1>10 DEF StateAt, process, Puts
<1>12. CASE Done(m)
  <2>1. Moves(m, i) /\ Returns(m, i)
    BY <1>12, DoneReturns
  <2>2. WorkAt(m)'
    BY <2>1, RestedWork DEF Returns
  <2> QED
    BY <1>6, <1>8, <1>9, <1>11, <2>1, <2>2
<1>13. CASE /\ record'[i].state # "running" /\ Unlock /\ UNCHANGED gate
            /\ op' = [op EXCEPT ![m].pc = "gate", ![m].job = "enable"]
  <2> DEFINE n == Turned(op[m], "gate", "enable", op[m].was, op[m].old, op[m].first, op[m].err)
  <2>1. /\ n.pc = "gate" /\ n.job = "enable" /\ Same(op[m], n) /\ n.was = FALSE
        /\ n.first = FALSE /\ n \in Operations
    BY <1>2, <1>3 DEF Turned, Same, Operations, Sections
  <2>2. "enable" \in StepsOf(op[m].kind) \cap Jobs
    BY <1>2, Steps DEF Jobs, Requests
  <2>3. Placed(n)
    BY <1>1, <1>2, <1>3, <2>1, <2>2 DEF Placed, Resting, Changes, Toward, Changing, Same, Sections
  <2>4. Opens(m, i)
    <3>1. gate \in [Ids -> Gate] /\ gate[i].writer # m
      BY <1>2, <1>4 DEF TypeOK, Gate, Control, GateInv
    <3> QED
      BY <1>13, <3>1 DEF Opens
  <2>5. op' = [op EXCEPT ![m] = n]
    BY <1>4, <1>13, Gated DEF TypeOK
  <2>6. Moves(m, i) /\ Reopens(m, i) /\ op'[m] = n
    BY <1>13, <2>1, <2>3, <2>4, <2>5, GateMoves
  <2>7. op'[m].pc = "gate" /\ op'[m].kind = "install" /\ op'[m].job = "enable" /\ ~op'[m].first
    BY <1>2, <2>1, <2>6 DEF Same
  <2>8. WorkAt(m)'
    BY <2>7 DEF WorkAt, StoppedAt, StartedAt, ChangedAt, FilesAt, Changing, Changes
  <2> QED
    BY <1>6, <1>8, <1>9, <1>11, <1>13, <2>6, <2>7, <2>8
<1> QED
  BY <1>12, <1>13 DEF InstallRecords

LEMMA EnableDoes ==
  ASSUME Control, State, NEW m \in Procs, NEW i \in Ids, op[m].id = i, Enable(m)
  PROVE  /\ Moves(m, i) /\ Frame(i) /\ StateAt(m, i)
         /\ UNCHANGED <<disk, process, lost>>
         /\ \/ record' = record /\ Returns(m, i)
            \/ /\ Readable(i) /\ i \notin live
               /\ \E e \in Errors : Puts(i, "enabled", Record(i).active, e)
               /\ Returns(m, i) \/ (Reopens(m, i) /\ op'[m].job = "start" /\ ~op'[m].first)
<1>1. op[m].pc = "enable" /\ op[m].pc \in Sections
  BY DEF Enable, Sections
<1>2. op[m] \in Operations /\ Placed(op[m]) /\ op[m].kind \in {"install", "enable"} /\ Holds(op[m])
  BY <1>1, Alone, KindsAt DEF Holds
<1>3. ~op[m].was /\ ~op[m].first
  BY <1>1, <1>2 DEF Placed, Changes
<1>4. TypeOK /\ IsFiniteSet(disk[i]) /\ record[i] \in Records
  BY DEF Control, State, RecordInv, TypeOK
<1>5. LiveAt(i)
  BY <1>1, LiveNow
<1>6. UNCHANGED <<disk, process, lost, owed, spent>> /\ Rest
  BY DEF Enable
<1>7. owed' \in {owed, {}} /\ spent' \in [ops : Nat, calls : Nat, faults : Nat, crashes : Nat]
  BY <1>4, <1>6 DEF TypeOK
<1>8. CASE Done(m) /\ UNCHANGED record
  <2>1. UNCHANGED <<durable, process, lost>>
    BY <1>6, <1>8 DEF durable
  <2>2. Moves(m, i) /\ Returns(m, i) /\ Frame(i) /\ StateAt(m, i)
    BY <1>1, <1>6, <1>7, <1>8, <2>1, DoneKeeps
  <2> QED
    BY <1>6, <1>8, <2>2
<1>9. ASSUME Readable(i), ~(Record(i).state = "running" /\ i \in live),
             NEW e \in Errors, Write(i, "enabled", e),
             \/ Done(m)
             \/ /\ OpenGate(m) /\ Unlock
                /\ op' = [op EXCEPT ![m].pc = "gate", ![m].job = "start"]
      PROVE  /\ Moves(m, i) /\ Frame(i) /\ StateAt(m, i)
             /\ i \notin live /\ Puts(i, "enabled", Record(i).active, e)
             /\ Returns(m, i) \/ (Reopens(m, i) /\ op'[m].job = "start" /\ ~op'[m].first)
  <2>1. i \notin live
    BY <1>5, <1>9 DEF LiveAt, Record
  <2>2. /\ record' \in [Ids -> Records] /\ \A j \in Ids : j # i => record'[j] = record[j]
        /\ Puts(i, "enabled", Record(i).active, e)
    BY <1>4, <1>9, WritePuts DEF States
  <2>3. Frame(i)
    BY <1>4, <1>6, <2>2 DEF Frame, TypeOK, process, Rest
  <2>4. LiveAt(i)'
    BY <1>5, <1>6, <2>1, <2>2 DEF LiveAt, process, Puts
  <2>5. WorkAt(m)' => StateAt(m, i)
    BY <1>2, <1>4, <1>6, <2>2, <2>4 DEF StateAt, process, Puts
  <2>6. CASE Done(m)
    <3>1. Moves(m, i) /\ Returns(m, i)
      BY <2>6, DoneReturns
    <3>2. WorkAt(m)'
      BY <3>1, RestedWork DEF Returns
    <3> QED
      BY <2>1, <2>2, <2>3, <2>5, <3>1, <3>2
  <2>7. CASE /\ OpenGate(m) /\ Unlock
             /\ op' = [op EXCEPT ![m].pc = "gate", ![m].job = "start"]
    <3> DEFINE n == Turned(op[m], "gate", "start", op[m].was, op[m].old, op[m].first, op[m].err)
    <3>1. /\ n.pc = "gate" /\ n.job = "start" /\ Same(op[m], n) /\ n.was = FALSE
          /\ n.first = FALSE /\ n \in Operations
      BY <1>2, <1>3 DEF Turned, Same, Operations, Sections
    <3>2. "start" \in StepsOf(op[m].kind) \cap Jobs
      BY <1>2, Steps DEF Jobs, Requests
    <3>3. Placed(n)
      BY <1>1, <1>2, <1>3, <3>1, <3>2 DEF Placed, Resting, Changes, Toward, Changing, Same, Sections
    <3>4. Opens(m, i)
      BY <1>4, <2>7, OpenGateOpens
    <3>5. op' = [op EXCEPT ![m] = n]
      BY <1>4, <2>7, Gated DEF TypeOK
    <3>6. Moves(m, i) /\ Reopens(m, i) /\ op'[m] = n
      BY <2>7, <3>1, <3>3, <3>4, <3>5, GateMoves
    <3>7. op'[m].pc = "gate" /\ op'[m].kind \in {"install", "enable"} /\ op'[m].job = "start" /\ ~op'[m].first
      BY <1>2, <3>1, <3>6 DEF Same
    <3>8. WorkAt(m)'
      BY <3>7 DEF WorkAt, StoppedAt, StartedAt, ChangedAt, FilesAt, Changing, Changes
    <3> QED
      BY <2>1, <2>2, <2>3, <2>5, <3>6, <3>7, <3>8
  <2> QED
    BY <1>9, <2>6, <2>7
<1>10. CASE ~(~Readable(i) \/ (Record(i).state = "running" /\ i \in live))
  <2> DEFINE e == IF Record(i).state = "enabled" THEN record[i].err ELSE "none"
  <2>1. e \in Errors
    BY <1>4 DEF Records, Errors
  <2>2. Write(i, "enabled", e)
    BY <1>10 DEF Enable
  <2>3. \/ Done(m)
        \/ /\ OpenGate(m) /\ Unlock
           /\ op' = [op EXCEPT ![m].pc = "gate", ![m].job = "start"]
    BY <1>10 DEF Enable, Fresh
  <2> HIDE DEF e
  <2> QED
    BY <1>6, <1>9, <1>10, <2>1, <2>2, <2>3
<1> QED
  BY <1>8, <1>10 DEF Enable

-----------------------------------------------------------------------------
(* The start of an extension.                                                *)

(* What is known during a start.                                           *)
LEMMA InStart ==
  ASSUME Control, State, NEW m \in Procs, NEW i \in Ids, op[m].id = i, op[m].pc \in Again
  PROVE  /\ op[m] \in Operations /\ Placed(op[m]) /\ Holds(op[m]) /\ op[m].pc \in Sections
         /\ op[m].kind # "disable"
         /\ op[m].kind \in Changes => op[m].was /\ Changing(op[m])
         /\ op[m].kind \notin Changes => ~op[m].was /\ ~op[m].first
         /\ op[m].pc \in StepsOf(op[m].kind)
         /\ TypeOK /\ IsFiniteSet(disk[i]) /\ record[i] \in Records
         /\ record[i].state = "disabled" => record[i].err \in {"none", "unregister"}
<1>1. op[m].pc \in Sections /\ Holds(op[m])
  BY DEF Again, Sections, Holds
<1>2. op[m] \in Operations /\ Placed(op[m]) /\ op[m].kind # "disable"
  BY <1>1, Alone, KindsAt
<1>3. op[m].kind \in Changes => op[m].was /\ Changing(op[m])
  BY <1>2 DEF Placed, Toward, Changing
<1>4. op[m].kind \notin Changes => ~op[m].was /\ ~op[m].first
  BY <1>2 DEF Placed
<1>5. TypeOK /\ IsFiniteSet(disk[i]) /\ record[i] \in Records
  BY DEF Control, TypeOK, State, RecordInv
<1> QED
  BY <1>1, <1>2, <1>3, <1>4, <1>5 DEF Placed, State, RecordInv

(* What a failed start leaves to its operation. *)
Failed(m, i) ==
  \/ Returns(m, i)
  \/ /\ Pauses(m, i) /\ op'[m].job = "rollback"
     /\ op[m].kind \in {"update", "quiet"} /\ op[m].first
     /\ op'[m].was /\ op'[m].old = op[m].old /\ ~op'[m].first
  \/ /\ Pauses(m, i) /\ op'[m].job = "degraded"
     /\ op[m].kind = "reconcile" /\ ~op'[m].was /\ ~op'[m].first
  \/ /\ Reopens(m, i) /\ op'[m].job = "degrade"
     /\ op[m].kind = "install" /\ ~op'[m].was /\ ~op'[m].first

(* Where a failed start leads.                                             *)
LEMMA FailsDoes ==
  ASSUME Control, State, NEW m \in Procs, NEW i \in Ids, op[m].id = i, op[m].pc \in Again,
         NEW e \in Errors \ {"none", "unregister"}, Fails(m, e)
  PROVE  /\ Moves(m, i) /\ Failed(m, i)
         /\ (op[m].kind \in Changes => record'[i].state \in {"enabled", "failed"} /\ Down(i)')
              => WorkAt(m)'
         /\ op'[m].pc \notin {"register", "publish"}
         /\ op[m].kind = "reconcile" => Pauses(m, i) /\ op'[m].job = "degraded"
<1>1. /\ op[m] \in Operations /\ Placed(op[m]) /\ Holds(op[m]) /\ op[m].pc \in Sections
      /\ op[m].kind \in Changes => op[m].was
      /\ op[m].kind \notin Changes => ~op[m].was /\ ~op[m].first
      /\ TypeOK /\ op \in [Procs -> Operations]
  BY InStart DEF TypeOK
<1>2. CASE op[m].kind \in {"update", "quiet"} /\ op[m].first
  <2> DEFINE n == Turned(op[m], "lock", "rollback", op[m].was, op[m].old, FALSE, op[m].err)
  <2>1. /\ n.pc = "lock" /\ n.job = "rollback" /\ Same(op[m], n) /\ n.was /\ ~n.first
        /\ n.old = op[m].old /\ n \in Operations
    BY <1>1, <1>2 DEF Turned, Same, Operations, Sections, Changes
  <2>2. op' = [op EXCEPT ![m] = n] /\ gate' = gate /\ Unlock
    BY <1>1, <1>2, Sectioned DEF Fails
  <2>3. "rollback" \in StepsOf(op[m].kind) \cap Jobs
    BY <1>2, Steps DEF Jobs
  <2>4. Placed(n)
    BY <1>1, <1>2, <2>1, <2>3 DEF Placed, Resting, Changes, Toward, Changing, Same, Sections
  <2>5. Moves(m, i) /\ Pauses(m, i) /\ op'[m] = n
    BY <1>1, <2>1, <2>2, <2>4, PauseMoves
  <2>6. op'[m].pc = "lock" /\ op'[m].id = i /\ op'[m].kind \in Changes
    BY <1>2, <2>1, <2>5 DEF Same, Changes
  <2>7. (record'[i].state \in {"enabled", "failed"} /\ Down(i)') => WorkAt(m)'
    BY <2>6 DEF WorkAt, StoppedAt, StartedAt, ChangedAt, FilesAt
  <2> QED
    BY <1>2, <2>1, <2>5, <2>6, <2>7 DEF Failed, Changes
<1>3. CASE op[m].kind = "install"
  <2> DEFINE n == Turned(op[m], "gate", "degrade", op[m].was, op[m].old, op[m].first, e)
  <2>1. /\ n.pc = "gate" /\ n.job = "degrade" /\ Same(op[m], n) /\ ~n.was /\ ~n.first
        /\ n.err = e /\ n \in Operations
    BY <1>1, <1>3 DEF Turned, Same, Operations, Sections, Changes
  <2>2. op' = [op EXCEPT ![m] = n] /\ OpenGate(m) /\ Unlock
    <3>1. /\ op' = [op EXCEPT ![m].pc = "gate", ![m].job = "degrade", ![m].err = e]
          /\ OpenGate(m) /\ Unlock
      <4>1. ~(op[m].kind \in {"update", "quiet"} /\ op[m].first)
        BY <1>3
      <4> QED
        BY <1>3, <4>1 DEF Fails
    <3> QED
      <4>1. [op EXCEPT ![m].pc = "gate", ![m].job = "degrade", ![m].err = e] = [op EXCEPT ![m] = n]
        BY <1>1, GatedTold
      <4> HIDE DEF n
      <4> QED
        BY <3>1, <4>1
  <2>3. "degrade" \in StepsOf(op[m].kind) \cap Jobs
    BY <1>3, Steps DEF Jobs
  <2>4. Placed(n)
    BY <1>1, <1>3, <2>1, <2>3 DEF Placed, Resting, Changes, Toward, Changing, Same, Sections
  <2>5. Opens(m, i)
    BY <1>1, <2>2, OpenGateOpens
  <2>6. Moves(m, i) /\ Reopens(m, i) /\ op'[m] = n
    BY <1>1, <2>1, <2>2, <2>4, <2>5, GateMoves
  <2>7. op'[m].pc = "gate" /\ op'[m].kind = "install"
    BY <1>3, <2>1, <2>6 DEF Same
  <2>8. WorkAt(m)'
    BY <2>7 DEF WorkAt, StoppedAt, StartedAt, ChangedAt, FilesAt, Changing, Changes
  <2> QED
    BY <1>3, <2>1, <2>6, <2>7, <2>8 DEF Failed
<1>4. CASE op[m].kind = "reconcile"
  <2> DEFINE n == Turned(op[m], "lock", "degraded", op[m].was, op[m].old, op[m].first, e)
  <2>1. /\ n.pc = "lock" /\ n.job = "degraded" /\ Same(op[m], n) /\ ~n.was /\ ~n.first
        /\ n \in Operations
    BY <1>1, <1>4 DEF Turned, Same, Operations, Sections, Changes
  <2>2. op' = [op EXCEPT ![m] = n] /\ gate' = gate /\ Unlock
    <3>1. /\ op' = [op EXCEPT ![m] = [Section(m, "degraded") EXCEPT !.err = e]]
          /\ gate' = gate /\ Unlock
      <4>1. ~(op[m].kind \in {"update", "quiet"} /\ op[m].first) /\ op[m].kind # "install"
        BY <1>4
      <4> QED
        BY <1>4, <4>1 DEF Fails
    <3> QED
      <4>1. [Section(m, "degraded") EXCEPT !.err = e] = n
        BY <1>1, Told
      <4> HIDE DEF n
      <4> QED
        BY <3>1, <4>1
  <2>3. "degraded" \in StepsOf(op[m].kind) \cap Jobs
    BY <1>4, Steps DEF Jobs
  <2>4. Placed(n)
    BY <1>1, <1>4, <2>1, <2>3 DEF Placed, Resting, Changes, Toward, Changing, Same, Sections
  <2>5. Moves(m, i) /\ Pauses(m, i) /\ op'[m] = n
    BY <1>1, <2>1, <2>2, <2>4, PauseMoves
  <2>6. op'[m].pc = "lock" /\ op'[m].kind = "reconcile"
    BY <1>4, <2>1, <2>5 DEF Same
  <2>7. WorkAt(m)'
    BY <2>6 DEF WorkAt, StoppedAt, StartedAt, ChangedAt, FilesAt, Changing, Changes
  <2> QED
    BY <1>4, <2>1, <2>5, <2>6, <2>7 DEF Failed
<1>5. CASE /\ ~(op[m].kind \in {"update", "quiet"} /\ op[m].first)
           /\ op[m].kind \notin {"install", "reconcile"}
  <2>1. Done(m)
    BY <1>5 DEF Fails
  <2>2. Moves(m, i) /\ Returns(m, i)
    BY <2>1, DoneReturns
  <2> QED
    BY <1>5, <2>2, RestedWork DEF Failed, Returns
<1> QED
  BY <1>2, <1>3, <1>4, <1>5

(* What the steps of a start do.                                           *)
LEMMA StartRefusedDoes ==
  ASSUME Control, State, NEW m \in Procs, NEW i \in Ids, op[m].id = i, StartRefused(m)
  PROVE  /\ Moves(m, i) /\ Frame(i) /\ StateAt(m, i) /\ Failed(m, i)
         /\ op[m].kind = "reconcile" => Pauses(m, i) /\ op'[m].job = "degraded"
         /\ UNCHANGED <<disk, process>> /\ lost' = lost \cup {i}
         /\ \/ ~CanStart(i) /\ record' = record
            \/ /\ CanStart(i) /\ ~Provided(i)
               /\ record[i].state = "enabled"
               /\ Puts(i, "enabled", record[i].active, "dependency")
<1>1. op[m].pc = "start" /\ op[m].pc \in Again
  BY DEF StartRefused, Again
<1>2. /\ op[m] \in Operations /\ Placed(op[m]) /\ Holds(op[m]) /\ op[m].pc \in Sections
      /\ op[m].kind \in Changes => op[m].was /\ Changing(op[m])
      /\ TypeOK /\ IsFiniteSet(disk[i]) /\ record[i] \in Records
      /\ record[i].state = "disabled" => record[i].err \in {"none", "unregister"}
  BY <1>1, InStart
<1>3. LiveAt(i) /\ WorkAt(m)
  BY <1>1, <1>2, LiveNow DEF State, WorkInv
<1>4. UNCHANGED <<disk, process, owed, spent>> /\ Rest /\ lost' = lost \cup {i}
  BY DEF StartRefused
<1>5. PICK e \in {"state", "dependency"} :
         /\ Fails(m, e)
         /\ \/ ~CanStart(i) /\ record' = record
            \/ CanStart(i) /\ ~Provided(i) /\ Write(i, "enabled", "dependency")
  BY DEF StartRefused
<1>6. /\ Moves(m, i) /\ Failed(m, i)
      /\ (op[m].kind \in Changes => record'[i].state \in {"enabled", "failed"} /\ Down(i)')
           => WorkAt(m)'
      /\ op'[m].pc \notin {"register", "publish"}
      /\ op[m].kind = "reconcile" => Pauses(m, i) /\ op'[m].job = "degraded"
  BY <1>1, <1>5, FailsDoes DEF Errors
<1>7. op[m].kind \in Changes => record[i].state \in {"enabled", "failed"} /\ Down(i)
  BY <1>1, <1>2, <1>3 DEF WorkAt, ChangedAt
<1>8. CASE ~CanStart(i) /\ record' = record
  <2>1. Frame(i)
    BY <1>2, <1>4, <1>8 DEF Frame, TypeOK, process, Rest
  <2>2. WorkAt(m)'
    BY <1>4, <1>6, <1>7, <1>8 DEF Down, process
  <2>3. LiveAt(i)'
    BY <1>3, <1>4, <1>8 DEF LiveAt, process
  <2>4. StateAt(m, i)
    BY <1>2, <1>4, <1>8, <2>2, <2>3 DEF StateAt
  <2> QED
    BY <1>4, <1>6, <1>8, <2>1, <2>4
<1>9. CASE CanStart(i) /\ ~Provided(i) /\ Write(i, "enabled", "dependency")
  <2>1. record[i].state = "enabled" /\ Record(i) = record[i]
    BY <1>9 DEF CanStart, Record, Installed
  <2>2. /\ record' \in [Ids -> Records] /\ \A j \in Ids : j # i => record'[j] = record[j]
        /\ Puts(i, "enabled", record[i].active, "dependency")
    BY <1>2, <1>9, <2>1, WritePuts DEF States, Errors
  <2>3. Frame(i)
    BY <1>2, <1>4, <2>2 DEF Frame, TypeOK, process, Rest
  <2>4. i \notin live /\ inst[i] = 0
    BY <1>3, <2>1 DEF LiveAt
  <2>5. WorkAt(m)' /\ LiveAt(i)'
    BY <1>4, <1>6, <2>2, <2>4 DEF Down, process, Puts, LiveAt
  <2>6. StateAt(m, i)
    BY <1>2, <1>4, <2>2, <2>5 DEF StateAt, Puts
  <2> QED
    BY <1>4, <1>6, <1>9, <2>1, <2>2, <2>3, <2>4, <2>6 DEF process
<1> QED
  BY <1>5, <1>8, <1>9
(* What the checks of a start saw does not change with the start. *)
LEMMA ProvidedStays ==
  ASSUME NEW i \in Ids, record' = record, disk' = disk, record[i].state # "running",
         \A j \in Ids : j # i => (HasLive(j)' <=> HasLive(j)),
         Provided(i)
  PROVE  Provided(i)' /\ Readable(i)' = Readable(i)
<1>1. \A j : Record(j)' = Record(j)
  BY DEF Record
<1>2. \A j \in Ids : Readable(j)' = Readable(j)
  BY <1>1 DEF Readable
<1>3. Edges' = Edges
  BY <1>1 DEF Edges
<1>4. Cyclic(i)' = Cyclic(i)
  BY <1>3 DEF Cyclic, Reaches
<1>5. ListOk' = ListOk
  BY <1>2 DEF ListOk
<1>6. ASSUME NEW p \in Requires(i, record[i].active)
      PROVE  Readable(p)' /\ Accepts(i, p, Record(p).active)' /\ Up(p)'
  <2>1. p \in Ids
    BY <1>6 DEF Requires
  <2>2. Readable(p) /\ Accepts(i, p, Record(p).active) /\ Up(p)
    BY <1>6 DEF Provided, Satisfied
  <2>3. p # i
    BY <2>2 DEF Up
  <2>4. Accepts(i, p, Record(p).active)' = Accepts(i, p, Record(p).active)
    BY <1>1 DEF Accepts
  <2> QED
    BY <1>2, <2>1, <2>2, <2>3, <2>4 DEF Up
<1>7. Satisfied(i)'
  BY <1>6 DEF Satisfied
<1> QED
  BY <1>2, <1>4, <1>5, <1>7 DEF Provided

LEMMA StartDoes ==
  ASSUME Control, State, NEW m \in Procs, NEW i \in Ids, op[m].id = i, Start(m)
  PROVE  /\ Moves(m, i) /\ Frame(i) /\ StateAt(m, i)
         /\ UNCHANGED <<disk, runner, live>>
         /\ record[i].state = "enabled" /\ i \notin live /\ Provided(i)
         /\ \/ GoesOn(m, i, "register") /\ UNCHANGED <<record, lost, owed>>
            \/ /\ Failed(m, i) /\ lost' = lost \cup {i} /\ inst' = inst /\ owed' = {}
               /\ op[m].kind = "reconcile" => Pauses(m, i) /\ op'[m].job = "degraded"
               /\ \E s \in {"enabled", "failed"} : Puts(i, s, record[i].active, "runtime")
<1>1. op[m].pc = "start" /\ op[m].pc \in Again
  BY DEF Start, Again
<1>2. /\ op[m] \in Operations /\ Placed(op[m]) /\ Holds(op[m]) /\ op[m].pc \in Sections
      /\ op[m].kind \in Changes => op[m].was /\ Changing(op[m])
      /\ op[m].kind \notin Changes => ~op[m].was /\ ~op[m].first
      /\ op[m].kind # "disable" /\ op[m].pc \in StepsOf(op[m].kind)
      /\ TypeOK /\ IsFiniteSet(disk[i]) /\ record[i] \in Records
  BY <1>1, InStart
<1>3. LiveAt(i) /\ WorkAt(m)
  BY <1>1, <1>2, LiveNow DEF State, WorkInv
<1>4. UNCHANGED <<disk, runner, live>> /\ Rest /\ CanStart(i) /\ Provided(i) /\ (Fault \/ NoFault)
  BY DEF Start
<1>5. record[i].state = "enabled" /\ Record(i) = record[i] /\ i \notin live /\ inst[i] = 0 /\ Readable(i)
  BY <1>3, <1>4 DEF CanStart, Record, Installed, LiveAt
<1>6. owed' \in {owed, {}} /\ spent' \in [ops : Nat, calls : Nat, faults : Nat, crashes : Nat]
  BY <1>2, <1>4, FaultFrame
<1>7. CASE /\ inst' = IF i \in Resident
                      THEN [inst EXCEPT ![i] = Record(i).active] ELSE inst
           /\ Go(m, "register")
           /\ NoFault /\ UNCHANGED <<record, gate, lock, lost>>
  <2> DEFINE n == Onto(op[m], "register")
  <2>1. n.pc = "register" /\ Same(op[m], n) /\ n.was = op[m].was /\ n.first = op[m].first
    BY DEF Onto, Turned, Same
  <2>2. "register" \in Sections /\ "register" \in StepsOf(op[m].kind)
    BY <1>1, <1>2, KindsAt, Steps DEF Sections, Requests, Operations
  <2>3. Placed(n)
    BY <1>1, <1>2, <2>1, <2>2 DEF Placed, Resting, Changes, Toward, Changing, Same, Again
  <2>4. Holds(n)
    BY <2>1 DEF Holds, Sections
  <2>5. Moves(m, i) /\ GoesOn(m, i, "register")
    BY <1>2, <1>7, <2>2, <2>3, <2>4, GoMoves
  <2>6. /\ inst'[i] = IF i \in Resident THEN record[i].active ELSE 0
        /\ inst' \in [Ids -> Versions \cup {0}] /\ \A j \in Ids : j # i => inst'[j] = inst[j]
    BY <1>2, <1>5, <1>7 DEF TypeOK, Records
  <2>7. Frame(i)
    BY <1>2, <1>4, <1>6, <1>7, <2>6 DEF Frame, TypeOK, Rest
  <2>8. \A j \in Ids : j # i => (HasLive(j)' <=> HasLive(j))
    BY <1>4, <2>6 DEF HasLive
  <2>9. Provided(i)' /\ Readable(i)'
    BY <1>4, <1>5, <1>7, <2>8, ProvidedStays
  <2>10. op'[m].pc = "register" /\ op'[m].id = i
    BY <2>1, <2>5 DEF GoesOn, Same
  <2>11. record'[i].state = "enabled" /\ i \notin live' /\ record'[i].active = record[i].active
    BY <1>4, <1>5, <1>7
  <2>12. WorkAt(m)'
    <3>1. StartedAt(op[m], op[m].id)'
      BY <2>6, <2>9, <2>10, <2>11 DEF StartedAt
    <3> QED
      BY <2>10, <2>11, <3>1 DEF WorkAt, StoppedAt, ChangedAt, FilesAt, Down
  <2>13. StateAt(m, i)
    BY <1>2, <1>4, <1>5, <2>10, <2>11, <2>12 DEF StateAt
  <2> QED
    BY <1>4, <1>5, <1>7, <2>5, <2>7, <2>13 DEF NoFault
<1>8. ASSUME Fault, NEW s \in {"enabled", "failed"}, Write(i, s, "runtime"),
             lost' = lost \cup {i}, Fails(m, "runtime"), UNCHANGED inst
      PROVE  /\ Moves(m, i) /\ Frame(i) /\ StateAt(m, i)
             /\ Failed(m, i) /\ owed' = {}
             /\ op[m].kind = "reconcile" => Pauses(m, i) /\ op'[m].job = "degraded"
             /\ Puts(i, s, record[i].active, "runtime")
  <2>1. /\ Moves(m, i) /\ Failed(m, i)
        /\ (op[m].kind \in Changes => record'[i].state \in {"enabled", "failed"} /\ Down(i)')
             => WorkAt(m)'
        /\ op'[m].pc \notin {"register", "publish"}
        /\ op[m].kind = "reconcile" => Pauses(m, i) /\ op'[m].job = "degraded"
    BY <1>1, <1>8, FailsDoes DEF Errors
  <2>2. /\ record' \in [Ids -> Records] /\ \A j \in Ids : j # i => record'[j] = record[j]
        /\ Puts(i, s, record[i].active, "runtime")
    BY <1>2, <1>5, <1>8, WritePuts DEF States, Errors
  <2>3. Frame(i)
    BY <1>2, <1>4, <1>6, <1>8, <2>2 DEF Frame, TypeOK, Rest
  <2>4. WorkAt(m)' /\ LiveAt(i)'
    BY <1>4, <1>5, <1>8, <2>1, <2>2 DEF Down, Puts, LiveAt
  <2>5. StateAt(m, i)
    BY <1>2, <1>4, <2>2, <2>4 DEF StateAt, Puts
  <2> QED
    BY <1>8, <2>1, <2>2, <2>3, <2>5 DEF Fault
<1>9. CASE /\ Fault
           /\ \E s \in IF i \in Resident THEN {"enabled", "failed"} ELSE {"enabled"} :
                 Write(i, s, "runtime")
           /\ lost' = lost \cup {i}
           /\ Fails(m, "runtime") /\ UNCHANGED inst
  <2>1. PICK s \in {"enabled", "failed"} : Write(i, s, "runtime")
    BY <1>9
  <2> QED
    BY <1>4, <1>5, <1>8, <1>9, <2>1
<1> QED
  BY <1>7, <1>9 DEF Start

LEMMA RegisterDoes ==
  ASSUME Control, State, NEW m \in Procs, NEW i \in Ids, op[m].id = i, Register(m)
  PROVE  /\ Moves(m, i) /\ Frame(i) /\ StateAt(m, i)
         /\ disk' = disk /\ record[i].state = "enabled" /\ i \notin live
         /\ \/ GoesOn(m, i, "publish") /\ UNCHANGED <<record, inst, lost, owed>>
            \/ /\ Failed(m, i) /\ lost' = lost \cup {i} /\ owed' = {} /\ i \notin live'
               /\ op[m].kind = "reconcile" => Pauses(m, i) /\ op'[m].job = "degraded"
               /\ Puts(i, "failed", record[i].active, "runner")
<1>1. op[m].pc = "register" /\ op[m].pc \in Again
  BY DEF Register, Again
<1>2. /\ op[m] \in Operations /\ Placed(op[m]) /\ Holds(op[m]) /\ op[m].pc \in Sections
      /\ op[m].kind \in Changes => op[m].was /\ Changing(op[m])
      /\ op[m].kind \notin Changes => ~op[m].was /\ ~op[m].first
      /\ op[m].kind # "disable" /\ op[m].pc \in StepsOf(op[m].kind)
      /\ TypeOK /\ IsFiniteSet(disk[i]) /\ record[i] \in Records
  BY <1>1, InStart
<1>3. WorkAt(m)
  BY DEF State, WorkInv
<1>4. disk' = disk /\ Rest /\ (Fault \/ NoFault)
  BY DEF Register
<1>5. /\ record[i].state = "enabled" /\ Record(i) = record[i] /\ i \notin live /\ Readable(i)
      /\ Provided(i) /\ inst[i] = IF i \in Resident THEN record[i].active ELSE 0
  BY <1>1, <1>3 DEF WorkAt, StartedAt, Record, Installed
<1>6. owed' \in {owed, {}} /\ spent' \in [ops : Nat, calls : Nat, faults : Nat, crashes : Nat]
  BY <1>2, <1>4, FaultFrame
<1>7. CASE /\ runner' = runner \cup {i}
           /\ live' = live \cup {i}
           /\ Go(m, "publish")
           /\ NoFault /\ UNCHANGED <<inst, record, gate, lock, lost>>
  <2> DEFINE n == Onto(op[m], "publish")
  <2>1. n.pc = "publish" /\ Same(op[m], n) /\ n.was = op[m].was /\ n.first = op[m].first
    BY DEF Onto, Turned, Same
  <2>2. "publish" \in Sections /\ "publish" \in StepsOf(op[m].kind)
    BY <1>1, <1>2, KindsAt, Steps DEF Sections, Requests, Operations
  <2>3. Placed(n)
    BY <1>1, <1>2, <2>1, <2>2 DEF Placed, Resting, Changes, Toward, Changing, Same, Again
  <2>4. Holds(n)
    BY <2>1 DEF Holds, Sections
  <2>5. Moves(m, i) /\ GoesOn(m, i, "publish")
    BY <1>2, <1>7, <2>2, <2>3, <2>4, GoMoves
  <2>7. Frame(i)
    BY <1>2, <1>4, <1>6, <1>7 DEF Frame, TypeOK, Rest
  <2>8. \A j \in Ids : j # i => (HasLive(j)' <=> HasLive(j))
    BY <1>7 DEF HasLive
  <2>9. Provided(i)' /\ Readable(i)'
    BY <1>4, <1>5, <1>7, <2>8, ProvidedStays
  <2>10. op'[m].pc = "publish" /\ op'[m].id = i
    BY <2>1, <2>5 DEF GoesOn, Same
  <2>11. record'[i].state = "enabled" /\ i \in live' /\ i \in runner'
         /\ record'[i].active = record[i].active /\ inst'[i] = inst[i]
    BY <1>5, <1>7
  <2>12. WorkAt(m)'
    <3>1. StartedAt(op[m], op[m].id)'
      BY <1>5, <2>9, <2>10, <2>11 DEF StartedAt
    <3> QED
      BY <2>10, <2>11, <3>1 DEF WorkAt, StoppedAt, ChangedAt, FilesAt, Down
  <2>13. StateAt(m, i)
    BY <1>2, <1>4, <1>5, <2>10, <2>11, <2>12 DEF StateAt
  <2> QED
    BY <1>4, <1>5, <1>7, <2>5, <2>7, <2>13 DEF NoFault
<1>8. CASE /\ Fault
           /\ runner' = runner \ {i} /\ live' = live \ {i}
           /\ inst' = [inst EXCEPT ![i] = 0]
           /\ Write(i, "failed", "runner")
           /\ lost' = lost \cup {i}
           /\ Fails(m, "runner")
  <2>1. /\ Moves(m, i) /\ Failed(m, i)
        /\ (op[m].kind \in Changes => record'[i].state \in {"enabled", "failed"} /\ Down(i)')
             => WorkAt(m)'
        /\ op'[m].pc \notin {"register", "publish"}
        /\ op[m].kind = "reconcile" => Pauses(m, i) /\ op'[m].job = "degraded"
    BY <1>1, <1>8, FailsDoes DEF Errors
  <2>2. /\ record' \in [Ids -> Records] /\ \A j \in Ids : j # i => record'[j] = record[j]
        /\ Puts(i, "failed", record[i].active, "runner")
    BY <1>2, <1>5, <1>8, WritePuts DEF States, Errors
  <2>3. inst' \in [Ids -> Versions \cup {0}] /\ inst'[i] = 0 /\ \A j \in Ids : j # i => inst'[j] = inst[j]
    BY <1>2, <1>8 DEF TypeOK
  <2>4. Frame(i)
    BY <1>2, <1>4, <1>6, <1>8, <2>2, <2>3 DEF Frame, TypeOK, Rest
  <2>5. WorkAt(m)' /\ LiveAt(i)'
    BY <1>8, <2>1, <2>2, <2>3 DEF Down, Puts, LiveAt
  <2>6. StateAt(m, i)
    BY <1>2, <1>4, <2>2, <2>5 DEF StateAt, Puts
  <2> QED
    BY <1>4, <1>5, <1>8, <2>1, <2>2, <2>4, <2>6 DEF Fault
<1> QED
  BY <1>7, <1>8 DEF Register

LEMMA PublishDoes ==
  ASSUME Control, State, NEW m \in Procs, NEW i \in Ids, op[m].id = i, Publish(m)
  PROVE  /\ Moves(m, i) /\ Frame(i) /\ StateAt(m, i)
         /\ disk' = disk /\ record[i].state = "enabled" /\ Provided(i)
         /\ \/ /\ Returns(m, i) /\ RefreshOk(disk, record) /\ UNCHANGED <<process, owed>>
               /\ i \in live /\ lost' = lost \ {i} /\ Puts(i, "running", record[i].active, "none")
               /\ Up(i)'
            \/ /\ Failed(m, i) /\ lost' = lost \cup {i} /\ i \notin live'
               /\ op[m].kind = "reconcile" => Pauses(m, i) /\ op'[m].job = "degraded"
               /\ record'[i].state = "enabled" /\ record'[i].active = record[i].active
               /\ owed' = {} \/ ~RefreshOk(disk, record)
<1>1. op[m].pc = "publish" /\ op[m].pc \in Again
  BY DEF Publish, Again
<1>2. /\ op[m] \in Operations /\ Placed(op[m]) /\ Holds(op[m]) /\ op[m].pc \in Sections
      /\ TypeOK /\ IsFiniteSet(disk[i]) /\ record[i] \in Records
  BY <1>1, InStart
<1>3. WorkAt(m)
  BY DEF State, WorkInv
<1>4. disk' = disk /\ Rest /\ (Fault \/ NoFault)
  BY DEF Publish
<1>5. /\ record[i].state = "enabled" /\ Record(i) = record[i] /\ i \in live /\ i \in runner /\ Readable(i)
      /\ Provided(i) /\ inst[i] = IF i \in Resident THEN record[i].active ELSE 0
  BY <1>1, <1>3 DEF WorkAt, StartedAt, Record, Installed
<1>6. owed' \in {owed, {}} /\ spent' \in [ops : Nat, calls : Nat, faults : Nat, crashes : Nat]
  BY <1>2, <1>4, FaultFrame
<1>7. CASE /\ RefreshOk(disk, record)
           /\ Write(i, "running", "none")
           /\ lost' = lost \ {i}
           /\ Done(m)
           /\ NoFault /\ UNCHANGED process
  <2>1. Moves(m, i) /\ Returns(m, i) /\ WorkAt(m)'
    BY <1>7, DoneReturns, RestedWork DEF Returns
  <2>2. /\ record' \in [Ids -> Records] /\ \A j \in Ids : j # i => record'[j] = record[j]
        /\ Puts(i, "running", record[i].active, "none")
    BY <1>2, <1>5, <1>7, WritePuts DEF States, Errors
  <2>3. Frame(i)
    BY <1>2, <1>4, <1>6, <1>7, <2>2 DEF Frame, TypeOK, Rest, process
  <2>4. record[i].active \in disk[i] /\ record[i].active \in Versions /\ record[i].active # 0
    BY <1>2, <1>5 DEF Readable, TypeOK, Versions
  <2>5. LiveAt(i)' /\ Up(i)'
    BY <1>4, <1>5, <1>7, <2>2, <2>4 DEF LiveAt, Up, HasLive, Puts, process
  <2>6. StateAt(m, i)
    BY <1>2, <1>4, <2>1, <2>2, <2>5 DEF StateAt, Puts
  <2> QED
    BY <1>4, <1>5, <1>7, <2>1, <2>2, <2>3, <2>5, <2>6 DEF NoFault
<1>8. ASSUME RollBackStart(i), NEW e \in {"refresh", "io"}, Fails(m, e),
             \/ Write(i, "enabled", "refresh") /\ ~RefreshOk(disk, record)
             \/ record' = record /\ Fault
      PROVE  /\ Moves(m, i) /\ Frame(i) /\ StateAt(m, i)
             /\ Failed(m, i) /\ lost' = lost \cup {i} /\ i \notin live'
             /\ op[m].kind = "reconcile" => Pauses(m, i) /\ op'[m].job = "degraded"
             /\ record'[i].state = "enabled" /\ record'[i].active = record[i].active
             /\ owed' = {} \/ ~RefreshOk(disk, record)
  <2>1. /\ Moves(m, i) /\ Failed(m, i)
        /\ (op[m].kind \in Changes => record'[i].state \in {"enabled", "failed"} /\ Down(i)')
             => WorkAt(m)'
        /\ op'[m].pc \notin {"register", "publish"}
        /\ op[m].kind = "reconcile" => Pauses(m, i) /\ op'[m].job = "degraded"
    BY <1>1, <1>8, FailsDoes DEF Errors
  <2>2. /\ record' \in [Ids -> Records] /\ \A j \in Ids : j # i => record'[j] = record[j]
        /\ record'[i].state = "enabled" /\ record'[i].active = record[i].active
    BY <1>2, <1>5, <1>8, WritePuts DEF States, Errors, TypeOK, Puts
  <2>3. inst' \in [Ids -> Versions \cup {0}] /\ inst'[i] = 0 /\ \A j \in Ids : j # i => inst'[j] = inst[j]
    BY <1>2, <1>8 DEF TypeOK, RollBackStart
  <2>4. Frame(i)
    BY <1>2, <1>4, <1>6, <1>8, <2>2, <2>3 DEF Frame, TypeOK, Rest, RollBackStart
  <2>5. WorkAt(m)' /\ LiveAt(i)'
    BY <1>8, <2>1, <2>2, <2>3 DEF Down, LiveAt, RollBackStart
  <2>6. StateAt(m, i)
    BY <1>2, <1>4, <2>2, <2>5 DEF StateAt
  <2> QED
    BY <1>8, <2>1, <2>2, <2>4, <2>6 DEF Fault, RollBackStart
<1>9. CASE /\ ~RefreshOk(disk, record)
           /\ RollBackStart(i) /\ Write(i, "enabled", "refresh")
           /\ Fails(m, "refresh") /\ NoFault
  BY <1>4, <1>5, <1>8, <1>9
<1>10. CASE /\ Fault
            /\ RollBackStart(i) /\ UNCHANGED record
            /\ Fails(m, "io")
  BY <1>4, <1>5, <1>8, <1>10
<1> QED
  BY <1>7, <1>9, <1>10 DEF Publish

-----------------------------------------------------------------------------
(* The changes of an extension.                                              *)

(* What is known while an extension is changed.                            *)
LEMMA InChange ==
  ASSUME Control, State, NEW m \in Procs, NEW i \in Ids, op[m].id = i,
         op[m].pc \in Sections \ {"install", "record", "register", "publish"}
  PROVE  /\ op[m] \in Operations /\ Placed(op[m]) /\ Holds(op[m])
         /\ op[m].pc \in StepsOf(op[m].kind)
         /\ TypeOK /\ op \in [Procs -> Operations] /\ IsFiniteSet(disk[i]) /\ record[i] \in Records
         /\ disk[i] \in SUBSET Versions /\ disk[i] \in SUBSET Nat
         /\ record[i].state = "disabled" => record[i].err \in {"none", "unregister"}
         /\ LiveAt(i) /\ WorkAt(m)
<1>1. Holds(op[m])
  BY DEF Holds
<1>2. op[m] \in Operations /\ Placed(op[m])
  BY Alone
<1>3. TypeOK /\ op \in [Procs -> Operations] /\ IsFiniteSet(disk[i]) /\ record[i] \in Records
      /\ disk[i] \in SUBSET Versions
  BY DEF Control, TypeOK, State, RecordInv
<1>4. disk[i] \in SUBSET Nat
  BY <1>3 DEF Versions
<1>5. LiveAt(i) /\ WorkAt(m)
  BY LiveNow DEF State, WorkInv
<1> QED
  BY <1>1, <1>2, <1>3, <1>4, <1>5 DEF Placed, State, RecordInv

(* The operation goes on to start what it stopped. *)
StartsAgain(m, i) ==
  /\ Pauses(m, i) /\ op[m].was /\ op[m].kind \in Changes
  /\ op'[m].job = "start" /\ op'[m].was /\ op'[m].old = op[m].old

(* The operation goes on to the start.                                     *)
LEMMA StartAgain ==
  ASSUME Control, State, NEW m \in Procs, NEW i \in Ids, op[m].id = i,
         op[m].pc \in {"rollback", "archive", "select", "files", "forget"}, op[m].was,
         NEW first \in BOOLEAN, first => op[m].first,
         op' = [op EXCEPT ![m] = Turned(op[m], "lock", "start", op[m].was, op[m].old, first, op[m].err)],
         Unlock, gate' = gate
  PROVE  /\ Moves(m, i) /\ StartsAgain(m, i) /\ op'[m].first = first
         /\ (record'[i].state \in {"enabled", "failed"} /\ Down(i)') => WorkAt(m)'
<1>1. op[m].pc \in Sections \ {"install", "record", "register", "publish"}
  BY DEF Sections
<1>2. op[m] \in Operations /\ Placed(op[m]) /\ Holds(op[m])
  BY <1>1, InChange
<1>3. op[m].kind \in Changes
  BY <1>2 DEF Placed
<1> DEFINE n == Turned(op[m], "lock", "start", op[m].was, op[m].old, first, op[m].err)
<1>4. /\ n.pc = "lock" /\ n.job = "start" /\ Same(op[m], n) /\ n.was /\ n.first = first
      /\ n.old = op[m].old /\ n \in Operations
  BY <1>2 DEF Turned, Same, Operations, Sections
<1>5. "start" \in StepsOf(op[m].kind) \cap Jobs
  BY <1>3, Steps DEF Jobs, Changes
<1>6. Placed(n)
  BY <1>1, <1>2, <1>3, <1>4, <1>5 DEF Placed, Resting, Toward, Changing, Same, Sections, Again, Changes
<1>7. Moves(m, i) /\ Pauses(m, i) /\ op'[m] = n
  BY <1>2, <1>4, <1>6, PauseMoves
<1>8. op'[m].pc = "lock" /\ op'[m].id = i
  BY <1>4, <1>7 DEF Same
<1>9. (record'[i].state \in {"enabled", "failed"} /\ Down(i)') => WorkAt(m)'
  BY <1>8 DEF WorkAt, StoppedAt, StartedAt, ChangedAt, FilesAt
<1> QED
  BY <1>3, <1>4, <1>7, <1>9 DEF StartsAgain

(* A failure after the stop: what ran is started again.                    *)
LEMMA RestoreDoes ==
  ASSUME Control, State, NEW m \in Procs, NEW i \in Ids, op[m].id = i,
         op[m].pc \in {"archive", "files"}, Restore(m),
         UNCHANGED <<durable, process, lost>>, Rest, Fault
  PROVE  /\ Moves(m, i) /\ Frame(i) /\ StateAt(m, i)
         /\ Returns(m, i) \/ (StartsAgain(m, i) /\ ~op'[m].first)
<1>1. op[m].pc \in Sections \ {"install", "record", "register", "publish"}
  BY DEF Sections
<1>2. /\ op[m] \in Operations /\ Placed(op[m]) /\ Holds(op[m]) /\ LiveAt(i) /\ WorkAt(m) /\ TypeOK
      /\ IsFiniteSet(disk[i])
      /\ record[i].state = "disabled" => record[i].err \in {"none", "unregister"}
  BY <1>1, InChange
<1>3. owed' \in {owed, {}} /\ spent' \in [ops : Nat, calls : Nat, faults : Nat, crashes : Nat]
  BY <1>2, FaultFrame
<1>4. CASE ~op[m].was
  <2>1. Done(m)
    BY <1>4 DEF Restore
  <2> QED
    BY <1>1, <1>3, <2>1, DoneKeeps
<1>5. CASE op[m].was
  <2>1. /\ op' = [op EXCEPT ![m] = [Section(m, "start") EXCEPT !.first = FALSE]]
        /\ Unlock /\ gate' = gate
    BY <1>5 DEF Restore
  <2>2. [Section(m, "start") EXCEPT !.first = FALSE] =
          Turned(op[m], "lock", "start", op[m].was, op[m].old, FALSE, op[m].err)
    BY <1>2, Sectioned
  <2>3. /\ Moves(m, i) /\ StartsAgain(m, i) /\ op'[m].first = FALSE
        /\ (record'[i].state \in {"enabled", "failed"} /\ Down(i)') => WorkAt(m)'
    <3> HIDE DEF Turned
    <3> QED
      BY <1>5, <2>1, <2>2, StartAgain
  <2>4. op[m].kind \in Changes /\ Changing(op[m]) /\ ~Aside(op[m])
    BY <1>2, <1>5, <2>3 DEF StartsAgain, Changing, Toward, Aside
  <2>5. record[i].state \in {"enabled", "failed"} /\ Down(i)
    BY <1>2, <1>5, <2>4 DEF WorkAt, ChangedAt
  <2>6. Frame(i)
    BY <1>2, <1>3, FrameStays
  <2>7. WorkAt(m)' /\ LiveAt(i)'
    BY <1>2, <2>3, <2>5 DEF Down, LiveAt, durable, process
  <2>8. StateAt(m, i)
    BY <1>2, <2>7 DEF StateAt, durable
  <2> QED
    BY <2>3, <2>6, <2>8
<1> QED
  BY <1>4, <1>5

(* What the steps of a change do.                                          *)
LEMMA RollBackVersionDoes ==
  ASSUME Control, State, NEW m \in Procs, NEW i \in Ids, op[m].id = i, RollBackVersion(m)
  PROVE  /\ Moves(m, i) /\ Frame(i) /\ StateAt(m, i)
         /\ op[m].kind \in {"update", "quiet"}
         /\ UNCHANGED <<disk, process, lost>>
         /\ \/ record' = record /\ Returns(m, i)
            \/ /\ Readable(i) /\ op[m].old \in disk[i] /\ record[i].state # "none"
               /\ Puts(i, "enabled", op[m].old, "rolled back")
               /\ Returns(m, i) \/ (StartsAgain(m, i) /\ op'[m].first = op[m].first)
<1>1. op[m].pc = "rollback" /\ op[m].pc \in Sections \ {"install", "record", "register", "publish"}
  BY DEF RollBackVersion, Sections
<1>2. /\ op[m] \in Operations /\ Placed(op[m]) /\ Holds(op[m]) /\ LiveAt(i) /\ WorkAt(m) /\ TypeOK
      /\ op \in [Procs -> Operations] /\ IsFiniteSet(disk[i]) /\ record[i] \in Records
      /\ record[i].state = "disabled" => record[i].err \in {"none", "unregister"}
  BY <1>1, InChange
<1>3. op[m].kind \in {"update", "quiet"} /\ op[m].was
  BY <1>1, <1>2, KindsAt DEF Placed, Toward, Changes
<1>4. record[i].state \in {"enabled", "failed"} /\ Down(i) /\ inst[i] = 0
  BY <1>1, <1>2, <1>3 DEF WorkAt, ChangedAt, Changing, Toward, Changes, LiveAt, Down
<1>5. UNCHANGED <<disk, process, lost, owed, spent>> /\ Rest
  BY DEF RollBackVersion
<1>6. owed' \in {owed, {}} /\ spent' \in [ops : Nat, calls : Nat, faults : Nat, crashes : Nat]
  BY <1>2, <1>5 DEF TypeOK
<1>7. CASE Done(m) /\ UNCHANGED record
  <2>1. UNCHANGED <<durable, process, lost>>
    BY <1>5, <1>7 DEF durable
  <2>2. Moves(m, i) /\ Returns(m, i) /\ Frame(i) /\ StateAt(m, i)
    BY <1>1, <1>5, <1>6, <1>7, <2>1, DoneKeeps
  <2> QED
    BY <1>3, <1>5, <1>7, <2>2
<1>8. CASE Readable(i) /\ op[m].old \in disk[i]
  <2> DEFINE r == [state |-> "enabled", active |-> op[m].old, err |-> "rolled back"]
  <2>1. record' = [record EXCEPT ![i] = r]
    BY <1>8 DEF RollBackVersion
  <2>2. r \in Records
    BY <1>2 DEF Records, Operations, States, Errors
  <2>3. r.state = "enabled" /\ r.active = op[m].old /\ r.err = "rolled back"
    OBVIOUS
  <2>4. record' \in [Ids -> Records] /\ record'[i] = r /\ \A j \in Ids : j # i => record'[j] = record[j]
    <3> HIDE DEF r
    <3> QED
      BY <1>2, <2>1, <2>2 DEF TypeOK
  <2>5. Puts(i, "enabled", op[m].old, "rolled back")
    BY <2>3, <2>4 DEF Puts
  <2> HIDE DEF r
  <2>6. Frame(i)
    BY <1>2, <1>5, <1>6, <2>4 DEF Frame, TypeOK, process, Rest
  <2>7. LiveAt(i)' /\ Down(i)'
    BY <1>4, <1>5, <2>5 DEF LiveAt, process, Down, Puts
  <2>8. WorkAt(m)' => StateAt(m, i)
    BY <1>2, <1>5, <2>5, <2>7 DEF StateAt, Puts
  <2>9. CASE Done(m)
    <3>1. Moves(m, i) /\ Returns(m, i) /\ WorkAt(m)'
      BY <2>9, DoneReturns, RestedWork DEF Returns
    <3> QED
      BY <1>3, <1>4, <1>5, <1>8, <2>5, <2>6, <2>8, <3>1
  <2>10. CASE /\ Unlock /\ UNCHANGED gate
              /\ op' = [op EXCEPT ![m] = Section(m, "start")]
    <3>1. Section(m, "start") =
            Turned(op[m], "lock", "start", op[m].was, op[m].old, op[m].first, op[m].err)
      BY <1>2, Sectioned
    <3>2. op[m].first \in BOOLEAN
      BY <1>2 DEF Operations
    <3>3. /\ Moves(m, i) /\ StartsAgain(m, i) /\ op'[m].first = op[m].first
          /\ (record'[i].state \in {"enabled", "failed"} /\ Down(i)') => WorkAt(m)'
      BY <1>1, <1>3, <2>10, <3>1, <3>2, StartAgain
    <3> QED
      BY <1>3, <1>4, <1>5, <1>8, <2>5, <2>6, <2>7, <2>8, <3>3 DEF Puts
  <2> QED
    BY <1>8, <2>9, <2>10 DEF RollBackVersion, Fresh
<1> QED
  BY <1>7, <1>8 DEF RollBackVersion

LEMMA DegradeDoes ==
  ASSUME Control, State, NEW m \in Procs, NEW i \in Ids, op[m].id = i, Degrade(m)
  PROVE  /\ Moves(m, i) /\ Frame(i) /\ StateAt(m, i) /\ Returns(m, i)
         /\ UNCHANGED <<disk, process, lost>>
         /\ \/ record' = record
            \/ /\ Record(i).err = op[m].err /\ op[m].err \notin {"none", "unregister"}
               /\ record[i].state # "none" /\ record[i].state # "running"
               /\ Puts(i, "enabled", record[i].active, op[m].err)
<1>1. op[m].pc = "degrade" /\ op[m].pc \in Sections \ {"install", "record", "register", "publish"}
  BY DEF Degrade, Sections
<1>2. /\ op[m] \in Operations /\ Placed(op[m]) /\ Holds(op[m]) /\ LiveAt(i) /\ WorkAt(m) /\ TypeOK
      /\ op \in [Procs -> Operations] /\ IsFiniteSet(disk[i]) /\ record[i] \in Records
      /\ record[i].state = "disabled" => record[i].err \in {"none", "unregister"}
  BY <1>1, InChange
<1>3. op[m].err \notin {"none", "unregister"} /\ op[m].err \in Errors
  BY <1>1, <1>2 DEF Placed, Toward, Operations
<1>5. UNCHANGED <<disk, process, lost, owed, spent>> /\ Rest /\ Done(m)
  BY DEF Degrade
<1>6. owed' \in {owed, {}} /\ spent' \in [ops : Nat, calls : Nat, faults : Nat, crashes : Nat]
  BY <1>2, <1>5 DEF TypeOK
<1>7. CASE UNCHANGED record
  <2>1. UNCHANGED <<durable, process, lost>>
    BY <1>5, <1>7 DEF durable
  <2>2. Moves(m, i) /\ Returns(m, i) /\ Frame(i) /\ StateAt(m, i)
    BY <1>1, <1>5, <1>6, <1>7, <2>1, DoneKeeps
  <2> QED
    BY <1>5, <1>7, <2>2
<1>8. CASE /\ Readable(i) /\ Record(i).err = op[m].err
           /\ Record(i).state # "running" /\ ~HasLive(i)
           /\ Write(i, "enabled", op[m].err)
  <2>1. record[i].state # "none" /\ Record(i) = record[i]
    BY <1>3, <1>8 DEF Record, Installed
  <2>2. /\ record' \in [Ids -> Records] /\ \A j \in Ids : j # i => record'[j] = record[j]
        /\ Puts(i, "enabled", record[i].active, op[m].err)
    BY <1>2, <1>3, <1>8, <2>1, WritePuts DEF States
  <2>3. Frame(i)
    BY <1>2, <1>5, <1>6, <2>2 DEF Frame, TypeOK, process, Rest
  <2>4. LiveAt(i)'
    BY <1>2, <1>5, <1>8, <2>1, <2>2 DEF LiveAt, process, Puts
  <2>5. Moves(m, i) /\ Returns(m, i) /\ WorkAt(m)'
    BY <1>5, DoneReturns, RestedWork DEF Returns
  <2>6. StateAt(m, i)
    BY <1>2, <1>5, <2>2, <2>4, <2>5 DEF StateAt, Puts
  <2> QED
    BY <1>3, <1>5, <1>8, <2>1, <2>2, <2>3, <2>5, <2>6
<1> QED
  BY <1>7, <1>8 DEF Degrade
(* It returns or has stopped the extension.                                  *)
LEMMA StopDoes ==
  ASSUME Control, State, NEW m \in Procs, NEW i \in Ids, op[m].id = i,
         op[m].pc \in {"disable", "update", "quiet", "uninstall", "remove"},
         UNCHANGED <<durable, runner, lost>>, Rest, Fault \/ NoFault
  PROVE  /\ Done(m) /\ UNCHANGED <<live, inst>> =>
              Moves(m, i) /\ Returns(m, i) /\ Frame(i) /\ StateAt(m, i)
         /\ (/\ live' = live \ {i}
             /\ inst' = [inst EXCEPT ![i] = 0] \/ (inst[i] = 0 /\ inst' = inst)) =>
              /\ Frame(i) /\ i \notin live' /\ inst'[i] = 0
              /\ WorkAt(m)' => StateAt(m, i)
<1>1. op[m].pc \in Sections \ {"install", "record", "register", "publish"}
  BY DEF Sections
<1>2. /\ op[m] \in Operations /\ Placed(op[m]) /\ Holds(op[m]) /\ LiveAt(i) /\ WorkAt(m) /\ TypeOK
      /\ IsFiniteSet(disk[i])
      /\ record[i].state = "disabled" => record[i].err \in {"none", "unregister"}
  BY <1>1, InChange
<1>3. owed' \in {owed, {}} /\ spent' \in [ops : Nat, calls : Nat, faults : Nat, crashes : Nat]
  BY <1>2, FaultFrame
<1>4. ASSUME Done(m), UNCHANGED <<live, inst>>
      PROVE  Moves(m, i) /\ Returns(m, i) /\ Frame(i) /\ StateAt(m, i)
  <2>1. UNCHANGED <<durable, process, lost>>
    BY <1>4 DEF durable, process
  <2> QED
    BY <1>1, <1>3, <1>4, <2>1, DoneKeeps
<1>5. ASSUME live' = live \ {i}, inst' = [inst EXCEPT ![i] = 0] \/ (inst[i] = 0 /\ inst' = inst)
      PROVE  /\ Frame(i) /\ i \notin live' /\ inst'[i] = 0
             /\ WorkAt(m)' => StateAt(m, i)
  <2>1. inst' \in [Ids -> Versions \cup {0}] /\ inst'[i] = 0 /\ \A j \in Ids : j # i => inst'[j] = inst[j]
    BY <1>2, <1>5 DEF TypeOK
  <2>2. Frame(i)
    BY <1>2, <1>3, <1>5, <2>1 DEF Frame, TypeOK, durable, Rest
  <2>3. LiveAt(i)'
    BY <1>5, <2>1 DEF LiveAt
  <2>4. WorkAt(m)' => StateAt(m, i)
    BY <1>2, <2>3 DEF StateAt, durable
  <2> QED
    BY <1>5, <2>1, <2>2, <2>4
<1> QED
  BY <1>4, <1>5

LEMMA DisableDoes ==
  ASSUME Control, State, NEW m \in Procs, NEW i \in Ids, op[m].id = i, Disable(m)
  PROVE  /\ Moves(m, i) /\ Frame(i) /\ StateAt(m, i)
         /\ UNCHANGED <<durable, runner, lost>>
         /\ \/ Returns(m, i) /\ UNCHANGED <<live, inst>>
            \/ /\ GoesOn(m, i, "stopped") /\ op[m].kind = "disable"
               /\ MayBecome(i, 0) /\ i \notin live'
<1>1. op[m].pc = "disable" /\ op[m].pc \in Sections \ {"install", "record", "register", "publish"}
  BY DEF Disable, Sections
<1>2. /\ op[m] \in Operations /\ Placed(op[m]) /\ Holds(op[m]) /\ LiveAt(i) /\ WorkAt(m) /\ TypeOK
      /\ op[m].pc \in StepsOf(op[m].kind) /\ record[i] \in Records
  BY <1>1, InChange
<1>3. op[m].kind = "disable" /\ ~op[m].was /\ ~op[m].first
  BY <1>1, <1>2, KindsAt DEF Placed, Changes
<1>4. UNCHANGED <<durable, runner, lost>> /\ Rest /\ (Fault \/ NoFault)
  BY DEF Disable, StopOk
<1>5. CASE Done(m) /\ UNCHANGED <<live, inst>>
  BY <1>1, <1>4, <1>5, StopDoes
<1>6. CASE /\ MayBecome(i, 0) /\ Readable(i)
           /\ Go(m, "stopped") /\ UNCHANGED <<gate, lock>>
           /\ live' = live \ {i}
           /\ inst' = [inst EXCEPT ![i] = 0] \/ (inst[i] = 0 /\ inst' = inst)
  <2> DEFINE n == Onto(op[m], "stopped")
  <2>1. n.pc = "stopped" /\ Same(op[m], n) /\ n.was = op[m].was /\ n.first = op[m].first
    BY DEF Onto, Turned, Same
  <2>2. "stopped" \in Sections /\ "stopped" \in StepsOf(op[m].kind)
    BY <1>3, Steps DEF Sections
  <2>3. Placed(n)
    BY <1>1, <1>2, <1>3, <2>1, <2>2 DEF Placed, Resting, Changes, Toward, Changing, Same
  <2>4. Holds(n)
    BY <2>1 DEF Holds, Sections
  <2>5. Moves(m, i) /\ GoesOn(m, i, "stopped")
    BY <1>2, <1>6, <2>2, <2>3, <2>4, GoMoves
  <2>6. Frame(i) /\ i \notin live' /\ inst'[i] = 0 /\ (WorkAt(m)' => StateAt(m, i))
    BY <1>1, <1>4, <1>6, StopDoes
  <2>7. op'[m].pc = "stopped" /\ op'[m].kind = "disable" /\ op'[m].id = i
    BY <1>3, <2>1, <2>5 DEF GoesOn, Same
  <2>8. Readable(i)'
    BY <1>4, <1>6 DEF Readable, Record, durable
  <2>9. WorkAt(m)'
    BY <2>6, <2>7, <2>8 DEF WorkAt, StoppedAt, StartedAt, ChangedAt, FilesAt, Changing, Changes
  <2> QED
    BY <1>3, <1>4, <1>6, <2>5, <2>6, <2>9
<1>7. \/ Done(m) /\ UNCHANGED <<live, inst>>
      \/ /\ MayBecome(i, 0) /\ Readable(i)
         /\ Go(m, "stopped") /\ UNCHANGED <<gate, lock>>
         /\ live' = live \ {i}
         /\ inst' = [inst EXCEPT ![i] = 0] \/ (inst[i] = 0 /\ inst' = inst)
  <2>1. CASE /\ MayBecome(i, 0) /\ Readable(i) /\ Record(i).state # "running"
             /\ Go(m, "stopped") /\ UNCHANGED <<live, inst, gate, lock>>
    <3>1. i \notin live /\ inst[i] = 0
      BY <1>2, <2>1 DEF LiveAt, Record
    <3> QED
      BY <2>1, <3>1
  <2> QED
    BY <2>1 DEF Disable, StopOk
<1> QED
  BY <1>5, <1>6, <1>7

LEMMA UnregisterDoes ==
  ASSUME Control, State, NEW m \in Procs, NEW i \in Ids, op[m].id = i, Unregister(m)
  PROVE  /\ Moves(m, i) /\ Frame(i) /\ StateAt(m, i)
         /\ UNCHANGED <<disk, inst, live>> /\ i \notin live
         /\ \E s \in {"disabled", "enabled"}, e \in {"none", "unregister"} :
               /\ Puts(i, s, Record(i).active, e)
               /\ op[m].kind # "disable" => record[i].state = "running" /\ s = "enabled"
               /\ op[m].kind = "disable" => s = "disabled"
         /\ \/ Returns(m, i) /\ lost' = lost
                 /\ (op[m].kind # "disable" => ~RefreshOk(disk, record'))
            \/ Returns(m, i) /\ lost' = lost \cup {i}
            \/ /\ lost' = lost
               /\ \/ GoesOn(m, i, "archive") /\ op[m].kind \in {"update", "quiet"}
                  \/ GoesOn(m, i, "files") /\ op[m].kind \in {"uninstall", "remove"}
<1>1. op[m].pc = "stopped" /\ op[m].pc \in Sections \ {"install", "record", "register", "publish"}
  BY DEF Unregister, Sections
<1>2. /\ op[m] \in Operations /\ Placed(op[m]) /\ Holds(op[m]) /\ LiveAt(i) /\ WorkAt(m) /\ TypeOK
      /\ op[m].pc \in StepsOf(op[m].kind) /\ IsFiniteSet(disk[i]) /\ record[i] \in Records
  BY <1>1, InChange
<1>3. op[m].kind \in Changes \cup {"disable"}
  BY <1>1, <1>2, KindsAt
<1>4. op[m].kind \in Changes => op[m].was
  BY <1>1, <1>2 DEF Placed, Toward
<1>5. UNCHANGED <<disk, inst, live>> /\ Rest /\ (Fault \/ NoFault)
  BY DEF Unregister
<1>6. owed' \in {owed, {}} /\ spent' \in [ops : Nat, calls : Nat, faults : Nat, crashes : Nat]
  BY <1>2, <1>5, FaultFrame
<1>7. /\ i \notin live /\ inst[i] = 0 /\ Readable(i)
      /\ op[m].kind # "disable" => record[i].state = "running"
  BY <1>1, <1>2 DEF WorkAt, StoppedAt
<1> DEFINE state == IF op[m].kind = "disable" THEN "disabled" ELSE "enabled"
<1>8. PICK e \in {"none", "unregister"} : Write(i, state, e)
  BY DEF Unregister
<1>9. state \in {"disabled", "enabled"} /\ (op[m].kind # "disable" => state = "enabled")
      /\ (op[m].kind = "disable" => state = "disabled")
  OBVIOUS
<1> HIDE DEF state
<1>10. /\ record' \in [Ids -> Records] /\ \A j \in Ids : j # i => record'[j] = record[j]
       /\ Puts(i, state, Record(i).active, e)
  BY <1>2, <1>7, <1>8, <1>9, WritePuts DEF States, Errors
<1>11. /\ lost' \in {lost, lost \cup {i}} /\ runner' \in {runner, runner \ {i}}
  BY DEF Unregister
<1>12. Frame(i)
  BY <1>2, <1>5, <1>6, <1>10, <1>11 DEF Frame, TypeOK, Rest
<1>13. LiveAt(i)'
  BY <1>5, <1>7 DEF LiveAt
<1>14. WorkAt(m)' => StateAt(m, i)
  BY <1>2, <1>5, <1>10, <1>13 DEF StateAt, Puts
<1>15. ASSUME Done(m) PROVE Moves(m, i) /\ Returns(m, i) /\ WorkAt(m)'
  BY <1>15, DoneReturns, RestedWork DEF Returns
<1>16. ASSUME NEW pc \in {"archive", "files"}, Go(m, pc), UNCHANGED <<gate, lock>>,
              IF pc = "archive" THEN op[m].kind \in {"update", "quiet"}
                                ELSE op[m].kind \in {"uninstall", "remove"}
       PROVE  Moves(m, i) /\ GoesOn(m, i, pc) /\ (FilesAt(op[m], i)' => WorkAt(m)')
              /\ op'[m].pc = pc /\ op'[m].ver = op[m].ver
  <2> DEFINE n == Onto(op[m], pc)
  <2>1. n.pc = pc /\ Same(op[m], n) /\ n.was = op[m].was /\ n.first = op[m].first
    BY DEF Onto, Turned, Same
  <2>2. pc \in Sections /\ pc \in StepsOf(op[m].kind) /\ op[m].kind \in Changes
    BY <1>16, Steps DEF Sections, Changes
  <2>3. Placed(n)
    BY <1>1, <1>2, <1>4, <2>1, <2>2, <1>16 DEF Placed, Resting, Toward, Changing, Same
  <2>4. Holds(n)
    BY <2>1, <2>2, <1>16 DEF Holds
  <2>5. Moves(m, i) /\ GoesOn(m, i, pc)
    BY <1>2, <1>16, <2>2, <2>3, <2>4, GoMoves
  <2>6. op'[m].pc = pc /\ op'[m].id = i /\ op'[m].ver = op[m].ver
    BY <2>1, <2>5 DEF GoesOn, Same
  <2>7. record'[i].state = "enabled" /\ i \notin live'
    BY <1>5, <1>7, <1>9, <1>10, <2>2 DEF Puts, Changes
  <2>8. FilesAt(op[m], i)' => WorkAt(m)'
    BY <1>16, <2>6, <2>7 DEF WorkAt, StoppedAt, StartedAt, ChangedAt, Down
  <2> QED
    BY <2>5, <2>6, <2>8
<1>17. Readable(i)'
  BY <1>5, <1>7, <1>9, <1>10 DEF Readable, Record, Puts
<1>22. op[m].kind \in {"uninstall", "remove"} => op[m].ver \in disk[i]
  BY <1>1, <1>2 DEF WorkAt, FilesAt
<1>18. CASE Done(m) /\ lost' = lost \cup {i}
  BY <1>5, <1>7, <1>9, <1>10, <1>12, <1>14, <1>15, <1>18
<1>19. CASE Done(m) /\ lost' = lost /\ (op[m].kind # "disable" => ~RefreshOk(disk, record'))
  BY <1>5, <1>7, <1>9, <1>10, <1>12, <1>14, <1>15, <1>19
<1>20. CASE Go(m, "archive") /\ UNCHANGED <<gate, lock>> /\ lost' = lost /\ op[m].kind \in {"update", "quiet"}
  <2>1. FilesAt(op[m], i)'
    BY <1>16, <1>17, <1>20 DEF FilesAt
  <2> QED
    BY <1>5, <1>7, <1>9, <1>10, <1>12, <1>14, <1>16, <1>20, <2>1
<1>21. CASE Go(m, "files") /\ UNCHANGED <<gate, lock>> /\ lost' = lost /\ op[m].kind \in {"uninstall", "remove"}
  <2>1. FilesAt(op[m], i)'
    BY <1>5, <1>16, <1>17, <1>21, <1>22 DEF FilesAt
  <2> QED
    BY <1>5, <1>7, <1>9, <1>10, <1>12, <1>14, <1>16, <1>21, <2>1
<1> QED
  BY <1>3, <1>5, <1>18, <1>19, <1>20, <1>21 DEF Unregister, Fresh, Changes
(* The steps of an update.                                                 *)
LEMMA UpdateDoes ==
  ASSUME Control, State, NEW m \in Procs, NEW i \in Ids, op[m].id = i, Update(m)
  PROVE  /\ Moves(m, i) /\ Frame(i) /\ StateAt(m, i)
         /\ op[m].kind \in {"update", "quiet"} /\ op[m].pc = op[m].kind
         /\ UNCHANGED <<durable, runner, lost>>
         /\ \/ Returns(m, i) /\ UNCHANGED <<live, inst>>
            \/ /\ MayBecome(i, op[m].ver) /\ Readable(i) /\ Continues(m, i) /\ i \notin live'
               /\ op'[m].was = (Record(i).state = "running") /\ op'[m].first = op'[m].was
               /\ op'[m].old = Record(i).active /\ op'[m].job = op[m].job
               /\ op'[m].pc = IF op'[m].was THEN "stopped" ELSE "archive"
<1>1. /\ op[m].kind \in {"update", "quiet"} /\ op[m].pc = op[m].kind
      /\ op[m].pc \in {"update", "quiet"}
      /\ op[m].pc \in Sections \ {"install", "record", "register", "publish"}
  BY DEF Update, Sections
<1>2. /\ op[m] \in Operations /\ Placed(op[m]) /\ Holds(op[m]) /\ LiveAt(i) /\ WorkAt(m) /\ TypeOK
      /\ op \in [Procs -> Operations]
      /\ op[m].pc \in StepsOf(op[m].kind) /\ record[i] \in Records /\ IsFiniteSet(disk[i])
  BY <1>1, InChange
<1>4. UNCHANGED <<durable, runner, lost>> /\ Rest /\ (Fault \/ NoFault)
  BY DEF Update, StopOk
<1>3. \A pc \in {"stopped", "archive"} :
        [op EXCEPT ![m].pc = pc, ![m].was = (Record(i).state = "running"),
                   ![m].old = Record(i).active, ![m].first = (Record(i).state = "running")]
          = [op EXCEPT ![m] = Turned(op[m], pc, op[m].job, (Record(i).state = "running"),
                                     Record(i).active, (Record(i).state = "running"), op[m].err)]
  <2> DEFINE was == Record(i).state = "running"
  <2> DEFINE old == Record(i).active
  <2> HIDE DEF was, old
  <2> SUFFICES ASSUME NEW pc \in {"stopped", "archive"}
               PROVE  [op EXCEPT ![m].pc = pc, ![m].was = was, ![m].old = old, ![m].first = was]
                        = [op EXCEPT ![m] = Turned(op[m], pc, op[m].job, was, old, was, op[m].err)]
    BY DEF was, old
  <2> DEFINE o == op[m]
  <2> DEFINE q == Onto(o, pc)
  <2> DEFINE r == Turned(o, pc, o.job, was, o.old, o.first, o.err)
  <2> DEFINE s == Turned(o, pc, o.job, was, old, o.first, o.err)
  <2> DEFINE t == Turned(o, pc, o.job, was, old, was, o.err)
  <2>1. [o EXCEPT !.pc = pc] = q
    BY <1>2, Ontos
  <2>2. [q EXCEPT !.was = was] = r /\ [r EXCEPT !.old = old] = s /\ [s EXCEPT !.first = was] = t
    BY DEF Onto, Turned
  <2>3. [op EXCEPT ![m].pc = pc, ![m].was = was, ![m].old = old, ![m].first = was] =
          [op EXCEPT ![m] =
             [[[[op[m] EXCEPT !.pc = pc] EXCEPT !.was = was] EXCEPT !.old = old] EXCEPT !.first = was]]
    OBVIOUS
  <2>4. [[op[m] EXCEPT !.pc = pc] EXCEPT !.was = was] = r
    BY <2>1, <2>2
  <2>5. [[[[op[m] EXCEPT !.pc = pc] EXCEPT !.was = was] EXCEPT !.old = old] EXCEPT !.first = was] = t
    BY <2>2, <2>4
  <2> QED
    BY <2>3, <2>5
<1> DEFINE was == Record(i).state = "running"
<1> DEFINE n(pc) == Turned(op[m], pc, op[m].job, was, Record(i).active, was, op[m].err)
<1>5. CASE Done(m) /\ UNCHANGED <<live, inst>>
  BY <1>1, <1>4, <1>5, StopDoes
<1>6. ASSUME disk[i] # {}, MayBecome(i, op[m].ver),
             op' = [op EXCEPT ![m] = n(IF was THEN "stopped" ELSE "archive")], UNCHANGED <<gate, lock>>,
             live' = live \ {i}, inst' = [inst EXCEPT ![i] = 0] \/ (inst[i] = 0 /\ inst' = inst)
      PROVE  /\ Moves(m, i) /\ Frame(i) /\ StateAt(m, i)
             /\ Readable(i) /\ Continues(m, i) /\ i \notin live'
             /\ op'[m].was = (Record(i).state = "running") /\ op'[m].first = op'[m].was
             /\ op'[m].old = Record(i).active /\ op'[m].job = op[m].job
             /\ op'[m].pc = IF op'[m].was THEN "stopped" ELSE "archive"
  <2> DEFINE pc == IF was THEN "stopped" ELSE "archive"
  <2> DEFINE o == n(pc)
  <2>1. Readable(i)
    BY <1>6 DEF MayBecome, ListOk
  <2>2. Record(i) \in Records
    BY <1>2, <1>6, RecordIn
  <2>3. pc \in {"stopped", "archive"} /\ was \in BOOLEAN /\ (was <=> pc = "stopped")
    OBVIOUS
  <2>4. /\ o.pc = pc /\ Same(op[m], o) /\ o.was = was /\ o.first = was /\ o.old = Record(i).active
        /\ o.job = op[m].job
    BY DEF Turned, Same
  <2>5. o \in Operations
    BY <1>2, <2>2, <2>3 DEF Turned, Operations, Records, Sections
  <2>6. op' = [op EXCEPT ![m] = o]
    BY <1>6
  <2> HIDE DEF o, was
  <2>7. pc \in Sections /\ pc \in StepsOf(op[m].kind)
    BY <1>1, <2>3, Steps DEF Sections
  <2> HIDE DEF pc
  <2>8. Placed(o)
    BY <1>1, <1>2, <2>3, <2>4, <2>7 DEF Placed, Resting, Toward, Changing, Same, Again, Changes
  <2>9. Holds(o)
    BY <2>3, <2>4, <2>7 DEF Holds
  <2>10. op' \in [Procs -> Operations] /\ op'[m] = o /\ \A q \in Procs : q # m => op'[q] = op[q]
    BY <1>2, <2>5, <2>6
  <2>11. Moves(m, i) /\ Continues(m, i)
    BY <1>2, <1>6, <2>4, <2>7, <2>8, <2>9, <2>10 DEF Moves, Continues
  <2>12. Frame(i) /\ i \notin live' /\ inst'[i] = 0 /\ (WorkAt(m)' => StateAt(m, i))
    BY <1>1, <1>4, <1>6, StopDoes
  <2>13. op'[m].pc = pc /\ op'[m].kind = op[m].kind /\ op'[m].id = i /\ op'[m].was = was
    BY <2>4, <2>10 DEF Same
  <2>14. Readable(i)' /\ record'[i] = record[i]
    BY <1>4, <2>1 DEF Readable, Record, durable
  <2>15. was => record[i].state = "running"
    BY DEF was, Record, Installed
  <2>16. ~was => record[i].state # "running"
    BY DEF was, Record
  <2>17. WorkAt(m)'
    <3>1. CASE was
      <4>1. op'[m].pc = "stopped"
        BY <2>3, <2>13, <3>1
      <4> QED
        BY <1>1, <2>12, <2>13, <2>14, <2>15, <3>1, <4>1
           DEF WorkAt, StoppedAt, StartedAt, ChangedAt, FilesAt, Changing, Toward, Again
    <3>2. CASE ~was
      <4>1. op'[m].pc = "archive"
        BY <2>3, <2>13, <3>2
      <4> QED
        BY <1>1, <2>12, <2>13, <2>14, <2>16, <3>2, <4>1
           DEF WorkAt, StoppedAt, StartedAt, ChangedAt, FilesAt, Down
    <3> QED
      BY <3>1, <3>2
  <2> QED
    BY <2>1, <2>4, <2>10, <2>11, <2>12, <2>17 DEF pc, was
<1>7. CASE /\ disk[i] # {} /\ op[m].ver \notin disk[i] /\ MayBecome(i, op[m].ver)
           /\ (was => i \in live)
  <2>1. CASE was
    <3>1. [op EXCEPT ![m].pc = "stopped", ![m].was = was, ![m].old = Record(i).active, ![m].first = was]
            = [op EXCEPT ![m] = n("stopped")]
      BY <1>3
    <3>2. \/ Done(m) /\ UNCHANGED <<live, inst>>
          \/ /\ op' = [op EXCEPT ![m].pc = "stopped", ![m].was = was, ![m].old = Record(i).active, ![m].first = was]
             /\ UNCHANGED <<gate, lock>>
             /\ live' = live \ {i} /\ inst' = [inst EXCEPT ![i] = 0]
      BY <1>1, <1>7, <2>1 DEF Update, StopOk
    <3>3. n("stopped") = n(IF was THEN "stopped" ELSE "archive")
      BY <2>1
    <3> HIDE DEF n, was
    <3> QED
      BY <1>1, <1>4, <1>5, <1>6, <1>7, <3>1, <3>2, <3>3
  <2>2. CASE ~was
    <3>1. [op EXCEPT ![m].pc = "archive", ![m].was = was, ![m].old = Record(i).active, ![m].first = was]
            = [op EXCEPT ![m] = n("archive")]
      BY <1>3
    <3>2. /\ op' = [op EXCEPT ![m].pc = "archive", ![m].was = was, ![m].old = Record(i).active, ![m].first = was]
          /\ UNCHANGED <<gate, lock, live, inst>>
      BY <1>1, <1>7, <2>2 DEF Update
    <3>3. n("archive") = n(IF was THEN "stopped" ELSE "archive")
      BY <2>2
    <3>4. live' = live \ {i} /\ inst[i] = 0
      BY <1>2, <2>2, <3>2 DEF LiveAt, Record
    <3> HIDE DEF n, was
    <3> QED
      BY <1>1, <1>4, <1>6, <1>7, <3>1, <3>2, <3>3, <3>4
  <2> QED
    BY <2>1, <2>2
<1>8. CASE ~(/\ disk[i] # {} /\ op[m].ver \notin disk[i] /\ MayBecome(i, op[m].ver)
             /\ (was => i \in live))
  BY <1>1, <1>5, <1>8, <1>4 DEF Update
<1> QED
  BY <1>7, <1>8

LEMMA UpdateArchiveDoes ==
  ASSUME Control, State, NEW m \in Procs, NEW i \in Ids, op[m].id = i, UpdateArchive(m)
  PROVE  /\ Moves(m, i) /\ Frame(i) /\ StateAt(m, i)
         /\ op[m].kind \in {"update", "quiet"}
         /\ UNCHANGED <<record, process, lost>>
         /\ \/ /\ GoesOn(m, i, "select") /\ disk'[i] = disk[i] \cup {op[m].ver}
            \/ disk' = disk /\ (Returns(m, i) \/ (StartsAgain(m, i) /\ ~op'[m].first))
<1>1. op[m].pc = "archive" /\ op[m].pc \in Sections \ {"install", "record", "register", "publish"}
  BY DEF UpdateArchive, Sections
<1>2. /\ op[m] \in Operations /\ Placed(op[m]) /\ Holds(op[m]) /\ LiveAt(i) /\ WorkAt(m) /\ TypeOK
      /\ op[m].pc \in StepsOf(op[m].kind) /\ record[i] \in Records /\ IsFiniteSet(disk[i])
      /\ record[i].state = "disabled" => record[i].err \in {"none", "unregister"}
  BY <1>1, InChange
<1>3. op[m].kind \in {"update", "quiet"} /\ op[m].ver \in Versions
  BY <1>1, <1>2, KindsAt DEF Placed, Changes
<1>4. UNCHANGED <<record, process, lost>> /\ Rest /\ (Fault \/ NoFault)
  BY DEF UpdateArchive
<1>5. owed' \in {owed, {}} /\ spent' \in [ops : Nat, calls : Nat, faults : Nat, crashes : Nat]
  BY <1>2, <1>4, FaultFrame
<1>6. CASE Fault /\ Restore(m) /\ UNCHANGED disk
  <2>1. UNCHANGED <<durable, process, lost>>
    BY <1>4, <1>6 DEF durable
  <2> QED
    BY <1>1, <1>3, <1>4, <1>6, <2>1, RestoreDoes
<1>7. CASE /\ disk' = [disk EXCEPT ![i] = @ \cup {op[m].ver}]
           /\ Go(m, "select")
           /\ NoFault /\ UNCHANGED <<gate, lock>>
  <2> DEFINE n == Onto(op[m], "select")
  <2>1. n.pc = "select" /\ Same(op[m], n) /\ n.was = op[m].was /\ n.first = op[m].first
    BY DEF Onto, Turned, Same
  <2>2. "select" \in Sections /\ "select" \in StepsOf(op[m].kind) /\ op[m].kind \in Changes
    BY <1>3, Steps DEF Sections, Changes
  <2>3. Placed(n)
    BY <1>1, <1>2, <2>1, <2>2 DEF Placed, Resting, Toward, Changing, Same, Again
  <2>4. Holds(n)
    BY <2>1 DEF Holds, Sections
  <2>5. Moves(m, i) /\ GoesOn(m, i, "select")
    BY <1>2, <1>7, <2>2, <2>3, <2>4, GoMoves
  <2>6. disk'[i] = disk[i] \cup {op[m].ver} /\ disk' \in [Ids -> SUBSET Versions]
        /\ \A j \in Ids : j # i => disk'[j] = disk[j]
    BY <1>2, <1>3, <1>7 DEF TypeOK
  <2>7. Frame(i)
    BY <1>2, <1>4, <1>5, <2>6 DEF Frame, TypeOK, process, Rest
  <2>8. IsFiniteSet(disk'[i])
    <3>1. IsFiniteSet(disk[i] \cup {op[m].ver})
      BY <1>2, FS_AddElement
    <3> QED
      BY <2>6, <3>1
  <2>9. LiveAt(i)'
    BY <1>2, <1>4, <2>6 DEF LiveAt, process
  <2>10. op'[m].pc = "select" /\ Same(op[m], op'[m]) /\ op'[m].was = op[m].was
    BY <2>1, <2>5 DEF GoesOn
  <2>11. Changing(op[m]) /\ ~Aside(op[m])
    BY <1>1, <1>3, <2>2 DEF Changing, Toward, Aside
  <2>12. (op[m].was => record[i].state \in {"enabled", "failed"}) /\ Down(i)
    BY <1>1, <1>2, <2>11 DEF WorkAt, ChangedAt
  <2>13. WorkAt(m)'
    BY <1>4, <2>6, <2>10, <2>12 DEF WorkAt, StoppedAt, StartedAt, ChangedAt, FilesAt, Down, Same, process
  <2>14. StateAt(m, i)
    BY <1>2, <1>4, <2>8, <2>9, <2>13 DEF StateAt
  <2> QED
    BY <1>3, <1>4, <2>5, <2>6, <2>7, <2>14
<1> QED
  BY <1>6, <1>7 DEF UpdateArchive

LEMMA UpdateSelectsDoes ==
  ASSUME Control, State, NEW m \in Procs, NEW i \in Ids, op[m].id = i, UpdateSelects(m)
  PROVE  /\ Moves(m, i) /\ Frame(i) /\ StateAt(m, i)
         /\ op[m].kind \in {"update", "quiet"} /\ op[m].ver \in disk[i]
         /\ UNCHANGED <<disk, process, lost>> /\ Down(i)
         /\ \E s \in {"enabled", "disabled", "installed"} :
               /\ Puts(i, s, op[m].ver, "none")
               /\ op[m].was => s = "enabled"
               /\ s = "enabled" => op[m].was \/ record[i].state = "enabled"
               /\ record[i].state = "disabled" => op[m].was \/ s = "disabled"
         /\ Returns(m, i) \/ (StartsAgain(m, i) /\ op'[m].first = op[m].first)
         /\ op[m].was => ~Returns(m, i) \/ ~RefreshOk(disk, record')
<1>1. op[m].pc = "select" /\ op[m].pc \in Sections \ {"install", "record", "register", "publish"}
  BY DEF UpdateSelects, Sections
<1>2. /\ op[m] \in Operations /\ Placed(op[m]) /\ Holds(op[m]) /\ LiveAt(i) /\ WorkAt(m) /\ TypeOK
      /\ op[m].pc \in StepsOf(op[m].kind) /\ record[i] \in Records /\ IsFiniteSet(disk[i])
  BY <1>1, InChange
<1>3. op[m].kind \in {"update", "quiet"} /\ op[m].ver \in disk[i] /\ disk[i] \in SUBSET Versions
  BY <1>1, <1>2, KindsAt, InChange DEF WorkAt, FilesAt
<1>4. UNCHANGED <<disk, process, lost, owed, spent>> /\ Rest
  BY DEF UpdateSelects
<1>5. owed' \in {owed, {}} /\ spent' \in [ops : Nat, calls : Nat, faults : Nat, crashes : Nat]
  BY <1>2, <1>4 DEF TypeOK
<1>6. Changing(op[m]) /\ ~Aside(op[m])
  BY <1>1, <1>3 DEF Changing, Toward, Aside, Changes
<1>7. (op[m].was => record[i].state \in {"enabled", "failed"}) /\ Down(i)
  BY <1>1, <1>2, <1>6 DEF WorkAt, ChangedAt
<1> DEFINE s == IF op[m].was THEN "enabled"
                ELSE IF Record(i).state \in {"enabled", "disabled"}
                THEN Record(i).state ELSE "installed"
<1> DEFINE r == [state |-> s, active |-> op[m].ver, err |-> "none"]
<1>8. record' = [record EXCEPT ![i] = r]
  BY DEF UpdateSelects
<1>9. /\ s \in {"enabled", "disabled", "installed"}
      /\ op[m].was => s = "enabled"
      /\ s = "enabled" => op[m].was \/ record[i].state = "enabled"
      /\ record[i].state = "disabled" => op[m].was \/ s = "disabled"
  BY DEF Record, Installed
<1> HIDE DEF s
<1>10. r \in Records /\ r.state = s /\ r.active = op[m].ver /\ r.err = "none"
  BY <1>3, <1>9 DEF Records, States, Errors
<1> HIDE DEF r
<1>11. record' \in [Ids -> Records] /\ record'[i] = r /\ \A j \in Ids : j # i => record'[j] = record[j]
  BY <1>2, <1>8, <1>10 DEF TypeOK
<1>12. Puts(i, s, op[m].ver, "none")
  BY <1>10, <1>11 DEF Puts
<1>13. Frame(i)
  BY <1>2, <1>4, <1>5, <1>11 DEF Frame, TypeOK, process, Rest
<1>14. LiveAt(i)' /\ Down(i)'
  BY <1>2, <1>4, <1>7, <1>9, <1>12 DEF LiveAt, process, Puts, Down
<1>15. WorkAt(m)' => StateAt(m, i)
  BY <1>2, <1>4, <1>12, <1>14 DEF StateAt, Puts
<1>16. CASE Done(m)
  <2>1. Moves(m, i) /\ Returns(m, i) /\ WorkAt(m)'
    BY <1>16, DoneReturns, RestedWork DEF Returns
  <2>2. op[m].was => ~RefreshOk(disk, record')
    <3>1. ASSUME op[m].was, RefreshOk(disk', record') PROVE FALSE
      <4>1. op' = [op EXCEPT ![m] = Section(m, "start")]
        BY <3>1 DEF UpdateSelects, Fresh
      <4>2. Section(m, "start") =
              Turned(op[m], "lock", "start", op[m].was, op[m].old, op[m].first, op[m].err)
        BY <1>2, Sectioned
      <4>3. op'[m].pc = "lock"
        BY <1>2, <4>1, <4>2 DEF Turned, TypeOK
      <4> QED
        BY <2>1, <4>3, RestedType DEF Returns, Resting
    <3> QED
      BY <1>4, <3>1
  <2> QED
    BY <1>3, <1>4, <1>7, <1>9, <1>12, <1>13, <1>15, <2>1, <2>2
<1>17. CASE /\ op[m].was
            /\ op' = [op EXCEPT ![m] = Section(m, "start")]
            /\ Unlock /\ UNCHANGED gate
  <2>1. Section(m, "start") =
          Turned(op[m], "lock", "start", op[m].was, op[m].old, op[m].first, op[m].err)
    BY <1>2, Sectioned
  <2>2. op[m].first \in BOOLEAN
    BY <1>2 DEF Operations
  <2>3. /\ Moves(m, i) /\ StartsAgain(m, i) /\ op'[m].first = op[m].first
        /\ (record'[i].state \in {"enabled", "failed"} /\ Down(i)') => WorkAt(m)'
    BY <1>1, <1>17, <2>1, <2>2, StartAgain
  <2>4. WorkAt(m)'
    BY <1>9, <1>12, <1>14, <1>17, <2>3 DEF Puts
  <2>5. ~Returns(m, i)
    BY <2>3, RestedType DEF StartsAgain, Pauses, Returns, Resting
  <2> QED
    BY <1>3, <1>4, <1>7, <1>9, <1>12, <1>13, <1>15, <2>3, <2>4, <2>5
<1> QED
  BY <1>16, <1>17 DEF UpdateSelects, Fresh
(* The version an uninstallation leaves active. *)
Active(m, i) == op[m].kind = "remove" \/ Record(i).active = op[m].ver
NextOf(m) == IF Remaining(m) = {} THEN 0 ELSE Highest(Remaining(m))

LEMMA UninstallDoes ==
  ASSUME Control, State, NEW m \in Procs, NEW i \in Ids, op[m].id = i, Uninstall(m)
  PROVE  /\ Moves(m, i) /\ Frame(i) /\ StateAt(m, i)
         /\ op[m].kind \in {"uninstall", "remove"}
         /\ UNCHANGED <<durable, runner, lost>>
         /\ \/ Returns(m, i) /\ UNCHANGED <<live, inst>>
            \/ /\ Continues(m, i) /\ Readable(i) /\ op[m].ver \in disk[i]
               /\ Active(m, i) => MayBecome(i, NextOf(m))
               /\ op'[m].first = op[m].first /\ op'[m].job = op[m].job
               /\ \/ op'[m].pc = "stopped" /\ op'[m].was /\ Active(m, i) /\ i \notin live'
                  \/ /\ op'[m].pc = "files" /\ ~op'[m].was /\ UNCHANGED <<live, inst>>
                     /\ Active(m, i) => record[i].state # "running"
<1>1. /\ op[m].kind \in {"uninstall", "remove"} /\ op[m].pc = op[m].kind
      /\ op[m].pc \in {"uninstall", "remove"}
      /\ op[m].pc \in Sections \ {"install", "record", "register", "publish"}
  BY DEF Uninstall, Sections
<1>2. /\ op[m] \in Operations /\ Placed(op[m]) /\ Holds(op[m]) /\ LiveAt(i) /\ WorkAt(m) /\ TypeOK
      /\ op \in [Procs -> Operations]
      /\ op[m].pc \in StepsOf(op[m].kind) /\ record[i] \in Records /\ IsFiniteSet(disk[i])
  BY <1>1, InChange
<1>3. ~op[m].was /\ ~op[m].first
  BY <1>1, <1>2 DEF Placed, Changing, Toward, Again
<1>4. UNCHANGED <<durable, runner, lost>> /\ Rest /\ (Fault \/ NoFault)
  BY DEF Uninstall, StopOk
<1> DEFINE was == Active(m, i) /\ Record(i).state = "running"
<1>5. CASE Done(m) /\ UNCHANGED <<live, inst>>
  BY <1>1, <1>4, <1>5, StopDoes
<1>6. CASE /\ Readable(i) /\ op[m].ver \in disk[i]
           /\ Active(m, i) => MayBecome(i, NextOf(m))
           /\ was
           /\ op' = [op EXCEPT ![m].pc = "stopped", ![m].was = TRUE]
           /\ UNCHANGED <<gate, lock>>
           /\ live' = live \ {i} /\ inst' = [inst EXCEPT ![i] = 0]
  <2> DEFINE q == Onto(op[m], "stopped")
  <2> DEFINE o == Turned(op[m], "stopped", op[m].job, TRUE, op[m].old, op[m].first, op[m].err)
  <2>1. [op[m] EXCEPT !.pc = "stopped"] = q
    BY <1>2, Ontos
  <2>2. [q EXCEPT !.was = TRUE] = o
    <3>1. ASSUME NEW w \in BOOLEAN
          PROVE  [q EXCEPT !.was = w] =
                   Turned(op[m], "stopped", op[m].job, w, op[m].old, op[m].first, op[m].err)
      BY DEF Onto, Turned
    <3> HIDE DEF q
    <3> QED
      BY <3>1
  <2>3. op' = [op EXCEPT ![m] = o]
    <3>1. op' = [op EXCEPT ![m] = [[op[m] EXCEPT !.pc = "stopped"] EXCEPT !.was = TRUE]]
      BY <1>2, <1>6
    <3> QED
      BY <2>1, <2>2, <3>1
  <2>4. /\ o.pc = "stopped" /\ Same(op[m], o) /\ o.was /\ o.first = op[m].first /\ o.job = op[m].job
    BY DEF Turned, Same
  <2>5. o \in Operations
    BY <1>2 DEF Turned, Operations, Sections
  <2> HIDE DEF o, q
  <2>6. "stopped" \in Sections /\ "stopped" \in StepsOf(op[m].kind)
    BY <1>1, Steps DEF Sections
  <2>7. Placed(o)
    BY <1>1, <1>2, <1>3, <2>4, <2>6 DEF Placed, Resting, Toward, Changing, Same, Again, Changes
  <2>8. Holds(o)
    BY <2>4, <2>6 DEF Holds
  <2>9. op' \in [Procs -> Operations] /\ op'[m] = o /\ \A p \in Procs : p # m => op'[p] = op[p]
    BY <1>2, <2>3, <2>5
  <2>10. Moves(m, i) /\ Continues(m, i)
    BY <1>2, <1>6, <2>4, <2>6, <2>7, <2>8, <2>9 DEF Moves, Continues
  <2>11. Frame(i) /\ i \notin live' /\ inst'[i] = 0 /\ (WorkAt(m)' => StateAt(m, i))
    BY <1>1, <1>4, <1>6, StopDoes
  <2>12. op'[m].pc = "stopped" /\ Same(op[m], op'[m]) /\ op'[m].was
    BY <2>4, <2>9
  <2>13. Readable(i)' /\ record'[i] = record[i] /\ record[i].state = "running" /\ op[m].ver \in disk'[i]
    BY <1>4, <1>6 DEF Readable, Record, durable, Installed
  <2>14. WorkAt(m)'
    BY <1>1, <2>11, <2>12, <2>13
       DEF WorkAt, StoppedAt, StartedAt, ChangedAt, FilesAt, Changing, Toward, Again, Same
  <2> QED
    BY <1>1, <1>4, <1>6, <2>4, <2>9, <2>10, <2>11, <2>14
<1>7. CASE /\ Readable(i) /\ op[m].ver \in disk[i]
           /\ Active(m, i) => MayBecome(i, NextOf(m))
           /\ ~was
           /\ Go(m, "files") /\ UNCHANGED <<live, inst, gate, lock>>
  <2> DEFINE n == Onto(op[m], "files")
  <2>1. n.pc = "files" /\ Same(op[m], n) /\ n.was = op[m].was /\ n.first = op[m].first /\ n.job = op[m].job
    BY DEF Onto, Turned, Same
  <2>2. "files" \in Sections /\ "files" \in StepsOf(op[m].kind)
    BY <1>1, Steps DEF Sections
  <2>3. Placed(n)
    BY <1>1, <1>2, <1>3, <2>1, <2>2 DEF Placed, Resting, Toward, Changing, Same, Again, Changes
  <2>4. Holds(n)
    BY <2>1, <2>2 DEF Holds
  <2>5. Moves(m, i) /\ GoesOn(m, i, "files")
    BY <1>2, <1>7, <2>2, <2>3, <2>4, GoMoves
  <2>6. Active(m, i) => record[i].state # "running"
    BY <1>7 DEF Record
  <2>7. op'[m].pc = "files" /\ Same(op[m], op'[m]) /\ ~op'[m].was /\ op'[m].first = op[m].first
        /\ op'[m].job = op[m].job
    BY <1>3, <2>1, <2>5 DEF GoesOn
  <2>8. UNCHANGED <<durable, process, lost>>
    BY <1>4, <1>7 DEF process
  <2>9. owed' \in {owed, {}} /\ spent' \in [ops : Nat, calls : Nat, faults : Nat, crashes : Nat]
    BY <1>2, <1>4, FaultFrame
  <2>10. Frame(i)
    BY <1>2, <1>4, <2>8, <2>9, FrameStays
  <2>11. LiveAt(i)' /\ Readable(i)' /\ op[m].ver \in disk'[i]
    BY <1>2, <1>7, <2>8 DEF LiveAt, durable, process, Readable, Record
  <2>12. Down(i)' \/ Aside(op[m])'
    <3>1. CASE record[i].state = "running"
      <4>1. op[m].kind = "uninstall" /\ record[i].active # op[m].ver
        BY <1>1, <2>6, <3>1 DEF Active, Record
      <4> QED
        BY <2>7, <2>8, <3>1, <4>1 DEF Aside, durable, Same
    <3>2. CASE record[i].state # "running"
      BY <1>2, <2>8, <3>2 DEF Down, LiveAt, durable, process
    <3> QED
      BY <3>1, <3>2
  <2>13. WorkAt(m)'
    BY <1>1, <2>7, <2>11, <2>12 DEF WorkAt, StoppedAt, StartedAt, ChangedAt, FilesAt, Same
  <2>14. StateAt(m, i)
    BY <1>2, <1>1, <2>8, <2>11, <2>13, InChange DEF StateAt, durable
  <2> QED
    BY <1>1, <1>4, <1>7, <2>5, <2>6, <2>7, <2>10, <2>14 DEF GoesOn
<1>8. (op[m].kind = "remove" \/ Record(i).active = op[m].ver) <=> Active(m, i)
  BY DEF Active
<1>9. CASE /\ Readable(i) /\ op[m].ver \in disk[i]
           /\ Active(m, i) => MayBecome(i, NextOf(m))
           /\ (was => i \in live)
  <2>1. was => \/ Done(m) /\ UNCHANGED <<live, inst>>
               \/ /\ op' = [op EXCEPT ![m].pc = "stopped", ![m].was = TRUE]
                  /\ UNCHANGED <<gate, lock>>
                  /\ live' = live \ {i} /\ inst' = [inst EXCEPT ![i] = 0]
    BY <1>8, <1>9 DEF Uninstall, StopOk, NextOf
  <2>2. ~was => Go(m, "files") /\ UNCHANGED <<live, inst, gate, lock>>
    BY <1>8, <1>9 DEF Uninstall, NextOf
  <2> HIDE DEF was
  <2> QED
    BY <1>5, <1>6, <1>7, <1>9, <2>1, <2>2
<1>10. CASE ~(/\ Readable(i) /\ op[m].ver \in disk[i]
              /\ Active(m, i) => MayBecome(i, NextOf(m))
              /\ (was => i \in live))
  <2>1. Done(m) /\ UNCHANGED <<live, inst>>
    BY <1>8, <1>10 DEF Uninstall, NextOf
  <2> QED
    BY <1>5, <2>1
<1> QED
  BY <1>9, <1>10

LEMMA RemoveFilesDoes ==
  ASSUME Control, State, NEW m \in Procs, NEW i \in Ids, op[m].id = i, RemoveFiles(m)
  PROVE  /\ Moves(m, i) /\ Frame(i) /\ StateAt(m, i)
         /\ op[m].kind \in {"uninstall", "remove"}
         /\ UNCHANGED <<record, process, lost>>
         /\ \/ GoesOn(m, i, "forget") /\ disk'[i] = Remaining(m)
            \/ disk' = disk /\ (Returns(m, i) \/ (StartsAgain(m, i) /\ ~op'[m].first))
<1>1. op[m].pc = "files" /\ op[m].pc \in Sections \ {"install", "record", "register", "publish"}
  BY DEF RemoveFiles, Sections
<1>2. /\ op[m] \in Operations /\ Placed(op[m]) /\ Holds(op[m]) /\ LiveAt(i) /\ WorkAt(m) /\ TypeOK
      /\ op[m].pc \in StepsOf(op[m].kind) /\ record[i] \in Records /\ IsFiniteSet(disk[i])
      /\ record[i].state = "disabled" => record[i].err \in {"none", "unregister"}
  BY <1>1, InChange
<1>3. op[m].kind \in {"uninstall", "remove"} /\ op[m].kind \in Changes
  BY <1>1, <1>2, KindsAt DEF Changes
<1>4. UNCHANGED <<record, process, lost>> /\ Rest /\ (Fault \/ NoFault)
  BY DEF RemoveFiles
<1>5. owed' \in {owed, {}} /\ spent' \in [ops : Nat, calls : Nat, faults : Nat, crashes : Nat]
  BY <1>2, <1>4, FaultFrame
<1>6. CASE Fault /\ Restore(m) /\ UNCHANGED disk
  <2>1. UNCHANGED <<durable, process, lost>>
    BY <1>4, <1>6 DEF durable
  <2> QED
    BY <1>1, <1>3, <1>4, <1>6, <2>1, RestoreDoes
<1>7. CASE /\ disk' = [disk EXCEPT ![op[m].id] = Remaining(m)]
           /\ Go(m, "forget")
           /\ NoFault /\ UNCHANGED <<gate, lock>>
  <2> DEFINE n == Onto(op[m], "forget")
  <2>1. n.pc = "forget" /\ Same(op[m], n) /\ n.was = op[m].was /\ n.first = op[m].first
    BY DEF Onto, Turned, Same
  <2>2. "forget" \in Sections /\ "forget" \in StepsOf(op[m].kind)
    BY <1>3, Steps DEF Sections
  <2>3. Placed(n)
    BY <1>1, <1>2, <1>3, <2>1, <2>2 DEF Placed, Resting, Toward, Changing, Same, Again
  <2>4. Holds(n)
    BY <2>1, <2>2 DEF Holds
  <2>5. Moves(m, i) /\ GoesOn(m, i, "forget")
    BY <1>2, <1>7, <2>2, <2>3, <2>4, GoMoves
  <2>6. Remaining(m) \subseteq disk[i]
    BY DEF Remaining
  <2>7. disk'[i] = Remaining(m) /\ disk' \in [Ids -> SUBSET Versions]
        /\ \A j \in Ids : j # i => disk'[j] = disk[j]
    BY <1>2, <1>7, <2>6 DEF TypeOK
  <2>8. Frame(i)
    BY <1>2, <1>4, <1>5, <2>7 DEF Frame, TypeOK, process, Rest
  <2>9. IsFiniteSet(disk'[i])
    BY <1>2, <2>6, <2>7, FS_Subset
  <2>10. /\ op[m].was => record[i].state \in {"enabled", "failed"}
         /\ Down(i) \/ Aside(op[m])
         /\ Readable(i)
    BY <1>1, <1>2, <1>3 DEF WorkAt, ChangedAt, FilesAt, Changing, Toward
  <2>11. /\ op[m].kind = "remove" => disk'[i] = {}
         /\ record[i].state # "none" /\ op[m].kind = "uninstall" /\ op[m].ver # record[i].active =>
              record[i].active \in disk'[i]
    BY <1>3, <2>7, <2>10 DEF Remaining, Leaving, Readable, Record
  <2>12. LiveAt(i)'
    BY <1>2, <1>4, <2>10, <2>11 DEF LiveAt, process, Down, Aside
  <2>13. op'[m].pc = "forget" /\ Same(op[m], op'[m]) /\ op'[m].was = op[m].was
    BY <2>1, <2>5 DEF GoesOn
  <2>14. Down(i)' \/ Aside(op[m])'
    BY <1>4, <2>10, <2>13 DEF Down, Aside, Same, process
  <2>15. WorkAt(m)'
    <3>1. FilesAt(op[m], i)'
      BY <1>3, <1>4, <2>11, <2>13 DEF FilesAt, Aside, Same
    <3> QED
      BY <1>4, <2>10, <2>13, <2>14, <3>1 DEF WorkAt, StoppedAt, StartedAt, ChangedAt, Same
  <2>16. StateAt(m, i)
    BY <1>2, <1>4, <2>9, <2>12, <2>15 DEF StateAt
  <2> QED
    BY <1>3, <1>4, <2>5, <2>7, <2>8, <2>16
<1> QED
  BY <1>6, <1>7 DEF RemoveFiles
LEMMA ForgetDoes ==
  ASSUME Control, State, NEW m \in Procs, NEW i \in Ids, op[m].id = i, Forget(m)
  PROVE  /\ Moves(m, i) /\ Frame(i) /\ StateAt(m, i)
         /\ op[m].kind \in {"uninstall", "remove"}
         /\ UNCHANGED <<disk, process, lost>>
         /\ Down(i) \/ (Aside(op[m]) /\ disk[i] # {})
         /\ \/ disk[i] = {} /\ Puts(i, "none", 0, "none")
            \/ disk[i] # {} /\ record[i].state = "none" /\ Puts(i, "installed", Highest(disk[i]), "none")
            \/ /\ disk[i] # {} /\ record[i].state # "none"
               /\ Puts(i, record[i].state,
                       IF record[i].active = op[m].ver THEN Highest(disk[i]) ELSE record[i].active,
                       record[i].err)
               /\ record[i].active # op[m].ver => record'[i] = record[i]
         /\ Returns(m, i) \/ (StartsAgain(m, i) /\ op'[m].first = op[m].first /\ disk[i] # {})
         /\ op[m].was /\ disk[i] # {} => ~Returns(m, i) \/ ~RefreshOk(disk, record')
<1>1. op[m].pc = "forget" /\ op[m].pc \in Sections \ {"install", "record", "register", "publish"}
  BY DEF Forget, Sections
<1>2. /\ op[m] \in Operations /\ Placed(op[m]) /\ Holds(op[m]) /\ LiveAt(i) /\ WorkAt(m) /\ TypeOK
      /\ op[m].pc \in StepsOf(op[m].kind) /\ record[i] \in Records /\ IsFiniteSet(disk[i])
      /\ disk[i] \in SUBSET Nat /\ disk[i] \in SUBSET Versions
      /\ record[i].state = "disabled" => record[i].err \in {"none", "unregister"}
  BY <1>1, InChange
<1>3. op[m].kind \in {"uninstall", "remove"} /\ op[m].kind \in Changes
  BY <1>1, <1>2, KindsAt DEF Changes
<1>4. UNCHANGED <<disk, process, lost, owed, spent>> /\ Rest
  BY DEF Forget
<1>5. owed' \in {owed, {}} /\ spent' \in [ops : Nat, calls : Nat, faults : Nat, crashes : Nat]
  BY <1>2, <1>4 DEF TypeOK
<1>6. /\ op[m].was => record[i].state \in {"enabled", "failed"} /\ Down(i)
      /\ Down(i) \/ (Aside(op[m]) /\ disk[i] # {})
  BY <1>1, <1>2, <1>3 DEF WorkAt, ChangedAt, FilesAt, Changing, Toward, Aside
<1>7. disk[i] # {} => Highest(disk[i]) \in disk[i]
  BY <1>2, HighestIn
<1> DEFINE r == IF disk[i] = {} THEN NoRecord
                ELSE IF record[i].state = "none" THEN Installed(Highest(disk[i]))
                ELSE IF record[i].active = op[m].ver
                THEN [record[i] EXCEPT !.active = Highest(disk[i])] ELSE record[i]
<1>8. record' = [record EXCEPT ![i] = r]
  BY <1>2 DEF Forget, TypeOK
<1>9. ASSUME NEW h \in Versions
      PROVE  [record[i] EXCEPT !.active = h] = [state |-> record[i].state, active |-> h, err |-> record[i].err]
  BY <1>2 DEF Records
<1>10. r \in Records
  BY <1>2, <1>7, <1>9 DEF Records, NoRecord, Installed, States, Errors
<1>11. /\ disk[i] = {} => r.state = "none" /\ r.active = 0 /\ r.err = "none"
       /\ disk[i] # {} /\ record[i].state = "none" =>
            r.state = "installed" /\ r.active = Highest(disk[i]) /\ r.err = "none"
       /\ disk[i] # {} /\ record[i].state # "none" =>
            /\ r.state = record[i].state /\ r.err = record[i].err
            /\ r.active = IF record[i].active = op[m].ver THEN Highest(disk[i]) ELSE record[i].active
            /\ record[i].active # op[m].ver => r = record[i]
  BY <1>2, <1>7, <1>9 DEF NoRecord, Installed
<1> HIDE DEF r
<1>12. record' \in [Ids -> Records] /\ record'[i] = r /\ \A j \in Ids : j # i => record'[j] = record[j]
  BY <1>2, <1>8, <1>10 DEF TypeOK
<1>13. \/ disk[i] = {} /\ Puts(i, "none", 0, "none")
       \/ disk[i] # {} /\ record[i].state = "none" /\ Puts(i, "installed", Highest(disk[i]), "none")
       \/ /\ disk[i] # {} /\ record[i].state # "none"
          /\ Puts(i, record[i].state,
                  IF record[i].active = op[m].ver THEN Highest(disk[i]) ELSE record[i].active,
                  record[i].err)
          /\ record[i].active # op[m].ver => record'[i] = record[i]
  BY <1>11, <1>12 DEF Puts
<1>14. Frame(i)
  BY <1>2, <1>4, <1>5, <1>12 DEF Frame, TypeOK, process, Rest
<1>15. LiveAt(i)'
  BY <1>2, <1>4, <1>6, <1>13 DEF LiveAt, process, Down, Aside
<1>16. WorkAt(m)' => StateAt(m, i)
  BY <1>2, <1>4, <1>13, <1>15 DEF StateAt, Puts
<1>17. CASE Done(m)
  <2>1. Moves(m, i) /\ Returns(m, i) /\ WorkAt(m)'
    BY <1>17, DoneReturns, RestedWork DEF Returns
  <2>2. op[m].was /\ disk[i] # {} => ~RefreshOk(disk, record')
    <3>1. ASSUME op[m].was, disk[i] # {}, RefreshOk(disk', record') PROVE FALSE
      <4>1. op' = [op EXCEPT ![m] = Section(m, "start")]
        BY <3>1 DEF Forget, Fresh
      <4>2. Section(m, "start") =
              Turned(op[m], "lock", "start", op[m].was, op[m].old, op[m].first, op[m].err)
        BY <1>2, Sectioned
      <4>3. op'[m].pc = "lock"
        BY <1>2, <4>1, <4>2 DEF Turned, TypeOK
      <4> QED
        BY <2>1, <4>3, RestedType DEF Returns, Resting
    <3> QED
      BY <1>4, <3>1
  <2> QED
    BY <1>3, <1>4, <1>6, <1>13, <1>14, <1>16, <2>1, <2>2
<1>18. CASE /\ op[m].was /\ disk[i] # {}
            /\ op' = [op EXCEPT ![m] = Section(m, "start")]
            /\ Unlock /\ UNCHANGED gate
  <2>1. Section(m, "start") =
          Turned(op[m], "lock", "start", op[m].was, op[m].old, op[m].first, op[m].err)
    BY <1>2, Sectioned
  <2>2. op[m].first \in BOOLEAN
    BY <1>2 DEF Operations
  <2>3. /\ Moves(m, i) /\ StartsAgain(m, i) /\ op'[m].first = op[m].first
        /\ (record'[i].state \in {"enabled", "failed"} /\ Down(i)') => WorkAt(m)'
    BY <1>1, <1>18, <2>1, <2>2, StartAgain
  <2>4. WorkAt(m)'
    BY <1>4, <1>6, <1>13, <1>18, <2>3 DEF Puts, Down, process
  <2>5. ~Returns(m, i)
    BY <2>3, RestedType DEF StartsAgain, Pauses, Returns, Resting
  <2> QED
    BY <1>3, <1>4, <1>6, <1>13, <1>14, <1>16, <1>18, <2>3, <2>4, <2>5
<1> QED
  BY <1>17, <1>18 DEF Forget, Fresh

-----------------------------------------------------------------------------
(* The reconciliation.                                                       *)

(* The steps of the reconciliation.                                        *)
LEMMA BootClearsDoes ==
  ASSUME Control, State, BootInv, NEW i \in Ids, op[Boot].id = i, BootClears
  PROVE  /\ Moves(Boot, i) /\ Frame(i) /\ StateAt(Boot, i) /\ op[Boot].pc \in Sections
         /\ op[Boot].kind = "reconcile" /\ ~booted
         /\ UNCHANGED <<disk, inst, runner, lost, owed>> /\ i \notin live /\ live' = live
         /\ record[i].state = "running" /\ Puts(i, "enabled", record[i].active, "none")
         /\ Pauses(Boot, i) /\ op'[Boot].job = "start" /\ ~op'[Boot].was /\ ~op'[Boot].first
<1> DEFINE m == Boot
<1>1. op[m].pc = "clear" /\ op[m].pc \in Sections \ {"install", "record", "register", "publish"} /\ m \in Procs
  BY DEF BootClears, Sections
<1>2. /\ op[m] \in Operations /\ Placed(op[m]) /\ Holds(op[m]) /\ LiveAt(i) /\ WorkAt(m) /\ TypeOK
      /\ op \in [Procs -> Operations]
      /\ op[m].pc \in StepsOf(op[m].kind) /\ record[i] \in Records /\ IsFiniteSet(disk[i])
  BY <1>1, InChange
<1>3. op[m].kind = "reconcile" /\ ~op[m].was /\ ~op[m].first
  BY <1>1, <1>2, KindsAt DEF Placed, Changes
<1>4. record[i].state = "running" /\ i \notin live /\ ~booted
  <2>1. ~Resting(op[m])
    BY <1>1 DEF Resting
  <2>2. Clearing(op[m])
    BY <1>1, <2>1 DEF BootInv, Toward, Again
  <2>3. ~booted
    BY <1>1 DEF Control, PlaceInv, Idle
  <2> QED
    BY <2>1, <2>2, <2>3 DEF BootInv
<1>5. UNCHANGED <<disk, inst, runner, gate, lost, owed, spent>> /\ Rest /\ live' = live \ {i}
  BY DEF BootClears
<1>6. owed' \in {owed, {}} /\ spent' \in [ops : Nat, calls : Nat, faults : Nat, crashes : Nat]
  BY <1>2, <1>5 DEF TypeOK
<1>7. live' = live
  BY <1>4, <1>5
<1>8. /\ record' \in [Ids -> Records] /\ \A j \in Ids : j # i => record'[j] = record[j]
      /\ Puts(i, "enabled", record[i].active, "none")
  <2>1. Record(i) = record[i]
    BY <1>4 DEF Record
  <2>2. Write(i, "enabled", "none")
    BY DEF BootClears
  <2> QED
    BY <1>2, <1>4, <2>1, <2>2, WritePuts DEF States, Errors
<1>9. Frame(i)
  BY <1>2, <1>5, <1>6, <1>7, <1>8 DEF Frame, TypeOK, Rest
<1>10. LiveAt(i)'
  BY <1>2, <1>4, <1>5, <1>7, <1>8 DEF LiveAt, Puts
<1> DEFINE n == Turned(op[m], "lock", "start", op[m].was, op[m].old, op[m].first, op[m].err)
<1>11. /\ n.pc = "lock" /\ n.job = "start" /\ Same(op[m], n) /\ ~n.was /\ ~n.first /\ n \in Operations
  BY <1>2, <1>3 DEF Turned, Same, Operations, Sections
<1>12. op' = [op EXCEPT ![m] = n] /\ gate' = gate /\ Unlock
  <2>1. Section(m, "start") = n
    BY <1>2, Sectioned
  <2> QED
    BY <1>5, <2>1 DEF BootClears
<1>13. "start" \in StepsOf(op[m].kind) \cap Jobs
  BY <1>3, Steps DEF Jobs
<1>14. Placed(n)
  BY <1>1, <1>2, <1>3, <1>11, <1>13 DEF Placed, Resting, Changes, Toward, Changing, Same, Sections
<1>15. Moves(m, i) /\ Pauses(m, i) /\ op'[m] = n
  BY <1>1, <1>2, <1>11, <1>12, <1>14, PauseMoves
<1>16. op'[m].pc = "lock" /\ op'[m].kind = "reconcile"
  BY <1>3, <1>11, <1>15 DEF Same
<1>17. WorkAt(m)'
  BY <1>16 DEF WorkAt, StoppedAt, StartedAt, ChangedAt, FilesAt, Changing, Changes
<1>18. StateAt(m, i)
  BY <1>2, <1>5, <1>8, <1>10, <1>17 DEF StateAt, Puts
<1> QED
  BY <1>1, <1>3, <1>4, <1>5, <1>7, <1>8, <1>9, <1>11, <1>15, <1>18

LEMMA BootDegradesDoes ==
  ASSUME Control, State, BootInv, NEW i \in Ids, op[Boot].id = i, BootDegrades
  PROVE  /\ Moves(Boot, i) /\ Frame(i) /\ StateAt(Boot, i) /\ op[Boot].pc \in Sections
         /\ op[Boot].kind = "reconcile" /\ ~booted
         /\ UNCHANGED <<disk, inst, runner, lost, owed>> /\ i \notin live /\ live' = live
         /\ record[i].state \in {"enabled", "failed"}
         /\ Puts(i, "enabled", record[i].active, op[Boot].err)
         /\ Returns(Boot, i)
<1> DEFINE m == Boot
<1>1. op[m].pc = "degraded" /\ op[m].pc \in Sections \ {"install", "record", "register", "publish"} /\ m \in Procs
  BY DEF BootDegrades, Sections
<1>2. /\ op[m] \in Operations /\ Placed(op[m]) /\ Holds(op[m]) /\ LiveAt(i) /\ WorkAt(m) /\ TypeOK
      /\ record[i] \in Records /\ IsFiniteSet(disk[i])
  BY <1>1, InChange
<1>3. op[m].kind = "reconcile" /\ op[m].err \in Errors
  BY <1>1, <1>2, KindsAt DEF Operations
<1>4. record[i].state \in {"enabled", "failed"} /\ i \notin live /\ ~booted
  <2>1. ~Resting(op[m])
    BY <1>1 DEF Resting
  <2>2. ~Clearing(op[m])
    BY <1>1 DEF Clearing
  <2>3. ~booted
    BY <1>1 DEF Control, PlaceInv, Idle
  <2> QED
    BY <1>1, <2>1, <2>2, <2>3 DEF BootInv
<1>5. UNCHANGED <<disk, inst, runner, lost, owed, spent>> /\ Rest /\ live' = live \ {i} /\ Done(m)
  BY DEF BootDegrades
<1>6. owed' \in {owed, {}} /\ spent' \in [ops : Nat, calls : Nat, faults : Nat, crashes : Nat]
  BY <1>2, <1>5 DEF TypeOK
<1>7. live' = live
  BY <1>4, <1>5
<1>8. /\ record' \in [Ids -> Records] /\ \A j \in Ids : j # i => record'[j] = record[j]
      /\ Puts(i, "enabled", record[i].active, op[m].err)
  <2>1. Record(i) = record[i]
    BY <1>4 DEF Record
  <2>2. Write(i, "enabled", op[m].err)
    BY DEF BootDegrades
  <2> QED
    BY <1>2, <1>3, <1>4, <2>1, <2>2, WritePuts DEF States
<1>9. Frame(i)
  BY <1>2, <1>5, <1>6, <1>7, <1>8 DEF Frame, TypeOK, Rest
<1>10. LiveAt(i)'
  BY <1>2, <1>4, <1>5, <1>7, <1>8 DEF LiveAt, Puts
<1>11. Moves(m, i) /\ Returns(m, i) /\ WorkAt(m)'
  BY <1>1, <1>5, DoneReturns, RestedWork DEF Returns
<1>12. StateAt(m, i)
  BY <1>2, <1>5, <1>8, <1>10, <1>11 DEF StateAt, Puts
<1> QED
  BY <1>1, <1>3, <1>4, <1>5, <1>7, <1>8, <1>9, <1>11, <1>12

-----------------------------------------------------------------------------
(* Any step of an operation that works.                                      *)

Working(m, i) == op[m].pc \in Sections /\ Moves(m, i) /\ Frame(i) /\ StateAt(m, i)

(* Only an operation in a section works.                                   *)
LEMMA WorkSections ==
  ASSUME NEW m \in Procs, Works(m)
  PROVE  op[m].pc \in Sections
BY DEF Works, Install, InstallRecords, Enable, StartRefused, Start, Register, Publish,
       RollBackVersion, Degrade, Disable, Unregister, Update, UpdateArchive, UpdateSelects,
       Uninstall, RemoveFiles, Forget, Sections

(* Every step of an operation moves it and keeps to its extension.         *)
LEMMA WorkMoves ==
  ASSUME Control, State, NEW m \in Procs, NEW i \in Ids, op[m].id = i, Works(m)
  PROVE  Working(m, i)
<1>1. op[m].pc \in Sections
  BY WorkSections
<1>2. CASE Install(m)
  BY <1>1, <1>2, InstallDoes DEF Working
<1>3. CASE InstallRecords(m)
  BY <1>1, <1>3, InstallRecordsDoes DEF Working
<1>4. CASE Enable(m)
  BY <1>1, <1>4, EnableDoes DEF Working
<1>5. CASE StartRefused(m)
  BY <1>1, <1>5, StartRefusedDoes DEF Working
<1>6. CASE Start(m)
  BY <1>1, <1>6, StartDoes DEF Working
<1>7. CASE Register(m)
  BY <1>1, <1>7, RegisterDoes DEF Working
<1>8. CASE Publish(m)
  BY <1>1, <1>8, PublishDoes DEF Working
<1>9. CASE RollBackVersion(m)
  BY <1>1, <1>9, RollBackVersionDoes DEF Working
<1>10. CASE Degrade(m)
  BY <1>1, <1>10, DegradeDoes DEF Working
<1>11. CASE Disable(m)
  BY <1>1, <1>11, DisableDoes DEF Working
<1>12. CASE Unregister(m)
  BY <1>1, <1>12, UnregisterDoes DEF Working
<1>13. CASE Update(m)
  BY <1>1, <1>13, UpdateDoes DEF Working
<1>14. CASE UpdateArchive(m)
  BY <1>1, <1>14, UpdateArchiveDoes DEF Working
<1>15. CASE UpdateSelects(m)
  BY <1>1, <1>15, UpdateSelectsDoes DEF Working
<1>16. CASE Uninstall(m)
  BY <1>1, <1>16, UninstallDoes DEF Working
<1>17. CASE RemoveFiles(m)
  BY <1>1, <1>17, RemoveFilesDoes DEF Working
<1>18. CASE Forget(m)
  BY <1>1, <1>18, ForgetDoes DEF Working
<1> QED
  BY <1>2, <1>3, <1>4, <1>5, <1>6, <1>7, <1>8, <1>9, <1>10, <1>11, <1>12, <1>13, <1>14,
     <1>15, <1>16, <1>17, <1>18 DEF Works

(* Hence it keeps the invariant.                                           *)
LEMMA WorkingKeeps ==
  ASSUME Control, State, NEW m \in Procs, NEW i \in Ids, op[m].id = i, Working(m, i)
  PROVE  Control' /\ State'
<1>1. UNCHANGED <<call, todo, booted>>
  BY DEF Working, Frame
<1>2. PlaceInv' /\ LockInv' /\ GateInv'
  BY <1>1, ControlMoves DEF Working
<1>3. TypeOK'
  BY TypeMoves DEF Working
<1>4. State'
  BY StateMoves DEF Working
<1> QED
  BY <1>2, <1>3, <1>4 DEF Control

(* A start of the reconciliation. *)
LEMMA ReconcileStarts ==
  ASSUME Control, State, BootInv, NEW i \in Ids, op[Boot].id = i, op[Boot].kind = "reconcile",
         Works(Boot)
  PROVE  BootInv'
<1>1. Boot \in Procs /\ op[Boot].pc \in Sections /\ Placed(op[Boot])
  BY WorkSections DEF Control, PlaceInv
<1>2. op[Boot].pc \in {"clear", "start", "register", "publish", "degraded"} /\ ~op[Boot].was
  BY <1>1, Steps DEF Placed, Changes
<1>3. Working(Boot, i)
  BY <1>1, WorkMoves
<1>4. ~Resting(op[Boot]) /\ i \notin todo /\ \A j \in todo : record[j].state = "running" /\ j \notin live
  BY <1>2 DEF BootInv, Resting
<1>5. todo' = todo /\ todo \subseteq Ids
  BY <1>3 DEF Working, Frame, Control, TypeOK
<1>6. \A j \in todo' : record'[j].state = "running" /\ j \notin live'
  BY <1>3, <1>4, <1>5 DEF Working, Frame
<1>7. ASSUME /\ op'[Boot].id = i /\ Toward(op'[Boot], {"degraded"} \cup Again) /\ ~Clearing(op'[Boot])
             /\ record'[i].state \in {"enabled", "failed"} /\ (op'[Boot].pc # "publish" => i \notin live')
      PROVE  BootInv'
  BY <1>4, <1>5, <1>6, <1>7 DEF BootInv
<1>8. ASSUME Returns(Boot, i) PROVE BootInv'
  <2>1. Resting(op'[Boot])
    BY <1>1, <1>8, RestedType DEF Returns
  <2> QED
    BY <1>6, <2>1 DEF BootInv
<1>9. ASSUME Pauses(Boot, i), op'[Boot].job = "degraded",
             record'[i].state \in {"enabled", "failed"}, i \notin live'
      PROVE  BootInv'
  BY <1>7, <1>9 DEF Pauses, Same, Toward, Clearing
<1>10. ASSUME NEW pc \in {"register", "publish"}, GoesOn(Boot, i, pc), record'[i].state = "enabled",
              pc = "register" => i \notin live'
       PROVE  BootInv'
  <2>1. op'[Boot].pc = pc /\ op'[Boot].id = i
    BY <1>10 DEF GoesOn, Onto, Turned
  <2> QED
    BY <1>7, <1>10, <2>1 DEF Toward, Clearing, Again
<1>11. CASE StartRefused(Boot)
  <2>1. op[Boot].pc = "start"
    BY <1>11 DEF StartRefused
  <2>2. ~Clearing(op[Boot])
    BY <2>1 DEF Clearing
  <2>3. record[i].state \in {"enabled", "failed"} /\ i \notin live
    BY <1>4, <2>1, <2>2 DEF BootInv
  <2>4. /\ Pauses(Boot, i) /\ op'[Boot].job = "degraded" /\ live' = live
        /\ record' = record \/ Puts(i, "enabled", record[i].active, "dependency")
    BY <1>1, <1>11, StartRefusedDoes DEF process
  <2> QED
    BY <1>9, <2>3, <2>4 DEF Puts
<1>12. CASE Start(Boot)
  <2>1. /\ record[i].state = "enabled" /\ i \notin live /\ live' = live
        /\ \/ GoesOn(Boot, i, "register") /\ record' = record
           \/ /\ Pauses(Boot, i) /\ op'[Boot].job = "degraded"
              /\ \E s \in {"enabled", "failed"} : Puts(i, s, record[i].active, "runtime")
    BY <1>1, <1>12, StartDoes
  <2> QED
    BY <1>9, <1>10, <2>1 DEF Puts
<1>13. CASE Register(Boot)
  <2>1. /\ record[i].state = "enabled"
        /\ \/ GoesOn(Boot, i, "publish") /\ record' = record
           \/ /\ Pauses(Boot, i) /\ op'[Boot].job = "degraded" /\ i \notin live'
              /\ Puts(i, "failed", record[i].active, "runner")
    BY <1>1, <1>13, RegisterDoes
  <2> QED
    BY <1>9, <1>10, <2>1 DEF Puts
<1>14. CASE Publish(Boot)
  <2>1. \/ Returns(Boot, i)
        \/ /\ Pauses(Boot, i) /\ op'[Boot].job = "degraded" /\ i \notin live'
           /\ record'[i].state = "enabled"
    BY <1>1, <1>14, PublishDoes
  <2> QED
    BY <1>8, <1>9, <2>1
<1>15. StartRefused(Boot) \/ Start(Boot) \/ Register(Boot) \/ Publish(Boot)
  BY <1>2 DEF Works, Install, InstallRecords, Enable, RollBackVersion, Degrade, Disable, Unregister,
       Update, UpdateArchive, UpdateSelects, Uninstall, RemoveFiles, Forget
<1> QED
  BY <1>11, <1>12, <1>13, <1>14, <1>15

(* It keeps what is known of the reconciliation as well.                   *)
LEMMA WorkKeeps ==
  ASSUME Control, State, BootInv, NEW m \in Procs, Works(m)
  PROVE  Control' /\ State' /\ BootInv'
<1> DEFINE i == op[m].id
<1>1. op[m].pc \in Sections
  BY WorkSections
<1>2. i \in Ids
  BY <1>1, Alone
<1>3. Working(m, i)
  BY <1>2, WorkMoves
<1>4. Control' /\ State'
  BY <1>2, <1>3, WorkingKeeps
<1>5. UNCHANGED <<todo, booted>> /\ op[m].pc # "idle"
  BY <1>1, <1>3 DEF Working, Frame, Sections
<1>6. CASE booted
  <2>1. op'[Boot] = Idle /\ todo' = {}
    BY <1>4, <1>5, <1>6 DEF Control, PlaceInv
  <2>2. Resting(op'[Boot])
    BY <2>1 DEF Resting, Idle
  <2>3. \A j \in todo' : record'[j].state = "running" /\ j \notin live'
    BY <2>1
  <2>4. BootInv'
    BY <2>2, <2>3 DEF BootInv
  <2> QED
    BY <1>4, <2>4
<1>7. CASE ~booted
  <2>1. m = Boot
    BY <1>5, <1>7 DEF Control, PlaceInv, Idle
  <2>2. op[Boot].kind = "reconcile"
    <3>1. op[Boot] \in Operations /\ Placed(op[Boot])
      BY <1>1, <2>1, Alone
    <3>2. op[Boot].kind # "none"
      BY <1>1, <2>1, <3>1, Steps DEF Placed
    <3> QED
      BY <3>2 DEF Control, PlaceInv
  <2> QED
    BY <1>2, <1>4, <2>1, <2>2, ReconcileStarts
<1> QED
  BY <1>4, <1>6, <1>7

(* So do the two steps that only the reconciliation takes.                 *)
LEMMA BootWorks ==
  ASSUME Control, State, BootInv, BootClears \/ BootDegrades
  PROVE  Control' /\ State' /\ BootInv'
<1> DEFINE i == op[Boot].id
<1>1. Boot \in Procs /\ op[Boot].pc \in Sections
  BY DEF BootClears, BootDegrades, Sections
<1>2. i \in Ids
  BY <1>1, Alone
<1>3. Working(Boot, i)
  BY <1>1, <1>2, BootClearsDoes, BootDegradesDoes DEF Working
<1>4. Control' /\ State'
  BY <1>1, <1>2, <1>3, WorkingKeeps
<1>5. i \notin todo /\ \A j \in todo : record[j].state = "running" /\ j \notin live
  BY <1>1 DEF BootInv, Resting, Sections
<1>6. todo' = todo /\ todo \subseteq Ids
  BY <1>3 DEF Working, Frame, Control, TypeOK
<1>7. \A j \in todo' : record'[j].state = "running" /\ j \notin live'
  BY <1>3, <1>5, <1>6 DEF Working, Frame
<1>8. CASE BootClears
  <2>1. /\ Pauses(Boot, i) /\ op'[Boot].job = "start" /\ i \notin live'
        /\ record'[i].state = "enabled"
    BY <1>2, <1>8, BootClearsDoes DEF Puts
  <2>2. op'[Boot].id = i /\ Toward(op'[Boot], {"degraded"} \cup Again) /\ ~Clearing(op'[Boot])
    BY <2>1 DEF Pauses, Same, Toward, Clearing, Again
  <2> QED
    BY <1>4, <1>5, <1>6, <1>7, <2>1, <2>2 DEF BootInv
<1>9. CASE BootDegrades
  <2>1. Returns(Boot, i)
    BY <1>2, <1>9, BootDegradesDoes
  <2>2. Resting(op'[Boot])
    BY <1>1, <2>1, RestedType DEF Returns
  <2> QED
    BY <1>4, <1>7, <2>2 DEF BootInv
<1> QED
  BY <1>8, <1>9

-----------------------------------------------------------------------------
(* The steps that change no extension.                                       *)

(* Whether a start is possible depends on the files, the records and what runs. *)
LEMMA ProvidedSame ==
  ASSUME NEW i \in Ids, UNCHANGED <<durable, process>>
  PROVE  Provided(i)' = Provided(i) /\ Readable(i)' = Readable(i)
<1>1. /\ disk' = disk /\ record' = record /\ inst' = inst /\ live' = live
  BY DEF durable, process
<1>2. \A j : Record(j)' = Record(j)
  BY <1>1 DEF Record
<1>3. \A j : Readable(j)' = Readable(j)
  BY <1>1, <1>2 DEF Readable
<1>4. Edges' = Edges
  BY <1>1, <1>2 DEF Edges
<1>5. Cyclic(i)' = Cyclic(i)
  BY <1>4 DEF Cyclic, Reaches
<1>6. ListOk' = ListOk
  BY <1>1, <1>3 DEF ListOk
<1>7. Satisfied(i)' = Satisfied(i)
  BY <1>1, <1>2, <1>3 DEF Satisfied, Accepts, Up, HasLive
<1> QED
  BY <1>3, <1>5, <1>6, <1>7 DEF Provided

(* Where none of these changes, the state is as it was.                    *)
LEMMA StillState ==
  ASSUME Control, State, UNCHANGED <<durable, process>>, NEW m \in Procs,
         op[m].pc \notin {"register", "publish"}, WorkAt(m)',
         \A q \in Procs : q # m => op'[q] = op[q]
  PROVE  State'
<1>1. /\ disk' = disk /\ record' = record /\ inst' = inst /\ live' = live /\ runner' = runner
  BY DEF durable, process
<1>2. RecordInv'
  BY <1>1 DEF State, RecordInv
<1>3. ASSUME NEW q \in Procs, q # m PROVE WorkAt(q)'
  <2>1. WorkAt(q) /\ op'[q] = op[q]
    BY <1>3 DEF State, WorkInv
  <2>2. StartedAt(op[q], op[q].id)'
    <3>1. op[q].pc \in {"register", "publish"} => op[q].id \in Ids
      BY DEF Control, PlaceInv, Placed, Resting
    <3>2. CASE op[q].pc \notin {"register", "publish"}
      BY <2>1, <3>2 DEF StartedAt
    <3>3. CASE op[q].pc \in {"register", "publish"}
      <4>1. PICK j \in Ids : j = op[q].id
        BY <3>1, <3>3
      <4>2. Provided(j)' = Provided(j) /\ Readable(j)' = Readable(j)
        BY ProvidedSame
      <4>3. StartedAt(op[q], j)
        BY <2>1, <4>1 DEF WorkAt
      <4>4. op'[q].id = j /\ op'[q].pc = op[q].pc
        BY <2>1, <4>1
      <4> QED
        BY <1>1, <4>2, <4>3, <4>4 DEF StartedAt
    <3> QED
      BY <3>2, <3>3
  <2> QED
    BY <1>1, <2>1, <2>2
       DEF WorkAt, StoppedAt, ChangedAt, FilesAt, Aside, Down, Readable, Record
<1>4. WorkInv'
  BY <1>3 DEF WorkInv
<1>5. ASSUME NEW i \in Ids,
             \A q \in Procs : ~(op'[q].id = i /\ op'[q].pc \in {"register", "publish"})
      PROVE  LiveAt(i)'
  <2>1. \A q \in Procs : ~(op[q].id = i /\ op[q].pc \in {"register", "publish"})
    BY <1>5
  <2> QED
    BY <1>1, <2>1 DEF State, LiveInv, LiveAt
<1>6. LiveInv'
  BY <1>5 DEF LiveInv
<1> QED
  BY <1>2, <1>4, <1>6 DEF State

-----------------------------------------------------------------------------
(* The steps of an operation that waits. *)

(* The gate of i is taken. *)
LEMMA GateTaken ==
  ASSUME Control, NEW m \in Procs, NEW i \in Ids, gate[i] = FreeGate,
         gate' = [gate EXCEPT ![i].writer = m], call' = call,
         op'[m].id = i, Holds(op'[m]), ~Holds(op[m]), \A q \in Procs : q # m => op'[q] = op[q]
  PROVE  gate' \in [Ids -> Gate] /\ GateInv'
<1>1. gate \in [Ids -> Gate] /\ GateInv /\ PlaceInv
  BY DEF Control, TypeOK, Gate
<1> DEFINE g == [writer |-> m, readers |-> {}]
<1>2. gate[i].writer = NoOne /\ gate[i].readers = {} /\ [gate[i] EXCEPT !.writer = m] = g
  <2>1. gate[i].writer = NoOne /\ gate[i].readers = {}
    BY DEF FreeGate
  <2>2. gate[i] \in Gate
    BY <1>1
  <2>3. [gate[i] EXCEPT !.writer = m] = [writer |-> m, readers |-> gate[i].readers]
    BY <2>2 DEF Gate
  <2> QED
    BY <2>1, <2>3
<1>3. gate' = [gate EXCEPT ![i] = g]
  BY <1>2
<1>4. g \in Gate /\ g.writer = m /\ g.readers = {}
  BY DEF Gate
<1> HIDE DEF g
<1>5. gate' \in [Ids -> Gate] /\ gate'[i] = g /\ \A j \in Ids : j # i => gate'[j] = gate[j]
  BY <1>1, <1>3, <1>4
<1>6. \A q \in Procs : q # m /\ Holds(op[q]) => op[q].id # i /\ op[q].id \in Ids
  <2>1. \A q \in Procs : Holds(op[q]) => gate[op[q].id].writer = q
    BY <1>1 DEF GateInv
  <2>2. \A q \in Procs : Holds(op[q]) => op[q].id \in Ids
    BY <1>1 DEF PlaceInv, Placed, Resting, Holds, Sections
  <2> QED
    BY <1>2, <2>1, <2>2
<1>7. ASSUME NEW q \in Procs, Holds(op'[q]) PROVE gate'[op'[q].id].writer = q
  <2>1. CASE q = m
    BY <1>4, <1>5, <2>1
  <2>2. CASE q # m
    BY <1>1, <1>5, <1>6, <1>7, <2>2 DEF GateInv
  <2> QED
    BY <2>1, <2>2
<1>8. ASSUME NEW j \in Ids, gate'[j].writer # NoOne
      PROVE  /\ Holds(op'[gate'[j].writer]) /\ op'[gate'[j].writer].id = j
             /\ gate'[j].readers = {}
  <2>1. CASE j = i
    BY <1>4, <1>5, <2>1
  <2>2. CASE j # i
    <3>1. gate'[j] = gate[j] /\ gate[j].writer \in Procs
      BY <1>1, <1>5, <1>8, <2>2 DEF Gate
    <3>2. Holds(op[gate[j].writer]) /\ op[gate[j].writer].id = j /\ gate[j].readers = {}
      BY <1>1, <1>8, <3>1 DEF GateInv
    <3>3. gate[j].writer # m
      BY <3>2
    <3> QED
      BY <3>1, <3>2, <3>3
  <2> QED
    BY <2>1, <2>2
<1>9. \A j \in Ids : gate'[j].readers = gate[j].readers
  BY <1>2, <1>4, <1>5
<1> QED
  BY <1>1, <1>5, <1>7, <1>8, <1>9 DEF GateInv

(* At the gate and at the lock nothing is under way. *)
LEMMA WaitingWork ==
  ASSUME NEW m \in Procs, op[m] \in Operations, Placed(op[m]), op[m].pc \in {"gate", "lock"},
         NEW n \in Operations, n.pc = "lock" \/ (n.pc = op[m].job /\ op[m].pc = "lock"),
         n.kind = op[m].kind, n.id = op[m].id,
         n.job = op[m].job, n.was = op[m].was, op'[m] = n, UNCHANGED <<durable, process>>, WorkAt(m)
  PROVE  /\ WorkAt(m)' /\ n.pc \notin {"stopped", "archive", "select", "files", "forget", "register", "publish"}
         /\ op[m].job \notin {"stopped", "archive", "select", "files", "forget", "register", "publish"}
<1>1. op[m].job \in {"start", "rollback", "degrade", "clear", "degraded"} \cup Requests
  BY DEF Placed, Jobs
<1>2. op[m].job \notin {"stopped", "archive", "select", "files", "forget", "register", "publish"}
  BY <1>1 DEF Requests
<1>3. n.pc \notin {"stopped", "archive", "select", "files", "forget", "register", "publish"}
  BY <1>2
<1>4. record' = record /\ live' = live
  BY DEF durable, process
<1>5. CASE op[m].pc = "gate"
  <2>1. ~Changing(n)
    BY <1>2, <1>5, Steps DEF Changing, Toward, Again, Placed, Changes
  <2>2. op'[m] = n /\ n.id = op[m].id
    OBVIOUS
  <2>3. \A i : StoppedAt(n, i)' /\ StartedAt(n, i)' /\ ChangedAt(n, i)' /\ FilesAt(n, i)'
    BY <1>3, <2>1 DEF StoppedAt, StartedAt, ChangedAt, FilesAt
  <2> QED
    BY <1>2, <1>3, <2>2, <2>3 DEF WorkAt
<1>6. CASE op[m].pc = "lock"
  <2>1. Changing(n) => Changing(op[m])
    BY <1>6 DEF Changing, Toward
  <2>2. Changing(op[m]) => (op[m].was => record[op[m].id].state \in {"enabled", "failed"}) /\ Down(op[m].id)
    BY <1>6 DEF WorkAt, ChangedAt
  <2> QED
    BY <1>2, <1>3, <1>4, <2>1, <2>2 DEF WorkAt, StoppedAt, StartedAt, ChangedAt, FilesAt, Down
<1> QED
  BY <1>2, <1>3, <1>5, <1>6

(* An operation waits no more. *)
LEMMA WaitTurns ==
  ASSUME Control, NEW m \in Procs, NEW pc \in Sections \cup {"lock"}, Go(m, pc)
  PROVE  /\ op' \in [Procs -> Operations] /\ op'[m] = Onto(op[m], pc)
         /\ \A q \in Procs : q # m => op'[q] = op[q]
<1>1. op \in [Procs -> Operations] /\ op[m] \in Operations
  BY DEF Control, TypeOK
<1>2. [op[m] EXCEPT !.pc = pc] = Onto(op[m], pc)
  BY <1>1, Ontos
<1>3. Onto(op[m], pc) \in Operations
  BY <1>1 DEF Onto, Turned, Operations
<1>4. op' = [op EXCEPT ![m] = Onto(op[m], pc)]
  BY <1>2 DEF Go
<1> QED
  BY <1>1, <1>3, <1>4, Turn

Waited(m, i) ==
  /\ op[m].pc \in {"gate", "lock"} /\ op[m].id = i
  /\ op' \in [Procs -> Operations] /\ Placed(op'[m])
  /\ op'[m] = Onto(op[m], IF op[m].pc = "gate" THEN "lock" ELSE op[m].job)
  /\ \A q \in Procs : q # m => op'[q] = op[q]
  /\ op'[m].pc = IF op[m].pc = "gate" THEN "lock" ELSE op[m].job
  /\ Same(op[m], op'[m]) /\ op'[m].job = op[m].job /\ op'[m].was = op[m].was
  /\ op'[m].first = op[m].first /\ op'[m].old = op[m].old /\ op'[m].err = op[m].err
  /\ UNCHANGED <<durable, process, call, todo, booted, lost, owed, spent>>

(* What the two steps of a waiting operation do.                           *)
LEMMA WaitsMove ==
  ASSUME Control, NEW m \in Procs, Waits(m)
  PROVE  /\ op[m].id \in Ids /\ Waited(m, op[m].id)
         /\ op[m] \in Operations /\ Placed(op[m])
         /\ op[m].pc = "gate" => TakeGate(m) /\ op[m].job # "install"
         /\ op[m].pc = "lock" => TakeLock(m) /\ op[m].job \in Sections \ {"record"}
<1> DEFINE o == op[m]
<1> DEFINE pc == IF o.pc = "gate" THEN "lock" ELSE o.job
<1>1. o \in Operations /\ Placed(o) /\ o.pc \in {"gate", "lock"}
  BY DEF Control, TypeOK, PlaceInv, Waits, TakeGate, TakeLock
<1>2. o.id \in Ids /\ o.job \in StepsOf(o.kind) \cap Jobs /\ (o.pc = "gate" => o.job # "install")
  BY <1>1 DEF Placed, Resting
<1>3. o.job \in Sections \ {"record", "none", "stopped", "archive", "select", "files", "forget"}
  BY <1>2 DEF Jobs, Requests, Sections
<1>4. Go(m, pc) /\ UNCHANGED <<durable, process, call, todo, booted, lost, owed, spent>>
  BY DEF Waits, TakeGate, TakeLock, Rest
<1>5. pc \in Sections \cup {"lock"}
  BY <1>3
<1>6. op' \in [Procs -> Operations] /\ op'[m] = Onto(o, pc) /\ \A q \in Procs : q # m => op'[q] = op[q]
  <2> HIDE DEF pc
  <2> QED
    BY <1>4, <1>5, WaitTurns
<1>7. /\ op'[m].pc = pc /\ Same(o, op'[m]) /\ op'[m].job = o.job /\ op'[m].was = o.was
      /\ op'[m].first = o.first /\ op'[m].old = o.old /\ op'[m].err = o.err
  <2> HIDE DEF pc
  <2> QED
    BY <1>6 DEF Onto, Turned, Same
<1>8. Placed(op'[m])
  <2>1. CASE o.pc = "lock"
    <3>1. \A pcs : Toward(op'[m], pcs) => Toward(o, pcs)
      BY <1>7, <2>1 DEF Toward
    <3> DEFINE n == op'[m]
    <3>2. /\ n.pc = o.job /\ n.job = o.job /\ n.kind = o.kind /\ n.id = o.id /\ n.ver = o.ver
          /\ n.was = o.was /\ n.first = o.first /\ n.err = o.err
      BY <1>7, <2>1 DEF Same
    <3>3. o.pc = "lock" /\ ~Resting(n) /\ ~Resting(o) /\ n.pc \notin {"gate", "lock"}
      BY <1>3, <2>1, <3>2 DEF Resting, Sections
    <3> HIDE DEF n
    <3>4. n.was => n.kind \in Changes /\ (n.pc = "stopped" \/ Changing(n))
      <4>1. o.was => o.kind \in Changes /\ Changing(o)
        BY <1>1, <3>3 DEF Placed
      <4>2. Changing(o) => Changing(n)
        BY <3>2, <3>3 DEF Changing, Toward, Again
      <4> QED
        BY <3>2, <4>1, <4>2
    <3>5. n.kind \in Changes /\ Toward(n, {"stopped", "rollback"} \cup Again) => n.was
      BY <1>1, <3>1, <3>2 DEF Placed, n
    <3> QED
      BY <1>1, <1>2, <1>3, <3>2, <3>3, <3>4, <3>5 DEF Placed, n
  <2>2. CASE o.pc = "gate"
    <3>1. ~o.was
      BY <1>1, <2>2 DEF Placed, Changing, Toward, Again
    <3>2. o.kind \in Changes => ~Toward(op'[m], {"stopped", "rollback"} \cup Again)
      BY <1>1, <1>7, <2>2 DEF Placed, Toward, Again, Changes
    <3> QED
      BY <1>1, <1>2, <1>3, <1>7, <2>2, <3>1, <3>2 DEF Placed, Resting, Sections, Same
  <2> QED
    BY <1>1, <2>1, <2>2
<1> QED
  BY <1>1, <1>2, <1>3, <1>4, <1>6, <1>7, <1>8 DEF Waited, Waits, TakeGate, TakeLock

(* They keep the invariant.                                                *)
LEMMA WaitKeeps ==
  ASSUME Control, State, BootInv, NEW m \in Procs, Waits(m)
  PROVE  Control' /\ State' /\ BootInv'
<1> DEFINE i == op[m].id
<1> DEFINE o == op[m]
<1> DEFINE n == op'[m]
<1>1. /\ i \in Ids /\ Waited(m, i) /\ o \in Operations /\ Placed(o)
      /\ o.pc = "gate" => TakeGate(m) /\ o.job # "install"
      /\ o.pc = "lock" => TakeLock(m) /\ o.job \in Sections \ {"record"}
  BY WaitsMove
<1>2. /\ o.pc \in {"gate", "lock"} /\ n.kind = o.kind /\ n.id = i /\ n.ver = o.ver /\ n.job = o.job
      /\ n.was = o.was /\ n.first = o.first /\ n.old = o.old /\ n.err = o.err
      /\ n.pc = (IF o.pc = "gate" THEN "lock" ELSE o.job)
      /\ n \in Operations /\ Placed(n) /\ \A q \in Procs : q # m => op'[q] = op[q]
      /\ UNCHANGED <<durable, process, call, todo, booted, lost, owed, spent>>
  BY <1>1 DEF Waited, Same
<1>3. o.pc \notin Sections /\ ~Resting(n) /\ ~Resting(o)
  BY <1>1, <1>2 DEF Sections, Resting
<1>4. WorkAt(m)
  BY DEF State, WorkInv
<1> HIDE DEF n
<1>5. WorkAt(m)' /\ n.pc \notin {"register", "publish"}
  BY <1>1, <1>2, <1>4, WaitingWork DEF n
<1>6. State'
  BY <1>2, <1>3, <1>5, StillState DEF Sections
<1>7. LockInv'
  <2>1. ASSUME o.pc = "gate", NEW q \in Procs PROVE (lock = q <=> op[q].pc \in Sections)'
    <3>1. lock' = lock /\ n.pc = "lock"
      BY <1>1, <1>2, <2>1 DEF TakeGate
    <3>2. (lock = q) <=> (op[q].pc \in Sections)
      BY DEF Control, LockInv
    <3>3. op'[q].pc \in Sections <=> op[q].pc \in Sections
      BY <1>2, <1>3, <3>1 DEF n, Sections
    <3> QED
      BY <3>1, <3>2, <3>3
  <2>2. ASSUME o.pc = "lock", NEW q \in Procs PROVE (lock = q <=> op[q].pc \in Sections)'
    <3>1. lock = NoOne /\ lock' = m /\ n.pc \in Sections
      BY <1>1, <1>2, <2>2 DEF TakeLock
    <3>2. op[q].pc \notin Sections
      BY <3>1 DEF Control, LockInv
    <3> QED
      BY <1>2, <3>1, <3>2 DEF n
  <2> QED
    BY <1>2, <2>1, <2>2 DEF LockInv
<1>8. TypeOK /\ gate \in [Ids -> Gate] /\ GateInv /\ PlaceInv
  BY DEF Control, TypeOK, Gate
<1>9. gate' \in [Ids -> Gate] /\ GateInv'
  <2>1. CASE o.pc = "lock"
    <3>1. gate' = gate /\ n.pc = o.job /\ o.job \in Sections \ {"record"}
      BY <1>1, <1>2, <2>1 DEF TakeLock
    <3>2. Holds(n) <=> Holds(o)
      BY <2>1, <3>1, <1>2 DEF Holds, Sections
    <3>3. \A q \in Procs : op'[q].id = op[q].id /\ (Holds(op'[q]) <=> Holds(op[q]))
      BY <1>2, <3>2 DEF n
    <3>4. \A j \in Ids : gate[j].writer \in Procs \cup {NoOne}
      BY <1>8 DEF Gate
    <3>5. gate' = gate /\ call' = call
      BY <1>2, <3>1
    <3> QED
      BY <1>8, <3>3, <3>4, <3>5 DEF GateInv
  <2>2. CASE o.pc = "gate"
    <3>1. gate[i] = FreeGate /\ gate' = [gate EXCEPT ![i].writer = m] /\ n.pc = "lock" /\ n.job # "install"
      BY <1>1, <1>2, <2>2 DEF TakeGate
    <3>2. Holds(n) /\ ~Holds(o) /\ call' = call
      BY <1>2, <2>2, <3>1 DEF Holds, Sections
    <3> QED
      BY <1>1, <1>2, <3>1, <3>2, GateTaken DEF n
  <2> QED
    BY <1>2, <2>1, <2>2
<1>10. PlaceInv' /\ UNCHANGED <<call, todo, booted>>
  <2>1. n.pc \notin {"idle", "next"} /\ o.pc \notin {"idle", "next"}
    BY <1>3 DEF Resting
  <2>2. \A q \in Procs : Placed(op'[q]) /\ op'[q].kind = op[q].kind
    BY <1>2, <1>8 DEF PlaceInv, n
  <2>3. \A q \in Procs : (op[q].pc = "next" <=> op'[q].pc = "next") /\ (op[q].pc = "idle" <=> op'[q].pc = "idle")
    BY <1>2, <2>1 DEF n
  <2>4. UNCHANGED <<call, todo, booted>>
    BY <1>2
  <2>5. booted => m # Boot
    BY <2>1, <1>8 DEF PlaceInv, Idle
  <2>6. ~booted => m = Boot
    BY <2>1, <1>8 DEF PlaceInv, Idle
  <2>7. booted => op'[Boot] = Idle /\ todo' = {}
    BY <1>2, <2>5, <1>8 DEF PlaceInv
  <2>8. ~booted => \A q \in Managers : op'[q] = Idle
    BY <1>2, <2>6, <1>8 DEF PlaceInv
  <2> QED
    BY <1>8, <2>2, <2>3, <2>4, <2>7, <2>8 DEF PlaceInv
<1>11. TypeOK'
  <2>1. lock' \in Procs \cup {NoOne}
    BY <1>1, <1>2, <1>8 DEF TypeOK, TakeGate, TakeLock
  <2>2. op' \in [Procs -> Operations]
    BY <1>1 DEF Waited
  <2> QED
    BY <1>2, <1>8, <1>9, <2>1, <2>2 DEF TypeOK, Gate, durable, process
<1>12. BootInv'
  <2>1. record' = record /\ live' = live /\ todo' = todo
    BY <1>2 DEF durable, process
  <2>2. CASE m # Boot
    <3>1. op'[Boot] = op[Boot]
      BY <1>2, <2>2
    <3> QED
      BY <2>1, <3>1 DEF BootInv
  <2>3. CASE m = Boot
    <3>1. i \notin todo /\ (Clearing(o) \/ Toward(o, {"degraded"} \cup Again))
          /\ (Clearing(o) => record[i].state = "running" /\ i \notin live)
          /\ (~Clearing(o) => record[i].state \in {"enabled", "failed"} /\ i \notin live)
      BY <1>2, <1>3, <2>3 DEF BootInv
    <3>2. Clearing(o) <=> Clearing(n)
      <4>1. o.job = "clear" => Clearing(o) /\ Clearing(n)
        BY <1>2 DEF Clearing
      <4> QED
        BY <1>2, <4>1 DEF Clearing
    <3>3. ~Clearing(n) => Toward(n, {"degraded"} \cup Again)
      BY <1>2, <3>1, <3>2 DEF Toward, Again
    <3>4. \A j \in todo' : record'[j].state = "running" /\ j \notin live'
      BY <2>1 DEF BootInv
    <3>5. op'[Boot] = n /\ op'[Boot].id = i /\ ~Resting(op'[Boot])
      BY <1>2, <1>3, <2>3 DEF n
    <3> QED
      BY <2>1, <3>1, <3>2, <3>3, <3>4, <3>5 DEF BootInv
  <2> QED
    BY <2>2, <2>3
<1> QED
  BY <1>6, <1>7, <1>9, <1>10, <1>11, <1>12 DEF Control
(* The operations at rest.                                                 *)
LEMMA IdleType ==
  /\ Idle \in Operations /\ Placed(Idle) /\ Resting(Idle) /\ ~Holds(Idle) /\ Idle = Onto(Idle, "idle")
  /\ Idle.pc = "idle" /\ Idle.kind = "none" /\ Idle.id = NoOne /\ ~Idle.was /\ ~Idle.first
  /\ Idle.job = "none" /\ Idle.err = "none"
<1>1. Idle = Onto(Idle, "idle")
  BY DEF Onto, Turned, Idle
<1>2. /\ Idle.pc = "idle" /\ Idle.kind = "none" /\ Idle.id = NoOne /\ ~Idle.was /\ ~Idle.first
      /\ Idle.job = "none" /\ Idle.err = "none"
  BY DEF Idle
<1>3. Idle \in Operations
  BY DEF Idle, Operations, Errors
<1>4. Placed(Idle)
  BY <1>1, <1>2 DEF Placed, Resting, Sections, Changes, Toward
<1> QED
  BY <1>1, <1>2, <1>3, <1>4 DEF Resting, Holds, Sections

(* The reconciliation between two extensions.                              *)
LEMMA NextType ==
  /\ Onto(Idle, "next") \in Operations /\ Placed(Onto(Idle, "next")) /\ Resting(Onto(Idle, "next"))
  /\ Onto(Idle, "next").pc = "next" /\ Onto(Idle, "next").kind = "none"
  /\ Onto(Idle, "next").id = NoOne /\ ~Onto(Idle, "next").was /\ ~Onto(Idle, "next").first
  /\ Onto(Idle, "next").job = "none"
<1>1. Boot \in Procs /\ Rested(Boot) = Onto(Idle, "next")
  BY DEF Rested
<1> QED
  BY <1>1, RestedType

(* At rest nothing has to be kept.                                         *)
LEMMA RestedIdle ==
  ASSUME NEW m \in Procs, op'[m] \in {Idle, Onto(Idle, "next")}
  PROVE  /\ WorkAt(m)' /\ op'[m].pc \in {"idle", "next"} /\ ~op'[m].was /\ ~op'[m].first
         /\ Resting(op'[m]) /\ Placed(op'[m]) /\ op'[m] \in Operations
<1>1. /\ op'[m].pc \in {"idle", "next"} /\ ~op'[m].was /\ ~op'[m].first /\ op'[m].kind = "none"
      /\ Resting(op'[m]) /\ Placed(op'[m]) /\ op'[m] \in Operations
  BY IdleType, NextType
<1>2. ~Changing(op'[m])
  BY <1>1 DEF Changing, Changes
<1>3. WorkAt(m)'
  BY <1>1, <1>2 DEF WorkAt, StoppedAt, StartedAt, ChangedAt, FilesAt
<1> QED
  BY <1>1, <1>3

(* Nobody holds anything: at the start of the process. *)
LEMMA Afresh ==
  ASSUME op = [m \in Procs |-> Idle], gate = [i \in Ids |-> FreeGate], lock = NoOne,
         call = [c \in Callers |-> NoCall], todo = {}, booted = FALSE,
         inst = [i \in Ids |-> 0], runner = {}, live = {}, lost = {}, owed = {},
         disk \in [Ids -> SUBSET Versions], record \in [Ids -> Records],
         spent \in [ops : Nat, calls : Nat, faults : Nat, crashes : Nat], RecordInv
  PROVE  Control /\ State /\ BootInv
<1>1. NoOne \notin Procs /\ Boot \in Procs /\ Boot \notin Managers
  OBVIOUS
<1>2. \A m \in Procs : op[m] = Idle
  OBVIOUS
<1>3. \A c \in Callers : call[c].pc = "idle" /\ call[c].id = NoOne
  BY DEF NoCall
<1>4. \A i \in Ids : gate[i].writer = NoOne /\ gate[i].readers = {}
  BY DEF FreeGate
<1>5. TypeOK
  <2>1. gate \in [Ids -> [writer : Procs \cup {NoOne}, readers : SUBSET Callers]]
    BY DEF FreeGate
  <2>2. call \in [Callers -> [pc : {"idle", "runs"}, id : Ids \cup {NoOne}, ver : Versions \cup {0}]]
    BY DEF NoCall
  <2>3. op \in [Procs -> Operations]
    BY IdleType
  <2> QED
    BY <2>1, <2>2, <2>3 DEF TypeOK
<1>6. PlaceInv
  BY <1>1, <1>2, <1>3, IdleType DEF PlaceInv
<1>7. LockInv
  BY <1>1, <1>2, IdleType DEF LockInv, Sections
<1>8. GateInv
  BY <1>2, <1>3, <1>4, IdleType DEF GateInv
<1>9. \A m \in Procs : WorkAt(m)
  <2>1. ASSUME NEW m \in Procs PROVE WorkAt(m)
    <3>1. op[m].pc = "idle" /\ op[m].kind = "none"
      BY <1>2, IdleType
    <3> QED
      BY <3>1 DEF WorkAt, StoppedAt, StartedAt, ChangedAt, FilesAt, Changing, Changes
  <2> QED
    BY <2>1
<1>10. \A i \in Ids : LiveAt(i)
  BY DEF LiveAt
<1>11. Resting(op[Boot])
  BY <1>1, <1>2, IdleType
<1> QED
  BY <1>5, <1>6, <1>7, <1>8, <1>9, <1>10, <1>11
     DEF Control, State, WorkInv, LiveInv, BootInv

(* The invariant holds at first.                                           *)
LEMMA InitBase ==
  ASSUME Init
  PROVE  Control /\ State /\ BootInv
<1>1. \A i \in Ids : 1 \in Versions
  <2>1. ASSUME NEW i \in Ids PROVE 1 \in Versions
    <3>1. <<i, 1>> \in Archives /\ <<i, 1>>[2] = 1
      OBVIOUS
    <3> QED
      BY <3>1 DEF Versions
  <2> QED
    BY <2>1
<1>2. disk \in [Ids -> SUBSET Versions] /\ \A i \in Ids : disk[i] = {1}
  BY <1>1 DEF Init
<1>3. record \in [Ids -> Records]
  <2>1. \A i \in Ids, s \in {"enabled", "disabled", "running"} :
          [state |-> s, active |-> 1, err |-> "none"] \in Records
    BY <1>1 DEF Records, States, Errors
  <2> QED
    BY <2>1 DEF Init
<1>4. \A i \in Ids : record[i].err = "none"
  BY DEF Init
<1>5. RecordInv
  <2>1. IsFiniteSet({1})
    BY FS_Singleton
  <2> QED
    BY <1>2, <1>4, <2>1 DEF RecordInv
<1>6. spent \in [ops : Nat, calls : Nat, faults : Nat, crashes : Nat]
  BY DEF Init
<1> QED
  BY <1>2, <1>3, <1>5, <1>6, Afresh DEF Init

-----------------------------------------------------------------------------
(* The other steps. *)

(* It holds after a death of the process.                                  *)
LEMMA CrashKeeps ==
  ASSUME Control, State, Crash
  PROVE  Control' /\ State' /\ BootInv'
<1>1. /\ op' = [m \in Procs |-> Idle] /\ gate' = [i \in Ids |-> FreeGate] /\ lock' = NoOne
      /\ call' = [c \in Callers |-> NoCall] /\ todo' = {} /\ booted' = FALSE
      /\ inst' = [i \in Ids |-> 0] /\ runner' = {} /\ live' = {} /\ lost' = {} /\ owed' = {}
  BY DEF Crash
<1>2. disk' = disk /\ record' = record
  BY DEF Crash, durable
<1>3. disk' \in [Ids -> SUBSET Versions] /\ record' \in [Ids -> Records]
  BY <1>2 DEF Control, TypeOK
<1>4. RecordInv'
  BY <1>2 DEF State, RecordInv
<1>5. spent' \in [ops : Nat, calls : Nat, faults : Nat, crashes : Nat]
  <2>1. spent \in [ops : Nat, calls : Nat, faults : Nat, crashes : Nat]
    BY DEF Control, TypeOK
  <2>2. spent' = [ops |-> spent.ops, calls |-> spent.calls, faults |-> spent.faults,
                  crashes |-> spent.crashes + 1]
    BY <2>1 DEF Crash
  <2> QED
    BY <2>1, <2>2
<1>6. \A m \in Procs : op'[m] = Idle
  BY <1>1
<1>7. NoOne \notin Procs /\ Boot \in Procs /\ Boot \notin Managers
  OBVIOUS
<1>8. \A c \in Callers : call'[c].pc = "idle" /\ call'[c].id = NoOne
  BY <1>1 DEF NoCall
<1>9. \A i \in Ids : gate'[i].writer = NoOne /\ gate'[i].readers = {}
  BY <1>1 DEF FreeGate
<1>10. TypeOK'
  <2>1. gate' \in [Ids -> [writer : Procs \cup {NoOne}, readers : SUBSET Callers]]
    BY <1>1 DEF FreeGate
  <2>2. call' \in [Callers -> [pc : {"idle", "runs"}, id : Ids \cup {NoOne}, ver : Versions \cup {0}]]
    BY <1>1 DEF NoCall
  <2>3. op' \in [Procs -> Operations]
    BY <1>1, IdleType
  <2> QED
    BY <1>1, <1>3, <1>5, <2>1, <2>2, <2>3 DEF TypeOK
<1>11. PlaceInv'
  BY <1>1, <1>6, <1>7, <1>8, IdleType DEF PlaceInv
<1>12. LockInv'
  BY <1>1, <1>6, <1>7, IdleType DEF LockInv, Sections
<1>13. GateInv'
  BY <1>6, <1>8, <1>9, IdleType DEF GateInv
<1>14. WorkInv'
  <2>1. ASSUME NEW m \in Procs PROVE WorkAt(m)'
    BY <1>6, RestedIdle
  <2> QED
    BY <2>1 DEF WorkInv
<1>15. LiveInv'
  BY <1>1 DEF LiveInv, LiveAt
<1>16. Resting(op'[Boot])
  BY <1>6, <1>7, IdleType
<1>17. BootInv'
  BY <1>1, <1>16 DEF BootInv
<1> QED
  BY <1>4, <1>10, <1>11, <1>12, <1>13, <1>14, <1>15, <1>17 DEF Control, State

(* The calls touch no operation. *)
LEMMA CallsKeep ==
  ASSUME Control, State, BootInv, NEW c \in Callers,
         CallEnds(c) \/ \E i \in Ids : CallBegins(c, i)
  PROVE  Control' /\ State' /\ BootInv'
<1>1. UNCHANGED <<durable, process, lock, op, todo, booted, lost, owed>>
  BY DEF CallEnds, CallBegins
<1>2. TypeOK /\ PlaceInv /\ LockInv /\ GateInv /\ gate \in [Ids -> Gate]
  BY DEF Control, TypeOK, Gate
<1>3. booted
  BY <1>2 DEF CallEnds, CallBegins, PlaceInv
<1>4. op[Boot] = Idle /\ op[Boot].pc = "idle" /\ Boot \in Procs
  BY <1>2, <1>3, IdleType DEF PlaceInv
<1>5. op' = op /\ booted' = booted /\ todo' = todo /\ lock' = lock /\ record' = record /\ live' = live
  BY <1>1 DEF durable, process
<1>6. WorkAt(Boot)'
  BY <1>4, <1>5, RestedIdle
<1>7. State'
  BY <1>1, <1>4, <1>5, <1>6, StillState
<1>8. BootInv'
  BY <1>5 DEF BootInv
<1>9. LockInv'
  BY <1>2, <1>5 DEF LockInv
<1>10. \A m \in Procs : Placed(op[m])'
  BY <1>2, <1>5 DEF PlaceInv
<1>11. PlaceInv'
  BY <1>2, <1>3, <1>5, <1>10 DEF PlaceInv
<1>12. ASSUME NEW i \in Ids, NEW g \in Gate, NEW k, k \in [pc : {"idle", "runs"}, id : Ids \cup {NoOne}, ver : Versions \cup {0}],
              gate' = [gate EXCEPT ![i] = g], call' = [call EXCEPT ![c] = k],
              g.writer = gate[i].writer,
              (k.pc = "runs" /\ k.id = i /\ g.readers = gate[i].readers \cup {c} /\ g.writer = NoOne
                 /\ call[c].pc = "idle")
              \/ (call[c].pc = "runs" /\ call[c].id = i /\ k.pc = "idle" /\ g.readers = gate[i].readers \ {c})
       PROVE  GateInv' /\ gate' \in [Ids -> Gate]
              /\ call' \in [Callers -> [pc : {"idle", "runs"}, id : Ids \cup {NoOne}, ver : Versions \cup {0}]]
  <2>1. gate' \in [Ids -> Gate] /\ gate'[i] = g /\ \A j \in Ids : j # i => gate'[j] = gate[j]
    BY <1>2, <1>12
  <2>2. /\ call' \in [Callers -> [pc : {"idle", "runs"}, id : Ids \cup {NoOne}, ver : Versions \cup {0}]]
        /\ call'[c] = k /\ \A d \in Callers : d # c => call'[d] = call[d]
    BY <1>2, <1>12 DEF TypeOK
  <2>3. \A m \in Procs : Holds(op[m]) => op[m].id \in Ids
    BY <1>2 DEF PlaceInv, Placed, Resting, Holds, Sections
  <2>4. \A m \in Procs : Holds(op'[m]) => gate'[op'[m].id].writer = m
    BY <1>2, <1>5, <1>12, <2>1, <2>3 DEF GateInv
  <2>5. ASSUME NEW j \in Ids, gate'[j].writer # NoOne
        PROVE  /\ Holds(op'[gate'[j].writer]) /\ op'[gate'[j].writer].id = j
               /\ gate'[j].readers = {}
    <3>1. gate'[j].writer = gate[j].writer
      BY <1>12, <2>1
    <3>2. Holds(op[gate[j].writer]) /\ op[gate[j].writer].id = j /\ gate[j].readers = {}
      BY <1>2, <2>5, <3>1 DEF GateInv
    <3>3. gate'[j].readers = {}
      BY <1>12, <2>1, <2>5, <3>1, <3>2
    <3> QED
      BY <1>5, <3>1, <3>2, <3>3
  <2>6. ASSUME NEW d \in Callers, call'[d].pc = "runs"
        PROVE  call'[d].id \in Ids /\ d \in gate'[call'[d].id].readers
    <3>1. CASE d = c
      BY <1>12, <2>1, <2>2, <2>6, <3>1
    <3>2. CASE d # c
      <4>1. call[d].id \in Ids /\ d \in gate[call[d].id].readers
        BY <1>2, <2>2, <2>6, <3>2 DEF GateInv
      <4> QED
        BY <1>12, <2>1, <2>2, <3>2, <4>1
    <3> QED
      BY <3>1, <3>2
  <2>7. ASSUME NEW j \in Ids, NEW d \in gate'[j].readers
        PROVE  call'[d].pc = "runs" /\ call'[d].id = j
    <3>1. d \in Callers
      BY <2>1 DEF Gate
    <3>2. CASE d = c
      BY <1>2, <1>12, <2>1, <2>2, <2>7, <3>2 DEF GateInv
    <3>3. CASE d # c
      BY <1>2, <1>12, <2>1, <2>2, <2>7, <3>1, <3>3 DEF GateInv
    <3> QED
      BY <3>2, <3>3
  <2> QED
    BY <2>1, <2>2, <2>4, <2>5, <2>6, <2>7 DEF GateInv
<1>13. /\ GateInv' /\ gate' \in [Ids -> Gate]
       /\ call' \in [Callers -> [pc : {"idle", "runs"}, id : Ids \cup {NoOne}, ver : Versions \cup {0}]]
  <2>1. CASE CallEnds(c)
    <3> DEFINE i == call[c].id
    <3> DEFINE g == [writer |-> gate[i].writer, readers |-> gate[i].readers \ {c}]
    <3>1. i \in Ids /\ call[c].pc = "runs"
      BY <1>2, <2>1 DEF CallEnds, GateInv
    <3>2. gate[i] \in Gate
      BY <1>2, <3>1
    <3>3. [gate[i] EXCEPT !.readers = @ \ {c}] = g /\ g \in Gate
      <4>1. gate[i].writer \in Procs \cup {NoOne} /\ gate[i].readers \ {c} \in SUBSET Callers
        BY <3>2 DEF Gate
      <4>2. g \in Gate
        BY <4>1 DEF Gate
      <4>3. [gate[i] EXCEPT !.readers = gate[i].readers \ {c}] = g
        BY <3>2 DEF Gate
      <4> QED
        BY <4>2, <4>3
    <3>4. gate' = [gate EXCEPT ![i] = g] /\ call' = [call EXCEPT ![c] = NoCall]
      BY <2>1, <3>3 DEF CallEnds
    <3>5. NoCall.pc = "idle" /\ NoCall \in [pc : {"idle", "runs"}, id : Ids \cup {NoOne}, ver : Versions \cup {0}]
      BY DEF NoCall
    <3>6. g.writer = gate[i].writer /\ g.readers = gate[i].readers \ {c}
      OBVIOUS
    <3> HIDE DEF g
    <3> QED
      BY <1>12, <3>1, <3>3, <3>4, <3>5, <3>6
  <2>2. ASSUME NEW i \in Ids, CallBegins(c, i)
        PROVE  /\ GateInv' /\ gate' \in [Ids -> Gate]
               /\ call' \in [Callers -> [pc : {"idle", "runs"}, id : Ids \cup {NoOne}, ver : Versions \cup {0}]]
    <3> DEFINE g == [writer |-> gate[i].writer, readers |-> gate[i].readers \cup {c}]
    <3> DEFINE k == [pc |-> "runs", id |-> i, ver |-> record[i].active]
    <3>1. gate[i].writer = NoOne /\ call[c].pc = "idle"
      BY <2>2 DEF CallBegins
    <3>2. gate[i] \in Gate
      BY <1>2
    <3>3. [gate[i] EXCEPT !.readers = @ \cup {c}] = g /\ g \in Gate
      <4>1. gate[i].writer \in Procs \cup {NoOne} /\ gate[i].readers \cup {c} \in SUBSET Callers
        BY <3>2 DEF Gate
      <4>2. g \in Gate
        BY <4>1 DEF Gate
      <4>3. [gate[i] EXCEPT !.readers = gate[i].readers \cup {c}] = g
        <5>1. \A h \in Gate, r \in SUBSET Callers : [h EXCEPT !.readers = r] = [writer |-> h.writer, readers |-> r]
          BY DEF Gate
        <5> QED
          BY <3>2, <4>1, <5>1
      <4> QED
        BY <4>2, <4>3
    <3>4. gate' = [gate EXCEPT ![i] = g] /\ call' = [call EXCEPT ![c] = k]
      BY <2>2, <3>3 DEF CallBegins
    <3>5. k.pc = "runs" /\ k.id = i /\ k \in [pc : {"idle", "runs"}, id : Ids \cup {NoOne}, ver : Versions \cup {0}]
      BY <1>2 DEF TypeOK, Records
    <3>6. g.writer = gate[i].writer /\ g.readers = gate[i].readers \cup {c}
      OBVIOUS
    <3> HIDE DEF g, k
    <3> QED
      BY <1>12, <3>1, <3>3, <3>4, <3>5, <3>6
  <2> QED
    BY <2>1, <2>2
<1>14. spent' \in [ops : Nat, calls : Nat, faults : Nat, crashes : Nat]
  <2>1. spent \in [ops : Nat, calls : Nat, faults : Nat, crashes : Nat]
    BY <1>2 DEF TypeOK
  <2>2. spent' = spent \/ spent' = [ops |-> spent.ops, calls |-> spent.calls + 1,
                                    faults |-> spent.faults, crashes |-> spent.crashes]
    BY <2>1 DEF CallEnds, CallBegins
  <2> QED
    BY <2>1, <2>2
<1>15. TypeOK'
  BY <1>1, <1>2, <1>13, <1>14 DEF TypeOK, Gate, durable, process
<1> QED
  BY <1>7, <1>8, <1>9, <1>11, <1>13, <1>15 DEF Control
(* A request. *)
Asked(m, kind, i, v) ==
  [pc |-> IF kind \in {"install", "quiet"} THEN "lock" ELSE "gate", kind |-> kind, id |-> i,
   ver |-> IF kind \in {"enable", "disable"} THEN 0 ELSE v, job |-> kind,
   was |-> FALSE, old |-> 0, first |-> FALSE, err |-> "none"]

(* The form of a request.                                                  *)
LEMMA OpsAre ==
  ASSUME NEW m, NEW kind, NEW i, NEW v
  PROVE  Ops(m, kind, i, v) =
           [pc |-> "gate", kind |-> kind, id |-> i,
            ver |-> IF kind \in {"enable", "disable"} THEN 0 ELSE v, job |-> kind,
            was |-> FALSE, old |-> 0, first |-> FALSE, err |-> "none"]
<1> DEFINE id == i
<1> DEFINE job == kind
<1> DEFINE ver == IF kind \in {"enable", "disable"} THEN 0 ELSE v
<1>0. PICK o \in Operations : o = Idle
  BY IdleType
<1> DEFINE a == [pc |-> "gate", kind |-> o.kind, id |-> o.id, ver |-> o.ver, job |-> o.job,
                 was |-> o.was, old |-> o.old, first |-> o.first, err |-> o.err]
<1> DEFINE b == [pc |-> "gate", kind |-> kind, id |-> o.id, ver |-> o.ver, job |-> o.job,
                 was |-> o.was, old |-> o.old, first |-> o.first, err |-> o.err]
<1> DEFINE c == [pc |-> "gate", kind |-> kind, id |-> id, ver |-> o.ver, job |-> o.job,
                 was |-> o.was, old |-> o.old, first |-> o.first, err |-> o.err]
<1> DEFINE d == [pc |-> "gate", kind |-> kind, id |-> id, ver |-> o.ver, job |-> job,
                 was |-> o.was, old |-> o.old, first |-> o.first, err |-> o.err]
<1> DEFINE e == [pc |-> "gate", kind |-> kind, id |-> id, ver |-> ver, job |-> job,
                 was |-> o.was, old |-> o.old, first |-> o.first, err |-> o.err]
<1>1. [o EXCEPT !.pc = "gate"] = a
  BY DEF Operations
<1>2. [a EXCEPT !.kind = kind] = b
  OBVIOUS
<1>3. [b EXCEPT !.id = id] = c
  OBVIOUS
<1>4. [c EXCEPT !.job = job] = d
  OBVIOUS
<1>5. [d EXCEPT !.ver = ver] = e
  OBVIOUS
<1>6. [o EXCEPT !.pc = "gate", !.kind = kind, !.id = id, !.job = job, !.ver = ver] =
        [[[[[o EXCEPT !.pc = "gate"] EXCEPT !.kind = kind] EXCEPT !.id = id] EXCEPT !.job = job]
           EXCEPT !.ver = ver]
  OBVIOUS
<1>7. o.was = FALSE /\ o.old = 0 /\ o.first = FALSE /\ o.err = "none"
  BY <1>0 DEF Idle
<1>8. Ops(m, kind, i, v) =
        [o EXCEPT !.pc = "gate", !.kind = kind, !.id = id, !.job = job, !.ver = ver]
  BY <1>0 DEF Ops
<1>9. [o EXCEPT !.pc = "gate", !.kind = kind, !.id = id, !.job = job, !.ver = ver] = e
  <2> HIDE DEF a, b, c, d, e, id, job, ver
  <2> QED
    BY <1>1, <1>2, <1>3, <1>4, <1>5, <1>6
<1>10. e = [pc |-> "gate", kind |-> kind, id |-> i, ver |-> ver, job |-> kind,
            was |-> FALSE, old |-> 0, first |-> FALSE, err |-> "none"]
  BY <1>7
<1> QED
  BY <1>8, <1>9, <1>10

(* What a request does.                                                    *)
LEMMA AskDoes ==
  ASSUME Control, NEW m \in Managers, NEW kind \in Kinds, NEW a \in Archives,
         Ask(m, kind, a[1], a[2])
  PROVE  /\ a[1] \in Ids /\ a[2] \in Versions /\ kind \in Requests /\ booted /\ m # Boot
         /\ op[m].pc = "idle"
         /\ Asked(m, kind, a[1], a[2]) \in Operations
         /\ Placed(Asked(m, kind, a[1], a[2]))
         /\ op' \in [Procs -> Operations] /\ op'[m] = Asked(m, kind, a[1], a[2])
         /\ \A q \in Procs : q # m => op'[q] = op[q]
         /\ UNCHANGED <<durable, process, lock, lost, call, todo, booted>> /\ owed' = {}
<1> DEFINE i == a[1]
<1> DEFINE v == a[2]
<1> DEFINE n == Asked(m, kind, i, v)
<1> DEFINE ver == IF kind \in {"enable", "disable"} THEN 0 ELSE v
<1> DEFINE pc == IF kind \in {"install", "quiet"} THEN "lock" ELSE "gate"
<1> DEFINE p == [pc |-> "gate", kind |-> kind, id |-> i, ver |-> ver, job |-> kind,
                 was |-> FALSE, old |-> 0, first |-> FALSE, err |-> "none"]
<1>1. i \in Ids /\ v \in Versions /\ kind \in Requests
  BY DEF Versions
<1>2. p \in Operations /\ p = Ops(m, kind, i, v)
  <2>1. kind \in Sections \cup {"none"}
    BY <1>1 DEF Requests, Sections
  <2> QED
    BY <1>1, <2>1, OpsAre DEF Operations, Errors
<1>3. [p EXCEPT !.pc = pc] = Onto(p, pc)
  BY <1>2, Ontos
<1>4. Onto(p, pc) = n
  BY DEF Onto, Turned, Asked
<1>5. n \in Operations
  BY <1>1, <1>2 DEF Asked, Operations
<1>6. Placed(n)
  <2>1. /\ n.pc \in {"gate", "lock"} /\ n.kind = kind /\ n.id = i /\ n.job = kind /\ ~n.was /\ ~n.first
        /\ (n.kind \notin {"enable", "disable"} => n.ver = v) /\ (n.pc = "gate" => n.kind # "install")
    BY DEF Asked
  <2> HIDE DEF n
  <2>2. kind \in StepsOf(kind) \cap Jobs
    BY <1>1, Steps DEF Requests, Jobs
  <2>3. kind \in Requests => ~Toward(n, {"stopped", "rollback"} \cup Again) /\ kind # "degrade"
    BY <2>1 DEF Toward, Again, Requests
  <2>4. n.kind \in {"install"} \cup Changes => n.ver \in Versions
    BY <1>1, <2>1 DEF Changes
  <2> QED
    BY <1>1, <2>1, <2>2, <2>3, <2>4 DEF Placed, Resting, Sections
<1>7. op' = [op EXCEPT ![m] = n]
  <2>1. op' = [op EXCEPT ![m] = [Ops(m, kind, i, v) EXCEPT !.pc = pc]]
    BY DEF Ask
  <2> QED
    BY <1>2, <1>3, <1>4, <2>1
<1>8. op \in [Procs -> Operations] /\ m \in Procs
  BY DEF Control, TypeOK
<1>9. op' \in [Procs -> Operations] /\ op'[m] = n /\ \A q \in Procs : q # m => op'[q] = op[q]
  <2> HIDE DEF n
  <2> QED
    BY <1>5, <1>7, <1>8, Turn
<1>10. booted /\ op[m].pc = "idle" /\ m # Boot
       /\ UNCHANGED <<durable, process, lock, lost, call, todo, booted>> /\ owed' = {}
  BY DEF Ask, Rest
<1> QED
  BY <1>1, <1>5, <1>6, <1>9, <1>10

(* It keeps the invariant.                                                 *)
LEMMA AskKeeps ==
  ASSUME Control, State, BootInv, NEW m \in Managers, NEW kind \in Kinds, NEW a \in Archives,
         Ask(m, kind, a[1], a[2])
  PROVE  Control' /\ State' /\ BootInv'
<1> DEFINE i == a[1]
<1> DEFINE n == Asked(m, kind, i, a[2])
<1>1. /\ i \in Ids /\ kind \in Requests /\ booted /\ m # Boot /\ m \in Procs /\ op[m].pc = "idle"
      /\ n \in Operations /\ Placed(n) /\ op' \in [Procs -> Operations] /\ op'[m] = n
      /\ \A q \in Procs : q # m => op'[q] = op[q]
      /\ UNCHANGED <<durable, process, lock, lost, call, todo, booted>> /\ owed' = {}
  BY AskDoes
<1>2. /\ n.pc = (IF kind \in {"install", "quiet"} THEN "lock" ELSE "gate") /\ n.kind = kind
      /\ n.id = i /\ n.job = kind /\ ~n.was
  BY DEF Asked
<1> HIDE DEF n
<1>3. TypeOK /\ PlaceInv /\ LockInv /\ GateInv /\ gate \in [Ids -> Gate]
  BY DEF Control, TypeOK, Gate
<1>4. ~Holds(op[m]) /\ op[m].pc \notin Sections
  BY <1>1 DEF Holds, Sections
<1>5. WorkAt(m)'
  <2>1. n.pc \in {"gate", "lock"} /\ kind \notin {"archive", "select", "rollback", "files", "forget"} \cup Again
    BY <1>1, <1>2 DEF Requests, Again
  <2>2. ~Changing(n)
    BY <1>2, <2>1 DEF Changing, Toward, Again
  <2> QED
    BY <1>1, <2>1, <2>2 DEF WorkAt, StoppedAt, StartedAt, ChangedAt, FilesAt
<1>6. State'
  BY <1>1, <1>5, StillState
<1>7. LockInv'
  BY <1>1, <1>2, <1>3, <1>4 DEF LockInv, Sections
<1>8. PlaceInv'
  <2>1. \A q \in Procs : Placed(op'[q])
    BY <1>1, <1>3 DEF PlaceInv
  <2>2. n.kind # "reconcile" /\ n.pc # "next"
    BY <1>1, <1>2 DEF Requests
  <2>3. \A q \in Managers : op'[q].kind # "reconcile" /\ op'[q].pc # "next"
    BY <1>1, <1>3, <2>2 DEF PlaceInv
  <2>4. op'[Boot] = op[Boot] /\ op[Boot] = Idle /\ UNCHANGED <<call, todo, booted>>
    BY <1>1, <1>3 DEF PlaceInv
  <2> QED
    BY <1>1, <1>3, <2>1, <2>3, <2>4 DEF PlaceInv
<1>9. gate' \in [Ids -> Gate] /\ GateInv'
  <2>1. CASE kind = "quiet"
    <3>1. gate' = [gate EXCEPT ![i].writer = m] /\ gate[i] = FreeGate
      BY <2>1 DEF Ask
    <3>2. Holds(n)
      BY <1>2, <2>1 DEF Holds
    <3> QED
      BY <1>1, <1>2, <1>4, <3>1, <3>2, GateTaken
  <2>2. CASE kind # "quiet"
    <3>1. gate' = gate /\ call' = call
      BY <1>1, <2>2 DEF Ask
    <3>2. ~Holds(n)
      BY <1>1, <1>2, <2>2 DEF Holds, Sections
    <3>3. \A q \in Procs : Holds(op'[q]) => op'[q] = op[q]
      BY <1>1, <3>2
    <3>4. \A q \in Procs : Holds(op[q]) => op'[q] = op[q]
      BY <1>1, <1>4
    <3>5. \A j \in Ids : gate[j].writer \in Procs \cup {NoOne}
      BY <1>3 DEF Gate
    <3> QED
      BY <1>3, <3>1, <3>3, <3>4, <3>5 DEF GateInv
  <2> QED
    BY <2>1, <2>2
<1>10. spent' \in [ops : Nat, calls : Nat, faults : Nat, crashes : Nat]
  <2>1. spent \in [ops : Nat, calls : Nat, faults : Nat, crashes : Nat]
    BY <1>3 DEF TypeOK
  <2>2. spent' = [ops |-> spent.ops + 1, calls |-> spent.calls, faults |-> spent.faults,
                  crashes |-> spent.crashes]
    BY <2>1 DEF Ask
  <2> QED
    BY <2>1, <2>2
<1>11. TypeOK'
  BY <1>1, <1>3, <1>9, <1>10 DEF TypeOK, Gate, durable, process
<1>12. BootInv'
  <2>1. op'[Boot] = op[Boot] /\ record' = record /\ live' = live /\ todo' = todo
    BY <1>1 DEF durable, process
  <2> QED
    BY <2>1 DEF BootInv
<1> QED
  BY <1>6, <1>7, <1>8, <1>9, <1>11, <1>12 DEF Control

-----------------------------------------------------------------------------
(* The reconciliation begins, and goes on to the next extension. *)

(* The reconciliation at rest.                                             *)
LEMMA BootIdle ==
  ASSUME Control, op[Boot].pc \in {"idle", "next"}
  PROVE  op[Boot] = Onto(Idle, op[Boot].pc) /\ (op[Boot].pc = "idle" => op[Boot] = Idle)
<1>1. op[Boot] = Onto(Idle, op[Boot].pc)
  BY DEF Control, PlaceInv, Placed, Resting
<1> QED
  BY <1>1, IdleType

(* Its beginning keeps the invariant.                                      *)
LEMMA BootBeginsKeeps ==
  ASSUME Control, State, BootInv, BootBegins
  PROVE  Control' /\ State' /\ BootInv'
<1>1. /\ TypeOK /\ PlaceInv /\ LockInv /\ GateInv /\ op \in [Procs -> Operations] /\ Boot \in Procs
      /\ Boot \notin Managers
  BY DEF Control, TypeOK
<1>2. /\ ~booted /\ op[Boot].pc = "idle" /\ op[Boot] = Idle /\ todo = {}
      /\ UNCHANGED <<durable, process, gate, lock, call, lost, spent>>
  BY <1>1, BootIdle DEF BootBegins, PlaceInv
<1>3. CASE ListOk
  <2>1. op' = [op EXCEPT ![Boot].pc = "next"] /\ todo' = Stale /\ booted' = booted /\ owed' \subseteq Ids
    BY <1>2, <1>3 DEF BootBegins, Go, Stale
  <2>2. [op[Boot] EXCEPT !.pc = "next"] = Onto(Idle, "next")
    BY <1>2, IdleType, Ontos
  <2>3. op' = [op EXCEPT ![Boot] = Onto(Idle, "next")]
    BY <2>1, <2>2
  <2>4. /\ op' \in [Procs -> Operations] /\ op'[Boot] = Onto(Idle, "next")
        /\ \A q \in Procs : q # Boot => op'[q] = op[q]
    BY <1>1, <2>3, NextType, Turn
  <2>5. op'[Boot].pc = "next" /\ op'[Boot].kind = "none" /\ Placed(op'[Boot]) /\ Resting(op'[Boot])
    BY <2>4, NextType
  <2>6. State'
    BY <1>1, <1>2, <2>4, StillState, RestedIdle
  <2>7. LockInv'
    BY <1>1, <1>2, <2>4, <2>5 DEF LockInv, Sections
  <2>8. ~Holds(op[Boot]) /\ ~Holds(op'[Boot])
    BY <1>2, <2>5 DEF Holds, Sections
  <2>9. GateInv'
    <3>1. \A q \in Procs : Holds(op'[q]) => op'[q] = op[q]
      BY <2>4, <2>8
    <3>2. \A q \in Procs : Holds(op[q]) => op'[q] = op[q]
      BY <2>4, <2>8
    <3>3. \A j \in Ids : gate[j].writer \in Procs \cup {NoOne}
      BY <1>1 DEF TypeOK
    <3>4. gate' = gate /\ call' = call
      BY <1>2
    <3> QED
      BY <1>1, <3>1, <3>2, <3>3, <3>4 DEF GateInv
  <2>10. PlaceInv'
    <3>1. \A q \in Procs : Placed(op'[q])
      BY <1>1, <2>4, <2>5 DEF PlaceInv
    <3>2. call' = call /\ \A q \in Managers : op'[q] = op[q]
      BY <1>1, <1>2, <2>4
    <3> QED
      BY <1>1, <1>2, <2>1, <2>5, <3>1, <3>2 DEF PlaceInv
  <2>11. todo' \subseteq Ids /\ \A j \in todo' : record'[j].state = "running" /\ j \notin live'
    BY <1>2, <2>1 DEF Stale, durable, process
  <2>12. BootInv'
    BY <2>5, <2>11 DEF BootInv
  <2>13. TypeOK'
    BY <1>1, <1>2, <2>1, <2>4, <2>11 DEF TypeOK, durable, process
  <2> QED
    BY <2>6, <2>7, <2>9, <2>10, <2>12, <2>13 DEF Control
<1>4. CASE ~ListOk
  <2>1. booted' = TRUE /\ UNCHANGED <<op, todo, owed>>
    BY <1>4 DEF BootBegins
  <2>2. WorkAt(Boot)'
    BY <1>1, <1>2, <2>1, RestedIdle
  <2>3. State'
    BY <1>1, <1>2, <2>1, <2>2, StillState
  <2>4. op' = op /\ todo' = todo /\ gate' = gate /\ lock' = lock /\ call' = call
    BY <1>2, <2>1
  <2>5. LockInv' /\ GateInv'
    BY <1>1, <2>4 DEF LockInv, GateInv
  <2>6. PlaceInv'
    <3>1. \A m \in Procs : Placed(op'[m])
      BY <1>1, <2>4 DEF PlaceInv
    <3> QED
      BY <1>1, <1>2, <2>1, <2>4, <3>1 DEF PlaceInv
  <2>7. record' = record /\ live' = live
    BY <1>2 DEF durable, process
  <2>8. BootInv'
    BY <2>4, <2>7 DEF BootInv
  <2>9. TypeOK'
    BY <1>1, <1>2, <2>1 DEF TypeOK, durable, process
  <2> QED
    BY <2>3, <2>5, <2>6, <2>8, <2>9 DEF Control
<1> QED
  BY <1>3, <1>4

Reconciles(i) ==
  [pc |-> "gate", kind |-> "reconcile", id |-> i, ver |-> 0, job |-> "clear",
   was |-> FALSE, old |-> 0, first |-> FALSE, err |-> "none"]

(* Its choice of the next extension.                                       *)
LEMMA BootNextDoes ==
  ASSUME Control, BootNext
  PROVE  /\ ~booted /\ op[Boot].pc = "next" /\ op' \in [Procs -> Operations]
         /\ \A q \in Procs : q # Boot => op'[q] = op[q]
         /\ UNCHANGED <<durable, process, gate, lock, call, lost, owed, spent>>
         /\ \/ todo = {} /\ todo' = {} /\ booted' = TRUE /\ op'[Boot] = Idle
            \/ /\ booted' = booted
               /\ \E i \in RestoreOrder :
                     /\ i \in todo /\ todo' = todo \ {i} /\ op'[Boot] = Reconciles(i)
                     /\ Reconciles(i) \in Operations /\ Placed(Reconciles(i))
<1>1. /\ op[Boot].pc = "next" /\ op \in [Procs -> Operations] /\ Boot \in Procs
      /\ UNCHANGED <<durable, process, gate, lock, call, lost, owed, spent>>
  BY DEF BootNext, Control, TypeOK
<1>2. ~booted
  BY <1>1, IdleType DEF Control, PlaceInv
<1>3. CASE todo = {} /\ booted' = TRUE /\ op' = [op EXCEPT ![Boot] = Idle] /\ UNCHANGED todo
  <2>1. op' \in [Procs -> Operations] /\ op'[Boot] = Idle /\ \A q \in Procs : q # Boot => op'[q] = op[q]
    BY <1>1, <1>3, IdleType, Turn
  <2> QED
    BY <1>1, <1>2, <1>3, <2>1
<1>4. ASSUME NEW i \in RestoreOrder, todo' = todo \ {i}, booted' = booted,
             op' = [op EXCEPT ![Boot] = [Ops(Boot, "reconcile", i, 0) EXCEPT !.job = "clear"]]
      PROVE  /\ i \in todo /\ op' \in [Procs -> Operations]
             /\ \A q \in Procs : q # Boot => op'[q] = op[q]
             /\ op'[Boot] = Reconciles(i) /\ Reconciles(i) \in Operations /\ Placed(Reconciles(i))
  <2>1. i \in todo /\ i \in Ids
    BY DEF RestoreOrder, Control, TypeOK
  <2> DEFINE p == [pc |-> "gate", kind |-> "reconcile", id |-> i, ver |-> 0, job |-> "reconcile",
                   was |-> FALSE, old |-> 0, first |-> FALSE, err |-> "none"]
  <2> DEFINE n == Reconciles(i)
  <2>2. Ops(Boot, "reconcile", i, 0) = p
    BY OpsAre
  <2>3. [p EXCEPT !.job = "clear"] = n
    <3>1. \A w \in BOOLEAN :
            [[pc |-> "gate", kind |-> "reconcile", id |-> i, ver |-> 0, job |-> "reconcile",
              was |-> w, old |-> 0, first |-> w, err |-> "none"] EXCEPT !.job = "clear"] =
            [pc |-> "gate", kind |-> "reconcile", id |-> i, ver |-> 0, job |-> "clear",
             was |-> w, old |-> 0, first |-> w, err |-> "none"]
      OBVIOUS
    <3> QED
      BY <3>1, Zenon DEF Reconciles
  <2>4. n \in Operations
    BY <2>1 DEF Reconciles, Operations, Sections, Errors
  <2>5. Placed(n)
    <3>1. /\ n.pc = "gate" /\ n.kind = "reconcile" /\ n.id = i /\ n.job = "clear" /\ ~n.was /\ ~n.first
      BY DEF Reconciles
    <3> HIDE DEF n
    <3>2. n.kind \notin {"install"} \cup Changes
      BY <3>1 DEF Changes
    <3>3. n.job \in StepsOf(n.kind) \cap Jobs
      BY <3>1, Steps DEF Jobs
    <3> QED
      BY <2>1, <3>1, <3>2, <3>3 DEF Placed, Resting, Sections
  <2>6. op' = [op EXCEPT ![Boot] = n]
    BY <1>4, <2>2, <2>3
  <2> HIDE DEF n
  <2>7. op' \in [Procs -> Operations] /\ op'[Boot] = n /\ \A q \in Procs : q # Boot => op'[q] = op[q]
    BY <1>1, <2>4, <2>6, Turn
  <2> QED
    BY <2>1, <2>4, <2>5, <2>7 DEF n
<1>5. CASE \E i \in RestoreOrder :
             /\ todo' = todo \ {i}
             /\ op' = [op EXCEPT ![Boot] = [Ops(Boot, "reconcile", i, 0) EXCEPT !.job = "clear"]]
             /\ UNCHANGED booted
  <2>1. PICK i \in RestoreOrder :
             /\ todo' = todo \ {i}
             /\ op' = [op EXCEPT ![Boot] = [Ops(Boot, "reconcile", i, 0) EXCEPT !.job = "clear"]]
             /\ UNCHANGED booted
    BY <1>5
  <2>2. /\ i \in todo /\ op' \in [Procs -> Operations] /\ \A q \in Procs : q # Boot => op'[q] = op[q]
        /\ op'[Boot] = Reconciles(i) /\ Reconciles(i) \in Operations /\ Placed(Reconciles(i))
    BY <1>4, <2>1
  <2> QED
    BY <1>1, <1>2, <2>1, <2>2
<1> QED
  BY <1>3, <1>5 DEF BootNext

(* That choice keeps the invariant.                                        *)
LEMMA BootNextKeeps ==
  ASSUME Control, State, BootInv, BootNext
  PROVE  Control' /\ State' /\ BootInv'
<1>1. /\ TypeOK /\ PlaceInv /\ LockInv /\ GateInv /\ Boot \in Procs /\ Boot \notin Managers
  BY DEF Control, TypeOK
<1> DEFINE n == op'[Boot]
<1>2. /\ ~booted /\ op[Boot].pc = "next" /\ op' \in [Procs -> Operations]
      /\ \A q \in Procs : q # Boot => op'[q] = op[q]
      /\ UNCHANGED <<durable, process, gate, lock, call, lost, owed, spent>>
  BY BootNextDoes
<1>3. \/ todo' = {} /\ booted' = TRUE /\ n = Idle
      \/ /\ booted' = booted
         /\ \E i \in todo : todo' = todo \ {i} /\ n = Reconciles(i) /\ Reconciles(i) \in Operations
                              /\ Placed(Reconciles(i))
  BY BootNextDoes
<1>4. /\ n.pc \in {"idle", "gate"} /\ n.kind \in {"none", "reconcile"} /\ Placed(n)
      /\ WorkAt(Boot)'
  <2>1. CASE n = Idle
    BY <1>1, <2>1, IdleType, RestedIdle
  <2>2. ASSUME NEW i \in todo, n = Reconciles(i), Placed(Reconciles(i))
        PROVE  n.pc = "gate" /\ n.kind = "reconcile" /\ Placed(n) /\ WorkAt(Boot)'
    <3>1. n.pc = "gate" /\ n.kind = "reconcile"
      BY <2>2 DEF Reconciles
    <3>2. ~Changing(n)
      BY <3>1 DEF Changing, Changes
    <3> QED
      BY <2>2, <3>1, <3>2 DEF WorkAt, StoppedAt, StartedAt, ChangedAt, FilesAt
  <2> QED
    BY <1>3, <2>1, <2>2
<1>5. State'
  BY <1>1, <1>2, <1>4, StillState
<1>6. ~Holds(op[Boot]) /\ ~Holds(n) /\ op[Boot].pc \notin Sections /\ n.pc \notin Sections
  BY <1>2, <1>4 DEF Holds, Sections
<1>7. LockInv'
  BY <1>1, <1>2, <1>6 DEF LockInv
<1>8. GateInv'
  <2>1. \A q \in Procs : Holds(op'[q]) => op'[q] = op[q]
    BY <1>2, <1>6
  <2>2. \A q \in Procs : Holds(op[q]) => op'[q] = op[q]
    BY <1>2, <1>6
  <2>3. \A j \in Ids : gate[j].writer \in Procs \cup {NoOne}
    BY <1>1 DEF TypeOK
  <2>4. gate' = gate /\ call' = call
    BY <1>2
  <2> QED
    BY <1>1, <2>1, <2>2, <2>3, <2>4 DEF GateInv
<1>9. todo' \subseteq todo /\ todo \subseteq Ids
  BY <1>1, <1>3 DEF TypeOK
<1>10. PlaceInv'
  <2>1. \A q \in Procs : Placed(op'[q])
    BY <1>1, <1>2, <1>4 DEF PlaceInv
  <2>2. call' = call /\ \A q \in Managers : op'[q] = op[q]
    BY <1>1, <1>2
  <2>3. n.pc = "idle" => todo' = {}
    <3>1. \A i : Reconciles(i).pc = "gate"
      BY DEF Reconciles
    <3> QED
      BY <1>3, <3>1
  <2>4. booted' => n = Idle /\ todo' = {}
    BY <1>2, <1>3
  <2> QED
    BY <1>1, <1>2, <1>4, <2>1, <2>2, <2>3, <2>4 DEF PlaceInv
<1>11. BootInv'
  <2>1. record' = record /\ live' = live
    BY <1>2 DEF durable, process
  <2>2. \A j \in todo' : record'[j].state = "running" /\ j \notin live'
    BY <1>9, <2>1 DEF BootInv
  <2>3. CASE n = Idle
    <3>1. Resting(op'[Boot])
      BY <2>3, IdleType
    <3> QED
      BY <2>2, <3>1 DEF BootInv
  <2>4. ASSUME NEW i \in todo, todo' = todo \ {i}, n = Reconciles(i)
        PROVE  BootInv'
    <3>1. n.pc = "gate" /\ n.job = "clear" /\ n.id = i
      BY <2>4 DEF Reconciles
    <3>2. Clearing(n)
      BY <3>1 DEF Clearing
    <3>3. record[i].state = "running" /\ i \notin live /\ i \notin todo'
      BY <2>4 DEF BootInv
    <3> QED
      BY <2>1, <2>2, <3>1, <3>2, <3>3 DEF BootInv
  <2> QED
    BY <1>3, <2>3, <2>4
<1>12. TypeOK'
  <2>1. booted' \in BOOLEAN /\ todo' \subseteq Ids
    BY <1>1, <1>3, <1>9 DEF TypeOK
  <2> QED
    BY <1>1, <1>2, <2>1 DEF TypeOK, durable, process
<1> QED
  BY <1>5, <1>7, <1>8, <1>10, <1>11, <1>12 DEF Control

Base == Control /\ State /\ BootInv

(* A stuttering step keeps the invariant.                                  *)
LEMMA StillKeeps ==
  ASSUME Base, UNCHANGED vars
  PROVE  Base'
<1>1. /\ UNCHANGED <<durable, process>> /\ disk' = disk /\ record' = record /\ inst' = inst
      /\ runner' = runner /\ live' = live /\ gate' = gate /\ lock' = lock /\ op' = op /\ call' = call
      /\ todo' = todo /\ booted' = booted /\ lost' = lost /\ owed' = owed /\ spent' = spent
  BY DEF vars, durable, process
<1>2. Control'
  <2>1. \A m \in Procs : Placed(op'[m])
    BY <1>1 DEF Base, Control, PlaceInv
  <2>2. PlaceInv'
    BY <1>1, <2>1 DEF Base, Control, PlaceInv
  <2>3. LockInv' /\ GateInv'
    BY <1>1 DEF Base, Control, LockInv, GateInv
  <2>4. TypeOK'
    BY <1>1 DEF Base, Control, TypeOK
  <2> QED
    BY <2>2, <2>3, <2>4 DEF Control
<1>3. WorkInv'
  <2>1. ASSUME NEW m \in Procs PROVE WorkAt(m)'
    <3> DEFINE i == op[m].id
    <3>1. StoppedAt(op[m], i) /\ StartedAt(op[m], i) /\ ChangedAt(op[m], i) /\ FilesAt(op[m], i)
      BY DEF Base, State, WorkInv, WorkAt
    <3>2. op[m].pc \in {"register", "publish"} => i \in Ids
      BY DEF Base, Control, PlaceInv, Placed, Resting
    <3>3. i \in Ids => Provided(i)' = Provided(i) /\ Readable(i)' = Readable(i)
      BY <1>1, ProvidedSame
    <3>4. op'[m] = op[m] /\ op'[m].id = i
      BY <1>1
    <3> QED
      BY <1>1, <3>1, <3>2, <3>3, <3>4
         DEF WorkAt, StoppedAt, StartedAt, ChangedAt, FilesAt, Aside, Down, Readable, Record
  <2> QED
    BY <2>1 DEF WorkInv
<1>4. RecordInv' /\ LiveInv'
  BY <1>1 DEF Base, State, RecordInv, LiveInv, LiveAt
<1>5. BootInv'
  BY <1>1 DEF Base, BootInv
<1> QED
  BY <1>2, <1>3, <1>4, <1>5 DEF Base, State

(* Every step keeps it.                                                    *)
LEMMA BaseKeeps ==
  ASSUME Base, [Next]_vars
  PROVE  Base'
<1>1. ASSUME NEW m \in Managers, NEW k \in Kinds, NEW a \in Archives, Ask(m, k, a[1], a[2])
      PROVE  Base'
  BY <1>1, AskKeeps DEF Base
<1>2. ASSUME NEW m \in Procs, Waits(m) PROVE Base'
  BY <1>2, WaitKeeps DEF Base
<1>3. ASSUME NEW m \in Procs, Works(m) PROVE Base'
  BY <1>3, WorkKeeps DEF Base
<1>4. CASE BootBegins
  BY <1>4, BootBeginsKeeps DEF Base
<1>5. CASE BootNext
  BY <1>5, BootNextKeeps DEF Base
<1>6. CASE BootClears \/ BootDegrades
  BY <1>6, BootWorks DEF Base
<1>7. ASSUME NEW c \in Callers, CallEnds(c) \/ \E i \in Ids : CallBegins(c, i) PROVE Base'
  BY <1>7, CallsKeep DEF Base
<1>8. CASE Crash
  BY <1>8, CrashKeeps DEF Base
<1>9. CASE UNCHANGED vars
  BY <1>9, StillKeeps
<1> QED
  BY <1>1, <1>2, <1>3, <1>4, <1>5, <1>6, <1>7, <1>8, <1>9 DEF Next, Boots

(* It is an invariant.                                                     *)
LEMMA Based == Spec => []Base
<1>1. Init => Base
  BY InitBase DEF Base
<1>2. Base /\ [Next]_vars => Base'
  BY BaseKeeps
<1> QED
  BY <1>1, <1>2, PTL DEF Spec

(* Every variable keeps its type, in every operation, restart and call     *)
(* (service.rs, store.rs).                                                 *)
THEOREM TypeCorrect == Spec => []TypeOK
<1>1. Base => TypeOK
  BY DEF Base, Control
<1> QED
  BY <1>1, Based, PTL

-----------------------------------------------------------------------------
(* The steps in three groups: those that change no extension, those of an    *)
(* operation in a section, the death of the process.                         *)
BootActs == BootClears \/ BootDegrades
Quiet ==
  \/ \E m \in Managers, k \in Kinds, a \in Archives : Ask(m, k, a[1], a[2])
  \/ \E m \in Procs : Waits(m)
  \/ BootBegins \/ BootNext
  \/ \E c \in Callers : CallEnds(c) \/ \E i \in Ids : CallBegins(c, i)
  \/ UNCHANGED vars

(* There is no other step.                                                 *)
LEMMA Groups ==
  ASSUME [Next]_vars
  PROVE  Quiet \/ (\E m \in Procs : Works(m)) \/ BootActs \/ Crash
BY DEF Next, Boots, Quiet, BootActs

(* The first group changes no extension.                                   *)
LEMMA QuietChanges ==
  ASSUME Quiet
  PROVE  /\ UNCHANGED <<durable, process>>
         /\ disk' = disk /\ record' = record /\ inst' = inst /\ runner' = runner /\ live' = live
         /\ lost' = lost
<1>1. UNCHANGED <<durable, process>> /\ lost' = lost
  BY DEF Quiet, Ask, Waits, TakeGate, TakeLock, BootBegins, BootNext, CallEnds, CallBegins, vars,
         durable, process
<1> QED
  BY <1>1 DEF durable, process

Acts(m, i) ==
  /\ op[m].id = i /\ i \in Ids /\ op[m].pc \in Sections /\ Working(m, i)
  /\ Works(m) \/ (m = Boot /\ BootActs)

(* A step of the second group is one of an operation on its extension.     *)
LEMMA Actors ==
  ASSUME Base, (\E m \in Procs : Works(m)) \/ BootActs
  PROVE  \E m \in Procs : \E i \in Ids : Acts(m, i)
<1>1. ASSUME NEW m \in Procs, Works(m) PROVE \E i \in Ids : Acts(m, i)
  <2>1. op[m].pc \in Sections
    BY <1>1, WorkSections
  <2>2. PICK i \in Ids : i = op[m].id
    BY <2>1, Alone DEF Base
  <2>3. Working(m, i)
    BY <1>1, <2>2, WorkMoves DEF Base
  <2> QED
    BY <1>1, <2>1, <2>2, <2>3 DEF Acts
<1>2. ASSUME BootActs PROVE \E i \in Ids : Acts(Boot, i)
  <2>1. Boot \in Procs /\ op[Boot].pc \in Sections
    BY <1>2 DEF BootActs, BootClears, BootDegrades, Sections
  <2>2. PICK i \in Ids : i = op[Boot].id
    BY <2>1, Alone DEF Base
  <2>3. Working(Boot, i)
    BY <1>2, <2>1, <2>2, BootClearsDoes, BootDegradesDoes DEF Working, Base, BootActs
  <2> QED
    BY <1>2, <2>1, <2>2, <2>3 DEF Acts
<1> QED
  BY <1>1, <1>2

(* The installation of files does without the gate. *)
LEMMA Unheld ==
  ASSUME Base, NEW m \in Procs, NEW i \in Ids, Acts(m, i), ~Holds(op[m])
  PROVE  /\ UNCHANGED <<process, lost>> /\ disk[i] \subseteq disk'[i]
         /\ record[i].state # "none" => record'[i] = record[i]
         /\ op'[m].pc \in {"record", "gate", "idle", "next"}
<1>1. op[m].pc \in {"install", "record"}
  BY DEF Acts, Holds
<1>2. Install(m) \/ InstallRecords(m)
  BY <1>1 DEF Acts, Works, Enable, StartRefused, Start, Register, Publish, RollBackVersion, Degrade,
      Disable, Unregister, Update, UpdateArchive, UpdateSelects, Uninstall, RemoveFiles, Forget,
      BootActs, BootClears, BootDegrades
<1>3. op[m].id = i /\ StateAt(m, i) /\ Control /\ State
  BY DEF Acts, Working, Base
<1>4. record[i].state # "none" => record'[i] = record[i]
  BY <1>3 DEF StateAt
<1>5. \A pc : GoesOn(m, i, pc) => op'[m].pc = pc
  BY DEF GoesOn, Onto, Turned
<1>6. Returns(m, i) => op'[m].pc \in {"idle", "next"}
  BY RestedType DEF Returns
<1>7. CASE Install(m)
  BY <1>3, <1>4, <1>5, <1>6, <1>7, InstallDoes
<1>8. CASE InstallRecords(m)
  BY <1>3, <1>4, <1>6, <1>8, InstallRecordsDoes DEF Reopens
<1> QED
  BY <1>2, <1>7, <1>8

-----------------------------------------------------------------------------
(* The calls.                                                                *)

(* At first nobody calls.                                                  *)
LEMMA ShelterStarts == Init => CallsAreSheltered
BY DEF Init, CallsAreSheltered, NoCall

(* Who works on an extension holds its gate, so that no call is under way. *)
LEMMA ShelterStays ==
  ASSUME Base, Base', CallsAreSheltered, [Next]_vars
  PROVE  CallsAreSheltered'
<1>1. SUFFICES ASSUME NEW c \in Callers, call'[c].pc = "runs"
               PROVE  /\ Up(call[c].id)' /\ (record[call[c].id].active = call[c].ver)'
                      /\ (call[c].ver \in disk[call[c].id])'
                      /\ (call[c].id \in Resident => inst[call[c].id] = call[c].ver)'
  BY DEF CallsAreSheltered
<1> DEFINE Safe(i, v) == /\ record[i].state = "running" /\ i \in live /\ record[i].active = v
                         /\ v \in disk[i] /\ (i \in Resident => inst[i] = v)
<1>2. \A i \in Ids : record[i].active \in Nat \cup {0} /\ disk[i] \subseteq Nat /\ 0 \notin disk[i]
  BY DEF Base, Control, TypeOK, Records, Versions
<1>3. ASSUME call[c].pc = "runs" PROVE call[c].id \in Ids /\ Safe(call[c].id, call[c].ver)
  BY <1>3 DEF CallsAreSheltered, Up, HasLive, Base, Control, GateInv
<1>4. ASSUME NEW i \in Ids, NEW v, call'[c].id = i, call'[c].ver = v, Safe(i, v)', v # 0
      PROVE  /\ Up(call[c].id)' /\ (record[call[c].id].active = call[c].ver)'
             /\ (call[c].ver \in disk[call[c].id])'
             /\ (call[c].id \in Resident => inst[call[c].id] = call[c].ver)'
  BY <1>4 DEF Up, HasLive
<1>5. CASE Quiet
  <2>1. disk' = disk /\ record' = record /\ inst' = inst /\ live' = live
    BY <1>5, QuietChanges
  <2>2. CASE call'[c] = call[c]
    <3> DEFINE i == call[c].id
               v == call[c].ver
    <3>1. i \in Ids /\ Safe(i, v) /\ v # 0
      BY <1>1, <1>2, <1>3, <2>2
    <3>2. Safe(i, v)' /\ call'[c].id = i /\ call'[c].ver = v
      BY <2>1, <2>2, <3>1
    <3> QED
      BY <2>1, <2>2, <1>1, <1>3, <3>1 DEF Up, HasLive
  <2>3. CASE call'[c] # call[c]
    <3>1. PICK d \in Callers : CallEnds(d) \/ \E i \in Ids : CallBegins(d, i)
      BY <1>5, <2>3 DEF Quiet, Ask, Waits, TakeGate, TakeLock, BootBegins, BootNext, Rest, vars
    <3>2. call \in [Callers -> [pc : {"idle", "runs"}, id : Ids \cup {NoOne}, ver : Versions \cup {0}]]
      BY DEF Base, Control, TypeOK
    <3>3. ~CallEnds(d)
      <4>1. NoCall.pc = "idle"
        BY DEF NoCall
      <4> QED
        BY <1>1, <2>3, <3>2, <4>1 DEF CallEnds
    <3>4. PICK i \in Ids : CallBegins(d, i)
      BY <3>1, <3>3
    <3> DEFINE v == record[i].active
    <3>5. d = c /\ call'[c] = [pc |-> "runs", id |-> i, ver |-> v]
      BY <2>3, <3>2, <3>4 DEF CallBegins
    <3>6. /\ gate[i].writer = NoOne /\ record[i].state = "running" /\ i \in live
      BY <3>4 DEF CallBegins, Up, HasLive
    <3>7. \A q \in Procs : ~(op[q].id = i /\ op[q].pc \in {"register", "publish"})
      <4>1. ASSUME NEW q \in Procs, op[q].id = i, op[q].pc \in {"register", "publish"} PROVE FALSE
        <5>1. Holds(op[q])
          BY <4>1 DEF Holds, Sections
        <5> QED
          BY <3>6, <4>1, <5>1 DEF Base, Control, GateInv
      <4> QED
        BY <4>1
    <3>8. LiveAt(i)
      BY <3>7 DEF Base, State, LiveInv
    <3>9. Safe(i, v) /\ v # 0
      BY <1>2, <3>6, <3>8 DEF LiveAt
    <3>10. Safe(i, v)' /\ call'[c].id = i /\ call'[c].ver = v
      BY <2>1, <3>5, <3>9
    <3> QED
      BY <2>1, <3>5, <3>9 DEF Up, HasLive
  <2> QED
    BY <2>2, <2>3
<1>6. ASSUME NEW m \in Procs, NEW i \in Ids, Acts(m, i)
      PROVE  /\ Up(call[c].id)' /\ (record[call[c].id].active = call[c].ver)'
             /\ (call[c].ver \in disk[call[c].id])'
             /\ (call[c].id \in Resident => inst[call[c].id] = call[c].ver)'
  <2> DEFINE j == call[c].id
             v == call[c].ver
  <2>1. call' = call /\ Frame(i) /\ Working(m, i)
    BY <1>6 DEF Acts, Working, Frame
  <2>2. j \in Ids /\ Safe(j, v) /\ v # 0 /\ call[c].pc = "runs"
    BY <1>1, <1>2, <1>3, <2>1
  <2>3. /\ record'[j] = record[j] /\ (j \in live' <=> j \in live) /\ disk[j] \subseteq disk'[j]
        /\ inst'[j] = inst[j]
    <3>1. CASE j # i
      BY <2>1, <2>2, <3>1 DEF Frame
    <3>2. CASE j = i
      <4>1. gate[i].readers # {}
        BY <2>2, <3>2 DEF Base, Control, GateInv
      <4>2. ~Holds(op[m])
        <5>1. Holds(op[m]) => gate[i].writer = m
          BY <1>6 DEF Acts, Base, Control, GateInv
        <5>2. m # NoOne
          OBVIOUS
        <5> QED
          BY <4>1, <5>1, <5>2 DEF Base, Control, GateInv
      <4> QED
        BY <1>6, <2>2, <3>2, <4>2, Unheld DEF process
    <3> QED
      BY <3>1, <3>2
  <2> QED
    BY <2>1, <2>2, <2>3 DEF Up, HasLive
<1>7. CASE Crash
  BY <1>1, <1>7 DEF Crash, NoCall
<1> QED
  BY <1>5, <1>6, <1>7, Groups, Actors

(* A call runs against one running version to its end: who manages an      *)
(* extension holds its gate (call_gate, service.rs:1049).                  *)
THEOREM Sheltered == Spec => []CallsAreSheltered
<1>1. Base /\ Base' /\ CallsAreSheltered /\ [Next]_vars => CallsAreSheltered'
  BY ShelterStays
<1> QED
  BY <1>1, ShelterStarts, Based, PTL DEF Spec

-----------------------------------------------------------------------------
(* What is disabled.                                                         *)

(* A step that makes a disabled extension something else forgets or enables it. *)
LEMMA ActsOn ==
  ASSUME Base, NEW m \in Procs, NEW i \in Ids, Acts(m, i), record[i].state = "disabled",
         record'[i].state # "disabled"
  PROVE  record'[i].state = "none" \/ (m \in Managers /\ op[m].pc = "enable")
<1>1. /\ op[m].id = i /\ Control /\ State /\ BootInv /\ Placed(op[m]) /\ op[m] \in Operations
      /\ WorkAt(m) /\ op[m].pc \in Sections /\ record[i].err \in {"none", "unregister"}
  BY DEF Acts, Base, Control, PlaceInv, State, WorkInv, TypeOK, RecordInv
<1>2. op[m].pc \in {"rollback", "select"} /\ op[m].was => record[i].state \in {"enabled", "failed"}
  <2>1. op[m].was => Changing(op[m]) \/ op[m].pc = "stopped"
    BY <1>1 DEF Placed
  <2> QED
    BY <1>1, <2>1 DEF WorkAt, ChangedAt
<1>3. op[m].pc = "rollback" => op[m].was
  BY <1>1, KindsAt DEF Placed, Toward, Changes
<1>4. Record(i) = record[i]
  BY DEF Record
<1>5. CASE m = Boot /\ BootActs
  BY <1>1, <1>5, BootClearsDoes, BootDegradesDoes DEF BootActs
<1>6. CASE Install(m)
  BY <1>1, <1>6 DEF Install
<1>7. CASE InstallRecords(m)
  BY <1>1, <1>7, InstallRecordsDoes
<1>8. CASE Enable(m)
  <2>1. op[m].pc = "enable"
    BY <1>8 DEF Enable
  <2>2. op[m].kind \in {"install", "enable"}
    BY <1>1, <2>1, KindsAt
  <2>3. m # Boot
    BY <1>1, <2>2 DEF Control, PlaceInv
  <2> QED
    BY <2>1, <2>3
<1>9. CASE StartRefused(m)
  BY <1>1, <1>9, StartRefusedDoes
<1>10. CASE Start(m)
  BY <1>1, <1>10, StartDoes
<1>11. CASE Register(m)
  BY <1>1, <1>11, RegisterDoes
<1>12. CASE Publish(m)
  BY <1>1, <1>12, PublishDoes
<1>13. CASE RollBackVersion(m)
  BY <1>1, <1>2, <1>3, <1>13 DEF RollBackVersion
<1>14. CASE Degrade(m)
  BY <1>1, <1>4, <1>14, DegradeDoes
<1>15. CASE Disable(m)
  BY <1>1, <1>15, DisableDoes DEF durable
<1>16. CASE Unregister(m)
  <2>1. PICK s \in {"disabled", "enabled"}, e \in {"none", "unregister"} :
          /\ Puts(i, s, Record(i).active, e)
          /\ op[m].kind # "disable" => record[i].state = "running" /\ s = "enabled"
          /\ op[m].kind = "disable" => s = "disabled"
    BY <1>1, <1>16, UnregisterDoes
  <2> QED
    BY <2>1 DEF Puts
<1>17. CASE Update(m)
  BY <1>1, <1>17, UpdateDoes DEF durable
<1>18. CASE UpdateArchive(m)
  BY <1>1, <1>18, UpdateArchiveDoes
<1>19. CASE UpdateSelects(m)
  <2>1. PICK s \in {"enabled", "disabled", "installed"} :
          /\ Puts(i, s, op[m].ver, "none")
          /\ record[i].state = "disabled" => op[m].was \/ s = "disabled"
    BY <1>1, <1>19, UpdateSelectsDoes
  <2>2. ~op[m].was
    BY <1>2, <1>19 DEF UpdateSelects
  <2> QED
    BY <2>1, <2>2 DEF Puts
<1>20. CASE Uninstall(m)
  BY <1>1, <1>20, UninstallDoes DEF durable
<1>21. CASE RemoveFiles(m)
  BY <1>1, <1>21, RemoveFilesDoes
<1>22. CASE Forget(m)
  BY <1>1, <1>22, ForgetDoes DEF Puts
<1> QED
  BY <1>5, <1>6, <1>7, <1>8, <1>9, <1>10, <1>11, <1>12, <1>13, <1>14, <1>15, <1>16, <1>17, <1>18,
     <1>19, <1>20, <1>21, <1>22 DEF Acts, Works

(* So does every step.                                                     *)
LEMMA DisabledStep ==
  ASSUME Base, [Next]_vars, NEW i \in Ids, record[i].state = "disabled",
         record'[i].state # "disabled"
  PROVE  record'[i].state = "none" \/ \E m \in Managers : op[m].id = i /\ At(m, "enable")
<1>1. CASE Quiet
  BY <1>1, QuietChanges
<1>2. CASE Crash
  BY <1>2 DEF Crash, durable
<1>3. ASSUME NEW m \in Procs, NEW j \in Ids, Acts(m, j)
      PROVE  record'[i].state = "none" \/ \E q \in Managers : op[q].id = i /\ At(q, "enable")
  <2>1. j = i
    BY <1>3 DEF Acts, Working, Frame
  <2>2. op[m].id = i
    BY <1>3, <2>1 DEF Acts
  <2> QED
    BY <1>3, <2>1, <2>2, ActsOn
<1> QED
  BY <1>1, <1>2, <1>3, Groups, Actors

(* A disabled extension stays disabled until someone enables or removes it *)
(* (enable_and_start, degrade_start_failure, reconcile_startup).           *)
THEOREM StaysDisabled == Spec => DisabledStays
<1>1. Base /\ [Next]_vars =>
        [\A i \in Ids : record[i].state = "disabled" /\ record'[i].state # "disabled" =>
           \/ record'[i].state = "none"
           \/ \E m \in Managers : op[m].id = i /\ At(m, "enable")]_vars
  BY DisabledStep
<1> QED
  BY <1>1, Based, PTL DEF Spec, DisabledStays

-----------------------------------------------------------------------------
(* The records tell what is running.                                         *)

(* Who takes no step of its own stays at the files or at the record.       *)
LEMMA QuietOps ==
  ASSUME Base, Quiet, NEW q \in Procs
  PROVE  op'[q] = op[q] \/ (op[q].pc \notin Sections /\ op'[q].pc # "record")
<1>1. ASSUME NEW m \in Managers, NEW k \in Kinds, NEW a \in Archives, Ask(m, k, a[1], a[2])
      PROVE  op'[q] = op[q] \/ (op[q].pc \notin Sections /\ op'[q].pc # "record")
  <2>1. op[m].pc = "idle" /\ op'[m] = Asked(m, k, a[1], a[2]) /\ \A p \in Procs : p # m => op'[p] = op[p]
    BY <1>1, AskDoes DEF Base
  <2>2. op'[m].pc \in {"gate", "lock"}
    BY <2>1 DEF Asked
  <2> QED
    BY <2>1, <2>2 DEF Sections
<1>2. ASSUME NEW m \in Procs, Waits(m)
      PROVE  op'[q] = op[q] \/ (op[q].pc \notin Sections /\ op'[q].pc # "record")
  <2>1. /\ Waited(m, op[m].id) /\ (op[m].pc = "lock" => op[m].job # "record")
    BY <1>2, WaitsMove DEF Base
  <2> QED
    BY <2>1 DEF Waited, Sections
<1>3. CASE BootBegins
  <2>1. op[Boot].pc = "idle" /\ op \in [Procs -> Operations]
    BY <1>3 DEF BootBegins, Base, Control, TypeOK
  <2>2. op' = op \/ op' = [op EXCEPT ![Boot].pc = "next"]
    BY <1>3 DEF BootBegins, Go
  <2>3. [op[Boot] EXCEPT !.pc = "next"].pc = "next"
    BY <2>1 DEF Operations
  <2> QED
    BY <2>1, <2>2, <2>3 DEF Sections
<1>4. CASE BootNext
  <2>1. op[Boot].pc = "next" /\ \A p \in Procs : p # Boot => op'[p] = op[p]
    BY <1>4, BootNextDoes DEF Base
  <2>2. op'[Boot] = Idle \/ \E i \in RestoreOrder : op'[Boot] = Reconciles(i)
    BY <1>4, BootNextDoes DEF Base
  <2>3. op'[Boot].pc # "record"
    <3>1. \A i : Reconciles(i).pc = "gate"
      BY DEF Reconciles
    <3> QED
      BY <2>2, <3>1, IdleType
  <2> QED
    BY <2>1, <2>3 DEF Sections
<1>5. CASE UNCHANGED vars \/ \E c \in Callers : CallEnds(c) \/ \E i \in Ids : CallBegins(c, i)
  BY <1>5 DEF vars, CallEnds, CallBegins
<1> QED
  BY <1>1, <1>2, <1>3, <1>4, <1>5 DEF Quiet

(* What is listed stays listed where nothing changed, ...                  *)
LEMMA ListedSame ==
  ASSUME NEW i \in Ids, disk'[i] = disk[i], record'[i] = record[i], Listed(i)
  PROVE  Listed(i)'
BY DEF Listed, Readable, Record

(* ... where the record was written with an installed version, ...         *)
LEMMA ListedPut ==
  ASSUME NEW i \in Ids, disk'[i] = disk[i], NEW s, NEW a, NEW e, Puts(i, s, a, e), s # "none",
         a \in disk[i]
  PROVE  Listed(i)'
BY DEF Puts, Listed, Readable, Record

(* ... and where versions were added.                                      *)
LEMMA ListedGrows ==
  ASSUME Base', NEW i \in Ids, disk[i] \subseteq disk'[i], disk'[i] # {}, record'[i] = record[i],
         Listed(i)
  PROVE  Listed(i)'
<1>1. CASE record[i].state # "none"
  BY <1>1 DEF Listed, Readable, Record
<1>2. CASE record[i].state = "none"
  <2>1. disk'[i] \in SUBSET Nat /\ IsFiniteSet(disk'[i])
    BY DEF Base, Control, TypeOK, State, RecordInv, Versions
  <2>2. Highest(disk'[i]) \in disk'[i]
    BY <2>1, HighestIn
  <2>3. Record(i)'.active = Highest(disk'[i])
    BY <1>2 DEF Record, Installed, Highest
  <2> QED
    BY <2>2, <2>3 DEF Listed, Readable
<1> QED
  BY <1>1, <1>2

(* Nobody else is between the files and the record.                        *)
LEMMA ListNow ==
  ASSUME Base, ListInv, NEW m \in Procs, NEW i \in Ids, Acts(m, i), op[m].pc # "forget", NEW j \in Ids
  PROVE  Listed(j)
<1>1. \A q \in Procs : q # m => op[q].pc \notin Sections
  BY Alone DEF Base, Acts
<1>2. \A q \in Managers : op[q].pc # "forget"
  BY <1>1 DEF Sections
<1> QED
  BY <1>2 DEF ListInv

(* A step leaves its extension listed, or is the removal of its files.     *)
LEMMA ActsListed ==
  ASSUME Base, Base', ListInv, ArchivedInv, NEW m \in Procs, NEW i \in Ids, Acts(m, i)
  PROVE  /\ Listed(i)' \/ (m \in Managers /\ op'[m].pc = "forget" /\ op'[m].id = i)
         /\ op'[m].pc = "record" => op'[m].ver \in disk'[i]
<1>1. /\ op[m].id = i /\ Control /\ State /\ BootInv /\ WorkAt(m) /\ Placed(op[m])
      /\ Boot \in Procs /\ op[m].pc \in Sections /\ op[m] \in Operations
  BY DEF Acts, Base, State, WorkInv, Control, PlaceInv, TypeOK
<1>2. op[m].pc # "forget" => Listed(i)
  BY ListNow
<1>3. Listed(i) /\ record[i].state # "none" => record[i].active \in disk[i]
  BY DEF Listed, Readable, Record
<1>4. ASSUME Listed(i) \/ op[m].pc = "forget", disk' = disk, NEW s, NEW e, Puts(i, s, record[i].active, e),
             record[i].state # "none", s # "none", op[m].pc # "forget"
      PROVE  Listed(i)'
  BY <1>2, <1>3, <1>4, ListedPut
<1>5. ASSUME ~Install(m), op'[m].pc = "record" PROVE FALSE
  <2>1. Continues(m, i) /\ ~Holds(op'[m])
    BY <1>5, RestedType DEF Acts, Working, Moves, Pauses, Reopens, Returns, Holds
  <2>2. ~Holds(op[m])
    BY <2>1 DEF Continues
  <2>3. op[m].pc \in {"install", "record"}
    BY <1>1, <2>2 DEF Holds
  <2>4. InstallRecords(m)
    BY <1>5, <2>3 DEF Acts, Works, Enable, StartRefused, Start, Register, Publish, RollBackVersion, Degrade,
      Disable, Unregister, Update, UpdateArchive, UpdateSelects, Uninstall, RemoveFiles, Forget,
      BootActs, BootClears, BootDegrades
  <2>5. Returns(m, i) \/ Reopens(m, i)
    BY <1>1, <2>4, InstallRecordsDoes
  <2> QED
    BY <1>5, <2>5, RestedType DEF Returns, Reopens
<1>6. CASE m = Boot /\ BootActs
  <2>1. disk' = disk /\ op[Boot].pc # "forget" /\ record[i].state # "none"
        /\ \E e : Puts(i, "enabled", record[i].active, e)
    BY <1>1, <1>6, BootClearsDoes, BootDegradesDoes DEF BootActs, BootClears, BootDegrades
  <2>2. ~Install(m)
    BY <1>6 DEF BootActs, BootClears, BootDegrades, Install
  <2> QED
    BY <1>2, <1>4, <1>5, <1>6, <2>1, <2>2
<1>7. CASE Install(m)
  <2>1. op[m].pc # "forget"
    BY <1>7 DEF Install
  <2>2. \/ /\ op[m].ver \in Versions \ disk[i] /\ disk'[i] = disk[i] \cup {op[m].ver}
           /\ GoesOn(m, i, "record")
        \/ disk' = disk /\ Returns(m, i)
    BY <1>1, <1>7, InstallDoes
  <2>3. record' = record
    BY <1>1, <1>7, InstallDoes
  <2>4. GoesOn(m, i, "record") => op'[m].ver = op[m].ver
    BY DEF GoesOn, Continues, Same
  <2>5. Returns(m, i) => op'[m].pc # "record"
    BY RestedType DEF Returns
  <2> QED
    BY <1>2, <2>1, <2>2, <2>3, <2>4, <2>5, ListedSame, ListedGrows
<1>8. CASE InstallRecords(m)
  <2>1. op[m].pc = "record" /\ op[m].ver \in disk[i] /\ ~Install(m)
    BY <1>1, <1>8 DEF InstallRecords, ArchivedInv, Install
  <2>2. disk' = disk /\ (record' = record \/ Puts(i, "installed", op[m].ver, "none"))
    BY <1>1, <1>8, InstallRecordsDoes
  <2> QED
    BY <1>2, <1>5, <2>1, <2>2, ListedSame, ListedPut
<1>9. CASE Enable(m)
  <2>1. op[m].pc = "enable" /\ ~Install(m)
    BY <1>9 DEF Enable, Install
  <2>2. disk' = disk /\ (record' = record \/ (Readable(i) /\ \E e \in Errors : Puts(i, "enabled", Record(i).active, e)))
    BY <1>1, <1>9, EnableDoes
  <2> QED
    BY <1>2, <1>5, <2>1, <2>2, ListedSame, ListedPut DEF Readable
<1>10. CASE StartRefused(m)
  <2>1. op[m].pc = "start" /\ ~Install(m)
    BY <1>10 DEF StartRefused, Install
  <2>2. disk' = disk /\ (record' = record \/ (record[i].state = "enabled"
                          /\ Puts(i, "enabled", record[i].active, "dependency")))
    BY <1>1, <1>10, StartRefusedDoes
  <2> QED
    BY <1>2, <1>4, <1>5, <2>1, <2>2, ListedSame
<1>11. CASE Start(m)
  <2>1. op[m].pc = "start" /\ ~Install(m)
    BY <1>11 DEF Start, Install
  <2>2. disk' = disk /\ record[i].state = "enabled"
        /\ (record' = record \/ \E s \in {"enabled", "failed"} : Puts(i, s, record[i].active, "runtime"))
    BY <1>1, <1>11, StartDoes
  <2> QED
    BY <1>2, <1>4, <1>5, <2>1, <2>2, ListedSame
<1>12. CASE Register(m)
  <2>1. op[m].pc = "register" /\ ~Install(m)
    BY <1>12 DEF Register, Install
  <2>2. disk' = disk /\ record[i].state = "enabled"
        /\ (record' = record \/ Puts(i, "failed", record[i].active, "runner"))
    BY <1>1, <1>12, RegisterDoes
  <2> QED
    BY <1>2, <1>4, <1>5, <2>1, <2>2, ListedSame
<1>13. CASE Publish(m)
  <2>1. op[m].pc = "publish" /\ ~Install(m)
    BY <1>13 DEF Publish, Install
  <2>2. disk' = disk /\ record[i].state = "enabled"
        /\ record'[i].state \in {"running", "enabled"} /\ record'[i].active = record[i].active
    BY <1>1, <1>13, PublishDoes DEF Puts
  <2>3. Puts(i, record'[i].state, record[i].active, record'[i].err)
    BY <2>2 DEF Puts
  <2> QED
    BY <1>2, <1>4, <1>5, <2>1, <2>2, <2>3
<1>14. CASE RollBackVersion(m)
  <2>1. op[m].pc = "rollback" /\ ~Install(m)
    BY <1>14 DEF RollBackVersion, Install
  <2>2. disk' = disk /\ (record' = record \/ (op[m].old \in disk[i] /\ Puts(i, "enabled", op[m].old, "rolled back")))
    BY <1>1, <1>14, RollBackVersionDoes
  <2> QED
    BY <1>2, <1>5, <2>1, <2>2, ListedSame, ListedPut
<1>15. CASE Degrade(m)
  <2>1. op[m].pc = "degrade" /\ ~Install(m)
    BY <1>15 DEF Degrade, Install
  <2>2. disk' = disk /\ (record' = record \/ (record[i].state # "none"
                            /\ Puts(i, "enabled", record[i].active, op[m].err)))
    BY <1>1, <1>15, DegradeDoes
  <2> QED
    BY <1>2, <1>4, <1>5, <2>1, <2>2, ListedSame
<1>16. CASE Disable(m) \/ Update(m) \/ Uninstall(m)
  <2>1. op[m].pc # "forget" /\ ~Install(m)
    BY <1>16 DEF Disable, Update, Uninstall, Install
  <2>2. disk' = disk /\ record' = record
    BY <1>16 DEF Disable, Update, Uninstall, durable
  <2> QED
    BY <1>2, <1>5, <2>1, <2>2, ListedSame
<1>17. CASE Unregister(m)
  <2>1. op[m].pc = "stopped" /\ ~Install(m) /\ Readable(i)
    BY <1>1, <1>17 DEF Unregister, Install, WorkAt, StoppedAt
  <2>2. disk' = disk /\ \E s \in {"disabled", "enabled"}, e \in {"none", "unregister"} :
                           Puts(i, s, Record(i).active, e)
    BY <1>1, <1>17, UnregisterDoes
  <2> QED
    BY <1>5, <2>1, <2>2, ListedPut DEF Readable
<1>18. CASE UpdateArchive(m)
  <2>1. op[m].pc = "archive" /\ ~Install(m)
    BY <1>18 DEF UpdateArchive, Install
  <2>2. record' = record /\ (disk'[i] = disk[i] \cup {op[m].ver} \/ disk' = disk)
    BY <1>1, <1>18, UpdateArchiveDoes
  <2> QED
    BY <1>2, <1>5, <2>1, <2>2, ListedSame, ListedGrows
<1>19. CASE UpdateSelects(m)
  <2>1. ~Install(m)
    BY <1>19 DEF UpdateSelects, Install
  <2>2. disk' = disk /\ op[m].ver \in disk[i] /\ \E s \in {"enabled", "disabled", "installed"} :
                                                    Puts(i, s, op[m].ver, "none")
    BY <1>1, <1>19, UpdateSelectsDoes
  <2> QED
    BY <1>5, <2>1, <2>2, ListedPut
<1>20. CASE RemoveFiles(m)
  <2>1. op[m].pc = "files" /\ ~Install(m)
    BY <1>20 DEF RemoveFiles, Install
  <2>2. record' = record /\ (GoesOn(m, i, "forget") \/ disk' = disk) /\ op[m].kind \in {"uninstall", "remove"}
    BY <1>1, <1>20, RemoveFilesDoes
  <2>3. GoesOn(m, i, "forget") => op'[m].pc = "forget" /\ op'[m].id = i
    BY <1>1 DEF GoesOn, Onto, Turned
  <2>4. m \in Managers
    BY <1>1, <2>2 DEF Control, PlaceInv
  <2> QED
    BY <1>2, <1>5, <2>1, <2>2, <2>3, <2>4, ListedSame
<1>21. CASE Forget(m)
  <2>1. op[m].pc = "forget" /\ ~Install(m)
    BY <1>21 DEF Forget, Install
  <2>2. disk' = disk
    BY <1>1, <1>21, ForgetDoes
  <2>3. disk[i] # {} => Highest(disk[i]) \in disk[i]
    <3>1. disk[i] \in SUBSET Nat /\ IsFiniteSet(disk[i])
      BY DEF Base, Control, TypeOK, State, RecordInv, Versions
    <3> QED
      BY <3>1, HighestIn
  <2>4. record[i].state # "none" /\ op[m].ver # record[i].active /\ disk[i] # {} => record[i].active \in disk[i]
    BY <1>1, <2>1 DEF WorkAt, FilesAt
  <2>5. \/ disk[i] = {} /\ Puts(i, "none", 0, "none")
        \/ disk[i] # {} /\ \E s, a, e : Puts(i, s, a, e) /\ s # "none" /\ a \in disk[i]
    BY <1>1, <1>21, <2>3, <2>4, ForgetDoes
  <2>6. disk[i] = {} /\ Puts(i, "none", 0, "none") => Listed(i)'
    BY <2>2 DEF Listed, Puts
  <2> QED
    BY <1>5, <2>1, <2>2, <2>5, <2>6, ListedPut
<1> QED
  BY <1>6, <1>7, <1>8, <1>9, <1>10, <1>11, <1>12, <1>13, <1>14, <1>15, <1>16, <1>17, <1>18,
     <1>19, <1>20, <1>21 DEF Acts, Works

(* A stale record is being cleared, or was stopped a moment ago.           *)
LEMMA StaleBefore ==
  ASSUME Base, StaleInv, NEW m \in Procs, NEW i \in Ids, Acts(m, i), record[i].state = "running",
         i \notin live
  PROVE  op[m].pc = "stopped" \/ (m = Boot /\ op[m].pc = "clear")
<1>1. op[m].id = i /\ op[m].pc \in Sections /\ \A q \in Procs : q # m => op[q].pc \notin Sections
  BY Alone DEF Base, Acts
<1>2. CASE \E q \in Procs : op[q].pc = "stopped" /\ op[q].id = i
  BY <1>1, <1>2 DEF Sections
<1>3. CASE /\ ~booted
           /\ op[Boot].pc = "idle" \/ i \in todo \/ (Clearing(op[Boot]) /\ op[Boot].id = i)
  <2>1. m = Boot
    BY <1>1, <1>3, IdleType DEF Base, Control, PlaceInv, Sections
  <2>2. ~Resting(op[Boot]) /\ op[Boot].pc # "idle"
    BY <1>1, <2>1 DEF Resting, Sections
  <2>3. i \notin todo
    BY <1>1, <2>1, <2>2 DEF Base, BootInv
  <2> QED
    BY <1>1, <1>3, <2>1, <2>2, <2>3 DEF Clearing, Sections
<1> QED
  BY <1>2, <1>3 DEF StaleInv

(* A step leaves a stale record only by stopping the extension.            *)
LEMMA ActsStale ==
  ASSUME Base, StaleInv, NEW m \in Procs, NEW i \in Ids, Acts(m, i), record'[i].state = "running",
         i \notin live'
  PROVE  op'[m].pc = "stopped"
<1>1. /\ op[m].id = i /\ Control /\ State /\ BootInv /\ op[m].pc \in Sections
  BY DEF Acts, Base
<1>2. ASSUME record'[i] = record[i], i \in live' <=> i \in live,
             op[m].pc # "stopped", op[m].pc # "clear"
      PROVE  FALSE
  BY <1>2, StaleBefore
<1>3. CASE m = Boot /\ BootActs
  BY <1>1, <1>3, BootClearsDoes, BootDegradesDoes DEF BootActs, Puts
<1>4. CASE Install(m) \/ InstallRecords(m)
  <2>1. op[m].pc \in {"install", "record"}
    BY <1>4 DEF Install, InstallRecords
  <2>2. ~Holds(op[m])
    BY <2>1 DEF Holds
  <2>3. i \in live' <=> i \in live
    BY <2>2, Unheld DEF process
  <2>4. record[i].state = "none" => record'[i].state \in {"none", "installed"}
    BY <2>2 DEF Acts, Working, StateAt
  <2>5. record[i].state # "none" => record'[i] = record[i]
    BY <2>2, Unheld
  <2> QED
    BY <1>2, <2>1, <2>3, <2>4, <2>5
<1>5. CASE Enable(m)
  <2>1. op[m].pc = "enable"
    BY <1>5 DEF Enable
  <2>2. live' = live /\ (record' = record \/ \E e \in Errors : Puts(i, "enabled", Record(i).active, e))
    BY <1>1, <1>5, EnableDoes DEF process
  <2> QED
    BY <1>2, <2>1, <2>2 DEF Puts
<1>6. CASE StartRefused(m)
  <2>1. op[m].pc = "start"
    BY <1>6 DEF StartRefused
  <2>2. live' = live /\ (record' = record \/ Puts(i, "enabled", record[i].active, "dependency"))
    BY <1>1, <1>6, StartRefusedDoes DEF process
  <2> QED
    BY <1>2, <2>1, <2>2 DEF Puts
<1>7. CASE Start(m)
  <2>1. record[i].state = "enabled"
        /\ (record' = record \/ \E s \in {"enabled", "failed"} : Puts(i, s, record[i].active, "runtime"))
    BY <1>1, <1>7, StartDoes
  <2> QED
    BY <2>1 DEF Puts
<1>8. CASE Register(m)
  <2>1. record[i].state = "enabled" /\ (record' = record \/ Puts(i, "failed", record[i].active, "runner"))
    BY <1>1, <1>8, RegisterDoes
  <2> QED
    BY <2>1 DEF Puts
<1>9. CASE Publish(m)
  <2>1. (live' = live /\ i \in live) \/ record'[i].state = "enabled"
    BY <1>1, <1>9, PublishDoes DEF process
  <2> QED
    BY <2>1
<1>10. CASE RollBackVersion(m)
  <2>1. op[m].pc = "rollback"
    BY <1>10 DEF RollBackVersion
  <2>2. live' = live /\ (record' = record \/ Puts(i, "enabled", op[m].old, "rolled back"))
    BY <1>1, <1>10, RollBackVersionDoes DEF process
  <2> QED
    BY <1>2, <2>1, <2>2 DEF Puts
<1>11. CASE Degrade(m)
  <2>1. op[m].pc = "degrade"
    BY <1>11 DEF Degrade
  <2>2. live' = live /\ (record' = record \/ Puts(i, "enabled", record[i].active, op[m].err))
    BY <1>1, <1>11, DegradeDoes DEF process
  <2> QED
    BY <1>2, <2>1, <2>2 DEF Puts
<1>12. CASE Disable(m)
  <2>1. op[m].pc = "disable" /\ record' = record
    BY <1>12 DEF Disable, durable
  <2>2. live' = live \/ GoesOn(m, i, "stopped")
    BY <1>1, <1>12, DisableDoes
  <2>3. GoesOn(m, i, "stopped") => op'[m].pc = "stopped"
    BY DEF GoesOn, Onto, Turned
  <2> QED
    BY <1>2, <2>1, <2>2, <2>3
<1>13. CASE Unregister(m)
  <2>1. \E s \in {"disabled", "enabled"}, e \in {"none", "unregister"} : Puts(i, s, Record(i).active, e)
    BY <1>1, <1>13, UnregisterDoes
  <2> QED
    BY <2>1 DEF Puts
<1>14. CASE Update(m)
  <2>1. record' = record /\ op[m].pc \notin {"stopped", "clear"}
    BY <1>14 DEF Update, durable
  <2>2. \/ live' = live
        \/ op'[m].was = (Record(i).state = "running") /\ op'[m].pc = IF op'[m].was THEN "stopped" ELSE "archive"
    BY <1>1, <1>14, UpdateDoes
  <2>3. Record(i).state = "running"
    BY <2>1 DEF Record
  <2> QED
    BY <1>2, <2>1, <2>2, <2>3
<1>15. CASE UpdateArchive(m)
  <2>1. op[m].pc = "archive" /\ record' = record /\ live' = live
    BY <1>1, <1>15, UpdateArchiveDoes DEF UpdateArchive, process
  <2> QED
    BY <1>2, <2>1
<1>16. CASE UpdateSelects(m)
  <2>1. \E s \in {"enabled", "disabled", "installed"} : Puts(i, s, op[m].ver, "none")
    BY <1>1, <1>16, UpdateSelectsDoes
  <2> QED
    BY <2>1 DEF Puts
<1>17. CASE Uninstall(m)
  <2>1. record' = record /\ op[m].pc \notin {"stopped", "clear"}
    BY <1>17 DEF Uninstall, durable
  <2>2. live' = live \/ op'[m].pc = "stopped"
    BY <1>1, <1>17, UninstallDoes
  <2> QED
    BY <1>2, <2>1, <2>2
<1>18. CASE RemoveFiles(m)
  <2>1. op[m].pc = "files" /\ record' = record /\ live' = live
    BY <1>1, <1>18, RemoveFilesDoes DEF RemoveFiles, process
  <2> QED
    BY <1>2, <2>1
<1>19. CASE Forget(m)
  <2>1. op[m].pc = "forget" /\ live' = live
    BY <1>1, <1>19, ForgetDoes DEF Forget, process
  <2>2. record[i].state = "running"
    BY <1>1, <1>19, ForgetDoes DEF Puts
  <2> QED
    BY <2>1, <2>2, StaleBefore
<1> QED
  BY <1>3, <1>4, <1>5, <1>6, <1>7, <1>8, <1>9, <1>10, <1>11, <1>12, <1>13, <1>14, <1>15, <1>16,
     <1>17, <1>18, <1>19 DEF Acts, Works

Tidy == ListInv /\ StaleInv /\ ArchivedInv

(* The steps of an operation keep the three,                               *)
LEMMA TidyActs ==
  ASSUME Base, Base', Tidy, NEW m \in Procs, NEW i \in Ids, Acts(m, i)
  PROVE  Tidy'
<1>1. /\ op[m].id = i /\ op[m].pc \in Sections /\ Moves(m, i) /\ Frame(i)
      /\ \A q \in Procs : q # m => op'[q] = op[q] /\ op[q].pc \notin Sections
  BY Alone DEF Base, Acts, Working, Moves
<1>2. ListInv'
  <2>1. ASSUME NEW j \in Ids PROVE (Listed(j) \/ \E q \in Managers : At(q, "forget") /\ op[q].id = j)'
    <3>1. CASE j = i
      BY <3>1, ActsListed DEF Tidy
    <3>2. CASE j # i
      <4>1. CASE Listed(j)
        BY <1>1, <3>2, <4>1, ListedSame DEF Frame
      <4>2. ASSUME NEW q \in Managers, op[q].pc = "forget", op[q].id = j PROVE FALSE
        BY <1>1, <3>2, <4>2 DEF Sections
      <4> QED
        BY <4>1, <4>2 DEF Tidy, ListInv
    <3> QED
      BY <3>1, <3>2
  <2> QED
    BY <2>1 DEF ListInv
<1>3. ArchivedInv'
  <2>1. ASSUME NEW q \in Procs, op'[q].pc = "record" PROVE op'[q].ver \in disk'[op'[q].id]
    <3>1. q = m
      BY <1>1, <2>1 DEF Sections
    <3>2. op'[m].id = i
      BY <1>1, <2>1, <3>1, RestedType DEF Moves, Continues, Pauses, Reopens, Returns, Same
    <3> QED
      BY <2>1, <3>1, <3>2, ActsListed DEF Tidy
  <2> QED
    BY <2>1 DEF ArchivedInv
<1>4. StaleInv'
  <2>1. ASSUME NEW j \in Ids, record'[j].state = "running", j \notin live'
        PROVE  \/ /\ ~booted'
                  /\ op'[Boot].pc = "idle" \/ j \in todo' \/ (Clearing(op'[Boot]) /\ op'[Boot].id = j)
               \/ \E q \in Procs : op'[q].pc = "stopped" /\ op'[q].id = j
    <3>1. CASE j = i
      <4>1. op'[m].pc = "stopped"
        BY <2>1, <3>1, ActsStale DEF Tidy
      <4>2. op'[m].id = i
        BY <1>1, <4>1, RestedType DEF Moves, Continues, Pauses, Reopens, Returns, Same
      <4> QED
        BY <3>1, <4>1, <4>2
    <3>2. CASE j # i
      <4>1. record[j].state = "running" /\ j \notin live /\ todo' = todo /\ booted' = booted
        BY <1>1, <2>1, <3>2 DEF Frame
      <4>2. CASE \E q \in Procs : op[q].pc = "stopped" /\ op[q].id = j
        BY <1>1, <3>2, <4>2 DEF Sections
      <4>3. CASE /\ ~booted
                 /\ op[Boot].pc = "idle" \/ j \in todo \/ (Clearing(op[Boot]) /\ op[Boot].id = j)
        <5>1. m = Boot
          BY <1>1, <4>3, IdleType DEF Base, Control, PlaceInv, Sections
        <5> QED
          BY <1>1, <3>2, <4>1, <4>3, <5>1 DEF Sections
      <4> QED
        BY <4>1, <4>2, <4>3 DEF Tidy, StaleInv
    <3> QED
      BY <3>1, <3>2
  <2> QED
    BY <2>1 DEF StaleInv
<1> QED
  BY <1>2, <1>3, <1>4 DEF Tidy

(* those of the first group do,                                            *)
LEMMA TidyQuiet ==
  ASSUME Base, Base', Tidy, Quiet
  PROVE  Tidy'
<1>1. disk' = disk /\ record' = record /\ inst' = inst /\ runner' = runner /\ live' = live
  BY QuietChanges
<1>2. \A q \in Procs : op'[q] = op[q] \/ (op[q].pc \notin Sections /\ op'[q].pc # "record")
  BY QuietOps
<1>3. ListInv'
  <2>1. ASSUME NEW j \in Ids PROVE (Listed(j) \/ \E q \in Managers : At(q, "forget") /\ op[q].id = j)'
    <3>1. CASE Listed(j)
      BY <1>1, <3>1, ListedSame
    <3>2. CASE \E q \in Managers : op[q].pc = "forget" /\ op[q].id = j
      BY <1>2, <3>2 DEF Sections
    <3> QED
      BY <3>1, <3>2 DEF Tidy, ListInv
  <2> QED
    BY <2>1 DEF ListInv
<1>4. ArchivedInv'
  BY <1>1, <1>2 DEF Tidy, ArchivedInv
<1>5. Boot \in Procs /\ Boot \notin Managers
  OBVIOUS
<1>6. ASSUME NEW j \in Ids, record[j].state = "running", j \notin live
      PROVE  \/ /\ ~booted'
                /\ op'[Boot].pc = "idle" \/ j \in todo' \/ (Clearing(op'[Boot]) /\ op'[Boot].id = j)
             \/ \E q \in Procs : op'[q].pc = "stopped" /\ op'[q].id = j
  <2>1. CASE \E q \in Procs : op[q].pc = "stopped" /\ op[q].id = j
    BY <1>2, <2>1 DEF Sections
  <2>2. CASE /\ ~booted
             /\ op[Boot].pc = "idle" \/ j \in todo \/ (Clearing(op[Boot]) /\ op[Boot].id = j)
    <3>0. \A q \in Managers : op[q] = Idle
      BY <2>2 DEF Base, Control, PlaceInv
    <3>1. CASE BootBegins
      <4>1. ListOk
        <5>1. \A q \in Managers : op[q].pc # "forget"
          BY <3>0, IdleType
        <5> QED
          BY <5>1 DEF Tidy, ListInv, Listed, ListOk
      <4> QED
        BY <1>6, <2>2, <3>1, <4>1 DEF BootBegins, Stale
    <3>2. CASE BootNext
      <4>0. op[Boot].pc = "next" /\ ~Clearing(op[Boot])
        BY <3>2 DEF BootNext, Clearing
      <4>1. j \in todo
        BY <2>2, <4>0
      <4>2. PICK i \in todo : todo' = todo \ {i} /\ op'[Boot] = Reconciles(i) /\ booted' = booted
        BY <3>2, <4>1, BootNextDoes DEF Base
      <4>3. op'[Boot].id = i /\ Clearing(op'[Boot])
        BY <4>2 DEF Clearing, Reconciles
      <4> QED
        BY <2>2, <4>1, <4>2, <4>3
    <3>3. ASSUME NEW m \in Procs, Waits(m)
          PROVE  /\ ~booted'
                 /\ op'[Boot].pc = "idle" \/ j \in todo' \/ (Clearing(op'[Boot]) /\ op'[Boot].id = j)
      <4>1. Waited(m, op[m].id)
        BY <3>3, WaitsMove DEF Base
      <4>2. m = Boot
        BY <3>0, <4>1, IdleType DEF Waited
      <4>3. booted' = booted /\ todo' = todo /\ op[Boot].pc # "idle"
        BY <4>1, <4>2 DEF Waited
      <4>4. Clearing(op[Boot]) => Clearing(op'[Boot]) /\ op'[Boot].id = op[Boot].id
        BY <4>1, <4>2 DEF Clearing, Waited, Same
      <4> QED
        BY <2>2, <4>3, <4>4
    <3>4. CASE \E m \in Managers, k \in Kinds, a \in Archives : Ask(m, k, a[1], a[2])
      BY <2>2, <3>4 DEF Ask
    <3>5. CASE UNCHANGED vars \/ \E c \in Callers : CallEnds(c) \/ \E i \in Ids : CallBegins(c, i)
      <4>1. op' = op /\ todo' = todo /\ booted' = booted
        BY <3>5 DEF vars, CallEnds, CallBegins
      <4> QED
        BY <2>2, <4>1
    <3> QED
      BY <3>1, <3>2, <3>3, <3>4, <3>5 DEF Quiet
  <2> QED
    BY <1>6, <2>1, <2>2 DEF Tidy, StaleInv
<1>7. StaleInv'
  BY <1>1, <1>6 DEF StaleInv
<1> QED
  BY <1>3, <1>4, <1>7 DEF Tidy

(* and a death of the process, if it is not one between files and record.  *)
LEMMA TidyCrash ==
  ASSUME ~CrashAnywhere, Base, Base', Tidy, Crash
  PROVE  Tidy'
<1>1. disk' = disk /\ record' = record /\ booted' = FALSE /\ \A m \in Procs : op'[m] = Idle
  BY DEF Crash, durable
<1>2. \A m \in Managers : op[m].pc # "forget"
  BY DEF Crash
<1>3. ListInv'
  <2>1. ASSUME NEW j \in Ids PROVE Listed(j)'
    <3>1. Listed(j)
      BY <1>2 DEF Tidy, ListInv
    <3> QED
      BY <1>1, <3>1, ListedSame
  <2> QED
    BY <2>1 DEF ListInv
<1>4. op'[Boot].pc = "idle" /\ \A m \in Procs : op'[m].pc = "idle"
  BY <1>1, IdleType
<1>5. StaleInv' /\ ArchivedInv'
  BY <1>1, <1>4 DEF StaleInv, ArchivedInv
<1> QED
  BY <1>3, <1>5 DEF Tidy

(* So does every step.                                                     *)
LEMMA TidyKeeps ==
  ASSUME ~CrashAnywhere, Base, Base', Tidy, [Next]_vars
  PROVE  Tidy'
BY Groups, Actors, TidyActs, TidyQuiet, TidyCrash

(* They hold at first.                                                     *)
LEMMA TidyStarts ==
  ASSUME Init
  PROVE  Tidy
<1>1. ~booted /\ \A m \in Procs : op[m].pc = "idle"
  BY IdleType DEF Init
<1>2. ASSUME NEW i \in Ids PROVE Listed(i)
  <2>1. disk[i] = {1} /\ record[i].state # "none" /\ record[i].active = 1
    BY DEF Init
  <2> QED
    BY <2>1 DEF Listed, Readable, Record
<1> QED
  BY <1>1, <1>2 DEF Tidy, ListInv, StaleInv, ArchivedInv

(* They are invariants if no process dies between files and record.        *)
LEMMA TidyAlways ==
  ASSUME ~CrashAnywhere
  PROVE  Spec => []Tidy
<1>1. Init => Tidy
  BY TidyStarts
<1>2. Base /\ Base' /\ Tidy /\ [Next]_vars => Tidy'
  BY TidyKeeps
<1> QED
  BY <1>1, <1>2, Based, PTL DEF Spec

(* They are what the records are true for.                                 *)
LEMMA TidyIsTrue ==
  ASSUME Base, Tidy
  PROVE  RunningIsLive /\ RestoredOrDegraded
<1>1. ASSUME booted, NEW i \in Ids, gate[i].writer = NoOne
      PROVE  /\ LiveAt(i) /\ (record[i].state = "running" => i \in live)
  <2>1. \A q \in Procs : Holds(op[q]) => op[q].id # i
    BY <1>1 DEF Base, Control, GateInv
  <2>2. \A q \in Procs : ~(op[q].id = i /\ op[q].pc \in {"register", "publish", "stopped"})
    BY <2>1 DEF Holds, Sections
  <2>3. LiveAt(i)
    BY <2>2 DEF Base, State, LiveInv
  <2>4. record[i].state = "running" => i \in live
    BY <1>1, <2>2 DEF Tidy, StaleInv
  <2> QED
    BY <2>3, <2>4
<1>2. RunningIsLive
  BY <1>1 DEF RunningIsLive, LiveAt
<1>3. RestoredOrDegraded
  BY <1>1 DEF RestoredOrDegraded, Stale
<1> QED
  BY <1>2, <1>3

(* Once the startup is over and nobody holds the extension, its record says *)
(* running exactly when it runs; unless a process died between the removal of *)
(* files and the write of the record (the start transaction and its roll back). *)
THEOREM TrueRecords ==
  ASSUME ~CrashAnywhere
  PROVE  Spec => []RunningIsLive
<1>1. Base /\ Tidy => RunningIsLive
  BY TidyIsTrue
<1>2. Spec => []Tidy
  BY TidyAlways
<1> QED
  BY <1>1, <1>2, Based, PTL

(* After the startup no record says running of an extension that nobody    *)
(* holds and that does not run (reconcile_startup); the same hypothesis.   *)
THEOREM Reconciled ==
  ASSUME ~CrashAnywhere
  PROVE  Spec => []RestoredOrDegraded
<1>1. Base /\ Tidy => RestoredOrDegraded
  BY TidyIsTrue
<1>2. Spec => []Tidy
  BY TidyAlways
<1> QED
  BY <1>1, <1>2, Based, PTL

-----------------------------------------------------------------------------
(* What runs again after a restart.                                          *)

(* What is required is an extension.                                       *)
LEMMA NeedsIn ==
  ASSUME NEW d, NEW v, NEW p \in Requires(d, v)
  PROVE  p \in Ids /\ d \in Ids
<1>1. PICK n \in Needs : n[1] = d /\ n[2] = v /\ n[3] = p
  BY DEF Requires
<1> QED
  BY <1>1

(* A step that leaves the files and the active versions leaves the graph.    *)
SameVersions ==
  /\ disk' = disk
  /\ \A j \in Ids : /\ record'[j].active = record[j].active
                    /\ record'[j].state = "none" <=> record[j].state = "none"

(* The requirements of the active versions depend on these only.           *)
LEMMA GraphStays ==
  ASSUME SameVersions
  PROVE  /\ Edges' = Edges /\ ListOk' = ListOk
         /\ \A j \in Ids : /\ Cyclic(j)' = Cyclic(j) /\ Readable(j)' = Readable(j)
                           /\ Requires(j, record[j].active)' = Requires(j, record[j].active)
                           /\ \A p \in Ids : Accepts(j, p, record[p].active)' = Accepts(j, p, record[p].active)
<1>1. ASSUME NEW j \in Ids PROVE Record(j)'.active = Record(j).active
  BY DEF SameVersions, Record, Installed, Highest
<1>2. \A j \in Ids : Readable(j)' = Readable(j)
  BY <1>1 DEF SameVersions, Readable
<1>3. ListOk' = ListOk
  BY <1>2 DEF ListOk, SameVersions
<1>4. \A j \in Ids : Requires(j, Record(j).active)' = Requires(j, Record(j).active)
  BY <1>1 DEF Requires
<1>5. Edges' = Edges
  BY <1>4 DEF Edges, SameVersions
<1>6. \A j \in Ids : Cyclic(j)' = Cyclic(j)
  BY <1>5 DEF Cyclic, Reaches
<1> QED
  BY <1>2, <1>3, <1>5, <1>6 DEF SameVersions, Requires, Accepts

(* What has a record and is listed has its active version.                 *)
LEMMA Installs ==
  ASSUME ListOk, NEW i \in Ids, record[i].state # "none"
  PROVE  /\ Readable(i) /\ disk[i] # {} /\ Record(i) = record[i]
         /\ \A p \in Requires(i, record[i].active) : p \in Ids /\ <<i, p>> \in Edges
<1>1. Readable(i) /\ Record(i) = record[i]
  BY DEF ListOk, Record
<1>2. disk[i] # {}
  BY <1>1 DEF Readable
<1>3. ASSUME NEW p \in Requires(i, record[i].active) PROVE p \in Ids /\ <<i, p>> \in Edges
  BY <1>1, <1>2, NeedsIn DEF Edges
<1> QED
  BY <1>1, <1>2, <1>3

(* Where everything is listed the refresh succeeds.                        *)
LEMMA RefreshFollows ==
  ASSUME ListOk
  PROVE  RefreshOk(disk, record)
BY DEF ListOk, RefreshOk, Readable, Record

(* The steps of the reconciliation in a section. *)
LEMMA BootSteps ==
  ASSUME Base, NEW i \in Ids, Acts(Boot, i)
  PROVE  /\ op[Boot].id = i /\ op[Boot].kind = "reconcile" /\ SameVersions /\ record[i].state # "none"
         /\ \A q \in Procs : q # Boot => op'[q] = op[q]
         /\ op'[Boot].pc # "idle" /\ Frame(i)
         /\ BootActs \/ StartRefused(Boot) \/ Start(Boot) \/ Register(Boot) \/ Publish(Boot)
<1>1. /\ op[Boot].id = i /\ Control /\ State /\ BootInv /\ Placed(op[Boot]) /\ op[Boot] \in Operations
      /\ op[Boot].pc \in Sections /\ Moves(Boot, i) /\ Frame(i) /\ Boot \in Procs
  BY DEF Acts, Base, Control, PlaceInv, TypeOK, Working
<1>2. op[Boot].kind = "reconcile"
  <2>1. op[Boot].kind # "none"
    BY <1>1, KindsAt DEF Requests
  <2> QED
    BY <1>1, <2>1 DEF Control, PlaceInv
<1>3. op[Boot].pc \in {"clear", "start", "register", "publish", "degraded"}
  BY <1>1, <1>2, Steps DEF Placed
<1>4. BootActs \/ StartRefused(Boot) \/ Start(Boot) \/ Register(Boot) \/ Publish(Boot)
  BY <1>3 DEF Acts, Works, Install, InstallRecords, Enable, RollBackVersion, Degrade, Disable, Unregister,
       Update, UpdateArchive, UpdateSelects, Uninstall, RemoveFiles, Forget
<1>5. op'[Boot].pc # "idle" /\ \A q \in Procs : q # Boot => op'[q] = op[q]
  BY <1>1, RestedType DEF Moves, Continues, Pauses, Reopens, Returns, Sections
<1>6. ~Resting(op[Boot])
  BY <1>3 DEF Resting
<1>7. record[i].state \in {"running", "enabled", "failed"}
  BY <1>1, <1>6 DEF BootInv
<1>8. disk' = disk /\ record'[i].active = record[i].active /\ record'[i].state # "none"
  <2>1. CASE BootActs
    BY <1>1, <2>1, BootClearsDoes, BootDegradesDoes DEF BootActs, Puts
  <2>2. CASE StartRefused(Boot)
    BY <1>1, <1>7, <2>2, StartRefusedDoes DEF Puts
  <2>3. CASE Start(Boot)
    <3>1. disk' = disk /\ (record' = record \/ \E s \in {"enabled", "failed"} : Puts(i, s, record[i].active, "runtime"))
      BY <1>1, <2>3, StartDoes
    <3> QED
      BY <1>7, <3>1 DEF Puts
  <2>4. CASE Register(Boot)
    BY <1>1, <1>7, <2>4, RegisterDoes DEF Puts
  <2>5. CASE Publish(Boot)
    BY <1>1, <1>7, <2>5, PublishDoes DEF Puts
  <2> QED
    BY <1>4, <2>1, <2>2, <2>3, <2>4, <2>5
<1>9. SameVersions
  BY <1>1, <1>7, <1>8 DEF SameVersions, Frame
<1> QED
  BY <1>1, <1>2, <1>4, <1>5, <1>7, <1>9

(* The start of an extension that is owed is not refused. *)
LEMMA OwedStarts ==
  ASSUME Base, OwedInv, NEW i \in Ids, Acts(Boot, i), i \in owed
  PROVE  ~StartRefused(Boot) /\ op[Boot].pc # "degraded" /\ ListOk
<1>1. /\ op[Boot].id = i /\ ListOk /\ record[i].state # "none" /\ \A j \in owed : Owing(j)
      /\ op[Boot].pc \in Sections
  BY BootSteps DEF OwedInv, Acts
<1>2. ~Resting(op[Boot])
  BY <1>1 DEF Resting, Sections
<1>3. Requires(i, record[i].active) \cap todo = {} /\ (op[Boot].pc = "start" => record[i].state = "enabled")
  BY <1>1, <1>2 DEF OwedInv, Toward
<1>4. op[Boot].pc # "degraded"
  <2>1. ASSUME op[Boot].pc = "degraded" PROVE FALSE
    <3>1. ~Clearing(op[Boot]) /\ Toward(op[Boot], {"degraded"})
      BY <2>1 DEF Clearing, Toward
    <3>2. i \notin todo /\ record[i].state \in {"enabled", "failed"}
      BY <1>1, <1>2, <3>1 DEF Base, BootInv
    <3>3. ~Up(i)
      BY <3>2 DEF Up
    <3> QED
      BY <1>1, <3>1, <3>2, <3>3 DEF Owing
  <2> QED
    BY <2>1
<1>5. ASSUME StartRefused(Boot) PROVE FALSE
  <2>1. op[Boot].pc = "start" /\ record[i].state = "enabled"
    BY <1>3, <1>5 DEF StartRefused
  <2>2. CanStart(i)
    BY <1>1, <2>1, Installs DEF CanStart
  <2>3. ~Cyclic(i)
    BY <1>1 DEF Owing
  <2>4. ASSUME NEW p \in Requires(i, record[i].active)
        PROVE  Readable(p) /\ Accepts(i, p, Record(p).active) /\ Up(p)
    <3>1. p \in owed /\ Accepts(i, p, record[p].active) /\ p \in Ids /\ <<i, p>> \in Edges
      BY <1>1, Installs DEF Owing
    <3>2. p # i
      <4>1. p = i => Reaches(i, i)
        BY <3>1, OneEdge
      <4> QED
        BY <2>3, <4>1 DEF Cyclic
    <3>3. Up(p)
      BY <1>1, <1>3, <3>1, <3>2 DEF Owing
    <3>4. record[p].state # "none"
      BY <3>3 DEF Up
    <3> QED
      BY <1>1, <3>1, <3>3, <3>4, Installs
  <2>5. Provided(i)
    BY <1>1, <2>3, <2>4 DEF Provided, Satisfied
  <2> QED
    BY <1>1, <1>5, <2>2, <2>5 DEF StartRefused
<1> QED
  BY <1>1, <1>4, <1>5

(* The steps of an operation keep what is owed: the reconciliation is alone. *)
LEMMA OwedActs ==
  ASSUME Base, Base', OwedInv, NEW m \in Procs, NEW i \in Ids, Acts(m, i)
  PROVE  OwedInv'
<1>1. SUFFICES ASSUME owed' # {} PROVE OwedInv'
  BY DEF OwedInv
<1>2. owed' = owed /\ owed # {} /\ op[m].pc \in Sections /\ todo' = todo /\ booted' = booted
  BY <1>1 DEF Acts, Working, Frame
<1>3. ListOk /\ (\A q \in Managers : op[q] = Idle) /\ \A j \in owed : Owing(j)
  BY <1>2 DEF OwedInv
<1>4. m = Boot
  BY <1>2, <1>3, IdleType DEF Sections
<1>5. /\ op[Boot].id = i /\ op[Boot].kind = "reconcile" /\ SameVersions /\ record[i].state # "none"
      /\ \A q \in Procs : q # Boot => op'[q] = op[q]
      /\ op'[Boot].pc # "idle" /\ Frame(i)
      /\ BootActs \/ StartRefused(Boot) \/ Start(Boot) \/ Register(Boot) \/ Publish(Boot)
  BY <1>4, BootSteps
<1>6. /\ ListOk' /\ \A j \in Ids : /\ Cyclic(j)' = Cyclic(j)
                                   /\ Requires(j, record[j].active)' = Requires(j, record[j].active)
                                   /\ \A p \in Ids : Accepts(j, p, record[p].active)' = Accepts(j, p, record[p].active)
  BY <1>3, <1>5, GraphStays
<1>7. owed \subseteq Ids /\ ~Resting(op[Boot])
  BY <1>2, <1>4 DEF Base, Control, TypeOK, Resting, Sections
<1>8. i \in owed => i \notin todo /\ Requires(i, record[i].active) \cap todo = {}
  BY <1>2, <1>5, <1>7 DEF OwedInv, Base, BootInv
<1>9. i \in owed =>
        \/ Up(i)' /\ Resting(op'[Boot])
        \/ /\ op'[Boot].id = i /\ ~Resting(op'[Boot]) /\ ~Toward(op'[Boot], {"degraded"})
           /\ Toward(op'[Boot], {"start"}) => record'[i].state = "enabled"
  <2> SUFFICES ASSUME i \in owed
               PROVE  \/ Up(i)' /\ Resting(op'[Boot])
                      \/ /\ op'[Boot].id = i /\ ~Resting(op'[Boot]) /\ ~Toward(op'[Boot], {"degraded"})
                         /\ Toward(op'[Boot], {"start"}) => record'[i].state = "enabled"
    OBVIOUS
  <2>1. ~StartRefused(Boot) /\ op[Boot].pc # "degraded" /\ ListOk
    BY <1>4, OwedStarts
  <2>2. Control /\ State /\ BootInv /\ Boot \in Procs
    BY DEF Base
  <2>3. ASSUME NEW pc \in {"register", "publish"}, GoesOn(Boot, i, pc)
        PROVE  op'[Boot].id = i /\ ~Resting(op'[Boot]) /\ ~Toward(op'[Boot], {"degraded"})
               /\ ~Toward(op'[Boot], {"start"})
    <3>1. op'[Boot].pc = pc /\ op'[Boot].id = i
      BY <1>5, <2>3 DEF GoesOn, Onto, Turned
    <3> QED
      BY <2>3, <3>1 DEF Resting, Toward
  <2>4. CASE BootClears
    <3>1. Pauses(Boot, i) /\ op'[Boot].job = "start" /\ Puts(i, "enabled", record[i].active, "none")
      BY <1>5, <2>2, <2>4, BootClearsDoes
    <3> QED
      BY <1>5, <3>1 DEF Pauses, Same, Toward, Resting, Puts
  <2>5. CASE BootDegrades
    BY <2>1, <2>5 DEF BootDegrades
  <2>6. CASE Start(Boot)
    <3>1. GoesOn(Boot, i, "register")
      BY <1>1, <1>2, <1>5, <2>2, <2>6, StartDoes
    <3> QED
      BY <2>3, <3>1
  <2>7. CASE Register(Boot)
    <3>1. GoesOn(Boot, i, "publish")
      BY <1>1, <1>2, <1>5, <2>2, <2>7, RegisterDoes
    <3> QED
      BY <2>3, <3>1
  <2>8. CASE Publish(Boot)
    <3>1. Returns(Boot, i) /\ Up(i)'
      BY <1>1, <1>2, <1>5, <2>1, <2>2, <2>8, PublishDoes, RefreshFollows
    <3>2. Resting(op'[Boot])
      BY <2>2, <3>1, RestedType DEF Returns
    <3> QED
      BY <3>1, <3>2
  <2> QED
    BY <1>5, <2>1, <2>4, <2>5, <2>6, <2>7, <2>8 DEF BootActs
<1>10. ASSUME NEW j \in owed PROVE Owing(j)'
  <2>1. j \in Ids /\ Owing(j)
    BY <1>3, <1>7
  <2>2. ~Cyclic(j)' /\ \A p \in Requires(j, record[j].active)' : p \in owed' /\ Accepts(j, p, record[p].active)'
    <3>1. \A p \in Requires(j, record[j].active) : p \in Ids /\ p \in owed /\ Accepts(j, p, record[p].active)
      BY <1>7, <2>1 DEF Owing
    <3> QED
      BY <1>2, <1>6, <2>1, <3>1 DEF Owing
  <2>3. CASE j = i
    BY <1>9, <2>2, <2>3 DEF Owing
  <2>4. CASE j # i
    <3>1. j \in todo \/ Up(j)
      BY <1>5, <2>1, <2>4 DEF Owing
    <3>2. Up(j)' = Up(j)
      BY <1>5, <2>1, <2>4 DEF Frame, Up, HasLive
    <3> QED
      BY <1>2, <2>2, <3>1, <3>2 DEF Owing
  <2> QED
    BY <2>3, <2>4
<1>11. ASSUME ~Resting(op'[Boot]), op'[Boot].id \in owed
       PROVE  /\ Requires(op[Boot].id, record[op[Boot].id].active)' \cap todo' = {}
              /\ Toward(op'[Boot], {"start"}) => record'[op'[Boot].id].state = "enabled"
  <2>1. op'[Boot].id = i
    BY <1>4, <1>5, <1>11, RestedType DEF Acts, Working, Moves, Continues, Pauses, Reopens, Returns, Same
  <2> QED
    BY <1>2, <1>6, <1>8, <1>9, <1>11, <2>1
<1>12. \A q \in Managers : op'[q] = Idle
  BY <1>3, <1>5
<1> QED
  BY <1>1, <1>2, <1>5, <1>6, <1>10, <1>11, <1>12 DEF OwedInv

(* What is owed can be brought back.                                       *)
LEMMA OwedBegins ==
  ASSUME Base, OwedInv, BootBegins
  PROVE  OwedInv'
<1>1. /\ Control /\ State /\ BootInv /\ TypeOK /\ PlaceInv /\ Boot \in Procs /\ Boot \notin Managers
  BY DEF Base, Control
<1>2. /\ ~booted /\ op[Boot].pc = "idle" /\ op[Boot] = Idle /\ op \in [Procs -> Operations]
      /\ disk' = disk /\ record' = record /\ inst' = inst /\ live' = live
      /\ \A q \in Managers : op[q] = Idle
  BY <1>1, BootIdle DEF BootBegins, PlaceInv, durable, process, TypeOK
<1>3. owed = {}
  BY <1>2 DEF OwedInv
<1>4. CASE ~ListOk
  BY <1>3, <1>4 DEF BootBegins, OwedInv
<1>5. CASE ListOk
  <2>1. /\ op' = [op EXCEPT ![Boot].pc = "next"] /\ todo' = Stale
        /\ owed' = {i \in Stale : \A j \in Ids : Reaches(i, j) \/ i = j =>
                      /\ j \in Stale /\ ~Reaches(j, j)
                      /\ \A p \in Requires(j, record[j].active) : Accepts(j, p, record[p].active)}
    BY <1>5 DEF BootBegins, Go
  <2>2. op'[Boot].pc = "next" /\ \A q \in Managers : op'[q] = Idle
    <3>1. [op[Boot] EXCEPT !.pc = "next"] = Onto(op[Boot], "next")
      BY <1>1, <1>2, Ontos
    <3>2. op' = [op EXCEPT ![Boot] = Onto(op[Boot], "next")]
      BY <2>1, <3>1
    <3>3. op'[Boot] = Onto(op[Boot], "next") /\ \A q \in Managers : op'[q] = op[q]
      BY <1>1, <1>2, <3>2
    <3> QED
      BY <1>2, <3>3 DEF Onto, Turned
  <2>3. SameVersions
    BY <1>2 DEF SameVersions
  <2>4. ASSUME NEW i \in owed' PROVE Owing(i)'
    <3>1. /\ i \in Stale /\ i \in Ids
          /\ \A j \in Ids : Reaches(i, j) \/ i = j =>
                /\ j \in Stale /\ ~Reaches(j, j)
                /\ \A p \in Requires(j, record[j].active) : Accepts(j, p, record[p].active)
      BY <2>1 DEF Stale
    <3>2. ~Cyclic(i)
      BY <3>1 DEF Cyclic
    <3>3. \A p \in Requires(i, record[i].active) : Accepts(i, p, record[p].active)
      BY <3>1
    <3>4. ASSUME NEW p \in Requires(i, record[i].active) PROVE p \in owed' /\ p \in Ids
      <4>1. record[i].state # "none"
        BY <3>1 DEF Stale
      <4>2. p \in Ids /\ <<i, p>> \in Edges
        BY <1>5, <3>1, <4>1, Installs
      <4>3. Reaches(i, p)
        BY <3>1, <4>2, OneEdge
      <4>4. \A j \in Ids : Reaches(p, j) \/ p = j => Reaches(i, j)
        BY <3>1, <4>2, <4>3, Backwards
      <4>5. p \in Stale
        BY <3>1, <4>2, <4>3
      <4>6. \A j \in Ids : Reaches(p, j) \/ p = j =>
                /\ j \in Stale /\ ~Reaches(j, j)
                /\ \A x \in Requires(j, record[j].active) : Accepts(j, x, record[x].active)
        BY <3>1, <4>4
      <4> QED
        BY <2>1, <4>2, <4>5, <4>6
    <3>5. /\ ~Cyclic(i)' /\ Requires(i, record[i].active)' = Requires(i, record[i].active)
          /\ \A p \in Ids : Accepts(i, p, record[p].active)' = Accepts(i, p, record[p].active)
      BY <2>3, <3>1, <3>2, GraphStays
    <3> QED
      BY <2>1, <3>1, <3>3, <3>4, <3>5 DEF Owing
  <2>5. ListOk'
    BY <1>5, <2>3, GraphStays
  <2>6. Resting(op'[Boot])
    BY <2>2 DEF Resting
  <2> QED
    BY <2>2, <2>4, <2>5, <2>6 DEF OwedInv
<1> QED
  BY <1>4, <1>5

(* It is brought back after what it requires.                              *)
LEMMA OwedNext ==
  ASSUME Base, OwedInv, BootNext
  PROVE  OwedInv'
<1>1. SUFFICES ASSUME owed' # {} PROVE OwedInv'
  BY DEF OwedInv
<1>2. /\ ~booted /\ op[Boot].pc = "next" /\ \A q \in Procs : q # Boot => op'[q] = op[q]
      /\ disk' = disk /\ record' = record /\ inst' = inst /\ live' = live /\ owed' = owed
  BY BootNextDoes DEF Base, durable, process
<1>3. /\ ListOk /\ (\A q \in Managers : op[q] = Idle) /\ (\A j \in owed : Owing(j)) /\ owed \subseteq Ids
      /\ Boot \notin Managers /\ todo \subseteq Ids
  BY <1>1, <1>2 DEF OwedInv, Base, Control, TypeOK
<1>4. SameVersions
  BY <1>2 DEF SameVersions
<1>5. /\ ListOk' /\ \A j \in Ids : /\ Cyclic(j)' = Cyclic(j)
                                   /\ Requires(j, record[j].active)' = Requires(j, record[j].active)
                                   /\ \A p \in Ids : Accepts(j, p, record[p].active)' = Accepts(j, p, record[p].active)
  BY <1>3, <1>4, GraphStays
<1>6. Resting(op[Boot])
  BY <1>2 DEF Resting
<1>7. ASSUME NEW j \in owed
      PROVE  /\ j \in Ids /\ ~Cyclic(j)' /\ Up(j)' = Up(j) /\ (j \in todo \/ Up(j))
             /\ \A p \in Requires(j, record[j].active)' : p \in owed' /\ Accepts(j, p, record[p].active)'
  <2>1. j \in Ids /\ Owing(j)
    BY <1>3
  <2>2. \A p \in Requires(j, record[j].active) : p \in Ids /\ p \in owed /\ Accepts(j, p, record[p].active)
    BY <1>3, <2>1 DEF Owing
  <2>3. j \in todo \/ Up(j)
    BY <1>6, <2>1 DEF Owing
  <2> QED
    BY <1>2, <1>5, <2>1, <2>2, <2>3 DEF Owing, Up, HasLive
<1>8. \A q \in Managers : op'[q] = Idle
  BY <1>2, <1>3
<1>9. CASE todo = {} /\ todo' = {} /\ booted' = TRUE /\ op'[Boot] = Idle
  <2>1. \A j \in owed' : Owing(j)'
    BY <1>2, <1>7, <1>9 DEF Owing
  <2>2. Resting(op'[Boot])
    BY <1>9, IdleType
  <2> QED
    BY <1>5, <1>8, <1>9, <2>1, <2>2 DEF OwedInv
<1>10. ASSUME NEW i \in RestoreOrder, i \in todo, todo' = todo \ {i}, op'[Boot] = Reconciles(i)
       PROVE  OwedInv'
  <2>1. op'[Boot].pc = "gate" /\ op'[Boot].id = i
    BY <1>10 DEF Reconciles
  <2>2. ~Resting(op'[Boot]) /\ ~Toward(op'[Boot], {"degraded"}) /\ ~Toward(op'[Boot], {"start"})
    BY <2>1 DEF Resting, Toward
  <2>3. \A j \in owed' : Owing(j)'
    BY <1>2, <1>7, <1>10, <2>1, <2>2 DEF Owing
  <2>4. ASSUME i \in owed PROVE Requires(i, record[i].active) \cap todo = {}
    <3> DEFINE ready == {x \in todo : Requires(x, record[x].active) \cap todo = {}}
    <3> DEFINE S == owed \cap todo
    <3>1. S # {} /\ S \subseteq Ids /\ \A x \in S : ~Reaches(x, x)
      BY <1>3, <1>10, <2>4 DEF Owing, Cyclic
    <3>2. PICK x \in S : \A y \in S : <<x, y>> \notin Edges
      <4> HIDE DEF S
      <4> QED
        BY <3>1, FirstOfAll
    <3>3. Requires(x, record[x].active) \cap todo = {}
      <4>1. record[x].state = "running" /\ x \in Ids
        BY <1>3 DEF Base, BootInv
      <4>2. ASSUME NEW y \in Requires(x, record[x].active), y \in todo PROVE FALSE
        <5>1. y \in owed
          BY <1>3 DEF Owing
        <5>2. <<x, y>> \in Edges
          BY <1>3, <4>1, Installs
        <5> QED
          BY <3>2, <4>2, <5>1, <5>2
      <4> QED
        BY <4>2
    <3>4. ready # {}
      BY <3>3
    <3> QED
      BY <3>4 DEF RestoreOrder
  <2>5. i \in owed' => Requires(i, record[i].active)' \cap todo' = {}
    BY <1>2, <1>3, <1>5, <1>10, <2>4
  <2> QED
    BY <1>5, <1>8, <2>1, <2>2, <2>3, <2>5 DEF OwedInv
<1> QED
  BY <1>9, <1>10, BootNextDoes DEF Base

(* The other steps owe nothing or change nothing.                          *)
LEMMA OwedQuiet ==
  ASSUME Base, Base', OwedInv, Quiet
  PROVE  OwedInv'
<1>1. disk' = disk /\ record' = record /\ inst' = inst /\ runner' = runner /\ live' = live
  BY QuietChanges
<1>2. SameVersions
  BY <1>1 DEF SameVersions
<1>3. /\ ListOk' = ListOk
      /\ \A j \in Ids : /\ Cyclic(j)' = Cyclic(j) /\ Up(j)' = Up(j)
                        /\ Requires(j, record[j].active)' = Requires(j, record[j].active)
                        /\ \A p \in Ids : Accepts(j, p, record[p].active)' = Accepts(j, p, record[p].active)
  BY <1>1, <1>2, GraphStays DEF Up, HasLive
<1>4. owed \subseteq Ids
  BY DEF Base, Control, TypeOK
<1>5. ASSUME owed' = owed, todo' = todo, booted' = booted, owed # {},
             op'[Boot].pc = "idle" => op[Boot].pc = "idle",
             \A q \in Managers : op'[q] = op[q],
             op'[Boot].id = op[Boot].id, Resting(op'[Boot]) <=> Resting(op[Boot]),
             Toward(op'[Boot], {"degraded"}) <=> Toward(op[Boot], {"degraded"}),
             Toward(op'[Boot], {"start"}) => Toward(op[Boot], {"start"})
      PROVE  OwedInv'
  <2>1. /\ ListOk' /\ (\A q \in Managers : op'[q] = Idle) /\ (booted' \/ op'[Boot].pc # "idle")
    BY <1>3, <1>5 DEF OwedInv
  <2>2. ASSUME NEW j \in owed PROVE Owing(j)'
    <3>1. j \in Ids /\ Owing(j)
      BY <1>4, <1>5 DEF OwedInv
    <3>2. \A p \in Requires(j, record[j].active) : p \in Ids /\ p \in owed /\ Accepts(j, p, record[p].active)
      BY <1>4, <3>1 DEF Owing
    <3> QED
      BY <1>3, <1>5, <3>1, <3>2 DEF Owing
  <2>3. ASSUME ~Resting(op'[Boot]), op'[Boot].id \in owed'
        PROVE  /\ Requires(op[Boot].id, record[op[Boot].id].active)' \cap todo' = {}
               /\ Toward(op'[Boot], {"start"}) => record'[op'[Boot].id].state = "enabled"
    <3>1. PICK i \in Ids : i = op[Boot].id
      BY <1>4, <1>5, <2>3
    <3>2. Requires(i, record[i].active) \cap todo = {} /\ (Toward(op[Boot], {"start"}) => record[i].state = "enabled")
      BY <1>5, <2>3, <3>1 DEF OwedInv
    <3> QED
      BY <1>1, <1>3, <1>5, <3>1, <3>2
  <2> QED
    BY <1>5, <2>1, <2>2, <2>3 DEF OwedInv
<1>6. CASE owed' = {}
  BY <1>6 DEF OwedInv
<1>7. CASE BootBegins
  BY <1>7, OwedBegins
<1>8. CASE BootNext
  BY <1>8, OwedNext
<1>9. ASSUME NEW m \in Procs, Waits(m), owed' # {} PROVE OwedInv'
  <2>1. Waited(m, op[m].id) /\ Placed(op[m])
    BY <1>9, WaitsMove DEF Base
  <2>2. owed' = owed /\ todo' = todo /\ booted' = booted
    BY <2>1 DEF Waited
  <2>3. m = Boot
    BY <1>9, <2>1, <2>2, IdleType DEF OwedInv, Waited
  <2>4. /\ \A q \in Managers : op'[q] = op[q]
        /\ op[Boot].pc \in {"gate", "lock"} /\ op'[Boot].job = op[Boot].job /\ op'[Boot].id = op[Boot].id
        /\ op'[Boot].pc = IF op[Boot].pc = "gate" THEN "lock" ELSE op[Boot].job
    BY <2>1, <2>3 DEF Waited, Same
  <2>5. op[Boot].job \notin {"idle", "next", "gate", "lock"}
    BY <2>1, <2>3, <2>4 DEF Placed, Jobs, Requests
  <2>6. op'[Boot].pc \notin {"idle", "next"} /\ op[Boot].pc \notin {"idle", "next"}
    BY <2>4, <2>5
  <2>7. ~Resting(op'[Boot]) /\ ~Resting(op[Boot])
    BY <2>6 DEF Resting
  <2>8. op[Boot].pc = "gate" => op[Boot].job = "clear"
    BY <2>7 DEF Base, BootInv, Clearing, Toward, Again
  <2>9. \A pc \in {"degraded", "start"} : Toward(op'[Boot], {pc}) <=> Toward(op[Boot], {pc})
    BY <2>4, <2>5, <2>8 DEF Toward
  <2> QED
    BY <1>5, <1>9, <2>2, <2>4, <2>6, <2>7, <2>9
<1>10. ASSUME UNCHANGED vars \/ \E c \in Callers : CallEnds(c) \/ \E i \in Ids : CallBegins(c, i), owed' # {}
       PROVE  OwedInv'
  <2>1. op' = op /\ todo' = todo /\ booted' = booted /\ owed' = owed
    BY <1>10 DEF vars, CallEnds, CallBegins
  <2> QED
    BY <1>5, <1>10, <2>1
<1>11. CASE \E m \in Managers, k \in Kinds, a \in Archives : Ask(m, k, a[1], a[2])
  BY <1>6, <1>11 DEF Ask
<1> QED
  BY <1>6, <1>7, <1>8, <1>9, <1>10, <1>11 DEF Quiet

(* So the reconciliation owes only what it can bring back.                 *)
LEMMA OwedAlways == Spec => []OwedInv
<1>1. Init => OwedInv
  BY DEF Init, OwedInv
<1>2. Base /\ Base' /\ OwedInv /\ [Next]_vars => OwedInv'
  <2>1. Crash => OwedInv'
    BY DEF Crash, OwedInv
  <2> QED
    BY <2>1, Groups, Actors, OwedActs, OwedQuiet
<1> QED
  BY <1>1, <1>2, Based, PTL DEF Spec

(* What ran before a restart, with everything it requires, runs again when *)
(* the startup is over (startup_restore_order).                            *)
THEOREM Restarted == Spec => []RunsAgain
<1>1. Base /\ OwedInv => RunsAgain
  <2> SUFFICES ASSUME Base, OwedInv, booted, NEW i \in owed PROVE Up(i)
    BY DEF RunsAgain
  <2>1. op[Boot] = Idle /\ todo = {}
    BY DEF Base, Control, PlaceInv
  <2>2. Resting(op[Boot])
    BY <2>1, IdleType
  <2> QED
    BY <2>1, <2>2 DEF OwedInv, Owing
<1> QED
  BY <1>1, OwedAlways, Based, PTL

(* What a record says is what runs, in this process and after a restart.   *)
THEOREM RecordsAreTrue ==
  ASSUME ~CrashAnywhere
  PROVE  Spec => []RecordIsTrue
<1>1. Spec => []RunningIsLive
  BY TrueRecords
<1>2. RunningIsLive /\ RunsAgain => RecordIsTrue
  BY DEF RecordIsTrue
<1> QED
  BY <1>1, <1>2, Restarted, PTL

-----------------------------------------------------------------------------
(* What runs can be stopped in some order.                                   *)

(* An extension runs after a step when it ran before it, in the same         *)
(* version, or when the step is the end of its start.                        *)
LEMMA UpAfter ==
  ASSUME Base, NEW m \in Procs, NEW i \in Ids, Acts(m, i), Up(i)'
  PROVE  \/ Up(i) /\ record'[i] = record[i]
         \/ /\ Publish(m) /\ Provided(i) /\ ~Up(i) /\ disk' = disk /\ Returns(m, i)
            /\ record[i].state = "enabled" /\ record'[i].active = record[i].active
<1>1. Control /\ State /\ BootInv /\ op[m].id = i
  BY DEF Base, Acts
<1>2. record'[i].state = "running" /\ i \in live' /\ HasLive(i)'
  BY DEF Up, HasLive
<1>3. record'[i] = record[i] /\ UNCHANGED <<live, inst>> => Up(i)
  BY <1>2 DEF Up, HasLive
<1>4. CASE m = Boot /\ BootActs
  BY <1>1, <1>2, <1>4, BootClearsDoes, BootDegradesDoes DEF BootActs
<1>5. CASE ~Holds(op[m])
  <2>1. UNCHANGED process /\ (record[i].state # "none" => record'[i] = record[i])
    BY <1>5, Unheld
  <2>2. record[i].state = "none" => record'[i].state \in {"none", "installed"}
    BY <1>5 DEF Acts, Working, StateAt
  <2> QED
    BY <1>2, <1>3, <2>1, <2>2 DEF process
<1>6. CASE Works(m) /\ Holds(op[m])
  <2>1. op[m].pc \notin {"install", "record"}
    BY <1>6 DEF Holds
  <2>2. ~Install(m) /\ ~InstallRecords(m)
    BY <2>1 DEF Install, InstallRecords, At
  <2>3. CASE Enable(m)
    BY <1>1, <1>2, <1>3, <2>3, EnableDoes DEF Puts, process
  <2>4. CASE StartRefused(m)
    BY <1>1, <1>2, <1>3, <2>4, StartRefusedDoes DEF Puts, process
  <2>5. CASE Start(m)
    BY <1>1, <1>2, <2>5, StartDoes DEF Puts
  <2>6. CASE Register(m)
    BY <1>1, <1>2, <2>6, RegisterDoes DEF Puts
  <2>7. CASE Publish(m)
    BY <1>1, <1>2, <2>7, PublishDoes DEF Puts, Up
  <2>8. CASE RollBackVersion(m)
    BY <1>1, <1>2, <1>3, <2>8, RollBackVersionDoes DEF Puts, process
  <2>9. CASE Degrade(m)
    BY <1>1, <1>2, <1>3, <2>9, DegradeDoes DEF Puts, process
  <2>10. CASE Disable(m)
    BY <1>1, <1>2, <1>3, <2>10, DisableDoes DEF durable
  <2>11. CASE Unregister(m)
    BY <1>1, <1>2, <2>11, UnregisterDoes DEF Puts
  <2>12. CASE Update(m)
    BY <1>1, <1>2, <1>3, <2>12, UpdateDoes DEF durable
  <2>13. CASE UpdateArchive(m)
    BY <1>1, <1>3, <2>13, UpdateArchiveDoes DEF process
  <2>14. CASE UpdateSelects(m)
    BY <1>1, <1>2, <2>14, UpdateSelectsDoes DEF Puts
  <2>15. CASE Uninstall(m)
    BY <1>1, <1>2, <1>3, <2>15, UninstallDoes DEF durable
  <2>16. CASE RemoveFiles(m)
    BY <1>1, <1>3, <2>16, RemoveFilesDoes DEF process
  <2>17. CASE Forget(m)
    BY <1>1, <1>2, <1>3, <2>17, ForgetDoes DEF Puts, process, Down, Aside
  <2> QED
    BY <1>6, <2>2, <2>3, <2>4, <2>5, <2>6, <2>7, <2>8, <2>9, <2>10, <2>11, <2>12, <2>13,
       <2>14, <2>15, <2>16, <2>17 DEF Works
<1> QED
  BY <1>4, <1>5, <1>6 DEF Acts

(* The others run as before. *)
LEMMA UpOthers ==
  ASSUME NEW m \in Procs, NEW i \in Ids, Acts(m, i), NEW j \in Ids, j # i
  PROVE  Up(j)' = Up(j) /\ record'[j] = record[j] /\ disk'[j] = disk[j]
BY DEF Acts, Working, Frame, Up, HasLive

(* The end of a start adds an extension that reaches itself nowhere: a set in *)
(* which everything is required has a smaller such set without it.         *)
LEMMA InOrderActs ==
  ASSUME Base, StoppableInOrder, NEW m \in Procs, NEW i \in Ids, Acts(m, i)
  PROVE  StoppableInOrder'
<1> SUFFICES ASSUME NEW S \in SUBSET {j \in Ids : Up(j)'}, S # {}
             PROVE  \E x \in S : \A j \in S : x \notin Requires(j, record'[j].active)
  BY DEF StoppableInOrder, Requires
<1>1. S \subseteq Ids /\ \A j \in S : Up(j)'
  OBVIOUS
<1>2. \A j \in S : j # i => Up(j) /\ record'[j] = record[j]
  BY <1>1, UpOthers
<1>3. CASE i \notin S \/ (Up(i) /\ record'[i] = record[i])
  <2>1. \A j \in S : Up(j) /\ record'[j] = record[j]
    BY <1>2, <1>3
  <2>2. S \in SUBSET {j \in Ids : Up(j)}
    BY <1>1, <2>1
  <2>3. PICK x \in S : \A j \in S : x \notin Requires(j, record[j].active)
    BY <2>2 DEF StoppableInOrder
  <2> QED
    BY <2>1, <2>3
<1>4. CASE i \in S /\ ~(Up(i) /\ record'[i] = record[i])
  <2>1. /\ Provided(i) /\ ~Up(i) /\ record[i].state = "enabled"
        /\ record'[i].active = record[i].active
    BY <1>1, <1>4, UpAfter
  <2>2. ListOk /\ ~Reaches(i, i)
    BY <2>1 DEF Provided, Cyclic
  <2>3. \A j \in S : record[j].state # "none" /\ record'[j].active = record[j].active
    BY <1>2, <2>1 DEF Up
  <2>4. \A j \in S : \A x \in Requires(j, record'[j].active) : x \in Ids /\ <<j, x>> \in Edges
    BY <1>1, <2>2, <2>3, Installs
  <2> SUFFICES ASSUME \A x \in S : \E j \in S : x \in Requires(j, record'[j].active)
               PROVE  FALSE
    OBVIOUS
  <2>5. \A x \in S : \E j \in S : <<j, x>> \in Edges
    BY <2>4
  <2> DEFINE T == {x \in S : x # i /\ ~Reaches(i, x)}
  <2>6. CASE T = {}
    <3>1. PICK j \in S : <<j, i>> \in Edges
      BY <1>4, <2>5
    <3>2. j = i \/ Reaches(i, j)
      BY <2>6
    <3> QED
      BY <1>1, <2>2, <3>1, <3>2, OneEdge, Onwards
  <2>7. CASE T # {}
    <3>1. T \in SUBSET {j \in Ids : Up(j)}
      BY <1>1, <1>2
    <3>2. PICK x \in T : \A j \in T : x \notin Requires(j, record[j].active)
      BY <2>7, <3>1 DEF StoppableInOrder
    <3>3. PICK j \in S : x \in Requires(j, record'[j].active) /\ <<j, x>> \in Edges
      BY <2>4, <3>2
    <3>4. j \notin T
      BY <2>3, <3>2, <3>3
    <3>5. j = i \/ Reaches(i, j)
      BY <3>4
    <3>6. Reaches(i, x)
      BY <1>1, <3>2, <3>3, <3>5, OneEdge, Onwards
    <3> QED
      BY <3>2, <3>6
  <2> QED
    BY <2>6, <2>7
<1> QED
  BY <1>3, <1>4

(* The other steps start nothing. *)
LEMMA UpQuiet ==
  ASSUME Quiet, NEW j \in Ids
  PROVE  Up(j)' = Up(j) /\ record'[j] = record[j]
BY QuietChanges DEF Up, HasLive

(* After a death nothing runs.                                             *)
LEMMA NoneUp ==
  ASSUME Crash, NEW j \in Ids
  PROVE  ~Up(j)'
BY DEF Crash, Up, HasLive

(* Every step keeps the order.                                             *)
LEMMA InOrderKeeps ==
  ASSUME Base, StoppableInOrder, [Next]_vars
  PROVE  StoppableInOrder'
<1>1. CASE Quiet
  <2> SUFFICES ASSUME NEW S \in SUBSET {j \in Ids : Up(j)'}, S # {}
               PROVE  \E x \in S : \A j \in S : x \notin Requires(j, record'[j].active)
    BY DEF StoppableInOrder, Requires
  <2>1. S \in SUBSET {j \in Ids : Up(j)} /\ \A j \in S : record'[j] = record[j]
    BY <1>1, UpQuiet
  <2> QED
    BY <2>1 DEF StoppableInOrder
<1>2. CASE (\E m \in Procs : Works(m)) \/ BootActs
  BY <1>2, Actors, InOrderActs
<1>3. CASE Crash
  <2> SUFFICES ASSUME NEW S \in SUBSET {j \in Ids : Up(j)'}, S # {}
               PROVE  FALSE
    BY DEF StoppableInOrder, Requires
  <2> QED
    BY <1>3, NoneUp
<1> QED
  BY <1>1, <1>2, <1>3, Groups

(* There is always an order.                                               *)
LEMMA InOrderAlways == Spec => []StoppableInOrder
<1>1. Init => StoppableInOrder
  BY DEF Init, StoppableInOrder, Up, HasLive
<1>2. Base /\ StoppableInOrder /\ [Next]_vars => StoppableInOrder'
  BY InOrderKeeps
<1> QED
  BY <1>1, <1>2, Based, PTL DEF Spec

-----------------------------------------------------------------------------
(* Whatever runs finds the versions it requires.                             *)

Mine(m, e) ==
  LET o == op[m]  i == op[m].id IN
  /\ o.pc = "stopped" => o.kind # "disable"
  /\ o.kind \in {"update", "quiet"} /\ o.pc \in {"stopped", "archive", "select"} =>
       Accepts(e, i, o.ver)
  /\ o.first \/ Toward(o, {"rollback"}) => Accepts(e, i, o.old)
  /\ Toward(o, {"rollback"}) => i \in lost
  /\ Removes(o) => Left(m) # {} /\ Accepts(e, i, Highest(Left(m)))

(* What an operation has to answer for, one user of its extension at a time. *)
LEMMA AcceptsMine ==
  ASSUME NEW m \in Procs
  PROVE  AcceptAt(m) <=> \A e \in Ids : Uses(e, op[m].id) => Mine(m, e)
BY DEF AcceptAt, Mine

(* Who has stopped something holds it. *)
LEMMA WasHolds ==
  ASSUME Base, NEW q \in Procs
  PROVE  /\ op[q] \in Operations /\ Placed(op[q])
         /\ op[q].was \/ op[q].first \/ Toward(op[q], {"rollback"}) =>
              /\ Holds(op[q]) /\ op[q].id \in Ids /\ op[q].kind \in Changes
              /\ op[q].pc \in Sections \cup {"lock"}
              /\ op[q].pc = "lock" => Changing(op[q])
<1>1. op[q] \in Operations /\ Placed(op[q])
  BY DEF Base, Control, TypeOK, PlaceInv
<1>2. Toward(op[q], {"rollback"}) => op[q].kind \in {"update", "quiet"}
  BY <1>1, Steps DEF Toward, Placed, Operations, Sections, Requests
<1>3. op[q].was \/ Toward(op[q], {"rollback"}) =>
        op[q].kind \in Changes /\ (op[q].pc = "stopped" \/ Changing(op[q]))
  BY <1>1, <1>2 DEF Placed, Changing, Changes, Toward
<1>4. Changing(op[q]) => op[q].pc \in (Sections \ {"install", "record"}) \cup {"lock"}
                         /\ (op[q].pc = "lock" => op[q].job # "install")
  BY DEF Changing, Toward, Sections, Again
<1>5. op[q].was \/ Toward(op[q], {"rollback"}) => Holds(op[q]) /\ op[q].pc \in Sections \cup {"lock"}
  BY <1>3, <1>4 DEF Holds, Sections
<1>6. op[q].pc \in Sections \cup {"lock"} => op[q].id \in Ids
  BY <1>1 DEF Placed, Resting, Sections
<1> QED
  BY <1>1, <1>3, <1>5, <1>6 DEF Placed

(* What a step has to keep for those that use its extension. *)
FitsOn(m, i, e) ==
  /\ record'[i].state # "none" /\ <<e, record[e].active, i, record'[i].active>> \in Needs
  /\ Up(i)' \/ i \in lost' \/ \E q \in Procs : op'[q].was /\ op'[q].id = i

(* It suffices that the operation, if it stopped the extension, goes on or   *)
(* tells that it failed.                                                     *)
LEMMA FitsOnSo ==
  ASSUME Base, NEW m \in Procs, NEW i \in Ids, Acts(m, i), NEW e \in Ids, e # i, FitAt(e, i),
         record'[i].state # "none", Accepts(e, i, record'[i].active),
         i \in lost' \/ Up(i)' \/ (op'[m].was /\ op'[m].id = i)
           \/ (~op[m].was /\ (Up(i) => Up(i)') /\ (i \in lost => i \in lost'))
  PROVE  FitsOn(m, i, e)
<1>1. \A q \in Procs : q # m => op'[q] = op[q]
  BY DEF Acts, Working, Moves
<1>2. Up(i) \/ i \in lost \/ \E q \in Procs : op[q].was /\ op[q].id = i
  BY DEF FitAt
<1> QED
  BY <1>1, <1>2 DEF FitsOn, Accepts

(* Who came to rest, or waits to do something else, has nothing to answer for. *)
LEMMA AtRest ==
  ASSUME NEW m \in Procs, NEW e,
         op'[m].pc \in {"idle", "next", "gate", "lock", "record", "register", "publish"}, ~op'[m].first,
         ~(op'[m].pc = "lock" /\ op'[m].job = "rollback")
  PROVE  Mine(m, e)'
BY DEF Mine, Toward, Removes

(* An operation that returned has nothing to answer for.                   *)
LEMMA Reposes ==
  ASSUME NEW m \in Procs, NEW i, Returns(m, i), NEW e
  PROVE  Mine(m, e)' /\ ~op'[m].was
BY RestedType, AtRest DEF Returns

(* A failed start was reported, and rolls back to what was accepted. *)
LEMMA FailedFits ==
  ASSUME Base, NEW m \in Procs, NEW i \in Ids, Acts(m, i), NEW e \in Ids, e # i, Mine(m, e),
         Failed(m, i), i \in lost'
  PROVE  Mine(m, e)'
<1>1. CASE Returns(m, i)
  BY <1>1, Reposes
<1>2. CASE Pauses(m, i) /\ op'[m].job = "rollback" /\ op[m].first /\ op'[m].old = op[m].old /\ ~op'[m].first
  <2>1. Accepts(e, op[m].id, op[m].old)
    BY <1>2 DEF Mine
  <2>2. op[m].id = i /\ record'[e] = record[e] /\ op'[m].pc = "lock" /\ op'[m].id = i
    BY <1>2, UpOthers DEF Acts, Pauses, Same
  <2>3. Accepts(e, op[m].id, op[m].old)'
    BY <1>2, <2>1, <2>2 DEF Accepts
  <2> QED
    BY <1>2, <2>2, <2>3 DEF Mine, Toward, Removes
<1>3. CASE Pauses(m, i) /\ op'[m].job = "degraded" /\ ~op'[m].first
  BY <1>3, AtRest DEF Pauses
<1>4. CASE Reopens(m, i) /\ op'[m].job = "degrade" /\ ~op'[m].first
  BY <1>4, AtRest DEF Reopens
<1> QED
  BY <1>1, <1>2, <1>3, <1>4 DEF Failed

(* An operation that starts again what it stopped. *)
LEMMA AgainFits ==
  ASSUME Base, NEW m \in Procs, NEW i \in Ids, Acts(m, i), NEW e \in Ids, e # i, Mine(m, e),
         StartsAgain(m, i), op'[m].first => op[m].first
  PROVE  Mine(m, e)' /\ op'[m].was /\ op'[m].id = i
<1>1. op[m].id = i /\ record'[e] = record[e] /\ op'[m].pc = "lock" /\ op'[m].id = i
      /\ op'[m].job = "start" /\ op'[m].old = op[m].old /\ op'[m].was
  BY UpOthers DEF Acts, StartsAgain, Pauses, Same
<1>2. op'[m].first => Accepts(e, op[m].id, op[m].old)'
  BY <1>1 DEF Mine, Accepts
<1> QED
  BY <1>1, <1>2 DEF Mine, Toward, Removes

(* The extension goes on as it was. *)
LEMMA GoesOnFits ==
  ASSUME Base, NEW m \in Procs, NEW i \in Ids, Acts(m, i), NEW e \in Ids, e # i, Mine(m, e),
         NEW pc \in {"record", "register", "publish"}, GoesOn(m, i, pc)
  PROVE  Mine(m, e)' /\ op'[m].was = op[m].was /\ op'[m].id = i
<1>1. op[m].id = i /\ record'[e] = record[e] /\ op'[m].pc = pc /\ op'[m].id = i
      /\ op'[m].old = op[m].old /\ op'[m].was = op[m].was /\ op'[m].first = op[m].first
  BY UpOthers DEF Acts, GoesOn, Onto, Turned
<1>2. op'[m].first => Accepts(e, op[m].id, op[m].old)'
  BY <1>1 DEF Mine, Accepts
<1> QED
  BY <1>1, <1>2 DEF Mine, Toward, Removes
(* The other extensions have an installed version while one is changed. *)
LEMMA OthersActs ==
  ASSUME Base, NEW m \in Procs, NEW i \in Ids, Acts(m, i), OthersAt(m)
  PROVE  OthersAt(m)'
<1> DEFINE Stops == {"stopped", "archive", "select", "files", "forget"}
<1>1. Control /\ State /\ BootInv /\ op[m].id = i /\ Placed(op'[m])
  BY DEF Base, Acts, Working, Moves
<1> SUFFICES ASSUME op'[m].was, op'[m].pc \in Stops
             PROVE  \A j \in Ids \ {op'[m].id} : Listed(j)'
  BY DEF OthersAt
<1>2. op'[m].id = i /\ Continues(m, i)
  BY <1>1, RestedType DEF Acts, Working, Moves, Continues, Pauses, Reopens, Returns, Same
<1>3. op'[m].kind \in Changes
  BY <1>1 DEF Placed
<1>4. ListOk \/ (op[m].was /\ op[m].pc \in Stops) =>
        \A j \in Ids \ {i} : Listed(j)
  BY <1>1 DEF OthersAt, ListOk, Listed
<1>5. (\A j \in Ids \ {i} : Listed(j)) => \A j \in Ids \ {i} : Listed(j)'
  BY UpOthers, ListedSame
<1>6. /\ ~GoesOn(m, i, "record") /\ ~GoesOn(m, i, "register") /\ ~GoesOn(m, i, "publish")
      /\ GoesOn(m, i, "archive") \/ GoesOn(m, i, "files") \/ GoesOn(m, i, "select")
           \/ GoesOn(m, i, "forget") => op[m].was
  BY DEF GoesOn, Onto, Turned
<1>7. ~Returns(m, i) /\ ~Pauses(m, i) /\ ~Reopens(m, i)
  BY RestedType DEF Returns, Pauses, Reopens
<1>8. ~Failed(m, i) /\ ~StartsAgain(m, i)
  BY <1>7 DEF Failed, StartsAgain
<1>9. CASE m = Boot /\ BootActs
  BY <1>1, <1>7, <1>9, BootClearsDoes, BootDegradesDoes DEF BootActs
<1>10. CASE Install(m) \/ InstallRecords(m) \/ Enable(m)
  BY <1>1, <1>6, <1>7, <1>10, InstallDoes, InstallRecordsDoes, EnableDoes
<1>11. CASE StartRefused(m) \/ Start(m) \/ Register(m) \/ Publish(m)
  <2>1. ~StartRefused(m) /\ ~Publish(m)
    BY <1>1, <1>7, <1>8, StartRefusedDoes, PublishDoes
  <2>2. CASE Start(m)
    BY <1>1, <1>6, <1>8, <2>2, StartDoes
  <2>3. CASE Register(m)
    BY <1>1, <1>6, <1>8, <2>3, RegisterDoes
  <2> QED
    BY <1>11, <2>1, <2>2, <2>3
<1>12. CASE RollBackVersion(m) \/ Degrade(m)
  BY <1>1, <1>7, <1>8, <1>12, RollBackVersionDoes, DegradeDoes
<1>13. CASE Disable(m)
  BY <1>1, <1>2, <1>3, <1>7, <1>13, DisableDoes DEF Continues, Same, Changes
<1>14. CASE Unregister(m)
  <2>1. op[m].pc = "stopped" /\ op[m].was
    BY <1>1, <1>6, <1>7, <1>14, UnregisterDoes DEF Unregister
  <2> QED
    BY <1>2, <1>4, <1>5, <2>1
<1>15. CASE Update(m)
  BY <1>1, <1>2, <1>4, <1>5, <1>7, <1>15, UpdateDoes DEF MayBecome
<1>16. CASE UpdateArchive(m)
  <2>1. op[m].pc = "archive" /\ op[m].was
    BY <1>1, <1>6, <1>7, <1>8, <1>16, UpdateArchiveDoes DEF UpdateArchive
  <2> QED
    BY <1>2, <1>4, <1>5, <2>1
<1>17. CASE UpdateSelects(m)
  BY <1>1, <1>7, <1>8, <1>17, UpdateSelectsDoes
<1>18. CASE Uninstall(m)
  BY <1>1, <1>2, <1>4, <1>5, <1>7, <1>18, UninstallDoes DEF MayBecome
<1>19. CASE RemoveFiles(m)
  <2>1. op[m].pc = "files" /\ op[m].was
    BY <1>1, <1>6, <1>7, <1>8, <1>19, RemoveFilesDoes DEF RemoveFiles
  <2> QED
    BY <1>2, <1>4, <1>5, <2>1
<1>20. CASE Forget(m)
  BY <1>1, <1>7, <1>8, <1>20, ForgetDoes
<1> QED
  BY <1>9, <1>10, <1>11, <1>12, <1>13, <1>14, <1>15, <1>16, <1>17, <1>18, <1>19, <1>20
     DEF Acts, Works

(* The refresh succeeds when the other extensions have an installed version. *)
LEMMA RefreshesSo ==
  ASSUME NEW m \in Procs, NEW i \in Ids, Acts(m, i), OthersAt(m), op[m].was,
         op[m].pc \in {"stopped", "archive", "select", "files", "forget"},
         disk' = disk, disk[i] # {} => record'[i].active \in disk[i]
  PROVE  RefreshOk(disk, record')
<1> SUFFICES ASSUME NEW j \in Ids, disk[j] # {}, record'[j].state # "none"
             PROVE  record'[j].active \in disk[j]
  BY DEF RefreshOk
<1>1. CASE j = i
  BY <1>1
<1>2. CASE j # i
  <2>1. Listed(j) /\ record'[j] = record[j]
    BY <1>2, UpOthers DEF OthersAt, Acts
  <2> QED
    BY <2>1 DEF Listed, Readable, Record
<1> QED
  BY <1>1, <1>2

(* An operation that gives up what it stopped tells so. *)
LEMMA RestoreStarts ==
  ASSUME NEW m \in Procs, NEW i, op \in [Procs -> Operations], Restore(m), Returns(m, i)
  PROVE  ~op[m].was
<1> SUFFICES ASSUME op[m].was PROVE FALSE
  OBVIOUS
<1>1. op' = [op EXCEPT ![m] = [Section(m, "start") EXCEPT !.first = FALSE]]
  BY DEF Restore
<1>2. op'[m] = Turned(op[m], "lock", "start", op[m].was, op[m].old, FALSE, op[m].err)
  BY <1>1, Sectioned
<1>3. op'[m].pc = "lock"
  BY <1>2 DEF Turned
<1> QED
  BY <1>3, RestedType DEF Returns

-----------------------------------------------------------------------------
(* Each step keeps what those that use its extension rely on.                *)

User(m, i, e) ==
  e \in Ids /\ e # i /\ Uses(e, i) /\ FitAt(e, i) /\ Mine(m, e) /\ OthersAt(m)
Serves(m, i, e) == FitsOn(m, i, e) /\ Mine(m, e)'

(* What is known at every step. *)
LEMMA UserHas ==
  ASSUME Base, NEW m \in Procs, NEW i \in Ids, Acts(m, i), NEW e, User(m, i, e)
  PROVE  /\ e \in Ids /\ e # i /\ FitAt(e, i) /\ Mine(m, e) /\ op[m].id = i
         /\ Control /\ State /\ BootInv
         /\ record[i].state # "none" /\ Accepts(e, i, record[i].active) /\ Record(i) = record[i]
         /\ record'[e] = record[e]
         /\ \A v : Accepts(e, i, v)' <=> Accepts(e, i, v)
         /\ op[m] \in Operations /\ Placed(op[m]) /\ (op[m].was => Holds(op[m]))
<1>1. op[m].id = i /\ e \in Ids /\ e # i /\ FitAt(e, i) /\ Mine(m, e) /\ Control /\ State /\ BootInv
  BY DEF User, Acts, Base
<1>2. record[i].state # "none" /\ Accepts(e, i, record[i].active)
  BY <1>1 DEF FitAt
<1>3. record'[e] = record[e]
  BY <1>1, UpOthers
<1>4. \A v : Accepts(e, i, v)' <=> Accepts(e, i, v)
  BY <1>3 DEF Accepts
<1> QED
  BY <1>1, <1>2, <1>3, <1>4, WasHolds DEF Record

(* The steps of a start.                                                   *)
LEMMA ServesStarts ==
  ASSUME Base, NEW m \in Procs, NEW i \in Ids, Acts(m, i), NEW e, User(m, i, e),
         StartRefused(m) \/ Start(m) \/ Register(m) \/ Publish(m)
  PROVE  Serves(m, i, e)
<1>1. /\ e \in Ids /\ e # i /\ FitAt(e, i) /\ Mine(m, e) /\ op[m].id = i /\ Control /\ State
      /\ record[i].state # "none" /\ Accepts(e, i, record[i].active)
  BY UserHas
<1>2. CASE StartRefused(m)
  <2>1. Failed(m, i) /\ i \in lost' /\ record'[i].state # "none" /\ record'[i].active = record[i].active
    BY <1>1, <1>2, StartRefusedDoes DEF Puts
  <2> QED
    BY <1>1, <2>1, FailedFits, FitsOnSo DEF Serves
<1>3. CASE Start(m)
  <2>1. /\ record[i].state = "enabled" /\ record'[i].state # "none"
        /\ record'[i].active = record[i].active
        /\ (Failed(m, i) /\ i \in lost') \/ (GoesOn(m, i, "register") /\ lost' = lost)
    BY <1>1, <1>3, StartDoes DEF Puts
  <2>2. ~Up(i)
    BY <2>1 DEF Up
  <2>3. CASE Failed(m, i) /\ i \in lost'
    BY <1>1, <2>1, <2>3, FailedFits, FitsOnSo DEF Serves
  <2>4. CASE GoesOn(m, i, "register") /\ lost' = lost
    <3>1. Mine(m, e)' /\ op'[m].was = op[m].was /\ op'[m].id = i
      BY <1>1, <2>4, GoesOnFits
    <3>2. op[m].was \in BOOLEAN
      BY UserHas DEF Operations
    <3> QED
      BY <1>1, <2>1, <2>2, <2>4, <3>1, <3>2, FitsOnSo DEF Serves
  <2> QED
    BY <2>1, <2>3, <2>4
<1>4. CASE Register(m)
  <2>1. /\ record[i].state = "enabled" /\ record'[i].state # "none"
        /\ record'[i].active = record[i].active
        /\ (Failed(m, i) /\ i \in lost') \/ (GoesOn(m, i, "publish") /\ lost' = lost)
    BY <1>1, <1>4, RegisterDoes DEF Puts
  <2>2. ~Up(i)
    BY <2>1 DEF Up
  <2>3. CASE Failed(m, i) /\ i \in lost'
    BY <1>1, <2>1, <2>3, FailedFits, FitsOnSo DEF Serves
  <2>4. CASE GoesOn(m, i, "publish") /\ lost' = lost
    <3>1. Mine(m, e)' /\ op'[m].was = op[m].was /\ op'[m].id = i
      BY <1>1, <2>4, GoesOnFits
    <3>2. op[m].was \in BOOLEAN
      BY UserHas DEF Operations
    <3> QED
      BY <1>1, <2>1, <2>2, <2>4, <3>1, <3>2, FitsOnSo DEF Serves
  <2> QED
    BY <2>1, <2>3, <2>4
<1>5. CASE Publish(m)
  <2>1. /\ record'[i].state # "none" /\ record'[i].active = record[i].active
        /\ (Failed(m, i) /\ i \in lost') \/ (Returns(m, i) /\ Up(i)')
    BY <1>1, <1>5, PublishDoes DEF Puts
  <2>2. CASE Failed(m, i) /\ i \in lost'
    BY <1>1, <2>1, <2>2, FailedFits, FitsOnSo DEF Serves
  <2>3. CASE Returns(m, i) /\ Up(i)'
    BY <1>1, <2>1, <2>3, Reposes, FitsOnSo DEF Serves
  <2> QED
    BY <2>1, <2>2, <2>3
<1> QED
  BY <1>2, <1>3, <1>4, <1>5

(* Those of an installation, an enabling and a disabling.                  *)
LEMMA ServesOthers ==
  ASSUME Base, NEW m \in Procs, NEW i \in Ids, Acts(m, i), NEW e, User(m, i, e),
         Install(m) \/ InstallRecords(m) \/ Enable(m) \/ Degrade(m) \/ Disable(m)
           \/ (m = Boot /\ BootActs)
  PROVE  Serves(m, i, e)
<1>1. /\ e \in Ids /\ e # i /\ FitAt(e, i) /\ Mine(m, e) /\ op[m].id = i
      /\ Control /\ State /\ BootInv
      /\ record[i].state # "none" /\ Accepts(e, i, record[i].active) /\ Record(i) = record[i]
      /\ op[m] \in Operations /\ Placed(op[m]) /\ (op[m].was => Holds(op[m]))
  BY UserHas
<1>2. op[m].pc \in Sections
  BY DEF Acts
<1>3. ~op[m].was
  <2>1. CASE m = Boot /\ BootActs
    <3>1. op[m].kind = "reconcile"
      BY <1>1, <2>1, BootClearsDoes, BootDegradesDoes DEF BootActs
    <3> QED
      BY <1>1, <3>1 DEF Placed, Changes
  <2>2. CASE ~(m = Boot /\ BootActs)
    <3>1. op[m].pc \in {"install", "record", "enable", "degrade", "disable"}
      BY <2>2 DEF Install, InstallRecords, Enable, Degrade, Disable, At
    <3>2. op[m].kind \notin Changes
      BY <1>1, <1>2, <3>1, KindsAt DEF Changes
    <3> QED
      BY <1>1, <3>2 DEF Placed
  <2> QED
    BY <2>1, <2>2
<1>4. op[m].first = FALSE
  BY <1>1, <1>3 DEF Placed, Operations
<1>5. ASSUME lost' = lost, record'[i].state # "none", record'[i].active = record[i].active,
             Up(i) => Up(i)'
      PROVE  FitsOn(m, i, e)
  BY <1>1, <1>3, <1>5, FitsOnSo
<1>6. ASSUME record'[i] = record[i], UNCHANGED <<live, inst>> PROVE Up(i) => Up(i)'
  BY <1>6 DEF Up, HasLive
<1>7. CASE Install(m)
  <2>1. Returns(m, i) \/ GoesOn(m, i, "record")
    BY <1>1, <1>7, InstallDoes
  <2>2. UNCHANGED <<record, process, lost>>
    BY <1>1, <1>7, InstallDoes
  <2>3. Mine(m, e)'
    BY <1>1, <2>1, Reposes, GoesOnFits
  <2> QED
    BY <1>1, <1>5, <1>6, <2>2, <2>3 DEF Serves, process
<1>8. CASE InstallRecords(m)
  <2>1. Returns(m, i) \/ (Reopens(m, i) /\ op'[m].job = "enable" /\ ~op'[m].first)
    BY <1>1, <1>8, InstallRecordsDoes
  <2>2. UNCHANGED <<record, process, lost>>
    BY <1>1, <1>8, InstallRecordsDoes
  <2>3. Mine(m, e)'
    BY <2>1, Reposes, AtRest DEF Reopens
  <2> QED
    BY <1>1, <1>5, <1>6, <2>2, <2>3 DEF Serves, process
<1>9. CASE Enable(m)
  <2>1. Returns(m, i) \/ (Reopens(m, i) /\ op'[m].job = "start" /\ ~op'[m].first)
    BY <1>1, <1>9, EnableDoes
  <2>2. UNCHANGED <<process, lost>>
    BY <1>1, <1>9, EnableDoes
  <2>3. record' = record \/ (i \notin live /\ record'[i].state # "none" /\ record'[i].active = record[i].active)
    BY <1>1, <1>9, EnableDoes DEF Puts
  <2>4. Mine(m, e)'
    BY <2>1, Reposes, AtRest DEF Reopens
  <2>5. Up(i) => Up(i)'
    BY <1>6, <2>2, <2>3 DEF Up, HasLive, process
  <2> QED
    BY <1>1, <1>5, <2>2, <2>3, <2>4, <2>5 DEF Serves
<1>10. CASE Degrade(m)
  <2>1. Returns(m, i) /\ UNCHANGED <<process, lost>>
    BY <1>1, <1>10, DegradeDoes
  <2>2. record' = record \/ (record[i].state # "running" /\ record'[i].state # "none" /\ record'[i].active = record[i].active)
    BY <1>1, <1>10, DegradeDoes DEF Puts
  <2>3. Up(i) => Up(i)'
    BY <1>6, <2>1, <2>2 DEF Up, process
  <2> QED
    BY <1>1, <1>5, <2>1, <2>2, <2>3, Reposes DEF Serves
<1>11. CASE Disable(m)
  <2>1. ~MayBecome(i, 0)
    BY <1>1 DEF MayBecome, Dependents, User, Uses
  <2>2. Returns(m, i) /\ UNCHANGED <<live, inst>> /\ UNCHANGED <<durable, runner, lost>>
    BY <1>1, <1>11, <2>1, DisableDoes
  <2> QED
    BY <1>1, <1>5, <1>6, <2>2, Reposes DEF Serves, durable
<1>12. CASE m = Boot /\ BootActs
  <2>1. /\ lost' = lost /\ i \notin live /\ record'[i].state # "none" /\ record'[i].active = record[i].active
        /\ Returns(m, i) \/ (Pauses(m, i) /\ op'[m].job = "start" /\ ~op'[m].first)
    BY <1>1, <1>12, BootClearsDoes, BootDegradesDoes DEF BootActs, Puts
  <2>2. ~Up(i)
    BY <2>1 DEF Up, HasLive
  <2>3. Mine(m, e)'
    BY <2>1, Reposes, AtRest DEF Pauses
  <2> QED
    BY <1>5, <2>1, <2>2, <2>3 DEF Serves
<1> QED
  BY <1>7, <1>8, <1>9, <1>10, <1>11, <1>12
(* An update or a removal that returns here restored nothing.              *)
LEMMA UpdateArchiveRestores ==
  ASSUME op \in [Procs -> Operations], NEW m \in Procs, NEW i, UpdateArchive(m), Returns(m, i)
  PROVE  Restore(m)
<1>1. ~Go(m, "select")
  <2>1. ASSUME Go(m, "select") PROVE op'[m].pc = "select"
    <3>1. op'[m] = Onto(op[m], "select")
      BY <2>1, GoTurns DEF Sections
    <3> QED
      BY <3>1 DEF Onto, Turned
  <2> QED
    BY <2>1, RestedType DEF Returns
<1> QED
  BY <1>1 DEF UpdateArchive

(* The same for a removal.                                                 *)
LEMMA RemoveFilesRestores ==
  ASSUME op \in [Procs -> Operations], NEW m \in Procs, NEW i, RemoveFiles(m), Returns(m, i)
  PROVE  Restore(m)
<1>1. ~Go(m, "forget")
  <2>1. ASSUME Go(m, "forget") PROVE op'[m].pc = "forget"
    <3>1. op'[m] = Onto(op[m], "forget")
      BY <2>1, GoTurns DEF Sections
    <3> QED
      BY <3>1 DEF Onto, Turned
  <2> QED
    BY <2>1, RestedType DEF Returns
<1> QED
  BY <1>1 DEF RemoveFiles

(* The steps of an update.                                                 *)
LEMMA ServesUpdates ==
  ASSUME Base, NEW m \in Procs, NEW i \in Ids, Acts(m, i), NEW e, User(m, i, e),
         RollBackVersion(m) \/ Update(m) \/ UpdateArchive(m) \/ UpdateSelects(m)
  PROVE  Serves(m, i, e)
<1>1. /\ e \in Ids /\ e # i /\ FitAt(e, i) /\ Mine(m, e) /\ op[m].id = i
      /\ Control /\ State
      /\ record[i].state # "none" /\ Accepts(e, i, record[i].active) /\ Record(i) = record[i]
      /\ record'[e] = record[e]
      /\ op[m] \in Operations /\ Placed(op[m])
  BY UserHas
<1>2. OthersAt(m)
  BY DEF User
<1>3. ASSUME record'[i] = record[i], UNCHANGED <<live, inst>> PROVE Up(i)' = Up(i)
  BY <1>3 DEF Up, HasLive
<1>4. CASE RollBackVersion(m)
  <2>1. Toward(op[m], {"rollback"})
    BY <1>4 DEF RollBackVersion, Toward, At
  <2>2. i \in lost /\ Accepts(e, i, op[m].old)
    BY <1>1, <2>1 DEF Mine
  <2>3. /\ lost' = lost /\ record'[i].state # "none"
        /\ record'[i].active \in {record[i].active, op[m].old}
        /\ Returns(m, i) \/ (StartsAgain(m, i) /\ op'[m].first = op[m].first)
    BY <1>1, <1>4, RollBackVersionDoes DEF Puts
  <2>4. Mine(m, e)'
    BY <1>1, <2>3, Reposes, AgainFits
  <2> QED
    BY <1>1, <2>2, <2>3, <2>4, FitsOnSo DEF Serves
<1>5. CASE Update(m)
  <2>1. op[m].kind \in {"update", "quiet"} /\ op[m].pc = op[m].kind
    BY <1>1, <1>5, UpdateDoes
  <2>2. ~op[m].was
    BY <1>1, <2>1 DEF Placed, Changing, Toward, Again
  <2>3. UNCHANGED <<durable, runner, lost>>
    BY <1>1, <1>5, UpdateDoes
  <2>4. CASE Returns(m, i) /\ UNCHANGED <<live, inst>>
    BY <1>1, <1>3, <2>2, <2>3, <2>4, Reposes, FitsOnSo DEF Serves, durable
  <2>5. CASE /\ MayBecome(i, op[m].ver) /\ Continues(m, i)
             /\ op'[m].was = (Record(i).state = "running") /\ op'[m].first = op'[m].was
             /\ op'[m].old = Record(i).active
             /\ op'[m].pc = IF op'[m].was THEN "stopped" ELSE "archive"
    <3>1. op'[m].kind = op[m].kind /\ op'[m].id = i /\ op'[m].ver = op[m].ver
      BY <1>1, <2>5 DEF Continues, Same
    <3>2. Accepts(e, i, op[m].ver)
      BY <1>1, <2>5 DEF MayBecome, Dependents, User, Uses
    <3>3. Accepts(e, i, op[m].ver)' /\ Accepts(e, i, op[m].old)'
      BY <1>1, <2>5, <3>1, <3>2 DEF Accepts
    <3>4. op'[m].kind \in {"update", "quiet"} /\ op'[m].pc \in {"stopped", "archive"}
      BY <2>1, <2>5, <3>1
    <3>5. Mine(m, e)'
      BY <1>1, <2>5, <3>1, <3>3, <3>4 DEF Mine, Toward, Removes
    <3>6. Up(i) => op'[m].was
      BY <1>1, <2>5 DEF Up
    <3> QED
      BY <1>1, <2>2, <2>3, <3>1, <3>5, <3>6, FitsOnSo DEF Serves, durable
  <2> QED
    BY <1>1, <1>5, <2>4, <2>5, UpdateDoes
<1>6. CASE UpdateArchive(m)
  <2>1. /\ op[m].kind \in {"update", "quiet"} /\ op[m].pc = "archive"
        /\ UNCHANGED <<record, process, lost>>
    BY <1>1, <1>6, UpdateArchiveDoes DEF UpdateArchive, At
  <2>2. Up(i)' = Up(i) /\ record'[i] = record[i] /\ lost' = lost
    BY <1>3, <2>1 DEF process
  <2>3. CASE GoesOn(m, i, "select")
    <3>1. /\ op'[m].kind = op[m].kind /\ op'[m].id = i /\ op'[m].ver = op[m].ver
          /\ op'[m].pc = "select" /\ op'[m].was = op[m].was /\ op'[m].first = op[m].first
          /\ op'[m].old = op[m].old
      BY <1>1, <2>3 DEF GoesOn, Onto, Turned
    <3>2. Accepts(e, i, op[m].ver) /\ (op[m].first => Accepts(e, i, op[m].old))
      BY <1>1, <2>1 DEF Mine
    <3>3. Accepts(e, i, op[m].ver)' /\ (op[m].first => Accepts(e, i, op[m].old)')
      BY <1>1, <3>1, <3>2 DEF Accepts
    <3>4. Mine(m, e)'
      BY <2>1, <3>1, <3>3 DEF Mine, Toward, Removes
    <3>5. op[m].was \in BOOLEAN
      BY <1>1 DEF Operations
    <3> QED
      BY <1>1, <2>2, <3>1, <3>4, <3>5, FitsOnSo DEF Serves
  <2>4. CASE StartsAgain(m, i) /\ ~op'[m].first
    <3>1. Mine(m, e)' /\ op'[m].was /\ op'[m].id = i
      BY <1>1, <2>4, AgainFits
    <3> QED
      BY <1>1, <2>2, <3>1, FitsOnSo DEF Serves
  <2>5. CASE Returns(m, i) /\ ~GoesOn(m, i, "select")
    <3>1. ~op[m].was
      <4>1. Restore(m)
        BY <1>1, <1>6, <2>5, UpdateArchiveRestores DEF Control, TypeOK
      <4> QED
        BY <1>1, <2>5, <4>1, RestoreStarts DEF Control, TypeOK
    <3> QED
      BY <1>1, <2>2, <2>5, <3>1, Reposes, FitsOnSo DEF Serves
  <2> QED
    BY <1>1, <1>6, <2>3, <2>4, <2>5, UpdateArchiveDoes
<1>7. CASE UpdateSelects(m)
  <2>1. /\ op[m].kind \in {"update", "quiet"} /\ op[m].pc = "select" /\ op[m].ver \in disk[i]
        /\ disk' = disk /\ lost' = lost /\ Down(i)
        /\ record'[i].state # "none" /\ record'[i].active = op[m].ver
        /\ Returns(m, i) \/ (StartsAgain(m, i) /\ op'[m].first = op[m].first)
        /\ op[m].was => ~Returns(m, i) \/ ~RefreshOk(disk, record')
    <3>1. op[m].pc = "select"
      BY <1>7 DEF UpdateSelects, At
    <3>2. record'[i].state # "none" /\ record'[i].active = op[m].ver
      BY <1>1, <1>7, UpdateSelectsDoes DEF Puts
    <3> QED
      BY <1>1, <1>7, <3>1, <3>2, UpdateSelectsDoes
  <2>2. Accepts(e, i, record'[i].active)
    BY <1>1, <2>1 DEF Mine
  <2>3. ~Up(i)
    BY <2>1 DEF Up, Down
  <2>4. op[m].was => ~Returns(m, i)
    BY <1>2, <2>1, RefreshesSo
  <2>5. CASE Returns(m, i)
    BY <1>1, <2>1, <2>2, <2>3, <2>4, <2>5, Reposes, FitsOnSo DEF Serves
  <2>6. CASE StartsAgain(m, i) /\ op'[m].first = op[m].first
    <3>1. Mine(m, e)' /\ op'[m].was /\ op'[m].id = i
      BY <1>1, <2>6, AgainFits
    <3> QED
      BY <1>1, <2>1, <2>2, <3>1, FitsOnSo DEF Serves
  <2> QED
    BY <2>1, <2>5, <2>6
<1> QED
  BY <1>4, <1>5, <1>6, <1>7
(* The runners are unregistered.                                           *)
LEMMA ServesUnregister ==
  ASSUME Base, NEW m \in Procs, NEW i \in Ids, Acts(m, i), NEW e, User(m, i, e), Unregister(m)
  PROVE  Serves(m, i, e)
<1>1. /\ e \in Ids /\ e # i /\ FitAt(e, i) /\ Mine(m, e) /\ op[m].id = i
      /\ Control /\ State /\ record'[e] = record[e]
      /\ record[i].state # "none" /\ Accepts(e, i, record[i].active) /\ Record(i) = record[i]
      /\ op[m] \in Operations /\ Placed(op[m])
  BY UserHas
<1>2. OthersAt(m) /\ op[m].pc = "stopped"
  BY DEF User, Unregister, At
<1>3. op[m].kind # "disable"
  BY <1>1, <1>2 DEF Mine
<1>4. op[m].was
  <2>1. op[m].pc \in Sections
    BY DEF Acts
  <2>2. op[m].kind \in Changes
    BY <1>1, <1>2, <1>3, <2>1, KindsAt
  <2> QED
    BY <1>1, <1>2, <2>2 DEF Placed, Toward
<1>5. disk' = disk /\ record'[i].state # "none" /\ record'[i].active = record[i].active
  BY <1>1, UnregisterDoes DEF Puts
<1>6. RefreshOk(disk, record')
  <2>1. Readable(i)
    BY <1>1, <1>2 DEF State, WorkInv, WorkAt, StoppedAt
  <2> QED
    BY <1>1, <1>2, <1>4, <1>5, <2>1, RefreshesSo DEF Readable
<1>7. CASE Returns(m, i) /\ lost' = lost \cup {i}
  BY <1>1, <1>5, <1>7, Reposes, FitsOnSo DEF Serves
<1>8. CASE GoesOn(m, i, "archive") /\ op[m].kind \in {"update", "quiet"}
  <2>1. /\ op'[m].kind = op[m].kind /\ op'[m].id = i /\ op'[m].ver = op[m].ver
        /\ op'[m].pc = "archive" /\ op'[m].was = op[m].was /\ op'[m].first = op[m].first
        /\ op'[m].old = op[m].old
    BY <1>1, <1>8 DEF GoesOn, Onto, Turned
  <2>2. Accepts(e, i, op[m].ver) /\ (op[m].first => Accepts(e, i, op[m].old))
    BY <1>1, <1>2, <1>8 DEF Mine
  <2>3. Accepts(e, i, op[m].ver)' /\ (op[m].first => Accepts(e, i, op[m].old)')
    BY <1>1, <2>1, <2>2 DEF Accepts
  <2>4. Mine(m, e)'
    BY <1>8, <2>1, <2>3 DEF Mine, Toward, Removes
  <2> QED
    BY <1>1, <1>4, <1>5, <2>1, <2>4, FitsOnSo DEF Serves
<1>9. CASE GoesOn(m, i, "files") /\ op[m].kind \in {"uninstall", "remove"}
  <2>1. /\ op'[m].kind = op[m].kind /\ op'[m].id = i /\ op'[m].ver = op[m].ver
        /\ op'[m].pc = "files" /\ op'[m].was = op[m].was /\ op'[m].first = op[m].first
        /\ op'[m].old = op[m].old
    BY <1>1, <1>9 DEF GoesOn, Onto, Turned
  <2>2. Removes(op[m])
    BY <1>2, <1>4, <1>9 DEF Removes
  <2>3. Left(m)' = Left(m)
    BY <1>1, <1>2, <1>5, <2>1 DEF Left, Remaining, Leaving
  <2>4. Left(m)' # {} /\ Accepts(e, i, Highest(Left(m)))'
    BY <1>1, <2>1, <2>2, <2>3 DEF Mine, Accepts, Highest
  <2>5. op[m].first => Accepts(e, i, op[m].old)'
    BY <1>1, <2>1 DEF Mine, Accepts
  <2>6. Mine(m, e)'
    BY <1>9, <2>1, <2>4, <2>5 DEF Mine, Toward
  <2> QED
    BY <1>1, <1>4, <1>5, <2>1, <2>6, FitsOnSo DEF Serves
<1> QED
  BY <1>1, <1>3, <1>6, <1>7, <1>8, <1>9, UnregisterDoes

(* A removal begins: what is left was accepted.                            *)
LEMMA ServesUninstall ==
  ASSUME Base, NEW m \in Procs, NEW i \in Ids, Acts(m, i), NEW e, User(m, i, e), Uninstall(m)
  PROVE  Serves(m, i, e)
<1>1. /\ e \in Ids /\ e # i /\ FitAt(e, i) /\ Mine(m, e) /\ op[m].id = i
      /\ Control /\ State /\ record'[e] = record[e]
      /\ record[i].state # "none" /\ Accepts(e, i, record[i].active) /\ Record(i) = record[i]
      /\ op[m] \in Operations /\ Placed(op[m])
  BY UserHas
<1>2. op[m].kind \in {"uninstall", "remove"} /\ op[m].pc = op[m].kind
  BY <1>1, UninstallDoes DEF Uninstall, At
<1>3. ~op[m].was /\ ~op[m].first
  BY <1>1, <1>2 DEF Placed, Changing, Toward, Again
<1>4. UNCHANGED <<durable, runner, lost>>
  BY <1>1, UninstallDoes
<1>5. CASE Returns(m, i) /\ UNCHANGED <<live, inst>>
  <2>1. Up(i) => Up(i)'
    BY <1>4, <1>5 DEF Up, HasLive, durable
  <2> QED
    BY <1>1, <1>3, <1>4, <1>5, <2>1, Reposes, FitsOnSo DEF Serves, durable
<1>6. CASE /\ Continues(m, i) /\ (Active(m, i) => MayBecome(i, NextOf(m)))
           /\ op'[m].first = op[m].first
           /\ \/ op'[m].pc = "stopped" /\ op'[m].was /\ Active(m, i)
              \/ op'[m].pc = "files" /\ ~op'[m].was /\ UNCHANGED <<live, inst>>
  <2>1. op'[m].kind = op[m].kind /\ op'[m].id = i /\ op'[m].ver = op[m].ver
    BY <1>1, <1>6 DEF Continues, Same
  <2>2. Removes(op[m])' => Active(m, i)
    BY <1>1, <1>4, <1>6, <2>1 DEF Removes, Active, durable
  <2>3. Left(m)' = Remaining(m)
    BY <1>1, <1>4, <1>6, <2>1 DEF Left, Remaining, Leaving, durable
  <2>4. Active(m, i) => NextOf(m) # 0 /\ Accepts(e, i, NextOf(m))
    BY <1>1, <1>6 DEF MayBecome, Dependents, User, Uses
  <2>5. Active(m, i) => Remaining(m) # {} /\ Accepts(e, i, Highest(Remaining(m)))
    BY <2>4 DEF NextOf
  <2>6. Removes(op[m])' => Left(m)' # {} /\ Accepts(e, i, Highest(Left(m)))'
    BY <1>1, <2>2, <2>3, <2>5 DEF Accepts, Highest
  <2>7. op'[m].kind \notin {"update", "quiet", "disable"} /\ op'[m].pc \in {"stopped", "files"}
    BY <1>2, <1>6, <2>1
  <2>8. Mine(m, e)'
    BY <1>3, <1>6, <2>1, <2>6, <2>7 DEF Mine, Toward
  <2>9. op'[m].was \/ UNCHANGED <<live, inst>>
    BY <1>6
  <2>10. UNCHANGED <<live, inst>> => (Up(i) => Up(i)')
    BY <1>4 DEF Up, HasLive, durable
  <2> QED
    BY <1>1, <1>3, <1>4, <2>1, <2>8, <2>9, <2>10, FitsOnSo DEF Serves, durable
<1> QED
  BY <1>1, <1>5, <1>6, UninstallDoes

(* The files are removed.                                                  *)
LEMMA ServesRemoveFiles ==
  ASSUME Base, NEW m \in Procs, NEW i \in Ids, Acts(m, i), NEW e, User(m, i, e), RemoveFiles(m)
  PROVE  Serves(m, i, e)
<1>1. /\ e \in Ids /\ e # i /\ FitAt(e, i) /\ Mine(m, e) /\ op[m].id = i
      /\ Control /\ State /\ record'[e] = record[e]
      /\ record[i].state # "none" /\ Accepts(e, i, record[i].active)
      /\ op[m] \in Operations /\ Placed(op[m])
  BY UserHas
<1>2. /\ op[m].kind \in {"uninstall", "remove"} /\ UNCHANGED <<record, process, lost>>
  BY <1>1, RemoveFilesDoes
<1>3. op[m].pc = "files"
  BY DEF RemoveFiles, At
<1>4. Up(i)' = Up(i) /\ record'[i] = record[i] /\ lost' = lost /\ op[m].was \in BOOLEAN
  BY <1>1, <1>2 DEF process, Up, HasLive, Operations
<1>5. CASE GoesOn(m, i, "forget") /\ disk'[i] = Remaining(m)
  <2>1. /\ op'[m].kind = op[m].kind /\ op'[m].id = i /\ op'[m].ver = op[m].ver
        /\ op'[m].pc = "forget" /\ op'[m].was = op[m].was /\ op'[m].first = op[m].first
        /\ op'[m].old = op[m].old
    BY <1>1, <1>5 DEF GoesOn, Onto, Turned
  <2>2. Removes(op[m])' => Removes(op[m])
    BY <1>1, <1>3, <1>4, <2>1 DEF Removes
  <2>3. Left(m)' = Left(m)
    BY <1>1, <1>3, <1>5, <2>1 DEF Left
  <2>4. Removes(op[m])' => Left(m)' # {} /\ Accepts(e, i, Highest(Left(m)))'
    BY <1>1, <2>1, <2>2, <2>3 DEF Mine, Accepts, Highest
  <2>5. op[m].first => Accepts(e, i, op[m].old)'
    BY <1>1, <2>1 DEF Mine, Accepts
  <2>6. Mine(m, e)'
    BY <1>2, <2>1, <2>4, <2>5 DEF Mine, Toward
  <2> QED
    BY <1>1, <1>4, <2>1, <2>6, FitsOnSo DEF Serves
<1>6. CASE StartsAgain(m, i) /\ ~op'[m].first
  <2>1. Mine(m, e)' /\ op'[m].was /\ op'[m].id = i
    BY <1>1, <1>6, AgainFits
  <2> QED
    BY <1>1, <1>4, <2>1, FitsOnSo DEF Serves
<1>7. CASE Returns(m, i)
  <2>1. Restore(m)
    BY <1>1, <1>7, RemoveFilesRestores DEF Control, TypeOK
  <2>2. ~op[m].was
    BY <1>1, <1>7, <2>1, RestoreStarts DEF Control, TypeOK
  <2> QED
    BY <1>1, <1>4, <1>7, <2>2, Reposes, FitsOnSo DEF Serves
<1> QED
  BY <1>1, <1>5, <1>6, <1>7, RemoveFilesDoes

(* The record follows.                                                     *)
LEMMA ServesForget ==
  ASSUME Base, NEW m \in Procs, NEW i \in Ids, Acts(m, i), NEW e, User(m, i, e), Forget(m)
  PROVE  Serves(m, i, e)
<1>1. /\ e \in Ids /\ e # i /\ FitAt(e, i) /\ Mine(m, e) /\ op[m].id = i
      /\ Control /\ State /\ record'[e] = record[e]
      /\ record[i].state # "none" /\ Accepts(e, i, record[i].active)
      /\ op[m] \in Operations /\ Placed(op[m])
  BY UserHas
<1>2. /\ op[m].kind \in {"uninstall", "remove"} /\ UNCHANGED <<disk, process, lost>>
      /\ Down(i) \/ Aside(op[m])
      /\ Returns(m, i) \/ (StartsAgain(m, i) /\ op'[m].first = op[m].first)
      /\ op[m].was /\ disk[i] # {} => ~Returns(m, i) \/ ~RefreshOk(disk, record')
  BY <1>1, ForgetDoes
<1>3. op[m].pc = "forget" /\ OthersAt(m) /\ TypeOK
  BY <1>1 DEF Forget, At, User, Control
<1>4. Removes(op[m]) => disk[i] # {} /\ Accepts(e, i, Highest(disk[i]))
  BY <1>1, <1>3 DEF Mine, Left
<1>5. Removes(op[m]) \/ (~op[m].was /\ op[m].kind = "uninstall" /\ op[m].ver # record[i].active)
  BY <1>1, <1>2, <1>3 DEF Removes
<1>6. disk[i] # {}
  <2>1. CASE Removes(op[m])
    BY <1>4, <2>1
  <2>2. CASE ~Removes(op[m])
    <3>1. Aside(op[m])
      BY <1>1, <1>5, <2>2 DEF Aside
    <3>2. WorkAt(m)
      BY <1>1 DEF State, WorkInv
    <3> QED
      BY <1>1, <1>3, <3>1, <3>2 DEF WorkAt, FilesAt
  <2> QED
    BY <2>1, <2>2
<1>7. /\ record'[i].state # "none"
      /\ record'[i].active = IF record[i].active = op[m].ver THEN Highest(disk[i]) ELSE record[i].active
      /\ record[i].active # op[m].ver => record'[i] = record[i]
  BY <1>1, <1>6, ForgetDoes DEF Puts
<1>8. Accepts(e, i, record'[i].active)
  <2>1. record[i].active = op[m].ver => Removes(op[m])
    BY <1>5
  <2> QED
    BY <1>1, <1>4, <1>7, <2>1
<1>9. Up(i) => Up(i)'
  BY <1>1, <1>2, <1>7 DEF Up, HasLive, Down, Aside, process
<1>10. op[m].was => ~Returns(m, i)
  <2>1. record'[i].active \in disk[i]
    <3>1. disk[i] \in SUBSET Nat /\ IsFiniteSet(disk[i])
      BY <1>1, <1>3 DEF TypeOK, State, RecordInv, Versions
    <3>2. Highest(disk[i]) \in disk[i]
      BY <1>6, <3>1, HighestIn
    <3>3. WorkAt(m)
      BY <1>1 DEF State, WorkInv
    <3>4. record[i].active # op[m].ver => record[i].active \in disk[i]
      BY <1>1, <1>3, <1>6, <3>3 DEF WorkAt, FilesAt
    <3> QED
      BY <1>7, <3>2, <3>4
  <2> QED
    BY <1>2, <1>3, <1>6, <2>1, RefreshesSo
<1>11. CASE Returns(m, i)
  BY <1>1, <1>2, <1>7, <1>8, <1>9, <1>10, <1>11, Reposes, FitsOnSo DEF Serves
<1>12. CASE StartsAgain(m, i) /\ op'[m].first = op[m].first
  <2>1. Mine(m, e)' /\ op'[m].was /\ op'[m].id = i
    BY <1>1, <1>12, AgainFits
  <2> QED
    BY <1>1, <1>2, <1>7, <1>8, <2>1, FitsOnSo DEF Serves
<1> QED
  BY <1>2, <1>11, <1>12
(* All of them.                                                            *)
LEMMA ServesAll ==
  ASSUME Base, NEW m \in Procs, NEW i \in Ids, Acts(m, i), NEW e, User(m, i, e)
  PROVE  Serves(m, i, e)
BY ServesStarts, ServesOthers, ServesUpdates, ServesUnregister, ServesUninstall,
   ServesRemoveFiles, ServesForget DEF Acts, Works

(* A step of an operation leaves every user with what it requires.         *)
LEMMA FitActs ==
  ASSUME Base, Providers, NEW m \in Procs, NEW i \in Ids, Acts(m, i)
  PROVE  FitInv'
<1>1. op[m].id = i /\ \A q \in Procs : q # m => op'[q] = op[q]
  BY DEF Acts, Working, Moves
<1>2. \A j \in Ids : j # i => (j \in lost' <=> j \in lost)
  BY DEF Acts, Working, Frame
<1> SUFFICES ASSUME NEW e \in Ids, NEW x \in Ids, Uses(e, x)' PROVE FitAt(e, x)'
  BY DEF FitInv
<1>3. ASSUME x # i, FitAt(e, x), record'[e].active = record[e].active
      PROVE  FitAt(e, x)'
  <2>1. record'[x] = record[x] /\ Up(x)' = Up(x) /\ (x \in lost' <=> x \in lost)
    BY <1>2, <1>3, UpOthers
  <2>2. (\E q \in Procs : op[q].was /\ op[q].id = x) => \E q \in Procs : op'[q].was /\ op'[q].id = x
    BY <1>1, <1>3
  <2> QED
    BY <1>3, <2>1, <2>2 DEF FitAt, Accepts
<1>4. CASE e # i
  <2>1. record'[e] = record[e] /\ Up(e)' = Up(e)
    BY <1>4, UpOthers
  <2>2. Uses(e, x) /\ FitAt(e, x)
    BY <2>1 DEF Uses, Requires, Providers, FitInv
  <2>3. CASE x # i
    BY <1>3, <2>1, <2>2, <2>3
  <2>4. CASE x = i
    <3>1. User(m, i, e)
      BY <1>1, <1>4, <2>2, <2>4, AcceptsMine DEF User, Providers, AcceptInv, OthersInv
    <3>2. FitsOn(m, i, e)
      BY <3>1, ServesAll DEF Serves
    <3> QED
      BY <1>4, <2>1, <2>4, <3>2 DEF FitsOn, FitAt, Accepts
  <2> QED
    BY <2>3, <2>4
<1>5. CASE e = i
  <2>1. Up(i)' /\ x \in Requires(i, record'[i].active)
    BY <1>5 DEF Uses, Requires
  <2>2. CASE Up(i) /\ record'[i] = record[i]
    <3>1. FitAt(i, x)
      BY <2>1, <2>2 DEF Uses, Providers, FitInv
    <3> QED
      BY <1>3, <1>5, <2>2, <3>1 DEF FitAt
  <2>3. CASE Provided(i) /\ ~Up(i) /\ record'[i].active = record[i].active
    <3>1. Readable(x) /\ Accepts(i, x, Record(x).active) /\ Up(x)
      BY <2>1, <2>3 DEF Provided, Satisfied
    <3>2. x # i /\ record[x].state # "none"
      BY <2>3, <3>1 DEF Up
    <3>3. FitAt(i, x)
      BY <3>1, <3>2 DEF FitAt, Record
    <3> QED
      BY <1>3, <1>5, <2>3, <3>2, <3>3
  <2> QED
    BY <2>1, <2>2, <2>3, UpAfter
<1> QED
  BY <1>4, <1>5

(* Another operation has the same to answer for as before. *)
LEMMA AcceptOthers ==
  ASSUME Base, Providers, FitInv', NEW m \in Procs, NEW i \in Ids, Acts(m, i),
         NEW q \in Procs, q # m
  PROVE  AcceptAt(q)' /\ OthersAt(q)'
<1>1. op[m].id = i /\ op'[q] = op[q] /\ op[q].pc \notin Sections /\ op[m].pc \in Sections
  BY Alone DEF Acts, Working, Moves, Base
<1>2. OthersAt(q)'
  BY <1>1 DEF OthersAt, Sections
<1> DEFINE Bound == op[q].first \/ Toward(op[q], {"rollback"})
<1>3. ASSUME Bound, NEW j \in Ids, j = op[q].id
      PROVE  /\ Toward(op[q], {"rollback"}) /\ (\E e \in Ids : Uses(e, j)') => j \in lost'
             /\ \A e \in Ids : Uses(e, j)' => <<e, record'[e].active, j, op[q].old>> \in Needs
  <2>1. Holds(op[q]) /\ Changing(op[q]) /\ op[q].pc = "lock"
    BY <1>1, <1>3, WasHolds
  <2>2. Down(j)
    BY <1>3, <2>1 DEF Base, State, WorkInv, WorkAt, ChangedAt
  <2>3. ASSUME NEW e \in Ids, Uses(e, j)'
        PROVE  Uses(e, j) /\ record'[e].active = record[e].active
    <3>1. CASE e # i
      BY <2>3, <3>1, UpOthers DEF Uses, Requires
    <3>2. CASE e = i
      <4>1. Up(i)' /\ j \in Requires(i, record'[i].active)
        BY <2>3, <3>2 DEF Uses, Requires
      <4>2. ~Up(j)
        BY <2>2 DEF Up, Down
      <4>3. ~(Provided(i) /\ record'[i].active = record[i].active)
        BY <4>1, <4>2 DEF Provided, Satisfied
      <4>4. Up(i) /\ record'[i] = record[i]
        BY <4>1, <4>3, UpAfter
      <4> QED
        BY <3>2, <4>1, <4>4 DEF Uses
    <3> QED
      BY <3>1, <3>2
  <2>4. AcceptAt(q)
    BY DEF Providers, AcceptInv
  <2>5. \A e \in Ids : Uses(e, j) =>
           Accepts(e, j, op[q].old) /\ (Toward(op[q], {"rollback"}) => j \in lost)
    BY <1>3, <2>4, AcceptsMine DEF Mine
  <2>6. j \in lost' <=> j \in lost
    <3>1. CASE j # i
      BY <3>1 DEF Acts, Working, Frame
    <3>2. CASE j = i
      <4>1. ~Holds(op[m])
        BY <1>1, <1>3, <2>1, <3>2, Alone DEF Base
      <4> QED
        BY <4>1, Unheld
    <3> QED
      BY <3>1, <3>2
  <2> QED
    BY <2>3, <2>5, <2>6 DEF Accepts
<1>4. CASE ~Bound
  BY <1>1, <1>2, <1>4 DEF AcceptAt, Removes, Sections, Toward
<1>5. CASE Bound
  <2>1. PICK j \in Ids : j = op[q].id
    BY <1>5, WasHolds
  <2>2. op'[q].id = j /\ op'[q].old = op[q].old /\ op'[q].pc \notin Sections
        /\ (Toward(op'[q], {"rollback"}) => Toward(op[q], {"rollback"}))
    BY <1>1, <2>1
  <2>3. \A e \in Ids : Uses(e, j)' =>
           /\ <<e, record'[e].active, j, op'[q].old>> \in Needs
           /\ Toward(op'[q], {"rollback"}) => j \in lost'
    BY <1>3, <1>5, <2>1, <2>2
  <2>4. ~Removes(op[q])' /\ op'[q].pc \notin {"stopped", "archive", "select"}
    BY <2>2 DEF Removes, Sections
  <2> QED
    BY <1>2, <2>2, <2>3, <2>4 DEF AcceptAt, Accepts
<1> QED
  BY <1>4, <1>5

(* It keeps the invariant about providers.                                 *)
LEMMA ProvidersAct ==
  ASSUME Base, Providers, NEW m \in Procs, NEW i \in Ids, Acts(m, i)
  PROVE  Providers'
<1>1. FitInv'
  BY FitActs
<1>2. OthersAt(m)'
  BY OthersActs DEF Providers, OthersInv
<1>3. AcceptAt(m)'
  <2>1. op[m].id = i
    BY DEF Acts
  <2>2. CASE op'[m].id = i
    <3>1. ASSUME NEW e \in Ids, Uses(e, i)' PROVE Mine(m, e)'
      <4>1. e # i
        BY <1>1, <3>1 DEF FitInv, FitAt
      <4>2. Uses(e, i)
        BY <3>1, <4>1, UpOthers DEF Uses, Requires
      <4>3. User(m, i, e)
        BY <2>1, <4>1, <4>2, AcceptsMine DEF User, Providers, FitInv, AcceptInv, OthersInv
      <4> QED
        BY <4>3, ServesAll DEF Serves
    <3> QED
      BY <2>2, <3>1 DEF AcceptAt, Mine
  <2>3. CASE op'[m].id # i
    <3>1. Returns(m, i)
      BY <2>1, <2>3 DEF Acts, Working, Moves, Continues, Pauses, Reopens, Same
    <3>2. \A e \in Ids : Mine(m, e)'
      BY <3>1, Reposes
    <3> QED
      BY <3>2 DEF AcceptAt, Mine
  <2> QED
    BY <2>2, <2>3
<1> QED
  BY <1>1, <1>2, <1>3, AcceptOthers DEF Providers, AcceptInv, OthersInv

(* The steps that change no extension keep it.                             *)
LEMMA ProvidersQuiet ==
  ASSUME Base, Providers, Quiet
  PROVE  Providers'
<1>1. lost' = lost /\ \A j \in Ids : Up(j)' = Up(j) /\ record'[j] = record[j]
  BY QuietChanges, UpQuiet
<1>2. ASSUME NEW q \in Procs
      PROVE  /\ op[q].was => op'[q].was /\ op'[q].id = op[q].id
             /\ op'[q] = op[q] \/ (~op'[q].was /\ ~op'[q].first /\ op'[q].pc \notin Sections
                                    /\ ~(op'[q].pc = "lock" /\ op'[q].job = "rollback"))
                  \/ Waited(q, op[q].id)
  <2>1. op[q] \in Operations /\ Placed(op[q]) /\ Control
    BY WasHolds DEF Base
  <2>2. ASSUME NEW k \in Managers, NEW kind \in Kinds, NEW a \in Archives,
               Ask(k, kind, a[1], a[2])
        PROVE  op'[q] = op[q] \/ (~op[q].was /\ ~op'[q].was /\ ~op'[q].first /\ op'[q].pc \in {"lock", "gate"}
                                      /\ op'[q].job \in Requests)
    <3>1. CASE q # k
      BY <2>1, <2>2, <3>1, AskDoes
    <3>2. CASE q = k
      <4>1. op'[q] = Asked(q, kind, a[1], a[2]) /\ op[q].pc = "idle" /\ kind \in Requests
        BY <2>1, <2>2, <3>2, AskDoes
      <4>2. ~op[q].was
        BY <2>1, <4>1 DEF Placed, Changing, Toward, Again
      <4> QED
        BY <4>1, <4>2 DEF Asked
    <3> QED
      BY <3>1, <3>2
  <2>3. ASSUME NEW k \in Procs, Waits(k)
        PROVE  op'[q] = op[q] \/ (Waited(q, op[q].id) /\ op'[q].was = op[q].was /\ op'[q].id = op[q].id)
    BY <2>1, <2>3, WaitsMove DEF Waited, Same
  <2>4. ASSUME BootBegins \/ BootNext
        PROVE  op'[q] = op[q] \/ (~op[q].was /\ ~op'[q].was /\ ~op'[q].first
                                     /\ op'[q].pc \in {"idle", "next", "gate"})
    <3>1. op[Boot].pc \in {"idle", "next"}
      BY <2>4 DEF BootBegins, BootNext, At
    <3>2. q = Boot => ~op[q].was
      BY <2>1, <3>1 DEF Placed, Changing, Toward, Again
    <3>3. CASE BootBegins
      <4>1. op' = op \/ Go(Boot, "next")
        BY <3>3 DEF BootBegins
      <4>2. op \in [Procs -> Operations] /\ op[Boot] = Idle
        BY <2>1, <3>3, BootIdle DEF Control, TypeOK, BootBegins, At
      <4>3. op'[q] = op[q] \/ (q = Boot /\ op'[q] = Onto(Idle, "next"))
        BY <4>1, <4>2, Ontos, IdleType DEF Go
      <4> QED
        BY <3>2, <4>3, NextType
    <3>4. CASE BootNext
      <4>1. op'[q] = op[q] \/ (q = Boot /\ (op'[q] = Idle \/ \E i \in Ids : op'[q] = Reconciles(i)))
        BY <2>1, <3>4, BootNextDoes DEF RestoreOrder, Control, TypeOK
      <4>2. \A i : ~Reconciles(i).was /\ ~Reconciles(i).first /\ Reconciles(i).pc = "gate"
        BY DEF Reconciles
      <4> QED
        BY <3>2, <4>1, <4>2, IdleType
    <3> QED
      BY <2>4, <3>3, <3>4
  <2>5. CASE UNCHANGED vars \/ \E c \in Callers : CallEnds(c) \/ \E i \in Ids : CallBegins(c, i)
    BY <2>5 DEF vars, CallEnds, CallBegins
  <2> QED
    BY <2>2, <2>3, <2>4, <2>5 DEF Quiet, Sections, Requests
<1>3. FitInv'
  <2> SUFFICES ASSUME NEW e \in Ids, NEW x \in Ids, Uses(e, x)' PROVE FitAt(e, x)'
    BY DEF FitInv
  <2>1. Uses(e, x) /\ FitAt(e, x)
    BY <1>1 DEF Uses, Requires, Providers, FitInv
  <2>2. (\E q \in Procs : op[q].was /\ op[q].id = x) => \E q \in Procs : op'[q].was /\ op'[q].id = x
    BY <1>2
  <2> QED
    BY <1>1, <2>1, <2>2 DEF FitAt, Accepts
<1>4. ASSUME NEW q \in Procs PROVE AcceptAt(q)' /\ OthersAt(q)'
  <2>1. AcceptAt(q) /\ OthersAt(q) /\ disk' = disk /\ record' = record
    BY <1>1, QuietChanges DEF Providers, AcceptInv, OthersInv
  <2>2. \A e \in Ids : Up(e)' = Up(e)
    BY <1>1
  <2>3. CASE op'[q] = op[q]
    <3>1. Left(q)' = Left(q) /\ Removes(op[q])' = Removes(op[q])
      BY <2>1, <2>3 DEF Left, Removes, Remaining, Leaving
    <3>2. AcceptAt(q)'
      BY <1>1, <2>1, <2>2, <2>3, <3>1 DEF AcceptAt, Uses, Accepts, Requires, Highest, Toward
    <3>3. OthersAt(q)'
      BY <2>1, <2>3 DEF OthersAt, Listed, Readable, Record, Highest
    <3> QED
      BY <3>2, <3>3
  <2>4. CASE /\ ~op'[q].was /\ ~op'[q].first /\ op'[q].pc \notin Sections
             /\ ~(op'[q].pc = "lock" /\ op'[q].job = "rollback")
    BY <2>4 DEF AcceptAt, OthersAt, Toward, Removes, Sections
  <2>5. CASE Waited(q, op[q].id)
    <3>1. /\ op'[q].pc = (IF op[q].pc = "gate" THEN "lock" ELSE op[q].job) /\ op[q].pc \in {"gate", "lock"}
          /\ op'[q].kind = op[q].kind /\ op'[q].id = op[q].id /\ op'[q].job = op[q].job
          /\ op'[q].first = op[q].first /\ op'[q].old = op[q].old
      BY <2>5 DEF Waited, Same
    <3>2. op[q] \in Operations /\ Placed(op[q]) /\ op[q].job \in StepsOf(op[q].kind) \cap Jobs
      BY <3>1, WasHolds DEF Placed
    <3>3. op'[q].pc \notin {"stopped", "archive", "select", "files", "forget"}
      BY <3>1, <3>2 DEF Jobs, Requests
    <3>4. Toward(op'[q], {"rollback"}) => Toward(op[q], {"rollback"})
      <4>1. op[q].job = "rollback" => op[q].kind \in {"update", "quiet"}
        BY <3>2, Steps DEF Operations, Requests
      <4>2. op[q].pc = "gate" => op[q].job # "rollback"
        BY <3>2, <4>1 DEF Placed, Changes
      <4> QED
        BY <3>1, <4>2 DEF Toward
    <3>5. AcceptAt(q)'
      BY <1>1, <2>1, <2>2, <3>1, <3>3, <3>4 DEF AcceptAt, Uses, Accepts, Requires, Removes
    <3> QED
      BY <3>3, <3>5 DEF OthersAt
  <2> QED
    BY <1>2, <2>3, <2>4, <2>5
<1> QED
  BY <1>3, <1>4 DEF Providers, AcceptInv, OthersInv

(* After a death nothing runs that could require anything.                 *)
LEMMA ProvidersCrash ==
  ASSUME op' = [m \in Procs |-> Idle], \A e \in Ids : ~Up(e)'
  PROVE  Providers'
<1>1. \A q \in Procs : op'[q] = Idle
  OBVIOUS
<1>2. FitInv' /\ AcceptInv'
  BY DEF FitInv, AcceptInv, AcceptAt, Uses
<1>3. \A q \in Procs : OthersAt(q)'
  BY <1>1, IdleType DEF OthersAt
<1> QED
  BY <1>2, <1>3 DEF Providers, OthersInv

(* Every step keeps it.                                                    *)
LEMMA ProvidersKeep ==
  ASSUME Base, Providers, [Next]_vars
  PROVE  Providers'
<1>1. CASE Quiet
  BY <1>1, ProvidersQuiet
<1>2. CASE (\E m \in Procs : Works(m)) \/ BootActs
  BY <1>2, Actors, ProvidersAct
<1>3. CASE Crash
  <2>1. \A e \in Ids : ~Up(e)'
    BY <1>3, NoneUp
  <2> QED
    BY <1>3, <2>1, ProvidersCrash DEF Crash
<1> QED
  BY <1>1, <1>2, <1>3, Groups

(* It holds at first.                                                      *)
LEMMA ProvidersStart ==
  ASSUME Init
  PROVE  Providers
<1>1. \A e \in Ids : ~Up(e)
  BY DEF Init, Up, HasLive
<1>2. \A q \in Procs : op[q] = Idle
  BY DEF Init
<1>3. FitInv /\ AcceptInv
  BY <1>1 DEF FitInv, AcceptInv, AcceptAt, Uses
<1>4. \A q \in Procs : OthersAt(q)
  BY <1>2, IdleType DEF OthersAt
<1> QED
  BY <1>3, <1>4 DEF Providers, OthersInv

(* It is what the requirements are met for.                                *)
LEMMA NeedsMet ==
  ASSUME Base, Providers, StoppableInOrder
  PROVE  NeedsAreMet
<1>1. ASSUME NEW e \in Ids, Up(e), NEW x \in Requires(e, record[e].active)
      PROVE  /\ x # e => Accepts(e, x, record[x].active)
             /\ Up(x) \/ gate[x].writer # NoOne \/ x \in lost
  <2>1. x \in Ids
    BY NeedsIn
  <2>2. FitAt(e, x)
    BY <1>1, <2>1 DEF Providers, FitInv, Uses
  <2>3. ASSUME NEW q \in Procs, op[q].was, op[q].id = x PROVE gate[x].writer # NoOne
    <3>1. Holds(op[q])
      BY <2>3, WasHolds
    <3>2. gate[x].writer = q
      BY <2>3, <3>1 DEF Base, Control, GateInv
    <3> QED
      BY <3>2
  <2> QED
    BY <2>2, <2>3 DEF FitAt
<1> QED
  BY <1>1 DEF NeedsAreMet, ProvidersFit

(* What runs finds the versions it requires, and there is an order in which  *)
(* it can be stopped (ensure_provider_transition,                            *)
(* check_required_dependencies, check_dependency_cycles).                    *)
THEOREM MetNeeds == Spec => []NeedsAreMet
<1>1. Init => Providers
  BY ProvidersStart
<1>2. Base /\ Providers /\ [Next]_vars => Providers'
  BY ProvidersKeep
<1>3. Base /\ Providers /\ StoppableInOrder => NeedsAreMet
  BY NeedsMet
<1> QED
  BY <1>1, <1>2, <1>3, Based, InOrderAlways, PTL DEF Spec
=============================================================================
