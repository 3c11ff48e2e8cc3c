-------------------------- MODULE RecordingProofs --------------------------
(***************************************************************************)
(* Proofs about Recording for every set of recordings and requests and     *)
(* every bound on frames, inputs, calls, faults and crashes.               *)
(***************************************************************************)
EXTENDS Recording, FiniteSetTheorems, TLAPS

-----------------------------------------------------------------------------
(* Types *)

Results == {"Completed", "Interrupted", "Cancelled", "Failed"}
Ending == {"begin", "check", "take", "again", "encode", "final"}

Task ==
  [pc : Ending \cup {"idle", "admit", "look", "delete"},
   s : Sessions \cup Nat \cup {None}, to : Results \cup {None}, segment : BOOLEAN]

CoreType ==
  /\ kind \in {"device", "browser"}
  /\ stream \in [number : Nat, up : BOOLEAN, config : Nat, clock : Nat, keyed : BOOLEAN]
  /\ slot \in Sessions \cup {None}
  /\ halt \in [closed : BOOLEAN, todo : SUBSET Sessions]
  /\ removed \subseteq Sessions
  /\ spent \in [frames : Nat, inputs : Nat, calls : Nat, faults : Nat, crashes : Nat]

MemType == mem \in [Sessions -> Session \cup {None}]
DiskType == disk \in [Sessions -> SessionFile \cup {None}]
MediaType == media \in [Sessions -> [1..(MaxFrames + 1) -> {"none", "importing", "ready"}]]
AtType == at \in [Procs -> Task]

TypeOK == CoreType /\ MemType /\ DiskType /\ MediaType /\ AtType

(* Where a task can be.  Who ends a recording ends one that is in the map, *)
(* and a worker is the worker of its own session.                          *)
Placed ==
  \A p \in Procs :
       /\ at[p].pc \in Ending =>
            at[p].s \in Sessions /\ mem[at[p].s] # None /\ at[p].to \in Results
       /\ at[p].pc = "admit" => p \in Callers /\ at[p].s \in Nat
       /\ at[p].pc = "delete" => p \in Callers /\ at[p].s \in Sessions
       /\ at[p].pc = "look" => p = Watch /\ kind = "device"
       /\ p \in Sessions =>
            \/ at[p].pc = "idle"
            \/ at[p].s = p /\ at[p].pc \in {"begin", "take", "encode", "final"}
       /\ p \notin Sessions => at[p].pc # "begin"

PlaceInv == (slot # None => mem[slot] # None) /\ Placed

Typed == TypeOK /\ PlaceInv

(* The worker of a recording that the shutdown ends. *)
Begun(s) == [pc |-> "begin", s |-> s, to |-> "Cancelled", segment |-> FALSE]

USE RecordingAssumption, NoneAssumption
USE DEF Begun, Procs, Active, Idle, IsIn, Open, Spend, Goes, Rests, Results, Ending

-----------------------------------------------------------------------------
(* The operations on a session *)

(* Frames change the video of a session and nothing else. *)
SameRest(m, n) ==
  /\ n.state = m.state /\ n.stopping = m.stopping /\ n.cancelled = m.cancelled
  /\ n.stream = m.stream /\ n.page = m.page /\ n.lost = m.lost
  /\ n.held = m.held /\ n.ops = m.ops /\ n.log = m.log

LEMMA ClosedKeeps ==
  ASSUME NEW m \in Session
  PROVE  /\ Closed(m) \in Session /\ SameRest(m, Closed(m))
         /\ Closed(m).current = None /\ Closed(m).pending = m.pending
         /\ Closed(m).segments = m.segments
              \/ (m.current \in Segment /\ Closed(m).segments = Append(m.segments, m.current))
<1>1. CASE m.current = None
  BY <1>1 DEF Closed, SameRest
<1>2. CASE m.current # None
  <2>1. m.current \in Segment /\ m.segments \in Seq(Segment)
    BY <1>2 DEF Session
  <2>2. Closed(m) = [m EXCEPT !.current = None, !.segments = Append(m.segments, m.current)]
    BY <1>2 DEF Closed
  <2>3. Append(m.segments, m.current) \in Seq(Segment)
    BY <2>1
  <2> QED
    BY <2>1, <2>2, <2>3 DEF Session, SameRest
<1> QED
  BY <1>1, <1>2

LEMMA EndedKeeps ==
  ASSUME NEW m \in Session, NEW to \in Results
  PROVE  /\ Ended(m, to) \in Session
         /\ Ended(m, to).state \notin Active
         /\ Ended(m, to).stream = m.stream /\ Ended(m, to).page = m.page
         /\ Ended(m, to).lost = m.lost /\ Ended(m, to).ops = m.ops
         /\ m.state \notin Active => Ended(m, to) = m
         /\ m.state \in Active =>
              /\ Ended(m, to).stopping /\ Ended(m, to).held = 0
              /\ Ended(m, to).log = IF m.held = 0 THEN m.log ELSE Append(m.log, m.held)
              /\ Ended(m, to).current = None /\ Ended(m, to).segments = Closed(m).segments
<1>1. CASE m.state \notin Active
  BY <1>1 DEF Ended
<1>2. CASE m.state \in Active
  <2> DEFINE log == IF m.held = 0 THEN m.log ELSE Append(m.log, m.held)
  <2>1. Closed(m) \in Session /\ SameRest(m, Closed(m)) /\ Closed(m).current = None
    BY ClosedKeeps
  <2>2. log \in Seq(Nat)
    BY DEF Session
  <2> HIDE DEF log
  <2>3. Ended(m, to) = [Closed(m) EXCEPT !.state = to, !.stopping = TRUE,
                                         !.held = 0, !.log = log]
    BY <1>2, <2>1 DEF Ended, SameRest, log
  <2>4. to \in States /\ to \notin Active
    BY DEF States
  <2>5. Ended(m, to) \in Session
    <3> DEFINE zero == 0
    <3>1. zero \in Nat /\ Ended(m, to) = [Closed(m) EXCEPT !.state = to, !.stopping = TRUE,
                                                         !.held = zero, !.log = log]
      BY <2>3
    <3> HIDE DEF zero
    <3> QED
      BY <2>1, <2>2, <2>4, <3>1, ZenonT(30) DEF Session
  <2> QED
    BY <1>2, <2>1, <2>3, <2>4, <2>5 DEF Session, SameRest, log
<1> QED
  BY <1>1, <1>2

LEMMA OpenedKeeps ==
  ASSUME NEW m \in Session, NEW f \in Frame
  PROVE  /\ Opened(m, f) \in Session /\ SameRest(m, Opened(m, f))
         /\ Opened(m, f).current = [file |-> m.opened + 1, config |-> m.pending, frames |-> {f}]
         /\ Opened(m, f).pending = None /\ Opened(m, f).segments = m.segments
<1> DEFINE new == [file |-> m.opened + 1, config |-> m.pending, frames |-> {f}]
<1>1. new \in Segment /\ m.opened + 1 \in Nat
  BY DEF Session, Segment
<1>2. Opened(m, f) = [m EXCEPT !.opened = m.opened + 1, !.pending = None, !.current = new]
  BY DEF Opened
<1> HIDE DEF new
<1>3. Opened(m, f) \in Session /\ SameRest(m, Opened(m, f))
  BY <1>1, <1>2 DEF Session, SameRest
<1> QED
  BY <1>2, <1>3 DEF Session, new

LEMMA GrownKeeps ==
  ASSUME NEW m \in Session, m.current # None, NEW f \in Frame
  PROVE  /\ Grown(m, f) \in Session /\ SameRest(m, Grown(m, f))
         /\ Grown(m, f).current = [m.current EXCEPT !.frames = m.current.frames \cup {f}]
         /\ Grown(m, f).pending = m.pending /\ Grown(m, f).segments = m.segments
<1> DEFINE new == [m.current EXCEPT !.frames = m.current.frames \cup {f}]
<1>1. new \in Segment
  BY DEF Session, Segment
<1>2. Grown(m, f) = [m EXCEPT !.current = new]
  BY DEF Grown
<1> HIDE DEF new
<1>3. Grown(m, f) \in Session /\ SameRest(m, Grown(m, f))
  BY <1>1, <1>2 DEF Session, SameRest
<1> QED
  BY <1>2, <1>3 DEF Session, new

LEMMA TakesKeeps ==
  ASSUME NEW m \in Session, NEW c \in 1..MaxConfigs
  PROVE  /\ Takes(m, c) \in Session /\ SameRest(m, Takes(m, c))
         /\ Takes(m, c).pending = c
         /\ m.pending # c =>
              Takes(m, c).current = None /\ Takes(m, c).segments = Closed(m).segments
         /\ m.pending = c => Takes(m, c) = m
<1>1. CASE m.pending = c
  BY <1>1 DEF Takes, SameRest
<1>2. CASE m.pending # c
  <2>1. Takes(m, c) = [Closed(m) EXCEPT !.pending = c]
    BY <1>2 DEF Takes
  <2>2. Closed(m) \in Session /\ SameRest(m, Closed(m)) /\ Closed(m).current = None
    BY ClosedKeeps
  <2>3. Takes(m, c) \in Session /\ SameRest(m, Takes(m, c))
    BY <2>1, <2>2 DEF SameRest, Session
  <2> QED
    BY <1>2, <2>1, <2>2, <2>3 DEF Session
<1> QED
  BY <1>1, <1>2

LEMMA AddsKeeps ==
  ASSUME CoreType, NEW m \in Session, NEW key \in BOOLEAN
  PROVE  Adds(m, key) \in Session /\ SameRest(m, Adds(m, key))
<1>1. Encoded \in Frame
  BY DEF Encoded, Frame, CoreType
<1>2. CASE Adds(m, key) = m
  BY <1>2 DEF SameRest
<1>3. CASE Adds(m, key) = Opened(m, Encoded)
  BY <1>1, <1>3, OpenedKeeps
<1>4. CASE Adds(m, key) = Opened(Closed(m), Encoded)
  <2>1. Closed(m) \in Session /\ SameRest(m, Closed(m))
    BY ClosedKeeps
  <2>2. Opened(Closed(m), Encoded) \in Session
        /\ SameRest(Closed(m), Opened(Closed(m), Encoded))
    BY <1>1, <2>1, OpenedKeeps
  <2> QED
    BY <1>4, <2>1, <2>2 DEF SameRest
<1>5. CASE Adds(m, key) = Closed(m)
  BY <1>5, ClosedKeeps
<1>6. CASE m.current # None /\ Adds(m, key) = Grown(m, Encoded)
  BY <1>1, <1>6, GrownKeeps
<1> QED
  BY <1>2, <1>3, <1>4, <1>5, <1>6 DEF Adds

(* What an input leaves alone. *)
SameVideo(m, n) ==
  /\ n.state = m.state /\ n.stopping = m.stopping /\ n.cancelled = m.cancelled
  /\ n.stream = m.stream /\ n.page = m.page /\ n.lost = m.lost
  /\ n.current = m.current /\ n.pending = m.pending /\ n.segments = m.segments

LEMMA InputKeeps ==
  ASSUME NEW m \in Session, NEW down \in BOOLEAN
  PROVE  Input(m, down) \in Session /\ SameVideo(m, Input(m, down))
<1>0. m.ops + 1 \in Nat /\ m.log \in Seq(Nat) /\ m.held \in Nat
  BY DEF Session
<1>1. Append(m.log, m.held) \in Seq(Nat) /\ Append(m.log, m.ops + 1) \in Seq(Nat)
  BY <1>0
<1>2. CASE down /\ m.held = 0
  <2>1. Input(m, down) = [m EXCEPT !.ops = m.ops + 1, !.held = m.ops + 1, !.log = m.log]
    BY <1>2 DEF Input
  <2> QED
    BY <1>0, <2>1 DEF Session, SameVideo
<1>3. CASE down /\ m.held # 0
  <2>1. Input(m, down) = [m EXCEPT !.ops = m.ops + 1, !.held = m.ops + 1,
                                   !.log = Append(m.log, m.held)]
    BY <1>3 DEF Input
  <2> QED
    BY <1>0, <1>1, <2>1 DEF Session, SameVideo
<1>4. CASE ~down /\ m.held # 0
  <2> DEFINE zero == 0
  <2>1. zero \in Nat /\ Input(m, down) = [m EXCEPT !.held = zero, !.log = Append(m.log, m.held)]
    BY <1>4 DEF Input
  <2> HIDE DEF zero
  <2> QED
    BY <1>0, <1>1, <2>1 DEF Session, SameVideo
<1>5. CASE ~down /\ m.held = 0
  <2>1. Input(m, down) = [m EXCEPT !.ops = m.ops + 1, !.log = Append(m.log, m.ops + 1)]
    BY <1>5 DEF Input
  <2> QED
    BY <1>0, <1>1, <2>1 DEF Session, SameVideo
<1> QED
  BY <1>2, <1>3, <1>4, <1>5

LEMMA SavedType ==
  ASSUME NEW m \in Session
  PROVE  Saved(m) \in SessionFile
BY DEF Saved, Session, SessionFile

LEMMA FreshType ==
  ASSUME NEW k \in {"device", "browser"}, NEW n \in Nat
  PROVE  Fresh(k, n) \in Session
BY DEF Fresh, Session, States

(* A new recording is not one that was used before. *)
LEMMA NewIsUnused ==
  ASSUME NEW s \in Sessions, s = NewId
  PROVE  mem[s] = None /\ disk[s] = None /\ s \notin removed
<1>1. Used # Sessions
  BY DEF NewId
<1>2. \E t \in Sessions \ Used : TRUE
  BY <1>1 DEF Used
<1>3. s \in Sessions \ Used
  BY <1>1, <1>2 DEF NewId
<1> QED
  BY <1>3 DEF Used

(* The actions of a step, one by one. *)
LEMMA Actions ==
  ASSUME [Next]_vars
  PROVE  \/ FeedConfig \/ FrameFails \/ Collect \/ CollectFails \/ Observe
         \/ Boundary \/ PageGone \/ Connect \/ Disconnect \/ HaltBegins
         \/ Crash \/ UNCHANGED vars
         \/ \E s \in Sessions :
             \/ Begins(s) \/ HaltAsks(s) \/ Recover(s) \/ MediaDeleted(s)
         \/ \E c \in Callers :
             \/ StartLooks(c) \/ StartRefused(c) \/ DeleteRemoves(c)
         \/ \E c \in Callers, s \in Sessions :
             \/ StartAdmits(c, s) \/ RequestFinish(c, s) \/ Stop(c, s)
             \/ DeleteBegins(c, s)
         \/ \E p \in Procs :
             \/ Checks(p) \/ Take(p) \/ Encode(p) \/ EncodeFails(p)
             \/ EncodeNothing(p) \/ Final(p)
         \/ \E key \in BOOLEAN : FeedFrame(key)
BY DEF Next, Feed, Step, Halts

-----------------------------------------------------------------------------
(* The steps with frames, and the ends, as far as the session and its file *)
(* are concerned.                                                          *)

LEMMA FilesType ==
  ASSUME MediaType, NEW s \in Sessions, NEW m, Files(s, m)
  PROVE  MediaType'
<1> DEFINE kept(n) ==
      IF \E i \in DOMAIN m.segments : m.segments[i].file = n
            /\ (Open(s) => \A j \in DOMAIN mem[s].segments : mem[s].segments[j].file # n)
      THEN "ready"
      ELSE IF m.current # None /\ m.current.file = n THEN "importing" ELSE media[s][n]
<1>1. media' = [media EXCEPT ![s] = [n \in DOMAIN media[s] |-> kept(n)]]
  BY DEF Files
<1>2. \A n \in 1..(MaxFrames + 1) : kept(n) \in {"none", "importing", "ready"}
  BY DEF MediaType
<1>3. DOMAIN media[s] = 1..(MaxFrames + 1)
  BY DEF MediaType
<1> HIDE DEF kept
<1>4. [n \in DOMAIN media[s] |-> kept(n)]
        \in [1..(MaxFrames + 1) -> {"none", "importing", "ready"}]
  BY <1>2, <1>3
<1> QED
  BY <1>1, <1>4 DEF MediaType

(* A frame that reaches the recording of its stream. *)
Fed ==
  /\ slot \in Sessions /\ mem[slot] \in Session
  /\ mem[slot].state = "Recording" /\ mem[slot].stream = stream.number
  /\ \E n \in Session :
       /\ mem' = [mem EXCEPT ![slot] = n]
       /\ disk' = disk \/ disk' = [disk EXCEPT ![slot] = Saved(n)]
       /\ n.state = "Recording" /\ n.stopping = mem[slot].stopping
       /\ n.cancelled = mem[slot].cancelled /\ n.stream = mem[slot].stream
       /\ n.page = mem[slot].page /\ n.held = mem[slot].held
       /\ n.ops = mem[slot].ops /\ n.log = mem[slot].log

LEMMA ReachesFed ==
  ASSUME Typed, NEW m, slot # None => m \in Session /\ SameRest(mem[slot], m), Reaches(m)
  PROVE  (UNCHANGED <<mem, disk>> \/ Fed) /\ MediaType'
<1> USE DEF Typed, TypeOK, CoreType, MemType, PlaceInv, Placed
<1>1. CASE UNCHANGED <<mem, disk, media>>
  BY <1>1 DEF MediaType
<1>2. CASE ~UNCHANGED <<mem, disk, media>>
  <2>1. /\ slot \in Sessions /\ mem[slot] \in Session /\ m \in Session /\ SameRest(mem[slot], m)
        /\ mem[slot].state = "Recording" /\ mem[slot].stream = stream.number
    BY <1>2 DEF Reaches
  <2>2. CASE /\ mem' = [mem EXCEPT ![slot] = m] /\ Files(slot, m)
             /\ disk' = disk \/ disk' = [disk EXCEPT ![slot] = Saved(m)]
    <3>1. MediaType'
      BY <2>1, <2>2, FilesType
    <3>2. /\ m.state = "Recording" /\ m.stopping = mem[slot].stopping
          /\ m.cancelled = mem[slot].cancelled /\ m.stream = mem[slot].stream
          /\ m.page = mem[slot].page /\ m.held = mem[slot].held
          /\ m.ops = mem[slot].ops /\ m.log = mem[slot].log
      BY <2>1 DEF SameRest
    <3>3. Fed
      BY <2>1, <2>2, <3>2 DEF Fed
    <3> QED
      BY <3>1, <3>3
  <2>3. CASE mem' = [mem EXCEPT ![slot].lost = TRUE] /\ UNCHANGED <<disk, media>>
    <3> DEFINE n == [mem[slot] EXCEPT !.lost = TRUE]
    <3>1. mem' = [mem EXCEPT ![slot] = n] /\ n \in Session
      BY <2>1, <2>3 DEF Session
    <3>2. /\ n.state = "Recording" /\ n.stopping = mem[slot].stopping
          /\ n.cancelled = mem[slot].cancelled /\ n.stream = mem[slot].stream
          /\ n.page = mem[slot].page /\ n.held = mem[slot].held
          /\ n.ops = mem[slot].ops /\ n.log = mem[slot].log
      BY <2>1 DEF Session
    <3> HIDE DEF n
    <3> QED
      BY <2>1, <2>3, <3>1, <3>2 DEF Fed, MediaType
  <2> QED
    BY <1>2, <2>1, <2>2, <2>3 DEF Reaches
<1> QED
  BY <1>1, <1>2

LEMMA FeedConfigFed ==
  ASSUME Typed, FeedConfig
  PROVE  (UNCHANGED <<mem, disk>> \/ Fed) /\ MediaType'
<1>1. PICK c \in 1..MaxConfigs : Reaches(Takes(mem[slot], c))
  BY DEF FeedConfig
<1>2. slot # None => Takes(mem[slot], c) \in Session /\ SameRest(mem[slot], Takes(mem[slot], c))
  BY TakesKeeps DEF Typed, TypeOK, CoreType, MemType, PlaceInv, Placed
<1> QED
  BY <1>1, <1>2, ReachesFed

LEMMA FeedFrameFed ==
  ASSUME Typed, NEW key \in BOOLEAN, FeedFrame(key)
  PROVE  (UNCHANGED <<mem, disk>> \/ Fed) /\ MediaType'
<1>1. slot # None =>
        Adds(mem[slot], key) \in Session /\ SameRest(mem[slot], Adds(mem[slot], key))
  BY AddsKeeps DEF Typed, TypeOK, CoreType, MemType, PlaceInv, Placed
<1> QED
  BY <1>1, ReachesFed DEF FeedFrame

(* The end of a recording, with the video of its page if there is one. *)
Stopped(s, m, to) ==
  /\ m \in Session /\ mem' = [mem EXCEPT ![s] = Ended(m, to)]
  /\ Ended(m, to) \in Session /\ Ended(m, to).state \notin Active
  /\ Ended(m, to).stream = m.stream /\ Ended(m, to).page = m.page
  /\ m.stopping => Ended(m, to).stopping
  /\ m.state \notin Active => Ended(m, to) = m
  /\ disk' = IF m.state \in Active THEN [disk EXCEPT ![s] = Saved(Ended(m, to))] ELSE disk
  /\ Saved(Ended(m, to)) \in SessionFile
  /\ slot' = IF m.state \in Active /\ slot = s THEN None ELSE slot

LEMMA EndsStopped ==
  ASSUME NEW s \in Sessions, NEW m \in Session, NEW to \in Results, Ends(s, m, to)
  PROVE  Stopped(s, m, to)
BY EndedKeeps, SavedType DEF Stopped, Ends

LEMMA FrameFailsStopped ==
  ASSUME Typed, FrameFails
  PROVE  /\ slot \in Sessions /\ mem[slot] # None /\ mem[slot].state = "Recording"
         /\ Stopped(slot, mem[slot], "Failed") /\ MediaType'
<1>1. slot \in Sessions /\ mem[slot] \in Session /\ mem[slot] # None
  BY DEF FrameFails, Typed, TypeOK, CoreType, MemType
<1>2. MediaType'
  BY <1>1, FilesType DEF FrameFails, Typed, TypeOK
<1> QED
  BY <1>1, <1>2, EndsStopped DEF FrameFails

(* What the task that ends a recording makes of it first. *)
Filmed(s, segment, m) ==
  /\ m \in Session
  /\ ~segment => m = mem[s]
  /\ m.state = mem[s].state /\ m.stopping = mem[s].stopping
  /\ m.page = mem[s].page /\ m.stream = mem[s].stream
  /\ m.lost = mem[s].lost /\ m.held = mem[s].held /\ m.ops = mem[s].ops /\ m.log = mem[s].log

LEMMA FinalStopped ==
  ASSUME Typed, NEW p \in Procs, Final(p)
  PROVE  /\ at[p].s \in Sessions /\ mem[at[p].s] # None /\ MediaType'
         /\ \E m \in Session :
               Filmed(at[p].s, at[p].segment, m) /\ Stopped(at[p].s, m, at[p].to)
<1> DEFINE s == at[p].s
           page == [file |-> 1, config |-> None, frames |-> {}]
           m == IF at[p].segment THEN [mem[s] EXCEPT !.segments = Append(mem[s].segments, page)]
                ELSE mem[s]
<1>1. s \in Sessions /\ mem[s] # None /\ mem[s] \in Session /\ at[p].to \in Results
  BY DEF Final, Typed, TypeOK, MemType, PlaceInv, Placed
<1>2. Filmed(s, at[p].segment, m)
  <2>1. page \in Segment
    BY DEF Segment
  <2>2. Append(mem[s].segments, page) \in Seq(Segment)
    BY <1>1, <2>1 DEF Session
  <2> QED
    BY <1>1, <2>2 DEF Session, Filmed
<1>3. Ends(s, m, at[p].to) /\ Files(s, Closed(m))
  BY DEF Final
<1> HIDE DEF m
<1>4. Stopped(s, m, at[p].to)
  BY <1>1, <1>2, <1>3, EndsStopped DEF Filmed
<1>5. MediaType'
  BY <1>1, <1>3, FilesType DEF Typed, TypeOK
<1> QED
  BY <1>1, <1>2, <1>4, <1>5 DEF Filmed

(* The other steps of a session: what they leave alone of it. *)
SameFilm(m, n) ==
  /\ n.stream = m.stream /\ n.lost = m.lost /\ n.current = m.current /\ n.pending = m.pending
  /\ n.segments = m.segments /\ n.held = m.held /\ n.ops = m.ops /\ n.log = m.log

Becomes(s, n) ==
  /\ s \in Sessions /\ mem[s] \in Session /\ mem[s] # None /\ n \in Session
  /\ mem' = [mem EXCEPT ![s] = n] /\ SameFilm(mem[s], n)

Finalizes(s, n) ==
  /\ Becomes(s, n) /\ disk' = [disk EXCEPT ![s] = Saved(n)] /\ Saved(n) \in SessionFile
  /\ n.state = "Finalizing" /\ n.stopping

LEMMA CollectBecomes ==
  ASSUME Typed, Collect
  PROVE  \E n \in Session :
           /\ Becomes(slot, n) /\ mem[slot].state = "Recording" /\ n.state = "Recording"
           /\ n.stopping = mem[slot].stopping /\ n.page = mem[slot].page
<1> DEFINE n == [mem[slot] EXCEPT !.pictures = TRUE]
<1>1. slot \in Sessions /\ mem[slot] \in Session /\ mem[slot] # None
      /\ mem[slot].state = "Recording" /\ mem' = [mem EXCEPT ![slot] = n]
  BY DEF Collect, Typed, TypeOK, CoreType, MemType
<1>2. n \in Session
  BY <1>1 DEF Session
<1>3. SameFilm(mem[slot], n) /\ n.state = "Recording"
      /\ n.stopping = mem[slot].stopping /\ n.page = mem[slot].page
  BY <1>1 DEF Session, SameFilm
<1> HIDE DEF n
<1> QED
  BY <1>1, <1>2, <1>3 DEF Becomes

LEMMA ObserveBecomes ==
  ASSUME Typed, Observe
  PROVE  \E n \in Session, down \in BOOLEAN :
           /\ n = Input(mem[slot], down) /\ SameVideo(mem[slot], n)
           /\ slot \in Sessions /\ mem[slot] \in Session /\ mem[slot] # None
           /\ mem[slot].state = "Recording" /\ mem' = [mem EXCEPT ![slot] = n]
<1>1. slot \in Sessions /\ mem[slot] \in Session /\ mem[slot] # None
      /\ mem[slot].state = "Recording"
  BY DEF Observe, Typed, TypeOK, CoreType, MemType
<1>2. PICK down \in BOOLEAN : mem' = [mem EXCEPT ![slot] = Input(mem[slot], down)]
  BY DEF Observe
<1> QED
  BY <1>1, <1>2, InputKeeps

LEMMA RequestFinishBecomes ==
  ASSUME Typed, NEW c \in Callers, NEW s \in Sessions, RequestFinish(c, s)
  PROVE  \E n \in Session :
           Finalizes(s, n) /\ n.page = mem[s].page /\ mem[s].state = "Recording"
<1> DEFINE n == [mem[s] EXCEPT !.state = "Finalizing", !.stopping = TRUE,
                               !.cancelled = mem[s].cancelled, !.page = mem[s].page]
<1>1. mem[s] \in Session /\ mem[s] # None /\ mem[s].state = "Recording"
  BY DEF RequestFinish, Typed, TypeOK, MemType
<1>2. mem[s].cancelled \in BOOLEAN /\ mem[s].page \in BOOLEAN
  BY <1>1 DEF Session
<1>3. n = [mem[s] EXCEPT !.state = "Finalizing", !.stopping = TRUE]
  BY <1>1 DEF Session
<1>4. mem' = [mem EXCEPT ![s] = [mem[s] EXCEPT !.state = "Finalizing", !.stopping = TRUE]]
      /\ disk' = [disk EXCEPT ![s] = Saved(mem'[s])]
  BY DEF RequestFinish, Finishes, Typed, TypeOK, MemType
<1>5. mem'[s] = n
  BY <1>3, <1>4 DEF Typed, TypeOK, MemType
<1>6. n \in Session
  BY <1>1, <1>2 DEF Session, States
<1>7. SameFilm(mem[s], n) /\ n.state = "Finalizing" /\ n.stopping /\ n.page = mem[s].page
  BY <1>1 DEF Session, SameFilm
<1> HIDE DEF n
<1>8. Saved(n) \in SessionFile
  BY <1>6, SavedType
<1> QED
  BY <1>1, <1>3, <1>4, <1>5, <1>6, <1>7, <1>8 DEF Finalizes, Becomes

LEMMA TakeBecomes ==
  ASSUME Typed, NEW p \in Procs, Take(p)
  PROVE  /\ at[p].s \in Sessions /\ mem[at[p].s] # None
         /\ mem[at[p].s].page =>
              \E n \in Session : Finalizes(at[p].s, n) /\ ~n.page
         /\ ~mem[at[p].s].page => UNCHANGED <<mem, disk>>
<1> DEFINE s == at[p].s
           n == [mem[s] EXCEPT !.state = "Finalizing", !.stopping = TRUE,
                               !.cancelled = mem[s].cancelled, !.page = FALSE]
<1>1. s \in Sessions /\ mem[s] \in Session /\ mem[s] # None
  BY DEF Take, Typed, TypeOK, MemType, PlaceInv, Placed
<1>2. CASE ~mem[s].page
  BY <1>1, <1>2 DEF Take
<1>3. CASE mem[s].page
  <2>1. mem[s].cancelled \in BOOLEAN
    BY <1>1 DEF Session
  <2>2. n = [mem[s] EXCEPT !.page = FALSE, !.state = "Finalizing", !.stopping = TRUE]
    BY <1>1 DEF Session
  <2>3. mem' = [mem EXCEPT ![s] = [mem[s] EXCEPT !.page = FALSE, !.state = "Finalizing",
                                                 !.stopping = TRUE]]
        /\ disk' = [disk EXCEPT ![s] = Saved(mem'[s])]
    BY <1>1, <1>3 DEF Take, Typed, TypeOK, MemType
  <2>4. mem'[s] = n
    BY <1>1, <2>2, <2>3 DEF Typed, TypeOK, MemType
  <2>5. n \in Session
    BY <1>1, <2>1 DEF Session, States
  <2>6. SameFilm(mem[s], n) /\ n.state = "Finalizing" /\ n.stopping /\ ~n.page
    BY <1>1 DEF Session, SameFilm
  <2> HIDE DEF n
  <2>7. Saved(n) \in SessionFile
    BY <2>5, SavedType
  <2>8. Finalizes(s, n)
    BY <1>1, <2>2, <2>3, <2>4, <2>5, <2>6, <2>7 DEF Finalizes, Becomes
  <2> QED
    BY <1>1, <1>3, <2>5, <2>6, <2>8
<1> QED
  BY <1>1, <1>2, <1>3

LEMMA HaltAsksBecomes ==
  ASSUME Typed, NEW s \in Sessions, HaltAsks(s)
  PROVE  \/ ~Open(s) /\ UNCHANGED <<mem, disk, at>>
         \/ /\ UNCHANGED <<disk, at>> /\ mem[s].state # "Recording"
            /\ \E n \in Session : Becomes(s, n) /\ n.state = mem[s].state
                                    /\ n.stopping = mem[s].stopping /\ n.page = mem[s].page
         \/ /\ mem[s].state = "Recording" /\ Open(s)
            /\ at' = [at EXCEPT ![s] = Begun(s)]
            /\ \E n \in Session : Finalizes(s, n) /\ n.page = mem[s].page
<1>1. CASE ~Open(s)
  BY <1>1 DEF HaltAsks
<1>2. CASE Open(s) /\ mem[s].state # "Recording"
  <2> DEFINE n == [mem[s] EXCEPT !.cancelled = TRUE]
  <2>1. mem[s] \in Session /\ mem[s] # None 
        /\ mem' = [mem EXCEPT ![s] = n] /\ UNCHANGED <<disk, at>>
    BY <1>2 DEF HaltAsks, Typed, TypeOK, MemType
  <2>2. n \in Session /\ SameFilm(mem[s], n) /\ n.state = mem[s].state
        /\ n.stopping = mem[s].stopping /\ n.page = mem[s].page
    BY <2>1 DEF Session, SameFilm
  <2> HIDE DEF n
  <2>3. Becomes(s, n)
    BY <2>1, <2>2 DEF Becomes
  <2> QED
    BY <1>2, <2>1, <2>2, <2>3
<1>3. CASE Open(s) /\ mem[s].state = "Recording"
  <2> DEFINE n == [mem[s] EXCEPT !.state = "Finalizing", !.stopping = TRUE,
                                 !.cancelled = TRUE, !.page = mem[s].page]
  <2>1. mem[s] \in Session /\ mem[s] # None
    BY <1>3 DEF Typed, TypeOK, MemType
  <2>2. mem[s].page \in BOOLEAN
    BY <2>1 DEF Session
  <2>3. n = [mem[s] EXCEPT !.cancelled = TRUE, !.state = "Finalizing", !.stopping = TRUE]
    BY <2>1 DEF Session
  <2>4. mem' = [mem EXCEPT ![s] = [mem[s] EXCEPT !.cancelled = TRUE, !.state = "Finalizing",
                                                 !.stopping = TRUE]]
        /\ disk' = [disk EXCEPT ![s] = Saved(mem'[s])]
    BY <1>3 DEF HaltAsks, Typed, TypeOK, MemType
  <2>5. mem'[s] = n
    BY <2>3, <2>4 DEF Typed, TypeOK, MemType
  <2>6. n \in Session
    BY <2>1, <2>2 DEF Session, States
  <2>7. SameFilm(mem[s], n) /\ n.state = "Finalizing" /\ n.stopping /\ n.page = mem[s].page
    BY <2>1 DEF Session, SameFilm
  <2>8. at' = [at EXCEPT ![s] = Begun(s)]
    BY <1>3 DEF HaltAsks
  <2> HIDE DEF n
  <2>9. Saved(n) \in SessionFile
    BY <2>6, SavedType
  <2>10. Finalizes(s, n)
    BY <2>1, <2>3, <2>4, <2>5, <2>6, <2>7, <2>9 DEF Finalizes, Becomes
  <2> QED
    BY <1>3, <2>6, <2>7, <2>8, <2>10
<1> QED
  BY <1>1, <1>2, <1>3

(* The steps that change the sessions or their files, and the steps that *)
(* change what a task is doing.                                          *)
SessionMoves ==
  \/ FeedConfig \/ FrameFails \/ Collect \/ Observe \/ Crash
  \/ \E key \in BOOLEAN : FeedFrame(key)
  \/ \E p \in Procs : \/ Take(p) \/ Final(p)
  \/ \E s \in Sessions : \/ HaltAsks(s) \/ Recover(s)
  \/ \E c \in Callers : DeleteRemoves(c)
  \/ \E c \in Callers, s \in Sessions : \/ StartAdmits(c, s) \/ RequestFinish(c, s)

TaskMoves ==
  \/ CollectFails \/ Boundary \/ PageGone \/ Disconnect \/ Crash
  \/ \E p \in Procs : \/ Checks(p) \/ Take(p) \/ Encode(p) \/ EncodeFails(p)
                      \/ EncodeNothing(p) \/ Final(p)
  \/ \E s \in Sessions : \/ Begins(s) \/ HaltAsks(s)
  \/ \E c \in Callers : \/ StartLooks(c) \/ StartRefused(c) \/ DeleteRemoves(c)
  \/ \E c \in Callers, s \in Sessions : \/ StartAdmits(c, s) \/ RequestFinish(c, s)
                                        \/ Stop(c, s) \/ DeleteBegins(c, s)

(* Who changes what. *)
Changing ==
  /\ kind' = kind
  /\ stream' = stream \/ Connect \/ Disconnect \/ Crash \/ FeedConfig
       \/ \E key \in BOOLEAN : FeedFrame(key)
  /\ slot' = slot \/ Crash \/ FrameFails \/ (\E p \in Procs : Final(p))
       \/ \E c \in Callers, s \in Sessions : StartAdmits(c, s)
  /\ halt' = halt \/ HaltBegins \/ Crash \/ \E s \in Sessions : HaltAsks(s)
  /\ removed' = removed \/ \E c \in Callers : DeleteRemoves(c)
  /\ UNCHANGED <<mem, disk>> \/ SessionMoves
  /\ at' = at \/ TaskMoves

LEMMA Changes ==
  ASSUME [Next]_vars
  PROVE  Changing
<1> USE DEF Changing
<1>1. ASSUME NEW c \in Callers, StartLooks(c)
      PROVE  Changing
  <2>1. UNCHANGED <<kind, stream, slot, mem, disk, halt, removed>>
    BY <1>1 DEF StartLooks
  <2> QED
    BY <1>1, <2>1 DEF TaskMoves
<1>2. ASSUME NEW c \in Callers, StartRefused(c)
      PROVE  Changing
  <2>1. UNCHANGED <<kind, stream, slot, mem, disk, halt, removed>>
    BY <1>2 DEF StartRefused
  <2> QED
    BY <1>2, <2>1 DEF TaskMoves
<1>3. ASSUME NEW c \in Callers, NEW s \in Sessions, StartAdmits(c, s)
      PROVE  Changing
  <2>1. UNCHANGED <<kind, stream, halt, removed>>
    BY <1>3 DEF StartAdmits, Admits
  <2> QED
    BY <1>3, <2>1 DEF SessionMoves, TaskMoves
<1>4. CASE FeedConfig
  <2>1. UNCHANGED <<kind, slot, halt, at, removed>>
    BY <1>4 DEF FeedConfig, Sends
  <2> QED
    BY <1>4, <2>1 DEF SessionMoves
<1>5. ASSUME NEW key \in BOOLEAN, FeedFrame(key)
      PROVE  Changing
  <2>1. UNCHANGED <<kind, slot, halt, at, removed>>
    BY <1>5 DEF FeedFrame, Sends
  <2> QED
    BY <1>5, <2>1 DEF SessionMoves
<1>6. CASE FrameFails
  <2>1. UNCHANGED <<kind, stream, halt, at, removed>>
    BY <1>6 DEF FrameFails
  <2> QED
    BY <1>6, <2>1 DEF SessionMoves
<1>7. CASE Collect
  <2>1. UNCHANGED <<kind, stream, slot, disk, halt, at, removed>>
    BY <1>7 DEF Collect
  <2> QED
    BY <1>7, <2>1 DEF SessionMoves
<1>8. CASE CollectFails
  <2>1. UNCHANGED <<kind, stream, slot, mem, disk, halt, removed>>
    BY <1>8 DEF CollectFails, EndsGone
  <2> QED
    BY <1>8, <2>1 DEF TaskMoves
<1>9. CASE Observe
  <2>1. UNCHANGED <<kind, stream, slot, disk, halt, at, removed>>
    BY <1>9 DEF Observe
  <2> QED
    BY <1>9, <2>1 DEF SessionMoves
<1>10. ASSUME NEW c \in Callers, NEW s \in Sessions, RequestFinish(c, s)
      PROVE  Changing
  <2>1. UNCHANGED <<kind, stream, slot, halt, removed>>
    BY <1>10 DEF RequestFinish
  <2> QED
    BY <1>10, <2>1 DEF SessionMoves, TaskMoves
<1>11. ASSUME NEW c \in Callers, NEW s \in Sessions, Stop(c, s)
      PROVE  Changing
  <2>1. UNCHANGED <<kind, stream, slot, mem, disk, halt, removed>>
    BY <1>11 DEF Stop
  <2> QED
    BY <1>11, <2>1 DEF TaskMoves
<1>12. ASSUME NEW c \in Callers, NEW s \in Sessions, DeleteBegins(c, s)
      PROVE  Changing
  <2>1. UNCHANGED <<kind, stream, slot, mem, disk, halt, removed>>
    BY <1>12 DEF DeleteBegins, Deletes
  <2> QED
    BY <1>12, <2>1 DEF TaskMoves
<1>13. ASSUME NEW c \in Callers, DeleteRemoves(c)
      PROVE  Changing
  <2>1. UNCHANGED <<kind, stream, slot, mem, halt>>
    BY <1>13 DEF DeleteRemoves
  <2> QED
    BY <1>13, <2>1 DEF SessionMoves, TaskMoves
<1>14. ASSUME NEW s \in Sessions, Begins(s)
      PROVE  Changing
  <2>1. UNCHANGED <<kind, stream, slot, mem, disk, halt, removed>>
    BY <1>14 DEF Begins
  <2> QED
    BY <1>14, <2>1 DEF TaskMoves
<1>15. ASSUME NEW p \in Procs, Checks(p)
      PROVE  Changing
  <2>1. UNCHANGED <<kind, stream, slot, mem, disk, halt, removed>>
    BY <1>15 DEF Checks
  <2> QED
    BY <1>15, <2>1 DEF TaskMoves
<1>16. ASSUME NEW p \in Procs, Take(p)
      PROVE  Changing
  <2>1. UNCHANGED <<kind, stream, slot, halt, removed>>
    BY <1>16 DEF Take
  <2> QED
    BY <1>16, <2>1 DEF SessionMoves, TaskMoves
<1>17. ASSUME NEW p \in Procs, Encode(p)
      PROVE  Changing
  <2>1. UNCHANGED <<kind, stream, slot, mem, disk, halt, removed>>
    BY <1>17 DEF Encode
  <2> QED
    BY <1>17, <2>1 DEF TaskMoves
<1>18. ASSUME NEW p \in Procs, EncodeFails(p)
      PROVE  Changing
  <2>1. UNCHANGED <<kind, stream, slot, mem, disk, halt, removed>>
    BY <1>18 DEF EncodeFails
  <2> QED
    BY <1>18, <2>1 DEF TaskMoves
<1>19. ASSUME NEW p \in Procs, EncodeNothing(p)
      PROVE  Changing
  <2>1. UNCHANGED <<kind, stream, slot, mem, disk, halt, removed>>
    BY <1>19 DEF EncodeNothing
  <2> QED
    BY <1>19, <2>1 DEF TaskMoves
<1>20. ASSUME NEW p \in Procs, Final(p)
      PROVE  Changing
  <2>1. UNCHANGED <<kind, stream, halt, removed>>
    BY <1>20 DEF Final
  <2> QED
    BY <1>20, <2>1 DEF SessionMoves, TaskMoves
<1>21. CASE Boundary
  <2>1. UNCHANGED <<kind, stream, slot, mem, disk, halt, removed>>
    BY <1>21 DEF Boundary
  <2> QED
    BY <1>21, <2>1 DEF TaskMoves
<1>22. CASE PageGone
  <2>1. UNCHANGED <<kind, stream, slot, mem, disk, halt, removed>>
    BY <1>22 DEF PageGone, EndsGone
  <2> QED
    BY <1>22, <2>1 DEF TaskMoves
<1>23. CASE Connect
  <2>1. UNCHANGED <<kind, slot, mem, disk, halt, at, removed>>
    BY <1>23 DEF Connect
  <2> QED
    BY <1>23, <2>1
<1>24. CASE Disconnect
  <2>1. UNCHANGED <<kind, slot, mem, disk, halt, removed>>
    BY <1>24 DEF Disconnect
  <2> QED
    BY <1>24, <2>1 DEF TaskMoves
<1>25. CASE HaltBegins
  <2>1. UNCHANGED <<kind, stream, slot, mem, disk, at, removed>>
    BY <1>25 DEF HaltBegins
  <2> QED
    BY <1>25, <2>1
<1>26. ASSUME NEW s \in Sessions, HaltAsks(s)
      PROVE  Changing
  <2>1. UNCHANGED <<kind, stream, slot, removed>>
    BY <1>26 DEF HaltAsks
  <2> QED
    BY <1>26, <2>1 DEF SessionMoves, TaskMoves
<1>27. ASSUME NEW s \in Sessions, Recover(s)
      PROVE  Changing
  <2>1. UNCHANGED <<kind, stream, slot, mem, halt, at, removed>>
    BY <1>27 DEF Recover
  <2> QED
    BY <1>27, <2>1 DEF SessionMoves
<1>28. ASSUME NEW s \in Sessions, MediaDeleted(s)
      PROVE  Changing
  <2>1. UNCHANGED <<kind, stream, slot, mem, disk, halt, at, removed>>
    BY <1>28 DEF MediaDeleted
  <2> QED
    BY <1>28, <2>1
<1>29. CASE Crash
  <2>1. UNCHANGED <<kind, disk, removed>>
    BY <1>29 DEF Crash
  <2> QED
    BY <1>29, <2>1 DEF SessionMoves, TaskMoves
<1>30. CASE UNCHANGED vars
  BY <1>30 DEF vars
<1> HIDE DEF Changing
<1> QED
  BY <1>1, <1>2, <1>3, <1>4, <1>5, <1>6, <1>7, <1>8, <1>9, <1>10, <1>11,
     <1>12, <1>13, <1>14, <1>15, <1>16, <1>17, <1>18, <1>19, <1>20, <1>21,
     <1>22, <1>23, <1>24, <1>25, <1>26, <1>27, <1>28, <1>29, <1>30, Actions

LEMMA KindStays ==
  ASSUME [Next]_vars
  PROVE  kind' = kind
BY Changes DEF Changing

(* No session leaves the map before the process dies. *)
LEMMA KnownStays ==
  ASSUME Typed, [Next]_vars
  PROVE  Crash \/ (\A t \in Sessions : mem[t] # None => mem'[t] # None)
<1> DEFINE Kept ==
      Crash \/ (\A t \in Sessions : mem[t] # None => mem'[t] # None)
<1> USE DEF Typed, TypeOK, CoreType, MemType, PlaceInv, Placed
<1>1. ASSUME NEW c \in Callers, NEW s \in Sessions, StartAdmits(c, s)
      PROVE  Kept
  BY <1>1, FreshType DEF StartAdmits, Admits
<1>2. CASE FeedConfig
  BY <1>2, FeedConfigFed DEF Fed
<1>3. ASSUME NEW key \in BOOLEAN, FeedFrame(key)
      PROVE  Kept
  BY <1>3, FeedFrameFed DEF Fed
<1>4. CASE FrameFails
  BY <1>4, FrameFailsStopped DEF Stopped
<1>5. CASE Collect
  BY <1>5, CollectBecomes DEF Becomes
<1>6. CASE Observe
  BY <1>6, ObserveBecomes DEF SameVideo
<1>7. ASSUME NEW c \in Callers, NEW s \in Sessions, RequestFinish(c, s)
      PROVE  Kept
  BY <1>7, RequestFinishBecomes DEF Finalizes, Becomes
<1>8. ASSUME NEW c \in Callers, DeleteRemoves(c)
      PROVE  Kept
  BY <1>8 DEF DeleteRemoves
<1>9. ASSUME NEW p \in Procs, Take(p)
      PROVE  Kept
  BY <1>9, TakeBecomes DEF Finalizes, Becomes
<1>10. ASSUME NEW p \in Procs, Final(p)
      PROVE  Kept
  BY <1>10, FinalStopped DEF Stopped
<1>11. ASSUME NEW s \in Sessions, HaltAsks(s)
      PROVE  Kept
  BY <1>11, HaltAsksBecomes DEF Finalizes, Becomes
<1>12. ASSUME NEW s \in Sessions, Recover(s)
      PROVE  Kept
  BY <1>12 DEF Recover
<1>13. CASE Crash
  BY <1>13 DEF Crash
<1>14. CASE UNCHANGED <<mem, disk>>
  BY <1>14
<1> HIDE DEF Typed, TypeOK, CoreType, MemType, PlaceInv, Placed
<1> QED
  BY <1>1, <1>2, <1>3, <1>4, <1>5, <1>6, <1>7, <1>8, <1>9, <1>10, <1>11,
     <1>12, <1>13, <1>14, Changes DEF Changing, SessionMoves

(* The types. *)
LEMMA CoreStep ==
  ASSUME Typed, [Next]_vars
  PROVE  CoreType'
<1> USE DEF Typed, TypeOK, CoreType, PlaceInv, Placed
<1>1. ASSUME NEW c \in Callers, StartLooks(c)
      PROVE  CoreType'
  BY <1>1 DEF StartLooks
<1>2. ASSUME NEW c \in Callers, StartRefused(c)
      PROVE  CoreType'
  BY <1>2 DEF StartRefused
<1>3. ASSUME NEW c \in Callers, NEW s \in Sessions, StartAdmits(c, s)
      PROVE  CoreType'
  BY <1>3 DEF StartAdmits, Admits, Fresh
<1>4. CASE FeedConfig
  <2>1. PICK c \in 1..MaxConfigs, restarted \in {0, 1} :
          stream' = [stream EXCEPT !.config = c, !.clock = stream.clock + restarted,
                       !.keyed = stream.keyed /\ c = stream.config /\ restarted = 0]
    BY <1>4, ZenonT(30) DEF FeedConfig
  <2>2. c \in Nat /\ stream.clock + restarted \in Nat
    OBVIOUS
  <2>3. stream' \in [number : Nat, up : BOOLEAN, config : Nat, clock : Nat, keyed : BOOLEAN]
    BY <2>1, <2>2
  <2>4. UNCHANGED <<kind, slot, halt, removed>>
        /\ spent' \in [frames : Nat, inputs : Nat, calls : Nat, faults : Nat, crashes : Nat]
    BY <1>4 DEF FeedConfig, Sends
  <2> QED
    BY <2>3, <2>4
<1>5. ASSUME NEW key \in BOOLEAN, FeedFrame(key)
      PROVE  CoreType'
  <2>1. stream' \in [number : Nat, up : BOOLEAN, config : Nat, clock : Nat, keyed : BOOLEAN]
    BY <1>5 DEF FeedFrame
  <2>2. UNCHANGED <<kind, slot, halt, removed>>
        /\ spent' \in [frames : Nat, inputs : Nat, calls : Nat, faults : Nat, crashes : Nat]
    BY <1>5 DEF FeedFrame, Sends
  <2> QED
    BY <2>1, <2>2
<1>6. CASE FrameFails
  BY <1>6, FrameFailsStopped DEF FrameFails, Stopped
<1>7. CASE Collect
  BY <1>7 DEF Collect
<1>8. CASE CollectFails
  BY <1>8 DEF CollectFails, EndsGone, Interrupts
<1>9. CASE Observe
  BY <1>9 DEF Observe
<1>10. ASSUME NEW c \in Callers, NEW s \in Sessions, RequestFinish(c, s)
      PROVE  CoreType'
  BY <1>10 DEF RequestFinish, Finishes
<1>11. ASSUME NEW c \in Callers, NEW s \in Sessions, Stop(c, s)
      PROVE  CoreType'
  BY <1>11 DEF Stop
<1>12. ASSUME NEW c \in Callers, NEW s \in Sessions, DeleteBegins(c, s)
      PROVE  CoreType'
  BY <1>12 DEF DeleteBegins, Deletes
<1>13. ASSUME NEW c \in Callers, DeleteRemoves(c)
      PROVE  CoreType'
  BY <1>13 DEF DeleteRemoves
<1>14. ASSUME NEW s \in Sessions, Begins(s)
      PROVE  CoreType'
  BY <1>14 DEF Begins
<1>15. ASSUME NEW p \in Procs, Checks(p)
      PROVE  CoreType'
  BY <1>15 DEF Checks
<1>16. ASSUME NEW p \in Procs, Take(p)
      PROVE  CoreType'
  BY <1>16 DEF Take
<1>17. ASSUME NEW p \in Procs, Encode(p)
      PROVE  CoreType'
  BY <1>17 DEF Encode
<1>18. ASSUME NEW p \in Procs, EncodeFails(p)
      PROVE  CoreType'
  BY <1>18 DEF EncodeFails
<1>19. ASSUME NEW p \in Procs, EncodeNothing(p)
      PROVE  CoreType'
  BY <1>19 DEF EncodeNothing
<1>20. ASSUME NEW p \in Procs, Final(p)
      PROVE  CoreType'
  <2>1. UNCHANGED <<kind, stream, halt, removed, spent>>
    BY <1>20 DEF Final
  <2>2. slot' \in {slot, None}
    BY <1>20, FinalStopped DEF Stopped
  <2> QED
    BY <2>1, <2>2
<1>21. CASE Boundary
  BY <1>21 DEF Boundary, Interrupts
<1>22. CASE PageGone
  BY <1>22 DEF PageGone, EndsGone, Interrupts
<1>23. CASE Connect
  BY <1>23 DEF Connect
<1>24. CASE Disconnect
  BY <1>24 DEF Disconnect
<1>25. CASE HaltBegins
  BY <1>25 DEF HaltBegins
<1>26. ASSUME NEW s \in Sessions, HaltAsks(s)
      PROVE  CoreType'
  BY <1>26 DEF HaltAsks
<1>27. ASSUME NEW s \in Sessions, Recover(s)
      PROVE  CoreType'
  BY <1>27 DEF Recover
<1>28. ASSUME NEW s \in Sessions, MediaDeleted(s)
      PROVE  CoreType'
  BY <1>28 DEF MediaDeleted
<1>29. CASE Crash
  <2>1. /\ stream' = [stream EXCEPT !.up = FALSE] /\ slot' = None
        /\ halt' = [closed |-> FALSE, todo |-> {}] /\ UNCHANGED <<kind, removed>>
        /\ spent' = [spent EXCEPT !.crashes = spent.crashes + 1]
    BY <1>29 DEF Crash
  <2>2. stream' \in [number : Nat, up : BOOLEAN, config : Nat, clock : Nat, keyed : BOOLEAN]
    BY <2>1
  <2>3. spent' \in [frames : Nat, inputs : Nat, calls : Nat, faults : Nat, crashes : Nat]
    BY <2>1
  <2>4. halt' \in [closed : BOOLEAN, todo : SUBSET Sessions]
    BY <2>1
  <2> QED
    BY <2>1, <2>2, <2>3, <2>4
<1>30. CASE UNCHANGED vars
  BY <1>30 DEF vars
<1> HIDE DEF Typed, TypeOK, CoreType, PlaceInv, Placed
<1> QED
  BY <1>1, <1>2, <1>3, <1>4, <1>5, <1>6, <1>7, <1>8, <1>9, <1>10, <1>11,
     <1>12, <1>13, <1>14, <1>15, <1>16, <1>17, <1>18, <1>19, <1>20, <1>21,
     <1>22, <1>23, <1>24, <1>25, <1>26, <1>27, <1>28, <1>29, <1>30, Actions

LEMMA MemStep ==
  ASSUME Typed, [Next]_vars
  PROVE  MemType'
<1> USE DEF Typed, TypeOK, CoreType, MemType, PlaceInv, Placed
<1>1. ASSUME NEW c \in Callers, NEW s \in Sessions, StartAdmits(c, s)
      PROVE  MemType'
  BY <1>1, FreshType DEF StartAdmits, Admits
<1>2. CASE FeedConfig
  BY <1>2, FeedConfigFed DEF Fed
<1>3. ASSUME NEW key \in BOOLEAN, FeedFrame(key)
      PROVE  MemType'
  BY <1>3, FeedFrameFed DEF Fed
<1>4. CASE FrameFails
  BY <1>4, FrameFailsStopped DEF Stopped
<1>5. CASE Collect
  BY <1>5, CollectBecomes DEF Becomes
<1>6. CASE Observe
  BY <1>6, ObserveBecomes DEF SameVideo
<1>7. ASSUME NEW c \in Callers, NEW s \in Sessions, RequestFinish(c, s)
      PROVE  MemType'
  BY <1>7, RequestFinishBecomes DEF Finalizes, Becomes
<1>8. ASSUME NEW c \in Callers, DeleteRemoves(c)
      PROVE  MemType'
  BY <1>8 DEF DeleteRemoves
<1>9. ASSUME NEW p \in Procs, Take(p)
      PROVE  MemType'
  BY <1>9, TakeBecomes DEF Finalizes, Becomes
<1>10. ASSUME NEW p \in Procs, Final(p)
      PROVE  MemType'
  BY <1>10, FinalStopped DEF Stopped
<1>11. ASSUME NEW s \in Sessions, HaltAsks(s)
      PROVE  MemType'
  BY <1>11, HaltAsksBecomes DEF Finalizes, Becomes
<1>12. ASSUME NEW s \in Sessions, Recover(s)
      PROVE  MemType'
  BY <1>12 DEF Recover
<1>13. CASE Crash
  BY <1>13 DEF Crash
<1>14. CASE UNCHANGED <<mem, disk>>
  BY <1>14
<1> HIDE DEF Typed, TypeOK, CoreType, MemType, PlaceInv, Placed
<1> QED
  BY <1>1, <1>2, <1>3, <1>4, <1>5, <1>6, <1>7, <1>8, <1>9, <1>10, <1>11,
     <1>12, <1>13, <1>14, Changes DEF Changing, SessionMoves

LEMMA DiskStep ==
  ASSUME Typed, [Next]_vars
  PROVE  DiskType'
<1> USE DEF Typed, TypeOK, CoreType, MemType, DiskType, PlaceInv, Placed
<1>1. ASSUME NEW c \in Callers, NEW s \in Sessions, StartAdmits(c, s)
      PROVE  DiskType'
  BY <1>1, FreshType, SavedType DEF StartAdmits, Admits
<1>2. CASE FeedConfig
  BY <1>2, FeedConfigFed, SavedType DEF Fed
<1>3. ASSUME NEW key \in BOOLEAN, FeedFrame(key)
      PROVE  DiskType'
  BY <1>3, FeedFrameFed, SavedType DEF Fed
<1>4. CASE FrameFails
  BY <1>4, FrameFailsStopped DEF Stopped
<1>5. CASE Collect
  BY <1>5 DEF Collect
<1>6. CASE Observe
  BY <1>6 DEF Observe
<1>7. ASSUME NEW c \in Callers, NEW s \in Sessions, RequestFinish(c, s)
      PROVE  DiskType'
  BY <1>7, RequestFinishBecomes DEF Finalizes, Becomes
<1>8. ASSUME NEW c \in Callers, DeleteRemoves(c)
      PROVE  DiskType'
  BY <1>8 DEF DeleteRemoves
<1>9. ASSUME NEW p \in Procs, Take(p)
      PROVE  DiskType'
  BY <1>9, TakeBecomes DEF Finalizes, Becomes
<1>10. ASSUME NEW p \in Procs, Final(p)
      PROVE  DiskType'
  BY <1>10, FinalStopped DEF Stopped
<1>11. ASSUME NEW s \in Sessions, HaltAsks(s)
      PROVE  DiskType'
  BY <1>11, HaltAsksBecomes DEF Finalizes, Becomes
<1>12. ASSUME NEW s \in Sessions, Recover(s)
      PROVE  DiskType'
  <2> DEFINE d == [disk[s] EXCEPT !.state = "Interrupted"]
  <2>0. disk[s] \in SessionFile
    BY <1>12 DEF Recover
  <2>1. d \in SessionFile
    BY <2>0 DEF SessionFile, States
  <2>2. disk' = [disk EXCEPT ![s] = d]
    BY <1>12 DEF Recover
  <2> HIDE DEF d
  <2> QED
    BY <2>1, <2>2
<1>13. CASE Crash
  BY <1>13 DEF Crash
<1>14. CASE UNCHANGED <<mem, disk>>
  BY <1>14
<1> HIDE DEF Typed, TypeOK, CoreType, MemType, DiskType, PlaceInv, Placed
<1> QED
  BY <1>1, <1>2, <1>3, <1>4, <1>5, <1>6, <1>7, <1>8, <1>9, <1>10, <1>11,
     <1>12, <1>13, <1>14, Changes DEF Changing, SessionMoves

LEMMA MediaStep ==
  ASSUME Typed, [Next]_vars
  PROVE  MediaType'
<1> USE DEF Typed, TypeOK, MediaType, PlaceInv, Placed
<1>1. ASSUME NEW c \in Callers, StartLooks(c)
      PROVE  MediaType'
  BY <1>1 DEF StartLooks
<1>2. ASSUME NEW c \in Callers, StartRefused(c)
      PROVE  MediaType'
  BY <1>2 DEF StartRefused
<1>3. ASSUME NEW c \in Callers, NEW s \in Sessions, StartAdmits(c, s)
      PROVE  MediaType'
  BY <1>3 DEF StartAdmits, Admits
<1>4. CASE FeedConfig
  BY <1>4, FeedConfigFed DEF Fed
<1>5. ASSUME NEW key \in BOOLEAN, FeedFrame(key)
      PROVE  MediaType'
  BY <1>5, FeedFrameFed DEF Fed
<1>6. CASE FrameFails
  BY <1>6, FrameFailsStopped DEF Stopped
<1>7. CASE Collect
  BY <1>7 DEF Collect
<1>8. CASE CollectFails
  BY <1>8 DEF CollectFails, EndsGone, Interrupts
<1>9. CASE Observe
  BY <1>9 DEF Observe
<1>10. ASSUME NEW c \in Callers, NEW s \in Sessions, RequestFinish(c, s)
      PROVE  MediaType'
  BY <1>10 DEF RequestFinish
<1>11. ASSUME NEW c \in Callers, NEW s \in Sessions, Stop(c, s)
      PROVE  MediaType'
  BY <1>11 DEF Stop
<1>12. ASSUME NEW c \in Callers, NEW s \in Sessions, DeleteBegins(c, s)
      PROVE  MediaType'
  BY <1>12 DEF DeleteBegins, Deletes
<1>13. ASSUME NEW c \in Callers, DeleteRemoves(c)
      PROVE  MediaType'
  BY <1>13 DEF DeleteRemoves
<1>14. ASSUME NEW s \in Sessions, Begins(s)
      PROVE  MediaType'
  BY <1>14 DEF Begins
<1>15. ASSUME NEW p \in Procs, Checks(p)
      PROVE  MediaType'
  BY <1>15 DEF Checks
<1>16. ASSUME NEW p \in Procs, Take(p)
      PROVE  MediaType'
  BY <1>16 DEF Take
<1>17. ASSUME NEW p \in Procs, Encode(p)
      PROVE  MediaType'
  BY <1>17 DEF Encode
<1>18. ASSUME NEW p \in Procs, EncodeFails(p)
      PROVE  MediaType'
  BY <1>18 DEF EncodeFails
<1>19. ASSUME NEW p \in Procs, EncodeNothing(p)
      PROVE  MediaType'
  BY <1>19 DEF EncodeNothing
<1>20. ASSUME NEW p \in Procs, Final(p)
      PROVE  MediaType'
  BY <1>20, FinalStopped DEF Stopped
<1>21. CASE Boundary
  BY <1>21 DEF Boundary, Interrupts
<1>22. CASE PageGone
  BY <1>22 DEF PageGone, EndsGone, Interrupts
<1>23. CASE Connect
  BY <1>23 DEF Connect
<1>24. CASE Disconnect
  BY <1>24 DEF Disconnect
<1>25. CASE HaltBegins
  BY <1>25 DEF HaltBegins
<1>26. ASSUME NEW s \in Sessions, HaltAsks(s)
      PROVE  MediaType'
  BY <1>26 DEF HaltAsks
<1>27. ASSUME NEW s \in Sessions, Recover(s)
      PROVE  MediaType'
  BY <1>27 DEF Recover
<1>28. ASSUME NEW s \in Sessions, MediaDeleted(s)
      PROVE  MediaType'
  BY <1>28 DEF MediaDeleted
<1>29. CASE Crash
  BY <1>29 DEF Crash
<1>30. CASE UNCHANGED vars
  BY <1>30 DEF vars
<1> HIDE DEF Typed, TypeOK, MediaType, PlaceInv, Placed
<1> QED
  BY <1>1, <1>2, <1>3, <1>4, <1>5, <1>6, <1>7, <1>8, <1>9, <1>10, <1>11,
     <1>12, <1>13, <1>14, <1>15, <1>16, <1>17, <1>18, <1>19, <1>20, <1>21,
     <1>22, <1>23, <1>24, <1>25, <1>26, <1>27, <1>28, <1>29, <1>30, Actions

LEMMA AtStep ==
  ASSUME Typed, [Next]_vars
  PROVE  AtType'
<1> USE DEF Typed, TypeOK, CoreType, AtType, Task, PlaceInv, Placed
<1>1. ASSUME NEW c \in Callers, StartLooks(c)
      PROVE  AtType'
  BY <1>1 DEF StartLooks
<1>2. ASSUME NEW c \in Callers, StartRefused(c)
      PROVE  AtType'
  BY <1>2 DEF StartRefused
<1>3. ASSUME NEW c \in Callers, NEW s \in Sessions, StartAdmits(c, s)
      PROVE  AtType'
  BY <1>3 DEF StartAdmits, Admits
<1>4. CASE CollectFails
  BY <1>4 DEF CollectFails, EndsGone, Interrupts
<1>5. ASSUME NEW c \in Callers, NEW s \in Sessions, RequestFinish(c, s)
      PROVE  AtType'
  BY <1>5 DEF RequestFinish
<1>6. ASSUME NEW c \in Callers, NEW s \in Sessions, Stop(c, s)
      PROVE  AtType'
  BY <1>6 DEF Stop
<1>7. ASSUME NEW c \in Callers, NEW s \in Sessions, DeleteBegins(c, s)
      PROVE  AtType'
  BY <1>7 DEF DeleteBegins, Deletes
<1>8. ASSUME NEW c \in Callers, DeleteRemoves(c)
      PROVE  AtType'
  BY <1>8 DEF DeleteRemoves
<1>9. ASSUME NEW s \in Sessions, Begins(s)
      PROVE  AtType'
  <2> DEFINE to == IF mem[s].cancelled THEN "Interrupted" ELSE at[s].to
             b == [at[s] EXCEPT !.pc = "take", !.to = to]
  <2>1. at' = [at EXCEPT ![s] = b]
    BY <1>9 DEF Begins
  <2>2. to \in Results \cup {None}
    OBVIOUS
  <2> HIDE DEF to
  <2>3. at[s] \in Task
    BY DEF Task
  <2>4. b \in Task
    BY <2>2, <2>3 DEF Task
  <2> HIDE DEF b
  <2> QED
    BY <2>1, <2>4 DEF Task
<1>10. ASSUME NEW p \in Procs, Checks(p)
      PROVE  AtType'
  <2>1. PICK pc \in {"take", "final"} :
          \/ at' = [at EXCEPT ![p] = Idle]
          \/ at' = [at EXCEPT ![p] = [at[p] EXCEPT !.pc = pc]]
    BY <1>10 DEF Checks
  <2>2. CASE at' = [at EXCEPT ![p] = Idle]
    BY <2>2
  <2>3. CASE at' = [at EXCEPT ![p] = [at[p] EXCEPT !.pc = pc]]
    BY <2>3
  <2> QED
    BY <2>1, <2>2, <2>3
<1>11. ASSUME NEW p \in Procs, Take(p)
      PROVE  AtType'
  BY <1>11 DEF Take
<1>12. ASSUME NEW p \in Procs, Encode(p)
      PROVE  AtType'
  BY <1>12 DEF Encode
<1>13. ASSUME NEW p \in Procs, EncodeFails(p)
      PROVE  AtType'
  BY <1>13 DEF EncodeFails
<1>14. ASSUME NEW p \in Procs, EncodeNothing(p)
      PROVE  AtType'
  BY <1>14 DEF EncodeNothing
<1>15. ASSUME NEW p \in Procs, Final(p)
      PROVE  AtType'
  BY <1>15 DEF Final
<1>16. CASE Boundary
  BY <1>16 DEF Boundary, Interrupts
<1>17. CASE PageGone
  BY <1>17 DEF PageGone, EndsGone, Interrupts
<1>18. CASE Disconnect
  BY <1>18 DEF Disconnect
<1>19. ASSUME NEW s \in Sessions, HaltAsks(s)
      PROVE  AtType'
  <2>1. CASE at' = at
    BY <2>1
  <2>2. CASE at' = [at EXCEPT ![s] = Begun(s)]
    BY <2>2
  <2> QED
    BY <2>1, <2>2, <1>19, HaltAsksBecomes
<1>20. CASE Crash
  BY <1>20 DEF Crash
<1>21. CASE at' = at
  BY <1>21
<1> HIDE DEF Typed, TypeOK, CoreType, AtType, Task, PlaceInv, Placed
<1> QED
  BY <1>1, <1>2, <1>3, <1>4, <1>5, <1>6, <1>7, <1>8, <1>9, <1>10, <1>11,
     <1>12, <1>13, <1>14, <1>15, <1>16, <1>17, <1>18, <1>19, <1>20, <1>21,
     Changes DEF Changing, TaskMoves

LEMMA SlotStep ==
  ASSUME Typed, [Next]_vars
  PROVE  slot' # None => mem'[slot'] # None
<1> USE DEF Typed, TypeOK, CoreType, MemType, PlaceInv, Placed
<1>1. CASE slot' \in {slot, None}
  BY <1>1, KnownStays DEF Crash
<1>2. ASSUME NEW c \in Callers, NEW s \in Sessions, StartAdmits(c, s)
      PROVE  slot' # None => mem'[slot'] # None
  <2>1. Fresh(kind, at[c].s) \in Session
    BY <1>2, FreshType DEF StartAdmits
  <2> QED
    BY <1>2, <2>1 DEF StartAdmits, Admits
<1>3. CASE FrameFails
  BY <1>1, <1>3, FrameFailsStopped DEF Stopped
<1>4. ASSUME NEW p \in Procs, Final(p)
      PROVE  slot' \in {slot, None}
  BY <1>4, FinalStopped DEF Stopped
<1> QED
  BY <1>1, <1>2, <1>3, <1>4, Changes DEF Changing, Crash

LEMMA PlacedStep ==
  ASSUME Typed, [Next]_vars,
         \A t \in Sessions : mem[t] # None => mem'[t] # None, kind' = kind
  PROVE  Placed'
<1> USE DEF Typed, TypeOK, CoreType, AtType, Task, PlaceInv, Placed
<1>1. ASSUME NEW c \in Callers, StartLooks(c)
      PROVE  Placed'
  BY <1>1 DEF StartLooks
<1>2. ASSUME NEW c \in Callers, StartRefused(c)
      PROVE  Placed'
  BY <1>2 DEF StartRefused
<1>3. ASSUME NEW c \in Callers, NEW s \in Sessions, StartAdmits(c, s)
      PROVE  Placed'
  BY <1>3 DEF StartAdmits, Admits
<1>4. CASE CollectFails
  BY <1>4 DEF CollectFails, EndsGone, Interrupts
<1>5. ASSUME NEW c \in Callers, NEW s \in Sessions, RequestFinish(c, s)
      PROVE  Placed'
  BY <1>5 DEF RequestFinish
<1>6. ASSUME NEW c \in Callers, NEW s \in Sessions, Stop(c, s)
      PROVE  Placed'
  BY <1>6 DEF Stop
<1>7. ASSUME NEW c \in Callers, NEW s \in Sessions, DeleteBegins(c, s)
      PROVE  Placed'
  BY <1>7 DEF DeleteBegins, Deletes
<1>8. ASSUME NEW c \in Callers, DeleteRemoves(c)
      PROVE  Placed'
  BY <1>8 DEF DeleteRemoves
<1>9. ASSUME NEW s \in Sessions, Begins(s)
      PROVE  Placed'
  BY <1>9 DEF Begins
<1>10. ASSUME NEW p \in Procs, Checks(p)
      PROVE  Placed'
  <2>1. PICK pc \in {"take", "final"} :
          \/ at' = [at EXCEPT ![p] = Idle]
          \/ at' = [at EXCEPT ![p] = [at[p] EXCEPT !.pc = pc]]
    BY <1>10 DEF Checks
  <2>2. at[p].pc \in {"check", "again"}
    BY <1>10 DEF Checks
  <2>3. CASE at' = [at EXCEPT ![p] = Idle]
    BY <2>3
  <2>4. CASE at' = [at EXCEPT ![p] = [at[p] EXCEPT !.pc = pc]]
    BY <2>2, <2>4
  <2> QED
    BY <2>1, <2>3, <2>4
<1>11. ASSUME NEW p \in Procs, Take(p)
      PROVE  Placed'
  <2>1. PICK pc \in {"encode", "final", "again"} :
          /\ at' = [at EXCEPT ![p] = [at[p] EXCEPT !.pc = pc]]
          /\ p \in Sessions => pc # "again"
    BY <1>11 DEF Take
  <2>2. at[p].pc = "take"
    BY <1>11 DEF Take
  <2> QED
    BY <2>1, <2>2
<1>12. ASSUME NEW p \in Procs, Encode(p)
      PROVE  Placed'
  <2> DEFINE film == mem[at[p].s].pictures
  <2>1. at' = [at EXCEPT ![p] = [at[p] EXCEPT !.pc = "final", !.segment = film]]
    BY <1>12 DEF Encode
  <2>2. at[p].pc = "encode"
    BY <1>12 DEF Encode
  <2> HIDE DEF film
  <2> QED
    BY <2>1, <2>2
<1>13. ASSUME NEW p \in Procs, EncodeFails(p)
      PROVE  Placed'
  <2>1. at[p].pc = "encode"
    BY <1>13 DEF EncodeFails
  <2>2. \A q \in Procs : q # p => at'[q] = at[q]
    BY <1>13 DEF EncodeFails
  <2>3. at'[p].pc = "final" /\ at'[p].s = at[p].s /\ at'[p].to \in Results
    BY <1>13 DEF EncodeFails
  <2> HIDE DEF TypeOK
  <2> QED
    BY <2>1, <2>2, <2>3
<1>14. ASSUME NEW p \in Procs, EncodeNothing(p)
      PROVE  Placed'
  BY <1>14 DEF EncodeNothing
<1>15. ASSUME NEW p \in Procs, Final(p)
      PROVE  Placed'
  BY <1>15 DEF Final
<1>16. CASE Boundary
  BY <1>16 DEF Boundary, Interrupts
<1>17. CASE PageGone
  BY <1>17 DEF PageGone, EndsGone, Interrupts
<1>18. CASE Disconnect
  BY <1>18 DEF Disconnect
<1>19. ASSUME NEW s \in Sessions, HaltAsks(s)
      PROVE  Placed'
  <2>1. CASE at' = at
    BY <2>1
  <2>2. CASE at' = [at EXCEPT ![s] = Begun(s)]
    <3>1. at' = at \/ mem[s] # None
      BY <1>19 DEF HaltAsks
    <3> QED
      BY <2>1, <2>2, <3>1
  <2> QED
    BY <2>1, <2>2, <1>19, HaltAsksBecomes
<1>20. CASE Crash
  BY <1>20 DEF Crash
<1>21. CASE at' = at
  BY <1>21
<1> HIDE DEF Typed, TypeOK, CoreType, AtType, Task, PlaceInv, Placed
<1> QED
  BY <1>1, <1>2, <1>3, <1>4, <1>5, <1>6, <1>7, <1>8, <1>9, <1>10, <1>11,
     <1>12, <1>13, <1>14, <1>15, <1>16, <1>17, <1>18, <1>19, <1>20, <1>21,
     Changes DEF Changing, TaskMoves

LEMMA InitTyped == Init => Typed
<1> SUFFICES ASSUME Init
             PROVE  Typed
  OBVIOUS
<1> USE DEF Init
<1>1. CoreType
  BY DEF CoreType
<1>2. MemType /\ DiskType
  BY DEF MemType, DiskType
<1>3. MediaType
  BY DEF MediaType
<1>4. AtType
  BY DEF AtType, Task
<1>5. PlaceInv
  BY DEF PlaceInv, Placed
<1> QED
  BY <1>1, <1>2, <1>3, <1>4, <1>5 DEF Typed, TypeOK

LEMMA TypedStep ==
  ASSUME Typed, [Next]_vars
  PROVE  Typed'
<1>1. Placed'
  <2>1. CASE Crash
    BY <2>1 DEF Crash, Placed
  <2>2. CASE \A t \in Sessions : mem[t] # None => mem'[t] # None
    BY <2>2, PlacedStep, KindStays
  <2> QED
    BY <2>1, <2>2, KnownStays
<1> QED
  BY <1>1, CoreStep, MemStep, DiskStep, MediaStep, AtStep, SlotStep DEF Typed, TypeOK, PlaceInv

LEMMA AlwaysTyped == Spec => []Typed
<1>1. Init => Typed
  BY InitTyped
<1>2. Typed /\ [Next]_vars => Typed'
  BY TypedStep
<1> QED
  BY <1>1, <1>2, PTL DEF Spec

(* The variables have their types, whatever request_finish, finalize_stop, *)
(* end_interrupted and the shutdown do to the same session.                *)
THEOREM TypeCorrect == Spec => []TypeOK
<1>1. Typed => TypeOK
  BY DEF Typed
<1> QED
  BY <1>1, AlwaysTyped, PTL

-----------------------------------------------------------------------------
(* The course of a recording: who may still end it, and what of it stays.  *)

(* Who holds the target. *)
SlotInv == \A s \in Sessions : mem[s] # None /\ mem[s].state \in Active => slot = s

(* A recording that was deleted, or is about to be, is over. *)
Over(s) == mem[s] # None => mem[s].state \notin Active
RemovedInv ==
  /\ \A s \in removed : disk[s] = None /\ Over(s)
  /\ \A p \in Procs : at[p].pc = "delete" =>
       Over(at[p].s) /\ (disk[at[p].s] # None \/ at[p].s \in removed)

(* The pictures of a page are taken before its recording is over, and who  *)
(* comes after looks at `stopping` without them.                           *)
PageInv ==
  /\ \A s \in Sessions :
       mem[s] # None /\ mem[s].page => mem[s].state \in Active /\ kind = "browser"
  /\ \A p \in Procs :
       /\ at[p].pc \in {"again", "encode", "final"} => ~mem[at[p].s].page
       /\ at[p].pc = "encode" \/ at[p].segment => kind = "browser"

(* Who records when the shutdown has begun is on its list. *)
HaltInv == halt.closed => \A s \in Sessions : IsIn(s, "Recording") => s \in halt.todo

(* What no step takes back from a session. *)
Onward ==
  \A t \in Sessions : mem[t] # None =>
    /\ mem'[t] # None
    /\ mem'[t].page => mem[t].page /\ mem'[t].state \in Active
    /\ mem[t].stopping => mem'[t].stopping
    /\ mem'[t].state \in Active => mem[t].state \in Active
    /\ mem'[t].state = "Recording" => mem[t].state = "Recording"

(* How a task comes to its place. *)
Arrives ==
  \A q \in Procs :
    /\ at'[q].pc \in {"again", "encode", "final"} =>
         at'[q].s = at[q].s /\ (at[q].pc \in {"again", "encode", "final"} \/ Take(q))
    /\ at'[q].pc = "encode" => at[q].pc = "encode" \/ (Take(q) /\ mem[at[q].s].page)
    /\ at'[q].segment => at[q].segment \/ at[q].pc = "encode"
    /\ at'[q].pc = "delete" => at'[q] = at[q] \/ DeleteBegins(q, at'[q].s)

(* What becomes of session.json. *)
Writes ==
  /\ removed \subseteq removed'
  /\ \A t \in Sessions :
       /\ disk[t] # None => disk'[t] # None \/ t \in removed'
       /\ t \in removed' \ removed =>
            disk'[t] = None /\ \E d \in Callers : at[d].pc = "delete" /\ at[d].s = t
       /\ disk[t] = None /\ disk'[t] # None =>
            \/ mem[t] # None /\ mem[t].state \in Active
            \/ \E d \in Callers : StartAdmits(d, t)

LEMMA OnwardStep ==
  ASSUME Typed, PageInv, [Next]_vars
  PROVE  (Crash \/ Onward)
<1> USE DEF Typed, TypeOK, CoreType, MemType, PlaceInv, Placed, PageInv, Onward
<1>1. ASSUME NEW c \in Callers, NEW s \in Sessions, StartAdmits(c, s)
      PROVE  (Crash \/ Onward)
  BY <1>1, FreshType, NewIsUnused DEF StartAdmits, Admits
<1>2. CASE FeedConfig
  BY <1>2, FeedConfigFed DEF Fed
<1>3. ASSUME NEW key \in BOOLEAN, FeedFrame(key)
      PROVE  (Crash \/ Onward)
  BY <1>3, FeedFrameFed DEF Fed
<1>4. CASE FrameFails
  BY <1>4, FrameFailsStopped DEF FrameFails, Stopped
<1>5. CASE Collect
  BY <1>5, CollectBecomes DEF Becomes
<1>6. CASE Observe
  BY <1>6, ObserveBecomes DEF SameVideo
<1>7. ASSUME NEW c \in Callers, NEW s \in Sessions, RequestFinish(c, s)
      PROVE  (Crash \/ Onward)
  BY <1>7, RequestFinishBecomes DEF Finalizes, Becomes
<1>8. ASSUME NEW c \in Callers, DeleteRemoves(c)
      PROVE  (Crash \/ Onward)
  BY <1>8 DEF DeleteRemoves
<1>9. ASSUME NEW p \in Procs, Take(p)
      PROVE  (Crash \/ Onward)
  BY <1>9, TakeBecomes DEF Finalizes, Becomes
<1>10. ASSUME NEW p \in Procs, Final(p)
      PROVE  (Crash \/ Onward)
  <2>1. PICK m \in Session :
          Filmed(at[p].s, at[p].segment, m) /\ Stopped(at[p].s, m, at[p].to)
    BY <1>10, FinalStopped
  <2>2. at[p].s \in Sessions /\ mem[at[p].s] # None /\ ~mem[at[p].s].page
    BY <1>10 DEF Final
  <2>3. mem' = [mem EXCEPT ![at[p].s] = Ended(m, at[p].to)] /\ Ended(m, at[p].to) # None
    BY <2>1 DEF Stopped
  <2>4. /\ Ended(m, at[p].to).state \notin Active
        /\ ~Ended(m, at[p].to).page
        /\ mem[at[p].s].stopping => Ended(m, at[p].to).stopping
    BY <2>1, <2>2 DEF Stopped, Filmed
  <2>5. Onward
    BY <2>2, <2>3, <2>4
  <2> QED
    BY <2>5
<1>11. ASSUME NEW s \in Sessions, HaltAsks(s)
      PROVE  (Crash \/ Onward)
  BY <1>11, HaltAsksBecomes DEF Finalizes, Becomes
<1>12. ASSUME NEW s \in Sessions, Recover(s)
      PROVE  (Crash \/ Onward)
  BY <1>12 DEF Recover
<1>13. CASE Crash
  BY <1>13 DEF Crash
<1>14. CASE UNCHANGED <<mem, disk>>
  BY <1>14
<1> HIDE DEF Typed, TypeOK, CoreType, MemType, PlaceInv, Placed, PageInv, Onward
<1> QED
  BY <1>1, <1>2, <1>3, <1>4, <1>5, <1>6, <1>7, <1>8, <1>9, <1>10, <1>11,
     <1>12, <1>13, <1>14, Changes DEF Changing, SessionMoves

(* Who is new in the map was admitted. *)
LEMMA Newcomers ==
  ASSUME Typed, [Next]_vars
  PROVE  \A t \in Sessions : mem[t] = None /\ mem'[t] # None =>
           \E d \in Callers : StartAdmits(d, t)
<1> DEFINE Joins ==
      \A t \in Sessions : mem[t] = None /\ mem'[t] # None =>
        \E d \in Callers : StartAdmits(d, t)
<1> USE DEF Typed, TypeOK, CoreType, MemType, PlaceInv, Placed
<1>1. ASSUME NEW c \in Callers, NEW s \in Sessions, StartAdmits(c, s)
      PROVE  Joins
  <2>1. \A t \in Sessions : mem[t] = None /\ mem'[t] # None => t = s
    BY <1>1 DEF StartAdmits, Admits
  <2> QED
    BY <2>1, <1>1
<1>2. CASE FeedConfig
  BY <1>2, FeedConfigFed DEF Fed
<1>3. ASSUME NEW key \in BOOLEAN, FeedFrame(key)
      PROVE  Joins
  BY <1>3, FeedFrameFed DEF Fed
<1>4. CASE FrameFails
  BY <1>4, FrameFailsStopped DEF Stopped
<1>5. CASE Collect
  BY <1>5, CollectBecomes DEF Becomes
<1>6. CASE Observe
  BY <1>6, ObserveBecomes DEF SameVideo
<1>7. ASSUME NEW c \in Callers, NEW s \in Sessions, RequestFinish(c, s)
      PROVE  Joins
  BY <1>7, RequestFinishBecomes DEF Finalizes, Becomes
<1>8. ASSUME NEW c \in Callers, DeleteRemoves(c)
      PROVE  Joins
  BY <1>8 DEF DeleteRemoves
<1>9. ASSUME NEW p \in Procs, Take(p)
      PROVE  Joins
  BY <1>9, TakeBecomes DEF Finalizes, Becomes
<1>10. ASSUME NEW p \in Procs, Final(p)
      PROVE  Joins
  BY <1>10, FinalStopped DEF Stopped
<1>11. ASSUME NEW s \in Sessions, HaltAsks(s)
      PROVE  Joins
  BY <1>11, HaltAsksBecomes DEF Finalizes, Becomes
<1>12. ASSUME NEW s \in Sessions, Recover(s)
      PROVE  Joins
  BY <1>12 DEF Recover
<1>13. CASE Crash
  BY <1>13 DEF Crash
<1>14. CASE UNCHANGED <<mem, disk>>
  BY <1>14
<1> HIDE DEF Typed, TypeOK, CoreType, MemType, PlaceInv, Placed
<1> QED
  BY <1>1, <1>2, <1>3, <1>4, <1>5, <1>6, <1>7, <1>8, <1>9, <1>10, <1>11,
     <1>12, <1>13, <1>14, Changes DEF Changing, SessionMoves

LEMMA SlotInvStep ==
  ASSUME Typed, SlotInv, Onward, [Next]_vars
  PROVE  SlotInv'
<1> USE DEF Typed, TypeOK, CoreType, MemType, PlaceInv, Placed, SlotInv, Onward
<1>1. CASE slot' = slot
  BY <1>1, Newcomers DEF StartAdmits, Admits
<1>2. ASSUME NEW c \in Callers, NEW s \in Sessions, StartAdmits(c, s)
      PROVE  SlotInv'
  BY <1>2 DEF StartAdmits, Admits
<1>3. CASE FrameFails
  BY <1>3, FrameFailsStopped, KnownStays DEF Stopped
<1>4. ASSUME NEW p \in Procs, Final(p)
      PROVE  SlotInv'
  BY <1>4, FinalStopped DEF Stopped
<1>5. CASE Crash
  BY <1>5 DEF Crash
<1> QED
  BY <1>1, <1>2, <1>3, <1>4, <1>5, Changes DEF Changing

LEMMA ArrivesStep ==
  ASSUME Typed, [Next]_vars
  PROVE  Arrives
<1> USE DEF Typed, TypeOK, AtType, Task, PlaceInv, Placed, Arrives
<1>1. ASSUME NEW c \in Callers, StartLooks(c)
      PROVE  Arrives
  BY <1>1 DEF StartLooks
<1>2. ASSUME NEW c \in Callers, StartRefused(c)
      PROVE  Arrives
  BY <1>2 DEF StartRefused
<1>3. ASSUME NEW c \in Callers, NEW s \in Sessions, StartAdmits(c, s)
      PROVE  Arrives
  BY <1>3 DEF StartAdmits, Admits
<1>4. CASE CollectFails
  BY <1>4 DEF CollectFails, EndsGone, Interrupts
<1>5. ASSUME NEW c \in Callers, NEW s \in Sessions, RequestFinish(c, s)
      PROVE  Arrives
  BY <1>5 DEF RequestFinish
<1>6. ASSUME NEW c \in Callers, NEW s \in Sessions, Stop(c, s)
      PROVE  Arrives
  BY <1>6 DEF Stop
<1>7. ASSUME NEW c \in Callers, NEW s \in Sessions, DeleteBegins(c, s)
      PROVE  Arrives
  <2>1. /\ \A q \in Procs : q # c => at'[q] = at[q]
        /\ at'[c] = [pc |-> "delete", s |-> s, to |-> None, segment |-> FALSE]
    BY <1>7 DEF DeleteBegins, Deletes
  <2> QED
    BY <2>1, <1>7
<1>8. ASSUME NEW c \in Callers, DeleteRemoves(c)
      PROVE  Arrives
  BY <1>8 DEF DeleteRemoves
<1>9. ASSUME NEW s \in Sessions, Begins(s)
      PROVE  Arrives
  BY <1>9 DEF Begins
<1>10. ASSUME NEW p \in Procs, Checks(p)
      PROVE  Arrives
  BY <1>10 DEF Checks
<1>11. ASSUME NEW p \in Procs, Take(p)
      PROVE  Arrives
  <2>1. /\ at[p].pc = "take" /\ at'[p].s = at[p].s /\ at'[p].segment = at[p].segment
        /\ at'[p].pc \in {"encode", "final", "again"}
        /\ at'[p].pc = "encode" => mem[at[p].s].page
    BY <1>11 DEF Take
  <2>2. \A q \in Procs : q # p => at'[q] = at[q]
    BY <1>11 DEF Take
  <2> QED
    BY <2>1, <2>2, <1>11
<1>12. ASSUME NEW p \in Procs, Encode(p)
      PROVE  Arrives
  BY <1>12 DEF Encode
<1>13. ASSUME NEW p \in Procs, EncodeFails(p)
      PROVE  Arrives
  BY <1>13 DEF EncodeFails
<1>14. ASSUME NEW p \in Procs, EncodeNothing(p)
      PROVE  Arrives
  BY <1>14 DEF EncodeNothing
<1>15. ASSUME NEW p \in Procs, Final(p)
      PROVE  Arrives
  BY <1>15 DEF Final
<1>16. CASE Boundary
  BY <1>16 DEF Boundary, Interrupts
<1>17. CASE PageGone
  BY <1>17 DEF PageGone, EndsGone, Interrupts
<1>18. CASE Disconnect
  BY <1>18 DEF Disconnect
<1>19. ASSUME NEW s \in Sessions, HaltAsks(s)
      PROVE  Arrives
  <2>1. CASE at' = at
    BY <2>1
  <2>2. CASE at' = [at EXCEPT ![s] = Begun(s)]
    BY <2>2
  <2> QED
    BY <2>1, <2>2, <1>19, HaltAsksBecomes
<1>20. CASE Crash
  BY <1>20 DEF Crash
<1>21. CASE at' = at
  BY <1>21
<1> HIDE DEF Typed, TypeOK, AtType, Task, PlaceInv, Placed, Arrives
<1> QED
  BY <1>1, <1>2, <1>3, <1>4, <1>5, <1>6, <1>7, <1>8, <1>9, <1>10, <1>11,
     <1>12, <1>13, <1>14, <1>15, <1>16, <1>17, <1>18, <1>19, <1>20, <1>21,
     Changes DEF Changing, TaskMoves

LEMMA DiskMoves ==
  ASSUME Typed, PageInv, [Next]_vars
  PROVE  \A t \in Sessions :
           /\ disk[t] # None => disk'[t] # None \/ \E d \in Callers : DeleteRemoves(d)
           /\ disk[t] = None /\ disk'[t] # None =>
                \/ mem[t] # None /\ mem[t].state \in Active
                \/ \E d \in Callers : StartAdmits(d, t)
<1> DEFINE Filed ==
      \A t \in Sessions :
        /\ disk[t] # None => disk'[t] # None \/ \E d \in Callers : DeleteRemoves(d)
        /\ disk[t] = None /\ disk'[t] # None =>
             \/ mem[t] # None /\ mem[t].state \in Active
             \/ \E d \in Callers : StartAdmits(d, t)
<1> USE DEF Typed, TypeOK, CoreType, MemType, DiskType, PlaceInv, Placed, PageInv
<1>1. ASSUME NEW c \in Callers, NEW s \in Sessions, StartAdmits(c, s)
      PROVE  Filed
  <2>1. \A t \in Sessions : t # s => disk'[t] = disk[t]
    BY <1>1 DEF StartAdmits, Admits
  <2>2. disk[s] = None
    BY <1>1, NewIsUnused DEF StartAdmits
  <2> QED
    BY <2>1, <2>2, <1>1
<1>2. CASE FeedConfig
  BY <1>2, FeedConfigFed, SavedType DEF Fed
<1>3. ASSUME NEW key \in BOOLEAN, FeedFrame(key)
      PROVE  Filed
  BY <1>3, FeedFrameFed, SavedType DEF Fed
<1>4. CASE FrameFails
  BY <1>4, FrameFailsStopped DEF FrameFails, Stopped
<1>5. CASE Collect
  BY <1>5 DEF Collect
<1>6. CASE Observe
  BY <1>6 DEF Observe
<1>7. ASSUME NEW c \in Callers, NEW s \in Sessions, RequestFinish(c, s)
      PROVE  Filed
  BY <1>7, RequestFinishBecomes DEF Finalizes, Becomes
<1>8. ASSUME NEW c \in Callers, DeleteRemoves(c)
      PROVE  Filed
  <2>1. \A t \in Sessions : disk'[t] # None => disk[t] # None
    BY <1>8 DEF DeleteRemoves
  <2> QED
    BY <2>1, <1>8
<1>9. ASSUME NEW p \in Procs, Take(p)
      PROVE  Filed
  BY <1>9, TakeBecomes DEF Finalizes, Becomes
<1>10. ASSUME NEW p \in Procs, Final(p)
      PROVE  Filed
  BY <1>10, FinalStopped DEF Stopped, Filmed
<1>11. ASSUME NEW s \in Sessions, HaltAsks(s)
      PROVE  Filed
  BY <1>11, HaltAsksBecomes DEF Finalizes, Becomes
<1>12. ASSUME NEW s \in Sessions, Recover(s)
      PROVE  Filed
  <2> DEFINE r == [disk[s] EXCEPT !.state = "Interrupted"]
  <2>1. disk[s] # None /\ disk[s] \in SessionFile
    BY <1>12 DEF Recover
  <2>2. r \in SessionFile
    BY <2>1 DEF SessionFile, States
  <2>3. disk' = [disk EXCEPT ![s] = r]
    BY <1>12 DEF Recover
  <2> HIDE DEF r
  <2> QED
    BY <2>1, <2>2, <2>3
<1>13. CASE Crash
  BY <1>13 DEF Crash
<1>14. CASE UNCHANGED <<mem, disk>>
  BY <1>14
<1> HIDE DEF Typed, TypeOK, CoreType, MemType, DiskType, PlaceInv, Placed, PageInv
<1> QED
  BY <1>1, <1>2, <1>3, <1>4, <1>5, <1>6, <1>7, <1>8, <1>9, <1>10, <1>11,
     <1>12, <1>13, <1>14, Changes DEF Changing, SessionMoves

LEMMA WritesStep ==
  ASSUME Typed, PageInv, [Next]_vars
  PROVE  Writes
<1> USE DEF Typed, TypeOK, CoreType, DiskType, PlaceInv, Placed, Writes
<1>1. CASE removed' = removed /\ ~\E d \in Callers : DeleteRemoves(d)
  BY <1>1, DiskMoves
<1>2. ASSUME NEW d \in Callers, DeleteRemoves(d)
      PROVE  Writes
  BY <1>2 DEF DeleteRemoves
<1> QED
  BY <1>1, <1>2, Changes DEF Changing

LEMMA PageStep ==
  ASSUME Typed, PageInv, Onward, [Next]_vars
  PROVE  PageInv'
<1> USE DEF Typed, TypeOK, CoreType, MemType, PlaceInv, Placed, PageInv
<1>1. kind' = kind
  BY KindStays
<1>2. ASSUME NEW t \in Sessions, mem'[t] # None, mem'[t].page
      PROVE  mem'[t].state \in Active /\ kind' = "browser"
  <2>1. CASE mem[t] = None
    <3>1. PICK d \in Callers : StartAdmits(d, t)
      BY <1>2, <2>1, Newcomers
    <3>2. mem'[t] = Fresh(kind, at[d].s)
      BY <3>1 DEF StartAdmits, Admits
    <3>3. /\ Fresh(kind, at[d].s).state = "Recording"
          /\ Fresh(kind, at[d].s).page => kind = "browser"
      BY DEF Fresh
    <3> QED
      BY <1>1, <1>2, <3>2, <3>3
  <2>2. CASE mem[t] # None
    BY <1>1, <1>2, <2>2 DEF Onward
  <2> QED
    BY <2>1, <2>2
<1>3. ASSUME NEW q \in Procs, at'[q].pc \in {"again", "encode", "final"}
      PROVE  ~mem'[at'[q].s].page
  <2>1. at'[q].s = at[q].s /\ at[q].s \in Sessions /\ mem[at[q].s] # None
    BY <1>3, ArrivesStep, TakeBecomes DEF Arrives
  <2>2. CASE at[q].pc \in {"again", "encode", "final"}
    BY <2>1, <2>2 DEF Onward
  <2>3. CASE Take(q)
    BY <2>1, <2>3, TakeBecomes DEF Finalizes, Becomes, Onward
  <2> QED
    BY <1>3, <2>2, <2>3, ArrivesStep DEF Arrives
<1>4. ASSUME NEW q \in Procs, at'[q].pc = "encode" \/ at'[q].segment
      PROVE  kind' = "browser"
  BY <1>1, <1>4, ArrivesStep, TakeBecomes DEF Arrives
<1> QED
  BY <1>2, <1>3, <1>4

LEMMA RemovedStep ==
  ASSUME Typed, PageInv, RemovedInv, Onward, [Next]_vars
  PROVE  RemovedInv'
<1> USE DEF Typed, TypeOK, CoreType, MemType, PlaceInv, Placed, RemovedInv, Over, Onward
<1>1. \A t \in Sessions :
        mem'[t] # None => mem[t] # None \/ \E d \in Callers : StartAdmits(d, t)
  BY Newcomers
<1>2. \A t \in Sessions, d \in Callers :
        StartAdmits(d, t) =>
          mem[t] = None /\ disk[t] = None /\ t \notin removed /\ removed' = removed
  BY NewIsUnused DEF StartAdmits, Admits
<1>3. removed \subseteq removed' /\ removed' \subseteq Sessions
  BY WritesStep, CoreStep DEF Writes
<1>4. ASSUME NEW t \in removed'
      PROVE  disk'[t] = None /\ (mem'[t] # None => mem'[t].state \notin Active)
  <2>1. CASE t \in removed
    BY <1>1, <1>2, <2>1, WritesStep DEF Writes
  <2>2. CASE t \notin removed
    <3>1. PICK d \in Callers : at[d].pc = "delete" /\ at[d].s = t
      BY <1>3, <1>4, <2>2, WritesStep DEF Writes
    <3>2. disk[t] # None /\ (mem[t] # None => mem[t].state \notin Active)
      BY <2>2, <3>1
    <3>3. t \in Sessions /\ disk'[t] = None
      BY <1>3, <1>4, <2>2, WritesStep DEF Writes
    <3> QED
      BY <1>1, <1>2, <3>2, <3>3
  <2> QED
    BY <2>1, <2>2
<1>5. ASSUME NEW q \in Procs, at'[q].pc = "delete"
      PROVE  /\ mem'[at'[q].s] # None => mem'[at'[q].s].state \notin Active
             /\ disk'[at'[q].s] # None \/ at'[q].s \in removed'
  <2>1. CASE at'[q] = at[q]
    BY <1>1, <1>2, <1>3, <1>5, <2>1, WritesStep DEF Writes
  <2>2. CASE DeleteBegins(q, at'[q].s)
    BY <2>2 DEF DeleteBegins, Deletes, State
  <2> QED
    BY <1>5, <2>1, <2>2, ArrivesStep DEF Arrives
<1> QED
  BY <1>4, <1>5

LEMMA HaltStep ==
  ASSUME Typed, RemovedInv, HaltInv, Onward, [Next]_vars
  PROVE  HaltInv'
<1> USE DEF Typed, TypeOK, CoreType, MemType, PlaceInv, Placed, HaltInv
<1>1. CASE halt' = halt
  BY <1>1, Newcomers DEF StartAdmits, Admits, Onward
<1>2. CASE HaltBegins
  BY <1>2 DEF HaltBegins, RemovedInv, Over
<1>3. ASSUME NEW s \in Sessions, HaltAsks(s)
      PROVE  HaltInv'
  <2>1. halt' = [halt EXCEPT !.todo = halt.todo \ {s}]
    BY <1>3 DEF HaltAsks
  <2>2. \A t \in Sessions : t # s => mem'[t] = mem[t]
    BY <1>3, HaltAsksBecomes DEF Finalizes, Becomes
  <2>3. ~IsIn(s, "Recording")'
    BY <1>3, HaltAsksBecomes DEF Finalizes, Becomes, RemovedInv, Over
  <2> QED
    BY <2>1, <2>2, <2>3
<1>4. CASE Crash
  BY <1>4 DEF Crash
<1> QED
  BY <1>1, <1>2, <1>3, <1>4, Changes DEF Changing

Control == Typed /\ SlotInv /\ PageInv /\ RemovedInv /\ HaltInv

LEMMA InitControl == Init => Control
BY InitTyped DEF Init, Control, SlotInv, PageInv, RemovedInv, HaltInv

LEMMA CrashControl ==
  ASSUME Typed, RemovedInv, Crash
  PROVE  SlotInv' /\ PageInv' /\ RemovedInv' /\ HaltInv'
<1> USE DEF Crash
<1>1. SlotInv' /\ HaltInv'
  BY DEF SlotInv, HaltInv
<1>2. PageInv'
  BY DEF PageInv
<1>3. RemovedInv'
  BY DEF RemovedInv, Over, Typed, TypeOK, CoreType
<1> QED
  BY <1>1, <1>2, <1>3

LEMMA ControlStep ==
  ASSUME Control, [Next]_vars
  PROVE  Control'
<1> USE DEF Control
<1>1. Typed'
  BY TypedStep
<1>2. CASE Crash
  BY <1>1, <1>2, CrashControl
<1>3. CASE Onward
  BY <1>1, <1>3, SlotInvStep, PageStep, RemovedStep, HaltStep
<1> QED
  BY <1>2, <1>3, OnwardStep

LEMMA AlwaysControl == Spec => []Control
<1>1. Init => Control
  BY InitControl
<1>2. Control /\ [Next]_vars => Control'
  BY ControlStep
<1> QED
  BY <1>1, <1>2, PTL DEF Spec

(* Once the shutdown has asked everyone, nothing records: a start is        *)
(* refused under the lock under which the list was taken (start, shutdown). *)
THEOREM ShutdownStops == Spec => []ShutdownStopsAll
<1>1. Control => ShutdownStopsAll
  BY DEF Control, HaltInv, ShutdownStopsAll
<1> QED
  BY <1>1, AlwaysControl, PTL

(* A recording that was deleted does not come back: who may still write its *)
(* session.json is at the end of one that is over (delete_history).         *)
THEOREM DeletedGone == Spec => []DeletedStays
<1>1. Control => DeletedStays
  BY DEF Control, RemovedInv, DeletedStays
<1> QED
  BY <1>1, AlwaysControl, PTL

-----------------------------------------------------------------------------
(* session.json: who ends the recording of a page is alone with it. *)

Splitless == "split" \in Spared

AloneInv ==
  /\ kind = "browser" => \A s \in Sessions : mem[s] # None =>
       mem[s].page \/ (mem[s].stopping /\ mem[s].state # "Recording")
  /\ kind = "browser" => \A p \in Procs :
       /\ at[p].pc \in {"encode", "final"} => mem[at[p].s].state = "Finalizing"
       /\ p \in Sessions /\ at[p].pc # "idle" => mem[p].state = "Finalizing"
  /\ kind = "browser" => \A p, q \in Procs : p # q /\ at[p].s = at[q].s =>
       /\ ~(at[p].pc \in {"encode", "final"} /\ at[q].pc \in {"encode", "final"})
       /\ p \in Sessions => ~(at[p].pc \in Ending /\ at[q].pc \in Ending)

(* How the end of a recording goes on. *)
Course ==
  \A t \in Sessions : mem[t] # None =>
    /\ mem[t].page /\ ~mem'[t].page => mem'[t].stopping /\ mem'[t].state = "Finalizing"
    /\ mem[t].state \in Active /\ mem'[t].state \notin Active =>
         /\ disk'[t] = Saved(mem'[t])
         /\ kind = "device" \/ \E p \in Procs : Final(p) /\ at[p].s = t

(* Who begins to end a recording, and who goes on to the last half. *)
Entries ==
  \A q \in Procs :
    /\ at'[q].pc \in {"encode", "final"} =>
         /\ at'[q].s = at[q].s
         /\ \/ at[q].pc \in {"encode", "final"}
            \/ Take(q) /\ (q \in Sessions \/ mem[at[q].s].page)
            \/ at[q].pc = "again" /\ ~mem[at[q].s].stopping
    /\ at'[q].pc \in Ending =>
         \/ at[q].pc \in Ending /\ at'[q].s = at[q].s
         \/ q \notin Sessions /\ (IsIn(at'[q].s, "Recording") \/ kind = "device")
         \/ /\ q \in Sessions /\ at'[q].s = q /\ mem'[q].state = "Finalizing"
            /\ \A r \in Procs : r # q => at'[r] = at[r]
            /\ Splits(q) => "split" \notin Spared

(* One task moves at a time. *)
OneMoves == \A p, q \in Procs : p # q => at'[p] = at[p] \/ at'[q] = at[q]

LEMMA CourseStep ==
  ASSUME Typed, PageInv, [Next]_vars
  PROVE  (Crash \/ Course)
<1> USE DEF Typed, TypeOK, CoreType, MemType, DiskType, PlaceInv, Placed, PageInv,
      Course
<1>1. ASSUME NEW c \in Callers, NEW s \in Sessions, StartAdmits(c, s)
      PROVE  (Crash \/ Course)
  BY <1>1, FreshType, NewIsUnused DEF StartAdmits, Admits
<1>2. CASE FeedConfig
  BY <1>2, FeedConfigFed DEF Fed
<1>3. ASSUME NEW key \in BOOLEAN, FeedFrame(key)
      PROVE  (Crash \/ Course)
  BY <1>3, FeedFrameFed DEF Fed
<1>4. CASE FrameFails
  <2>1. mem' = [mem EXCEPT ![slot] = Ended(mem[slot], "Failed")] /\ slot \in Sessions
        /\ disk' = [disk EXCEPT ![slot] = Saved(Ended(mem[slot], "Failed"))] /\ kind = "device"
        /\ Ended(mem[slot], "Failed").page = mem[slot].page
    BY <1>4, FrameFailsStopped DEF Stopped, FrameFails
  <2> QED
    BY <2>1
<1>5. CASE Collect
  BY <1>5, CollectBecomes DEF Becomes
<1>6. CASE Observe
  BY <1>6, ObserveBecomes DEF SameVideo
<1>7. ASSUME NEW c \in Callers, NEW s \in Sessions, RequestFinish(c, s)
      PROVE  (Crash \/ Course)
  BY <1>7, RequestFinishBecomes DEF Finalizes, Becomes
<1>8. ASSUME NEW c \in Callers, DeleteRemoves(c)
      PROVE  (Crash \/ Course)
  BY <1>8 DEF DeleteRemoves
<1>9. ASSUME NEW p \in Procs, Take(p)
      PROVE  (Crash \/ Course)
  BY <1>9, TakeBecomes DEF Finalizes, Becomes
<1>10. ASSUME NEW p \in Procs, Final(p)
      PROVE  (Crash \/ Course)
  <2>1. PICK m \in Session :
          Filmed(at[p].s, at[p].segment, m) /\ Stopped(at[p].s, m, at[p].to)
    BY <1>10, FinalStopped
  <2>2. at[p].s \in Sessions /\ mem[at[p].s] # None
    BY <1>10 DEF Final
  <2>3. mem' = [mem EXCEPT ![at[p].s] = Ended(m, at[p].to)]
    BY <2>1 DEF Stopped
  <2>4. /\ Ended(m, at[p].to).page = mem[at[p].s].page
        /\ m.state = mem[at[p].s].state
    BY <2>1, <2>2 DEF Stopped, Filmed
  <2>5. mem[at[p].s].state \in Active =>
          disk' = [disk EXCEPT ![at[p].s] = Saved(Ended(m, at[p].to))]
    BY <2>1, <2>4 DEF Stopped
  <2>6. Course
    BY <2>2, <2>3, <2>4, <2>5, <1>10
  <2> QED
    BY <2>6
<1>11. ASSUME NEW s \in Sessions, HaltAsks(s)
      PROVE  (Crash \/ Course)
  BY <1>11, HaltAsksBecomes DEF Finalizes, Becomes
<1>12. ASSUME NEW s \in Sessions, Recover(s)
      PROVE  (Crash \/ Course)
  BY <1>12 DEF Recover
<1>13. CASE Crash
  BY <1>13 DEF Crash
<1>14. CASE UNCHANGED <<mem, disk>>
  BY <1>14
<1> HIDE DEF Typed, TypeOK, CoreType, MemType, DiskType, PlaceInv, Placed, PageInv,
      Course
<1> QED
  BY <1>1, <1>2, <1>3, <1>4, <1>5, <1>6, <1>7, <1>8, <1>9, <1>10, <1>11,
     <1>12, <1>13, <1>14, Changes DEF Changing, SessionMoves

LEMMA OneMovesStep ==
  ASSUME Typed, [Next]_vars
  PROVE  (Crash \/ OneMoves)
<1> USE DEF Typed, TypeOK, AtType, PlaceInv, Placed, OneMoves
<1>1. ASSUME NEW c \in Callers, StartLooks(c)
      PROVE  (Crash \/ OneMoves)
  BY <1>1 DEF StartLooks
<1>2. ASSUME NEW c \in Callers, StartRefused(c)
      PROVE  (Crash \/ OneMoves)
  BY <1>2 DEF StartRefused
<1>3. ASSUME NEW c \in Callers, NEW s \in Sessions, StartAdmits(c, s)
      PROVE  (Crash \/ OneMoves)
  BY <1>3 DEF StartAdmits, Admits
<1>4. CASE CollectFails
  BY <1>4 DEF CollectFails, EndsGone, Interrupts
<1>5. ASSUME NEW c \in Callers, NEW s \in Sessions, RequestFinish(c, s)
      PROVE  (Crash \/ OneMoves)
  BY <1>5 DEF RequestFinish
<1>6. ASSUME NEW c \in Callers, NEW s \in Sessions, Stop(c, s)
      PROVE  (Crash \/ OneMoves)
  BY <1>6 DEF Stop
<1>7. ASSUME NEW c \in Callers, NEW s \in Sessions, DeleteBegins(c, s)
      PROVE  (Crash \/ OneMoves)
  BY <1>7 DEF DeleteBegins, Deletes
<1>8. ASSUME NEW c \in Callers, DeleteRemoves(c)
      PROVE  (Crash \/ OneMoves)
  BY <1>8 DEF DeleteRemoves
<1>9. ASSUME NEW s \in Sessions, Begins(s)
      PROVE  (Crash \/ OneMoves)
  BY <1>9 DEF Begins
<1>10. ASSUME NEW p \in Procs, Checks(p)
      PROVE  (Crash \/ OneMoves)
  BY <1>10 DEF Checks
<1>11. ASSUME NEW p \in Procs, Take(p)
      PROVE  (Crash \/ OneMoves)
  BY <1>11 DEF Take
<1>12. ASSUME NEW p \in Procs, Encode(p)
      PROVE  (Crash \/ OneMoves)
  BY <1>12 DEF Encode
<1>13. ASSUME NEW p \in Procs, EncodeFails(p)
      PROVE  (Crash \/ OneMoves)
  BY <1>13 DEF EncodeFails
<1>14. ASSUME NEW p \in Procs, EncodeNothing(p)
      PROVE  (Crash \/ OneMoves)
  BY <1>14 DEF EncodeNothing
<1>15. ASSUME NEW p \in Procs, Final(p)
      PROVE  (Crash \/ OneMoves)
  BY <1>15 DEF Final
<1>16. CASE Boundary
  BY <1>16 DEF Boundary, Interrupts
<1>17. CASE PageGone
  BY <1>17 DEF PageGone, EndsGone, Interrupts
<1>18. CASE Disconnect
  BY <1>18 DEF Disconnect
<1>19. ASSUME NEW s \in Sessions, HaltAsks(s)
      PROVE  (Crash \/ OneMoves)
  BY <1>19 DEF HaltAsks
<1>20. CASE Crash
  <2> QED
    BY <1>20
<1>21. CASE at' = at
  BY <1>21
<1> HIDE DEF Typed, TypeOK, AtType, PlaceInv, Placed, OneMoves
<1> QED
  BY <1>1, <1>2, <1>3, <1>4, <1>5, <1>6, <1>7, <1>8, <1>9, <1>10, <1>11,
     <1>12, <1>13, <1>14, <1>15, <1>16, <1>17, <1>18, <1>19, <1>20, <1>21,
     Changes DEF Changing, TaskMoves

LEMMA EntriesStep ==
  ASSUME Typed, [Next]_vars
  PROVE  Entries
<1> USE DEF Typed, TypeOK, AtType, CoreType, MemType, Task, PlaceInv, Placed, Entries
<1>1. ASSUME NEW c \in Callers, StartLooks(c)
      PROVE  Entries
  BY <1>1 DEF StartLooks
<1>2. ASSUME NEW c \in Callers, StartRefused(c)
      PROVE  Entries
  BY <1>2 DEF StartRefused
<1>3. ASSUME NEW c \in Callers, NEW s \in Sessions, StartAdmits(c, s)
      PROVE  Entries
  BY <1>3 DEF StartAdmits, Admits
<1>4. CASE CollectFails
  BY <1>4 DEF CollectFails, EndsGone, Interrupts
<1>5. ASSUME NEW c \in Callers, NEW s \in Sessions, RequestFinish(c, s)
      PROVE  Entries
  <2> DEFINE b == [Idle EXCEPT !.pc = "begin", !.s = s, !.to = "Completed"]
  <2>1. at' = [at EXCEPT ![s] = b] /\ b.s = s /\ b.pc = "begin"
    BY <1>5 DEF RequestFinish
  <2> HIDE DEF b
  <2>3. Splits(s) => "split" \notin Spared
    BY <1>5 DEF RequestFinish
  <2>2. mem'[s].state = "Finalizing"
    BY <1>5, RequestFinishBecomes DEF Finalizes, Becomes
  <2> QED
    BY <2>1, <2>2, <2>3
<1>6. ASSUME NEW c \in Callers, NEW s \in Sessions, Stop(c, s)
      PROVE  Entries
  BY <1>6 DEF Stop
<1>7. ASSUME NEW c \in Callers, NEW s \in Sessions, DeleteBegins(c, s)
      PROVE  Entries
  BY <1>7 DEF DeleteBegins, Deletes
<1>8. ASSUME NEW c \in Callers, DeleteRemoves(c)
      PROVE  Entries
  BY <1>8 DEF DeleteRemoves
<1>9. ASSUME NEW s \in Sessions, Begins(s)
      PROVE  Entries
  BY <1>9 DEF Begins
<1>10. ASSUME NEW p \in Procs, Checks(p)
      PROVE  Entries
  BY <1>10 DEF Checks
<1>11. ASSUME NEW p \in Procs, Take(p)
      PROVE  Entries
  <2>1. /\ at[p].pc = "take" /\ at'[p].s = at[p].s
        /\ at'[p].pc \in {"encode", "final", "again"}
        /\ at'[p].pc \in {"encode", "final"} => p \in Sessions \/ mem[at[p].s].page
    BY <1>11 DEF Take
  <2>2. \A q \in Procs : q # p => at'[q] = at[q]
    BY <1>11 DEF Take
  <2> QED
    BY <2>1, <2>2, <1>11
<1>12. ASSUME NEW p \in Procs, Encode(p)
      PROVE  Entries
  BY <1>12 DEF Encode
<1>13. ASSUME NEW p \in Procs, EncodeFails(p)
      PROVE  Entries
  BY <1>13 DEF EncodeFails
<1>14. ASSUME NEW p \in Procs, EncodeNothing(p)
      PROVE  Entries
  BY <1>14 DEF EncodeNothing
<1>15. ASSUME NEW p \in Procs, Final(p)
      PROVE  Entries
  BY <1>15 DEF Final
<1>16. CASE Boundary
  <2> DEFINE b == IF slot = None THEN Idle ELSE Interrupts(slot)
  <2>0. at[Watch].pc = "look" /\ Watch \in Procs /\ at' = [at EXCEPT ![Watch] = b]
    BY <1>16 DEF Boundary
  <2>4. b.pc \in {"idle", "check"}
    BY DEF Interrupts
  <2> HIDE DEF b
  <2>3. kind = "device"
    BY <2>0
  <2>1. \A q \in Procs : q # Watch => at'[q] = at[q]
    BY <2>0 DEF Task
  <2>2. at'[Watch].pc \in {"idle", "check"}
    BY <2>0, <2>4
  <2> QED
    BY <2>1, <2>2, <2>3
<1>17. CASE PageGone
  BY <1>17 DEF PageGone, EndsGone, Interrupts
<1>18. CASE Disconnect
  BY <1>18 DEF Disconnect
<1>19. ASSUME NEW s \in Sessions, HaltAsks(s)
      PROVE  Entries
  <2>1. CASE at' = at
    BY <2>1
  <2>2. CASE at' # at
    <3>1. /\ at' = [at EXCEPT ![s] = Begun(s)]
          /\ mem'[s].state = "Finalizing"
      BY <2>2, <1>19, HaltAsksBecomes DEF Finalizes, Becomes
    <3>2. Splits(s) => "split" \notin Spared
      BY <2>2, <1>19 DEF HaltAsks
    <3> QED
      BY <3>1, <3>2
  <2> QED
    BY <2>1, <2>2
<1>20. CASE Crash
  BY <1>20 DEF Crash
<1>21. CASE at' = at
  BY <1>21
<1> HIDE DEF Typed, TypeOK, AtType, CoreType, MemType, Task, PlaceInv, Placed, Entries
<1> QED
  BY <1>1, <1>2, <1>3, <1>4, <1>5, <1>6, <1>7, <1>8, <1>9, <1>10, <1>11,
     <1>12, <1>13, <1>14, <1>15, <1>16, <1>17, <1>18, <1>19, <1>20, <1>21,
     Changes DEF Changing, TaskMoves

LEMMA AloneStep ==
  ASSUME Splitless, Control, AloneInv, ~Crash, [Next]_vars
  PROVE  AloneInv'
<1> USE DEF Control, Typed, TypeOK, CoreType, MemType, AtType, Task, PlaceInv, Placed
<1>0. /\ kind' = kind /\ Onward /\ Course /\ Entries /\ OneMoves /\ Typed' /\ PageInv
      /\ \A q \in Procs : at'[q].pc \in Ending => at'[q].s \in Sessions
  BY KindStays, OnwardStep, CourseStep, EntriesStep, OneMovesStep, TypedStep
<1> SUFFICES ASSUME kind = "browser"
             PROVE  AloneInv'
  BY <1>0 DEF AloneInv
<1>1. ASSUME NEW t \in Sessions, mem'[t] # None
      PROVE  mem'[t].page \/ (mem'[t].stopping /\ mem'[t].state # "Recording")
  <2>1. CASE mem[t] = None
    <3>1. PICK d \in Callers : StartAdmits(d, t)
      BY <1>1, <2>1, Newcomers
    <3>2. mem'[t] = Fresh(kind, at[d].s)
      BY <3>1 DEF StartAdmits, Admits
    <3>3. Fresh(kind, at[d].s).page
      BY DEF Fresh
    <3> QED
      BY <3>2, <3>3
  <2>2. CASE mem[t] # None
    BY <1>0, <2>2 DEF AloneInv, Onward, Course
  <2> QED
    BY <2>1, <2>2
(* A recording that is being finalized stays so until its task ends it. *)
<1>2. ASSUME NEW t \in Sessions, mem[t] # None, mem[t].state = "Finalizing",
             ~\E p \in Procs : Final(p) /\ at[p].s = t
      PROVE  mem'[t].state = "Finalizing"
  BY <1>0, <1>2 DEF Onward, Course
<1>3. ASSUME NEW p \in Procs, Final(p)
      PROVE  at[p].pc = "final" /\ at'[p].pc = "idle"
  BY <1>3 DEF Final
<1>4. ASSUME NEW q \in Procs, at'[q].pc \in {"encode", "final"}
      PROVE  mem'[at'[q].s].state = "Finalizing"
  <2>1. CASE at[q].pc \in {"encode", "final"}
    <3>1. at'[q].s = at[q].s /\ at[q].s \in Sessions /\ mem[at[q].s] # None
          /\ mem[at[q].s].state = "Finalizing"
      BY <1>0, <1>4, <2>1 DEF Entries, AloneInv
    <3>2. ~\E p \in Procs : Final(p) /\ at[p].s = at[q].s
      BY <1>3, <1>4, <2>1 DEF AloneInv
    <3> QED
      BY <1>2, <3>1, <3>2
  <2>2. CASE Take(q) /\ mem[at[q].s].page
    BY <1>0, <1>4, <2>2, TakeBecomes DEF Entries, Finalizes, Becomes
  <2>3. CASE Take(q) /\ q \in Sessions /\ ~mem[at[q].s].page
    <3>1. at[q].pc = "take" /\ at[q].s = q /\ mem[q].state = "Finalizing"
      BY <2>3 DEF Take, AloneInv
    <3>2. mem' = mem /\ at'[q].s = q
      BY <1>0, <1>4, <2>3, <3>1, TakeBecomes DEF Entries
    <3> QED
      BY <3>1, <3>2
  <2>4. CASE at[q].pc = "again" /\ ~mem[at[q].s].stopping
    BY <2>4 DEF AloneInv, PageInv
  <2> QED
    BY <1>0, <1>4, <2>1, <2>2, <2>3, <2>4 DEF Entries
<1>5. ASSUME NEW q \in Sessions, at'[q].pc # "idle"
      PROVE  mem'[q].state = "Finalizing"
  <2>0. q \in Procs /\ at'[q].pc \in Ending /\ at'[q].s = q
    BY <1>0, <1>5
  <2>1. CASE at[q].pc \in Ending
    <3>1. at[q].s = q /\ mem[q] # None /\ mem[q].state = "Finalizing"
      BY <2>0, <2>1 DEF AloneInv
    <3>2. ~\E p \in Procs : Final(p) /\ at[p].s = q
      BY <1>3, <1>5, <2>0, <2>1, <3>1 DEF AloneInv
    <3> QED
      BY <1>2, <3>1, <3>2
  <2>2. CASE at[q].pc \notin Ending
    BY <1>0, <2>0, <2>2 DEF Entries
  <2> QED
    BY <2>1, <2>2
<1>6. ASSUME NEW p \in Procs, NEW q \in Procs, p # q, at'[p].s = at'[q].s,
             at'[p].pc \in {"encode", "final"}, at'[q].pc \in {"encode", "final"},
             at'[q] = at[q]
      PROVE  FALSE
  <2>1. CASE at[p].pc \in {"encode", "final"}
    BY <1>0, <1>6, <2>1 DEF Entries, AloneInv
  <2>2. CASE at[p].pc \notin {"encode", "final"}
    <3>1. at[p].s = at[q].s /\ ~mem[at[q].s].page /\ at[p].pc \in {"take", "again"}
      BY <1>0, <1>6, <2>2 DEF Entries, PageInv, Take
    <3>2. mem[at[q].s] # None /\ mem[at[q].s].stopping /\ at[q].s \in Sessions
      BY <1>6, <3>1 DEF AloneInv
    <3>3. p \in Sessions
      BY <1>0, <1>6, <2>2, <3>1, <3>2 DEF Entries
    <3> QED
      BY <1>6, <3>1, <3>3 DEF AloneInv
  <2> QED
    BY <2>1, <2>2
<1>7. ASSUME NEW p \in Sessions, NEW q \in Procs, p # q, at'[p].s = at'[q].s,
             at'[p].pc \in Ending, at'[q].pc \in Ending
      PROVE  FALSE
  <2>0. p \in Procs /\ at'[p].s = p /\ q \notin Sessions
    BY <1>0, <1>7
  <2>1. CASE at[p].pc \in Ending /\ at[q].pc \in Ending /\ at[q].s = p
    BY <1>7, <2>0, <2>1 DEF AloneInv
  <2>2. CASE at[p].pc \in Ending /\ ~(at[q].pc \in Ending /\ at[q].s = p)
    <3>1. mem[p].state = "Finalizing"
      BY <2>0, <2>2 DEF AloneInv
    <3>2. q \in Procs /\ at'[q].s = p /\ at'[q].pc \in Ending
      BY <1>7, <2>0
    <3>3. IsIn(p, "Recording") \/ kind = "device"
      BY <1>0, <2>0, <2>2, <3>2 DEF Entries
    <3> QED
      BY <3>1, <3>3
  <2>3. CASE at[p].pc \notin Ending
    <3>1. at'[q] = at[q] /\ (Splits(p) => "split" \notin Spared)
      BY <1>0, <1>7, <2>0, <2>3 DEF Entries
    <3>2. Splits(p)
      BY <1>7, <2>0, <3>1 DEF Splits
    <3> QED
      BY <3>1, <3>2 DEF Splitless
  <2> QED
    BY <2>1, <2>2, <2>3
<1>8. \A p, q \in Procs : p # q => at'[p] = at[p] \/ at'[q] = at[q]
  BY <1>0 DEF OneMoves
<1> HIDE DEF Control, Typed, TypeOK, CoreType, MemType, AtType, Task, PlaceInv, Placed
<1>9. \A p, q \in Procs : p # q /\ at'[p].s = at'[q].s =>
        ~(at'[p].pc \in {"encode", "final"} /\ at'[q].pc \in {"encode", "final"})
  BY <1>6, <1>8
<1> QED
  BY <1>0, <1>1, <1>4, <1>5, <1>7, <1>9 DEF AloneInv

(* A recording that is over stays what it is, in the map and on disk. *)
LEMMA OverStays ==
  ASSUME Control, AloneInv, [Next]_vars
  PROVE  \/ Crash
         \/ \A t \in Sessions :
              mem[t] # None /\ mem[t].state \notin Active /\ t \notin removed' =>
                Saved(mem'[t]) = Saved(mem[t]) /\ disk'[t] = disk[t]
<1> DEFINE Stays ==
      \/ Crash
      \/ \A t \in Sessions :
           mem[t] # None /\ mem[t].state \notin Active /\ t \notin removed' =>
             Saved(mem'[t]) = Saved(mem[t]) /\ disk'[t] = disk[t]
<1> USE DEF Control, Typed, TypeOK, CoreType, MemType, DiskType, PlaceInv, Placed,
      PageInv
<1>1. ASSUME NEW c \in Callers, NEW s \in Sessions, StartAdmits(c, s)
      PROVE  Stays
  BY <1>1, FreshType, NewIsUnused DEF StartAdmits, Admits
<1>2. CASE FeedConfig
  BY <1>2, FeedConfigFed DEF Fed
<1>3. ASSUME NEW key \in BOOLEAN, FeedFrame(key)
      PROVE  Stays
  BY <1>3, FeedFrameFed DEF Fed
<1>4. CASE FrameFails
  BY <1>4, FrameFailsStopped DEF Stopped
<1>5. CASE Collect
  BY <1>5, CollectBecomes DEF Collect, Becomes
<1>6. CASE Observe
  BY <1>6, ObserveBecomes DEF Observe
<1>7. ASSUME NEW c \in Callers, NEW s \in Sessions, RequestFinish(c, s)
      PROVE  Stays
  BY <1>7, RequestFinishBecomes DEF Finalizes, Becomes
<1>8. ASSUME NEW c \in Callers, DeleteRemoves(c)
      PROVE  Stays
  BY <1>8 DEF DeleteRemoves
<1>9. ASSUME NEW p \in Procs, Take(p)
      PROVE  Stays
  BY <1>9, TakeBecomes DEF Finalizes, Becomes
<1>10. ASSUME NEW p \in Procs, Final(p)
      PROVE  Stays
  <2>1. PICK m \in Session :
          Filmed(at[p].s, at[p].segment, m) /\ Stopped(at[p].s, m, at[p].to)
    BY <1>10, FinalStopped
  <2>2. at[p].pc = "final" /\ at[p].s \in Sessions /\ mem[at[p].s] # None
    BY <1>10 DEF Final
  <2>3. CASE mem[at[p].s].state \in Active
    BY <2>1, <2>2, <2>3 DEF Stopped, Filmed
  <2>4. CASE mem[at[p].s].state \notin Active
    <3>1. ~at[p].segment
      BY <2>2, <2>4 DEF AloneInv
    <3>2. m = mem[at[p].s] /\ Ended(m, at[p].to) = m
      BY <2>1, <2>4, <3>1 DEF Stopped, Filmed
    <3> QED
      BY <2>1, <2>2, <2>4, <3>2 DEF Stopped
  <2> QED
    BY <2>3, <2>4
<1>11. ASSUME NEW s \in Sessions, HaltAsks(s)
      PROVE  Stays
  <2>1. CASE UNCHANGED <<mem, disk>>
    BY <2>1
  <2>2. CASE disk' = disk /\ \E n \in Session : Becomes(s, n) /\ n.state = mem[s].state
    <3>1. PICK n \in Session : Becomes(s, n) /\ n.state = mem[s].state
      BY <2>2
    <3>2. Saved(n) = Saved(mem[s]) /\ mem' = [mem EXCEPT ![s] = n]
      BY <3>1 DEF Becomes, SameFilm, Saved
    <3> QED
      BY <2>2, <3>2
  <2>3. CASE mem[s].state = "Recording" /\ \E n \in Session : Finalizes(s, n)
    BY <2>3 DEF Finalizes, Becomes
  <2> QED
    BY <2>1, <2>2, <2>3, <1>11, HaltAsksBecomes
<1>12. ASSUME NEW s \in Sessions, Recover(s)
      PROVE  Stays
  BY <1>12 DEF Recover
<1>13. CASE Crash
  <2> QED
    BY <1>13
<1>14. CASE UNCHANGED <<mem, disk>>
  BY <1>14
<1> HIDE DEF Control, Typed, TypeOK, CoreType, MemType, DiskType, PlaceInv, Placed,
      PageInv
<1> QED
  BY <1>1, <1>2, <1>3, <1>4, <1>5, <1>6, <1>7, <1>8, <1>9, <1>10, <1>11,
     <1>12, <1>13, <1>14, Changes DEF Changing, SessionMoves

LEMMA DurableStep ==
  ASSUME Splitless, Control, AloneInv, ShownIsDurable, [Next]_vars
  PROVE  ShownIsDurable'
<1>1. CASE Crash
  BY <1>1 DEF Crash, ShownIsDurable
<1>2. CASE ~Crash
  <2>1. Course /\ Onward
    BY <1>2, CourseStep, OnwardStep DEF Control
  <2> SUFFICES ASSUME NEW t \in Sessions, mem'[t] # None, t \notin removed',
                      mem'[t].state \notin Active
               PROVE  disk'[t] = Saved(mem'[t])
    BY DEF ShownIsDurable
  <2>2. CASE mem[t] = None
    <3>1. PICK d \in Callers : StartAdmits(d, t)
      BY <2>2, Newcomers DEF Control
    <3>2. mem'[t] = Fresh(kind, at[d].s)
      BY <3>1 DEF StartAdmits, Admits, Control, Typed, TypeOK, MemType
    <3>3. Fresh(kind, at[d].s).state = "Recording"
      BY DEF Fresh
    <3> QED
      BY <3>2, <3>3
  <2>3. CASE mem[t] # None /\ mem[t].state \in Active
    BY <2>1, <2>3 DEF Course
  <2>4. CASE mem[t] # None /\ mem[t].state \notin Active
    <3>1. t \notin removed
      BY WritesStep DEF Writes, Control
    <3>2. disk[t] = Saved(mem[t])
      BY <2>4, <3>1 DEF ShownIsDurable
    <3> QED
      BY <1>2, <2>4, <3>2, OverStays
  <2> QED
    BY <2>2, <2>3, <2>4
<1> QED
  BY <1>1, <1>2

LEMMA AlwaysDurable ==
  ASSUME Splitless
  PROVE  Spec => [](Control /\ AloneInv /\ ShownIsDurable)
<1> DEFINE I == Control /\ AloneInv /\ ShownIsDurable
<1>1. Init => I
  <2> SUFFICES ASSUME Init
               PROVE  I
    OBVIOUS
  <2>1. Control
    BY InitControl
  <2>2. AloneInv /\ ShownIsDurable
    BY DEF Init, AloneInv, ShownIsDurable
  <2> QED
    BY <2>1, <2>2
<1>2. I /\ [Next]_vars => I'
  <2> SUFFICES ASSUME I, [Next]_vars
               PROVE  I'
    OBVIOUS
  <2>1. Control'
    BY ControlStep
  <2>2. AloneInv'
    <3>1. CASE Crash
      BY <3>1 DEF Crash, AloneInv
    <3>2. CASE ~Crash
      BY <3>2, AloneStep
    <3> QED
      BY <3>1, <3>2
  <2>3. ShownIsDurable'
    BY DurableStep
  <2> QED
    BY <2>1, <2>2, <2>3
<1> QED
  BY <1>1, <1>2, PTL DEF Spec

(* What a user was shown of a recording that is over is in its              *)
(* session.json, so a crash changes neither its end nor its segments, and   *)
(* a deleted one stays gone (finalize_with, delete_history): if nobody ends *)
(* the recording of a page between the two looks at `stopping` of another.  *)
THEOREM DurableEnds ==
  ASSUME Splitless
  PROVE  Spec => []DiskIsTrue
<1>1. Control /\ ShownIsDurable => DiskIsTrue
  BY DEF Control, RemovedInv, DiskIsTrue, DeletedStays
<1>2. Spec => [](Control /\ AloneInv /\ ShownIsDurable)
  BY AlwaysDurable
<1> QED
  BY <1>1, <1>2, PTL

-----------------------------------------------------------------------------
(* The log of inputs *)

Once(log, op) ==
  \E i \in DOMAIN log : log[i] = op /\ \A j \in DOMAIN log : log[j] = op => j = i

(* An input is in the log once, or it is the one that is held. *)
Logged(m) ==
  /\ m.held \in 0..m.ops
  /\ m.state \notin Active => m.held = 0
  /\ \A i \in DOMAIN m.log : m.log[i] \in 1..m.ops /\ m.log[i] # m.held
  /\ \A op \in 1..m.ops : op = m.held \/ Once(m.log, op)

LogInv == \A s \in Sessions : mem[s] # None => Logged(mem[s])

LEMMA OnceCounted ==
  ASSUME NEW log \in Seq(Nat), NEW op, Once(log, op)
  PROVE  Cardinality({i \in DOMAIN log : log[i] = op}) = 1
<1>1. PICK i \in DOMAIN log : log[i] = op /\ \A j \in DOMAIN log : log[j] = op => j = i
  BY DEF Once
<1>2. {j \in DOMAIN log : log[j] = op} = {i}
  BY <1>1
<1> QED
  BY <1>2, FS_Singleton

LEMMA OnceAppended ==
  ASSUME NEW log \in Seq(Nat), NEW x \in Nat, \A i \in DOMAIN log : log[i] # x
  PROVE  /\ Once(Append(log, x), x)
         /\ \A y \in Nat : Once(log, y) => Once(Append(log, x), y)
         /\ \A i \in DOMAIN Append(log, x) :
              Append(log, x)[i] = x \/ \E j \in DOMAIN log : Append(log, x)[i] = log[j]
<1> DEFINE more == Append(log, x)
<1>1. /\ DOMAIN log = 1..Len(log) /\ Len(log) \in Nat
      /\ DOMAIN more = 1..(Len(log) + 1) /\ more[Len(log) + 1] = x
      /\ \A i \in 1..Len(log) : more[i] = log[i]
  OBVIOUS
<1> HIDE DEF more
<1>2. \A i \in DOMAIN more : i = Len(log) + 1 \/ (i \in DOMAIN log /\ more[i] = log[i])
  BY <1>1
<1>3. Len(log) + 1 \in DOMAIN more /\ DOMAIN log \subseteq DOMAIN more
  BY <1>1
<1>4. Once(more, x)
  BY <1>1, <1>2, <1>3 DEF Once
<1>5. ASSUME NEW y \in Nat, Once(log, y)
      PROVE  Once(more, y)
  <2>1. PICK i \in DOMAIN log : log[i] = y /\ \A j \in DOMAIN log : log[j] = y => j = i
    BY <1>5 DEF Once
  <2>2. y # x
    BY <2>1
  <2>3. more[i] = y /\ i \in DOMAIN more
    BY <1>1, <1>3, <2>1
  <2>4. \A j \in DOMAIN more : more[j] = y => j = i
    BY <1>1, <1>2, <2>1, <2>2
  <2> QED
    BY <2>3, <2>4 DEF Once
<1>6. \A i \in DOMAIN more : more[i] = x \/ \E j \in DOMAIN log : more[i] = log[j]
  BY <1>1, <1>2
<1> QED
  BY <1>4, <1>5, <1>6 DEF more

LEMMA LoggedSame ==
  ASSUME NEW m \in Session, NEW n \in Session, Logged(m),
         n.held = m.held, n.ops = m.ops, n.log = m.log,
         n.state \in Active \/ n.state = m.state
  PROVE  Logged(n)
BY DEF Logged

LEMMA LoggedInput ==
  ASSUME NEW m \in Session, NEW down \in BOOLEAN, Logged(m), m.state \in Active
  PROVE  Logged(Input(m, down))
<1> DEFINE n == Input(m, down)
           op == m.ops + 1
<1> SUFFICES Logged(n)
  OBVIOUS
<1>1. m.ops \in Nat /\ m.held \in Nat /\ m.log \in Seq(Nat) /\ op \in Nat
  BY DEF Session
<1>2. n.state = m.state
  BY InputKeeps DEF SameVideo
<1>3. \A i \in DOMAIN m.log : m.log[i] \in 1..m.ops /\ m.log[i] # m.held /\ m.log[i] # op
  BY <1>1 DEF Logged
<1>4. CASE down /\ m.held = 0
  <2>1. n.ops = op /\ n.held = op /\ n.log = m.log
    BY <1>4 DEF Input, Session
  <2> HIDE DEF n
  <2>2. n.held \in 0..n.ops /\ (n.state \notin Active => n.held = 0)
    BY <1>1, <1>2, <2>1
  <2>3. \A i \in DOMAIN n.log : n.log[i] \in 1..n.ops /\ n.log[i] # n.held
    BY <1>1, <1>3, <1>4, <2>1, OnceAppended DEF Logged
  <2>4. \A k \in 1..n.ops : k = n.held \/ Once(n.log, k)
    BY <1>1, <1>3, <1>4, <2>1, OnceAppended DEF Logged
  <2> QED
    BY <2>2, <2>3, <2>4 DEF Logged
<1>5. CASE down /\ m.held # 0
  <2>1. n.ops = op /\ n.held = op /\ n.log = Append(m.log, m.held)
    BY <1>5 DEF Input, Session
  <2> HIDE DEF n
  <2>2. n.held \in 0..n.ops /\ (n.state \notin Active => n.held = 0)
    BY <1>1, <1>2, <2>1
  <2>3. \A i \in DOMAIN n.log : n.log[i] \in 1..n.ops /\ n.log[i] # n.held
    BY <1>1, <1>3, <1>5, <2>1, OnceAppended DEF Logged
  <2>4. \A k \in 1..n.ops : k = n.held \/ Once(n.log, k)
    BY <1>1, <1>3, <1>5, <2>1, OnceAppended DEF Logged
  <2> QED
    BY <2>2, <2>3, <2>4 DEF Logged
<1>6. CASE ~down /\ m.held # 0
  <2>1. n.ops = m.ops /\ n.held = 0 /\ n.log = Append(m.log, m.held)
    BY <1>6 DEF Input, Session
  <2> HIDE DEF n
  <2>2. n.held \in 0..n.ops /\ (n.state \notin Active => n.held = 0)
    BY <1>1, <1>2, <2>1
  <2>3. \A i \in DOMAIN n.log : n.log[i] \in 1..n.ops /\ n.log[i] # n.held
    BY <1>1, <1>3, <1>6, <2>1, OnceAppended DEF Logged
  <2>4. \A k \in 1..n.ops : k = n.held \/ Once(n.log, k)
    BY <1>1, <1>3, <1>6, <2>1, OnceAppended DEF Logged
  <2> QED
    BY <2>2, <2>3, <2>4 DEF Logged
<1>7. CASE ~down /\ m.held = 0
  <2>1. n.ops = op /\ n.held = 0 /\ n.log = Append(m.log, op)
    BY <1>7 DEF Input, Session
  <2> HIDE DEF n
  <2>2. n.held \in 0..n.ops /\ (n.state \notin Active => n.held = 0)
    BY <1>1, <1>2, <2>1
  <2>3. \A i \in DOMAIN n.log : n.log[i] \in 1..n.ops /\ n.log[i] # n.held
    BY <1>1, <1>3, <1>7, <2>1, OnceAppended DEF Logged
  <2>4. \A k \in 1..n.ops : k = n.held \/ Once(n.log, k)
    BY <1>1, <1>3, <1>7, <2>1, OnceAppended DEF Logged
  <2> QED
    BY <2>2, <2>3, <2>4 DEF Logged
<1> QED
  BY <1>4, <1>5, <1>6, <1>7

LEMMA LoggedEnded ==
  ASSUME NEW m \in Session, NEW to \in Results, Logged(m)
  PROVE  Logged(Ended(m, to))
<1> DEFINE n == Ended(m, to)
<1> SUFFICES Logged(n)
  OBVIOUS
<1>1. m.ops \in Nat /\ m.held \in Nat /\ m.log \in Seq(Nat)
  BY DEF Session
<1>2. CASE m.state \notin Active
  BY <1>2, EndedKeeps
<1>3. CASE m.state \in Active
  <2>1. n.ops = m.ops /\ n.held = 0
        /\ n.log = IF m.held = 0 THEN m.log ELSE Append(m.log, m.held)
    BY <1>3, EndedKeeps
  <2> HIDE DEF n
  <2>2. n.held \in 0..n.ops /\ (n.state \notin Active => n.held = 0)
    BY <1>1, <2>1
  <2>3. \A i \in DOMAIN m.log : m.log[i] \in 1..m.ops /\ m.log[i] # m.held
    BY DEF Logged
  <2>4. \A i \in DOMAIN n.log : n.log[i] \in 1..n.ops /\ n.log[i] # n.held
    BY <1>1, <2>1, <2>3, OnceAppended DEF Logged
  <2>5. \A k \in 1..n.ops : k = n.held \/ Once(n.log, k)
    BY <1>1, <2>1, <2>3, OnceAppended DEF Logged
  <2> QED
    BY <2>2, <2>4, <2>5 DEF Logged
<1> QED
  BY <1>2, <1>3

LEMMA LogStep ==
  ASSUME Typed, LogInv, [Next]_vars
  PROVE  LogInv'
<1> USE DEF Typed, TypeOK, CoreType, MemType, PlaceInv, Placed, LogInv
<1>1. ASSUME NEW c \in Callers, NEW s \in Sessions, StartAdmits(c, s)
      PROVE  LogInv'
  <2>1. Logged(Fresh(kind, at[c].s))
    BY DEF Logged, Fresh
  <2> QED
    BY <2>1, <1>1 DEF StartAdmits, Admits
<1>2. CASE FeedConfig
  <2>1. CASE mem' = mem
    BY <2>1
  <2>2. CASE Fed
    <3>1. PICK n \in Session :
            /\ mem' = [mem EXCEPT ![slot] = n] /\ n.state = "Recording"
            /\ n.held = mem[slot].held /\ n.ops = mem[slot].ops /\ n.log = mem[slot].log
      BY <2>2 DEF Fed
    <3>2. slot \in Sessions /\ mem[slot] \in Session /\ mem[slot] # None
      BY <2>2 DEF Fed
    <3>3. Logged(n)
      BY <3>1, <3>2, LoggedSame
    <3> QED
      BY <3>1, <3>2, <3>3
  <2> QED
    BY <2>1, <2>2, <1>2, FeedConfigFed
<1>3. ASSUME NEW key \in BOOLEAN, FeedFrame(key)
      PROVE  LogInv'
  <2>1. CASE mem' = mem
    BY <2>1
  <2>2. CASE Fed
    <3>1. PICK n \in Session :
            /\ mem' = [mem EXCEPT ![slot] = n] /\ n.state = "Recording"
            /\ n.held = mem[slot].held /\ n.ops = mem[slot].ops /\ n.log = mem[slot].log
      BY <2>2 DEF Fed
    <3>2. slot \in Sessions /\ mem[slot] \in Session /\ mem[slot] # None
      BY <2>2 DEF Fed
    <3>3. Logged(n)
      BY <3>1, <3>2, LoggedSame
    <3> QED
      BY <3>1, <3>2, <3>3
  <2> QED
    BY <2>1, <2>2, <1>3, FeedFrameFed
<1>4. CASE FrameFails
  <2>1. slot \in Sessions /\ mem[slot] \in Session /\ mem[slot] # None
        /\ mem' = [mem EXCEPT ![slot] = Ended(mem[slot], "Failed")]
    BY <1>4, FrameFailsStopped DEF Stopped
  <2>2. Logged(Ended(mem[slot], "Failed"))
    BY <2>1, LoggedEnded
  <2> QED
    BY <2>1, <2>2
<1>5. CASE Collect
  <2>1. PICK n \in Session : Becomes(slot, n) /\ n.state \in Active
    BY <1>5, CollectBecomes DEF Finalizes
  <2>2. Logged(n)
    BY <2>1, LoggedSame DEF Becomes, SameFilm
  <2> QED
    BY <2>1, <2>2 DEF Becomes
<1>6. CASE Observe
  <2>1. PICK down \in BOOLEAN :
          /\ slot \in Sessions /\ mem[slot] \in Session /\ mem[slot] # None
          /\ mem[slot].state = "Recording"
          /\ mem' = [mem EXCEPT ![slot] = Input(mem[slot], down)]
    BY <1>6, ObserveBecomes
  <2>2. Logged(Input(mem[slot], down))
    BY <2>1, LoggedInput
  <2> QED
    BY <2>1, <2>2
<1>7. ASSUME NEW c \in Callers, NEW s \in Sessions, RequestFinish(c, s)
      PROVE  LogInv'
  <2>1. PICK n \in Session : Becomes(s, n) /\ n.state \in Active
    BY <1>7, RequestFinishBecomes DEF Finalizes
  <2>2. Logged(n)
    BY <2>1, LoggedSame DEF Becomes, SameFilm
  <2> QED
    BY <2>1, <2>2 DEF Becomes
<1>8. ASSUME NEW c \in Callers, DeleteRemoves(c)
      PROVE  LogInv'
  BY <1>8 DEF DeleteRemoves
<1>9. ASSUME NEW p \in Procs, Take(p)
      PROVE  LogInv'
  <2>1. CASE ~mem[at[p].s].page
    BY <2>1, <1>9, TakeBecomes
  <2>2. CASE mem[at[p].s].page
    <3>1. PICK n \in Session : Becomes(at[p].s, n) /\ n.state \in Active
      BY <2>2, <1>9, TakeBecomes DEF Finalizes
    <3>2. Logged(n)
      BY <3>1, LoggedSame DEF Becomes, SameFilm
    <3> QED
      BY <3>1, <3>2 DEF Becomes
  <2> QED
    BY <2>1, <2>2
<1>10. ASSUME NEW p \in Procs, Final(p)
      PROVE  LogInv'
  <2>1. PICK m \in Session :
          Filmed(at[p].s, at[p].segment, m) /\ Stopped(at[p].s, m, at[p].to)
    BY <1>10, FinalStopped
  <2>2. at[p].s \in Sessions /\ mem[at[p].s] # None /\ at[p].to \in Results
    BY <1>10 DEF Final
  <2>3. Logged(m)
    BY <2>1, <2>2, LoggedSame DEF Filmed
  <2>4. Logged(Ended(m, at[p].to))
    BY <2>2, <2>3, LoggedEnded
  <2> QED
    BY <2>1, <2>2, <2>4 DEF Stopped
<1>11. ASSUME NEW s \in Sessions, HaltAsks(s)
      PROVE  LogInv'
  <2>1. CASE mem' = mem
    BY <2>1
  <2>2. CASE mem' # mem
    <3>1. PICK n \in Session :
            Becomes(s, n) /\ (n.state = mem[s].state \/ n.state = "Finalizing")
      BY <2>2, <1>11, HaltAsksBecomes DEF Finalizes
    <3>2. Logged(n)
      BY <3>1, LoggedSame DEF Becomes, SameFilm
    <3> QED
      BY <3>1, <3>2 DEF Becomes
  <2> QED
    BY <2>1, <2>2
<1>12. ASSUME NEW s \in Sessions, Recover(s)
      PROVE  LogInv'
  BY <1>12 DEF Recover
<1>13. CASE Crash
  BY <1>13 DEF Crash
<1>14. CASE UNCHANGED <<mem, disk>>
  BY <1>14
<1> HIDE DEF Typed, TypeOK, CoreType, MemType, PlaceInv, Placed, LogInv
<1> QED
  BY <1>1, <1>2, <1>3, <1>4, <1>5, <1>6, <1>7, <1>8, <1>9, <1>10, <1>11,
     <1>12, <1>13, <1>14, Changes DEF Changing, SessionMoves

LEMMA AlwaysLogged == Spec => [](Typed /\ LogInv)
<1>1. Init => Typed /\ LogInv
  BY InitTyped DEF Init, LogInv
<1>2. Typed /\ LogInv /\ [Next]_vars => Typed' /\ LogInv'
  BY TypedStep, LogStep
<1> QED
  BY <1>1, <1>2, PTL DEF Spec

LEMMA LoggedOnce ==
  ASSUME Typed, LogInv
  PROVE  InputsRecordedOnce
<1> SUFFICES ASSUME NEW s \in Sessions, mem[s] # None, mem[s].state \notin Active,
                    NEW op \in 1..mem[s].ops
             PROVE  Cardinality({i \in DOMAIN mem[s].log : mem[s].log[i] = op}) = 1
  BY DEF InputsRecordedOnce
<1>1. mem[s] \in Session /\ Logged(mem[s])
  BY DEF Typed, TypeOK, MemType, LogInv
<1>2. mem[s].log \in Seq(Nat) /\ mem[s].ops \in Nat
  BY <1>1 DEF Session
<1>3. Once(mem[s].log, op)
  BY <1>1, <1>2 DEF Logged
<1> QED
  BY <1>2, <1>3, OnceCounted

-----------------------------------------------------------------------------
(* The video of a device *)

(* A segment of the frames of one parameter set and one clock. *)
Whole(g) == \E f \in g.frames : g.frames = {f} /\ f.config = g.config

(* A recording that says nothing of lost frames has such segments only. *)
Listed(m) == \A i \in DOMAIN m.segments : Whole(m.segments[i])
Video(m) == ~m.lost => Listed(m) /\ (m.current # None => Whole(m.current))

(* What it writes now is what the encoder sends now. *)
Live(m, from) ==
  m.state = "Recording" /\ ~m.lost /\ m.stream = from.number =>
    /\ m.pending # None => m.pending = from.config
    /\ m.current # None =>
         /\ m.pending = None /\ m.current.config = from.config
         /\ m.current.frames = {[config |-> from.config, clock |-> from.clock]}

(* No recording is of a stream that is to come. *)
StreamInv ==
  /\ \A s \in Sessions : mem[s] # None => mem[s].stream <= stream.number
  /\ \A c \in Callers : at[c].pc = "admit" => at[c].s <= stream.number

VideoInv ==
  kind = "device" => \A s \in Sessions : mem[s] # None => Video(mem[s]) /\ Live(mem[s], stream)

LEMMA ListedClosed ==
  ASSUME NEW m \in Session, Video(m), ~m.lost
  PROVE  Listed(Closed(m))
<1>1. CASE m.current = None
  BY <1>1 DEF Closed, Video
<1>2. CASE m.current # None
  <2> DEFINE g == Append(m.segments, m.current)
  <2>1. m.segments \in Seq(Segment) /\ Closed(m).segments = g
    BY <1>2 DEF Closed, Session
  <2>2. Whole(m.current) /\ \A i \in DOMAIN m.segments : Whole(m.segments[i])
    BY <1>2 DEF Video, Listed
  <2>3. \A i \in DOMAIN g :
          g[i] = m.current \/ \E j \in DOMAIN m.segments : g[i] = m.segments[j]
    BY <2>1
  <2> HIDE DEF g
  <2>4. \A i \in DOMAIN g : Whole(g[i])
    BY <2>2, <2>3
  <2> QED
    BY <2>1, <2>4 DEF Listed
<1> QED
  BY <1>1, <1>2

LEMMA VideoSame ==
  ASSUME NEW m, NEW n, Video(m), n.lost = m.lost, n.current = m.current,
         n.segments = m.segments
  PROVE  Video(n)
BY DEF Video, Listed

LEMMA VideoEnded ==
  ASSUME NEW m \in Session, NEW to \in Results, Video(m)
  PROVE  Video(Ended(m, to))
<1>1. CASE m.state \notin Active
  BY <1>1, EndedKeeps
<1>2. CASE m.state \in Active
  BY <1>2, EndedKeeps, ListedClosed DEF Video, Listed
<1> QED
  BY <1>1, <1>2

LEMMA VideoTakes ==
  ASSUME NEW m \in Session, NEW c \in 1..MaxConfigs, Video(m), Live(m, stream),
         m.state = "Recording", m.stream = stream.number
  PROVE  /\ Video(Takes(m, c))
         /\ ~m.lost => Takes(m, c).current = None /\ Takes(m, c).pending = c
<1>1. CASE m.pending = c
  <2>1. c # None
    OBVIOUS
  <2> QED
    BY <1>1, <2>1, TakesKeeps DEF Live
<1>2. CASE m.pending # c
  BY <1>2, TakesKeeps, ListedClosed DEF Video, Listed, SameRest
<1> QED
  BY <1>1, <1>2

LEMMA VideoAdds ==
  ASSUME CoreType, NEW m \in Session, NEW key \in BOOLEAN, Video(m), Live(m, stream),
         m.state = "Recording", m.stream = stream.number
  PROVE  Video(Adds(m, key)) /\ Live(Adds(m, key), stream)
<1> DEFINE n == Adds(m, key)
<1> SUFFICES Video(n) /\ Live(n, stream)
  OBVIOUS
<1>1. n \in Session /\ SameRest(m, n)
  BY AddsKeeps
<1>2. /\ Encoded = [config |-> stream.config, clock |-> stream.clock]
      /\ Encoded \in Frame /\ Encoded.config = stream.config /\ Encoded.clock = stream.clock
  BY DEF Encoded, Frame, CoreType
<1>3. CASE m.lost
  BY <1>1, <1>3 DEF SameRest, Video, Live
<1>4. CASE n = m
  BY <1>4
<1>5. CASE ~m.lost /\ m.current = None /\ m.pending # None /\ n = Opened(m, Encoded)
  <2> DEFINE g == [file |-> m.opened + 1, config |-> m.pending, frames |-> {Encoded}]
  <2>1. n.current = g /\ n.pending = None /\ n.segments = m.segments
    BY <1>2, <1>5, OpenedKeeps
  <2>2. m.pending = stream.config
    BY <1>5 DEF Live
  <2>3. g.frames = {Encoded} /\ g.config = stream.config
    BY <2>2
  <2> HIDE DEF g
  <2>4. Whole(g)
    BY <1>2, <2>3 DEF Whole
  <2>5. n.lost = m.lost /\ Listed(m)
    BY <1>1, <1>5 DEF SameRest, Video
  <2> HIDE DEF n
  <2> QED
    BY <1>2, <2>1, <2>3, <2>4, <2>5 DEF Video, Live, Listed
<1>6. CASE ~m.lost /\ m.current # None
  <2> DEFINE g == [m.current EXCEPT !.frames = m.current.frames \cup {Encoded}]
  <2>1. m.pending = None /\ m.current.frames = {Encoded} /\ m.current.config = stream.config
    BY <1>2, <1>6 DEF Live
  <2>2. ~\E f \in m.current.frames : f.clock # stream.clock
    BY <1>2, <2>1
  <2>3. n = Grown(m, Encoded)
    BY <1>6, <2>2 DEF Adds
  <2>4. n.current = g /\ n.pending = m.pending /\ n.segments = m.segments
    BY <1>2, <1>6, <2>3, GrownKeeps
  <2>5. m.current \in Segment
    BY <1>6 DEF Session
  <2>6. g.frames = {Encoded} /\ g.config = stream.config
    BY <2>1, <2>5 DEF Segment
  <2> HIDE DEF g
  <2>7. Whole(g)
    BY <1>2, <2>6 DEF Whole
  <2>8. n.lost = m.lost /\ Listed(m)
    BY <1>1, <1>6 DEF SameRest, Video
  <2> HIDE DEF n
  <2> QED
    BY <1>2, <2>1, <2>4, <2>6, <2>7, <2>8 DEF Video, Live, Listed
<1> QED
  BY <1>3, <1>4, <1>5, <1>6 DEF Adds

(* What reaches the recording of its stream is taken whole, or is noted as *)
(* lost.                                                                   *)
LEMMA ReachesOne ==
  ASSUME Typed, NEW m, Reaches(m)
  PROVE  \/ /\ mem' = mem
            /\ slot # None => mem[slot].stream # stream.number \/ mem[slot].state # "Recording"
         \/ /\ slot # None /\ mem[slot].stream = stream.number /\ mem[slot].state = "Recording"
            /\ \/ mem' = [mem EXCEPT ![slot] = m]
               \/ \E n \in Session : n.lost /\ mem' = [mem EXCEPT ![slot] = n]
<1> USE DEF Typed, TypeOK, CoreType, MemType, PlaceInv
<1>1. CASE slot = None \/ mem[slot].stream # stream.number \/ mem[slot].state # "Recording"
  BY <1>1 DEF Reaches
<1>2. CASE ~(slot = None \/ mem[slot].stream # stream.number \/ mem[slot].state # "Recording")
  <2>1. CASE mem' = [mem EXCEPT ![slot] = m]
    BY <1>2, <2>1
  <2>2. CASE mem' = [mem EXCEPT ![slot].lost = TRUE]
    <3> DEFINE n == [mem[slot] EXCEPT !.lost = TRUE]
    <3>1. slot \in Sessions /\ mem[slot] \in Session
      BY <1>2
    <3>2. n \in Session /\ n.lost
      BY <3>1 DEF Session
    <3>3. mem' = [mem EXCEPT ![slot] = n]
      BY <2>2, <3>1
    <3> HIDE DEF n
    <3> QED
      BY <1>2, <3>2, <3>3
  <2> QED
    BY <1>2, <2>1, <2>2 DEF Reaches
<1> QED
  BY <1>1, <1>2

(* Between frames and ends the picture of a recording stays. *)
SamePicture(m, n) ==
  /\ n.stream = m.stream /\ n.lost = m.lost /\ n.current = m.current
  /\ n.pending = m.pending /\ n.segments = m.segments

PictureStays == \A t \in Sessions : mem[t] # None => SamePicture(mem[t], mem'[t])

SameStream ==
  /\ stream'.number = stream.number
  /\ stream'.config = stream.config /\ stream'.clock = stream.clock

LEMMA PictureMoves ==
  ASSUME Typed, [Next]_vars
  PROVE  \/ PictureStays \/ Crash \/ FrameFails \/ FeedConfig
         \/ \E k \in BOOLEAN : FeedFrame(k)
         \/ \E q \in Procs : Final(q)
<1> DEFINE Seen ==
      \/ PictureStays \/ Crash \/ FrameFails \/ FeedConfig
      \/ \E k \in BOOLEAN : FeedFrame(k)
      \/ \E q \in Procs : Final(q)
<1> USE DEF Typed, TypeOK, CoreType, MemType, PlaceInv, Placed, SamePicture,
      PictureStays
<1>1. ASSUME NEW c \in Callers, NEW s \in Sessions, StartAdmits(c, s)
      PROVE  Seen
  <2>1. \A t \in Sessions : t # s => mem'[t] = mem[t]
    BY <1>1 DEF StartAdmits, Admits
  <2>2. mem[s] = None
    BY <1>1, NewIsUnused DEF StartAdmits
  <2>3. PictureStays
    BY <2>1, <2>2 DEF SamePicture, PictureStays
  <2> QED
    BY <2>3
<1>2. CASE FeedConfig
  <2> QED
    BY <1>2
<1>3. ASSUME NEW key \in BOOLEAN, FeedFrame(key)
      PROVE  Seen
  <2> QED
    BY <1>3
<1>4. CASE FrameFails
  <2> QED
    BY <1>4
<1>5. CASE Collect
  <2>1. PICK n \in Session : Becomes(slot, n)
    BY <1>5, CollectBecomes DEF Finalizes
  <2>2. PictureStays
    BY <2>1 DEF Becomes, SameFilm, SamePicture, PictureStays
  <2> QED
    BY <2>2
<1>6. CASE Observe
  <2>1. PICK n \in Session :
          mem' = [mem EXCEPT ![slot] = n] /\ SameVideo(mem[slot], n) /\ slot \in Sessions
    BY <1>6, ObserveBecomes
  <2>2. PictureStays
    BY <2>1 DEF SameVideo, SamePicture, PictureStays
  <2> QED
    BY <2>2
<1>7. ASSUME NEW c \in Callers, NEW s \in Sessions, RequestFinish(c, s)
      PROVE  Seen
  <2>1. PICK n \in Session : Becomes(s, n)
    BY <1>7, RequestFinishBecomes DEF Finalizes
  <2>2. PictureStays
    BY <2>1 DEF Becomes, SameFilm, SamePicture, PictureStays
  <2> QED
    BY <2>2
<1>8. ASSUME NEW c \in Callers, DeleteRemoves(c)
      PROVE  Seen
  BY <1>8 DEF DeleteRemoves
<1>9. ASSUME NEW p \in Procs, Take(p)
      PROVE  Seen
  <2>1. CASE mem' = mem
    BY <2>1 DEF SamePicture, PictureStays
  <2>2. CASE mem' # mem
    <3>1. PICK n \in Session : Becomes(at[p].s, n)
      BY <2>2, <1>9, TakeBecomes DEF Finalizes
    <3>2. PictureStays
      BY <3>1 DEF Becomes, SameFilm, SamePicture, PictureStays
    <3> QED
      BY <3>2
  <2> QED
    BY <2>1, <2>2
<1>10. ASSUME NEW p \in Procs, Final(p)
      PROVE  Seen
  <2> QED
    BY <1>10
<1>11. ASSUME NEW s \in Sessions, HaltAsks(s)
      PROVE  Seen
  <2>1. CASE mem' = mem
    BY <2>1 DEF SamePicture, PictureStays
  <2>2. CASE mem' # mem
    <3>1. PICK n \in Session : Becomes(s, n)
      BY <2>2, <1>11, HaltAsksBecomes DEF Finalizes
    <3>2. PictureStays
      BY <3>1 DEF Becomes, SameFilm, SamePicture, PictureStays
    <3> QED
      BY <3>2
  <2> QED
    BY <2>1, <2>2
<1>12. ASSUME NEW s \in Sessions, Recover(s)
      PROVE  Seen
  BY <1>12 DEF Recover
<1>13. CASE Crash
  <2> QED
    BY <1>13
<1>14. CASE UNCHANGED <<mem, disk>>
  BY <1>14
<1> HIDE DEF Typed, TypeOK, CoreType, MemType, PlaceInv, Placed, SamePicture,
      PictureStays
<1> QED
  BY <1>1, <1>2, <1>3, <1>4, <1>5, <1>6, <1>7, <1>8, <1>9, <1>10, <1>11,
     <1>12, <1>13, <1>14, Changes DEF Changing, SessionMoves

LEMMA AdmitMoves ==
  ASSUME Typed, [Next]_vars
  PROVE  \A d \in Callers : at'[d].pc = "admit" =>
           at'[d].s = stream.number \/ (at[d].pc = "admit" /\ at'[d].s = at[d].s)
<1> DEFINE Asked ==
      \A d \in Callers : at'[d].pc = "admit" =>
        at'[d].s = stream.number \/ (at[d].pc = "admit" /\ at'[d].s = at[d].s)
<1> USE DEF Typed, TypeOK, AtType, Task, PlaceInv, Placed
<1>1. ASSUME NEW c \in Callers, StartLooks(c)
      PROVE  Asked
  BY <1>1 DEF StartLooks
<1>2. ASSUME NEW c \in Callers, StartRefused(c)
      PROVE  Asked
  BY <1>2 DEF StartRefused
<1>3. ASSUME NEW c \in Callers, NEW s \in Sessions, StartAdmits(c, s)
      PROVE  Asked
  BY <1>3 DEF StartAdmits, Admits
<1>4. CASE CollectFails
  BY <1>4 DEF CollectFails, EndsGone, Interrupts
<1>5. ASSUME NEW c \in Callers, NEW s \in Sessions, RequestFinish(c, s)
      PROVE  Asked
  BY <1>5 DEF RequestFinish
<1>6. ASSUME NEW c \in Callers, NEW s \in Sessions, Stop(c, s)
      PROVE  Asked
  BY <1>6 DEF Stop
<1>7. ASSUME NEW c \in Callers, NEW s \in Sessions, DeleteBegins(c, s)
      PROVE  Asked
  <2>1. /\ \A q \in Procs : q # c => at'[q] = at[q]
        /\ at'[c] = [pc |-> "delete", s |-> s, to |-> None, segment |-> FALSE]
    BY <1>7 DEF DeleteBegins, Deletes
  <2> QED
    BY <2>1, <1>7
<1>8. ASSUME NEW c \in Callers, DeleteRemoves(c)
      PROVE  Asked
  BY <1>8 DEF DeleteRemoves
<1>9. ASSUME NEW s \in Sessions, Begins(s)
      PROVE  Asked
  BY <1>9 DEF Begins
<1>10. ASSUME NEW p \in Procs, Checks(p)
      PROVE  Asked
  BY <1>10 DEF Checks
<1>11. ASSUME NEW p \in Procs, Take(p)
      PROVE  Asked
  <2>1. /\ at[p].pc = "take" /\ at'[p].s = at[p].s /\ at'[p].segment = at[p].segment
        /\ at'[p].pc \in {"encode", "final", "again"}
        /\ at'[p].pc = "encode" => mem[at[p].s].page
    BY <1>11 DEF Take
  <2>2. \A q \in Procs : q # p => at'[q] = at[q]
    BY <1>11 DEF Take
  <2> QED
    BY <2>1, <2>2, <1>11
<1>12. ASSUME NEW p \in Procs, Encode(p)
      PROVE  Asked
  BY <1>12 DEF Encode
<1>13. ASSUME NEW p \in Procs, EncodeFails(p)
      PROVE  Asked
  BY <1>13 DEF EncodeFails
<1>14. ASSUME NEW p \in Procs, EncodeNothing(p)
      PROVE  Asked
  BY <1>14 DEF EncodeNothing
<1>15. ASSUME NEW p \in Procs, Final(p)
      PROVE  Asked
  BY <1>15 DEF Final
<1>16. CASE Boundary
  BY <1>16 DEF Boundary, Interrupts
<1>17. CASE PageGone
  BY <1>17 DEF PageGone, EndsGone, Interrupts
<1>18. CASE Disconnect
  BY <1>18 DEF Disconnect
<1>19. ASSUME NEW s \in Sessions, HaltAsks(s)
      PROVE  Asked
  <2>1. CASE at' = at
    BY <2>1
  <2>2. CASE at' = [at EXCEPT ![s] = Begun(s)]
    BY <2>2
  <2> QED
    BY <2>1, <2>2, <1>19, HaltAsksBecomes
<1>20. CASE Crash
  BY <1>20 DEF Crash
<1>21. CASE at' = at
  BY <1>21
<1> HIDE DEF Typed, TypeOK, AtType, Task, PlaceInv, Placed
<1> QED
  BY <1>1, <1>2, <1>3, <1>4, <1>5, <1>6, <1>7, <1>8, <1>9, <1>10, <1>11,
     <1>12, <1>13, <1>14, <1>15, <1>16, <1>17, <1>18, <1>19, <1>20, <1>21,
     Changes DEF Changing, TaskMoves

LEMMA StreamMoves ==
  ASSUME Typed, [Next]_vars
  PROVE  SameStream \/ FeedConfig \/ Connect
<1>1. CASE stream' = stream
  BY <1>1 DEF SameStream
<1>2. CASE Disconnect \/ Crash
  BY <1>2 DEF Disconnect, Crash, SameStream, Typed, TypeOK, CoreType
<1>3. ASSUME NEW key \in BOOLEAN, FeedFrame(key)
      PROVE  SameStream
  BY <1>3 DEF FeedFrame, SameStream, Typed, TypeOK, CoreType
<1> QED
  BY <1>1, <1>2, <1>3, Changes DEF Changing

(* The number of the stream grows, and only a frame changes its encoder. *)
LEMMA StreamGrows ==
  ASSUME Typed, [Next]_vars
  PROVE  stream.number \in Nat /\ stream'.number \in Nat /\ stream.number <= stream'.number
<1>1. stream.number \in Nat
  BY DEF Typed, TypeOK, CoreType
<1>2. CASE FeedConfig
  BY <1>1, <1>2 DEF FeedConfig, Typed, TypeOK, CoreType
<1>3. CASE Connect
  BY <1>1, <1>3 DEF Connect
<1>4. CASE SameStream
  BY <1>1, <1>4 DEF SameStream
<1> QED
  BY <1>1, <1>2, <1>3, <1>4, StreamMoves

LEMMA StreamStays ==
  ASSUME Typed, [Next]_vars, NEW t \in Sessions, mem[t] # None, mem'[t] # None
  PROVE  mem'[t].stream = mem[t].stream
<1> USE DEF Typed, TypeOK, CoreType, MemType
<1>1. CASE PictureStays
  BY <1>1 DEF PictureStays, SamePicture
<1>2. CASE Crash
  BY <1>2 DEF Crash
<1>3. CASE FrameFails
  BY <1>3, FrameFailsStopped DEF Stopped
<1>4. CASE FeedConfig
  BY <1>4, FeedConfigFed DEF Fed
<1>5. ASSUME NEW k \in BOOLEAN, FeedFrame(k)
      PROVE  mem'[t].stream = mem[t].stream
  BY <1>5, FeedFrameFed DEF Fed
<1>6. ASSUME NEW q \in Procs, Final(q)
      PROVE  mem'[t].stream = mem[t].stream
  BY <1>6, FinalStopped DEF Stopped, Filmed
<1> QED
  BY <1>1, <1>2, <1>3, <1>4, <1>5, <1>6, PictureMoves

LEMMA StreamInvStep ==
  ASSUME Typed, StreamInv, [Next]_vars
  PROVE  StreamInv'
<1>1. stream.number \in Nat /\ stream'.number \in Nat /\ stream.number <= stream'.number
  BY StreamGrows
<1>2. ASSUME NEW t \in Sessions, mem'[t] # None
      PROVE  mem'[t].stream <= stream'.number
  <2>1. CASE mem[t] = None
    <3>1. PICK d \in Callers : StartAdmits(d, t)
      BY <1>2, <2>1, Newcomers
    <3>2. at[d].pc = "admit" /\ mem'[t] = Fresh(kind, at[d].s)
      BY <3>1 DEF StartAdmits, Admits, Typed, TypeOK, MemType
    <3>3. Fresh(kind, at[d].s).stream = at[d].s
      BY DEF Fresh
    <3>4. at[d].s \in Nat /\ at[d].s <= stream.number
      BY <3>2 DEF StreamInv, Typed, PlaceInv, Placed
    <3> QED
      BY <1>1, <3>2, <3>3, <3>4
  <2>2. CASE mem[t] # None
    <3>1. mem[t].stream \in Nat /\ mem[t].stream <= stream.number
      BY <2>2 DEF StreamInv, Typed, TypeOK, MemType, Session
    <3> QED
      BY <1>1, <1>2, <2>2, <3>1, StreamStays
  <2> QED
    BY <2>1, <2>2
<1>3. ASSUME NEW c \in Callers, at'[c].pc = "admit"
      PROVE  at'[c].s <= stream'.number
  <2>1. CASE at'[c].s = stream.number
    BY <1>1, <2>1
  <2>2. CASE at[c].pc = "admit" /\ at'[c].s = at[c].s
    <3>1. at[c].s \in Nat /\ at[c].s <= stream.number
      BY <2>2 DEF StreamInv, Typed, PlaceInv, Placed
    <3> QED
      BY <1>1, <2>2, <3>1
  <2> QED
    BY <1>3, <2>1, <2>2, AdmitMoves
<1> QED
  BY <1>2, <1>3 DEF StreamInv

(* A recording that a frame does not reach is of another stream, or does *)
(* not record.                                                           *)
LEMMA ConfigStep ==
  ASSUME Control, VideoInv, FeedConfig, NEW t \in Sessions, mem[t] # None
  PROVE  Video(mem'[t]) /\ Live(mem'[t], stream')
<1> USE DEF Control, Typed, TypeOK, CoreType, MemType, PlaceInv
<1>1. PICK c \in 1..MaxConfigs :
        /\ stream'.number = stream.number /\ stream'.config = c
        /\ Reaches(Takes(mem[slot], c))
  BY DEF FeedConfig
<1>2. mem[t] \in Session /\ Video(mem[t]) /\ Live(mem[t], stream)
  BY DEF VideoInv, FeedConfig, Sends
<1>3. CASE mem'[t] = mem[t] /\ (mem[t].stream # stream.number \/ mem[t].state # "Recording")
  BY <1>1, <1>2, <1>3 DEF Live
<1>4. CASE t # slot
  <2>1. mem[t].state # "Recording"
    BY <1>4 DEF SlotInv
  <2>2. mem'[t] = mem[t]
    BY <1>1, <1>4, ReachesOne
  <2> QED
    BY <1>3, <2>1, <2>2
<1>5. CASE t = slot /\ mem'[t] = Takes(mem[t], c) /\ mem[t].stream = stream.number
           /\ mem[t].state = "Recording"
  <2>1. Takes(mem[t], c) \in Session /\ SameRest(mem[t], Takes(mem[t], c))
    BY <1>2, TakesKeeps
  <2>2. /\ Video(Takes(mem[t], c))
        /\ ~mem[t].lost => Takes(mem[t], c).current = None /\ Takes(mem[t], c).pending = c
    BY <1>2, <1>5, VideoTakes
  <2> QED
    BY <1>1, <1>5, <2>1, <2>2 DEF Live, SameRest
<1>6. CASE t = slot /\ \E n \in Session : n.lost /\ mem' = [mem EXCEPT ![slot] = n]
  BY <1>6 DEF Video, Live
<1> QED
  BY <1>1, <1>3, <1>4, <1>5, <1>6, ReachesOne

LEMMA FrameStep ==
  ASSUME Control, VideoInv, NEW key \in BOOLEAN, FeedFrame(key), SameStream,
         NEW t \in Sessions, mem[t] # None
  PROVE  Video(mem'[t]) /\ Live(mem'[t], stream')
<1> USE DEF Control, Typed, TypeOK, CoreType, MemType, PlaceInv
<1>1. Reaches(Adds(mem[slot], key))
  BY DEF FeedFrame
<1>2. mem[t] \in Session /\ Video(mem[t]) /\ Live(mem[t], stream)
  BY DEF VideoInv, FeedFrame, Sends
<1>3. ASSUME NEW n, Live(n, stream)
      PROVE  Live(n, stream')
  BY <1>3 DEF Live, SameStream
<1>4. CASE mem'[t] = mem[t]
  BY <1>2, <1>3, <1>4
<1>5. CASE t = slot /\ mem'[t] = Adds(mem[t], key) /\ mem[t].stream = stream.number
           /\ mem[t].state = "Recording"
  <2>1. Video(Adds(mem[t], key)) /\ Live(Adds(mem[t], key), stream)
    BY <1>2, <1>5, VideoAdds
  <2> QED
    BY <1>3, <1>5, <2>1
<1>6. CASE t = slot /\ \E n \in Session : n.lost /\ mem' = [mem EXCEPT ![slot] = n]
  BY <1>6 DEF Video, Live
<1> QED
  BY <1>1, <1>4, <1>5, <1>6, ReachesOne

LEMMA EndStep ==
  ASSUME Control, VideoInv, SameStream, NEW s \in Sessions, NEW m \in Session,
         NEW to \in Results, Stopped(s, m, to), m = mem[s], kind = "device",
         NEW t \in Sessions, mem[t] # None
  PROVE  Video(mem'[t]) /\ Live(mem'[t], stream')
<1> USE DEF Control, Typed, TypeOK, MemType
<1>1. Video(mem[t]) /\ Live(mem[t], stream)
  BY DEF VideoInv
<1>2. CASE t # s
  <2>1. mem'[t] = mem[t]
    BY <1>2 DEF Stopped
  <2> QED
    BY <1>1, <2>1 DEF Live, SameStream
<1>3. CASE t = s
  <2>1. mem'[t] = Ended(m, to) /\ Ended(m, to).state \notin Active
    BY <1>3 DEF Stopped
  <2>2. Video(Ended(m, to))
    BY <1>1, <1>3, VideoEnded
  <2> QED
    BY <2>1, <2>2 DEF Live
<1> QED
  BY <1>2, <1>3

LEMMA VideoStep ==
  ASSUME Control, StreamInv, VideoInv, [Next]_vars
  PROVE  VideoInv'
<1> USE DEF Control
<1>1. kind' = kind
  BY KindStays
<1> SUFFICES ASSUME kind = "device", NEW t \in Sessions, mem'[t] # None
             PROVE  Video(mem'[t]) /\ Live(mem'[t], stream')
  BY <1>1 DEF VideoInv
<1>2. CASE mem[t] = None
  <2>1. PICK d \in Callers : StartAdmits(d, t)
    BY <1>2, Newcomers
  <2> DEFINE m == Fresh(kind, at[d].s)
  <2>2. mem'[t] = m
    BY <2>1 DEF StartAdmits, Admits, Typed, TypeOK, MemType
  <2>3. m.current = None /\ m.pending = None /\ m.segments = <<>>
    BY DEF Fresh
  <2> HIDE DEF m
  <2>4. Video(m) /\ Live(m, stream')
    BY <2>3 DEF Video, Listed, Live
  <2> QED
    BY <2>2, <2>4
<1>3. CASE mem[t] # None /\ PictureStays
  <2>1. mem[t] \in Session /\ Video(mem[t]) /\ Live(mem[t], stream)
        /\ SamePicture(mem[t], mem'[t])
    BY <1>3 DEF VideoInv, PictureStays, Typed, TypeOK, MemType
  <2>2. Video(mem'[t])
    BY <2>1, VideoSame DEF SamePicture
  <2>3. mem'[t].state = "Recording" => mem[t].state = "Recording"
    <3>1. CASE Crash
      BY <3>1 DEF Crash
    <3> QED
      BY <1>3, <3>1, OnwardStep DEF Onward
  <2>4. CASE SameStream
    BY <2>1, <2>2, <2>3, <2>4 DEF SamePicture, Live, SameStream
  <2>5. CASE Connect
    <3>1. mem[t].stream \in Nat /\ mem[t].stream <= stream.number
          /\ stream.number \in Nat /\ stream'.number = stream.number + 1
      BY <1>3, <2>1, <2>5 DEF StreamInv, Connect, Session, Typed, TypeOK, CoreType
    <3>2. mem'[t].stream # stream'.number
      BY <2>1, <3>1 DEF SamePicture
    <3> QED
      BY <2>2, <3>2 DEF Live
  <2>6. CASE FeedConfig
    BY <1>3, <2>6, ConfigStep
  <2> QED
    BY <2>4, <2>5, <2>6, StreamMoves
<1>4. CASE Crash
  BY <1>4 DEF Crash
<1>5. CASE mem[t] # None /\ FrameFails
  <2>1. SameStream
    BY <1>5 DEF FrameFails, SameStream
  <2>2. slot \in Sessions /\ mem[slot] \in Session /\ Stopped(slot, mem[slot], "Failed")
    BY <1>5, FrameFailsStopped DEF Stopped
  <2> QED
    BY <1>5, <2>1, <2>2, EndStep
<1>6. CASE mem[t] # None /\ FeedConfig
  BY <1>6, ConfigStep
<1>7. ASSUME NEW key \in BOOLEAN, FeedFrame(key), mem[t] # None
      PROVE  Video(mem'[t]) /\ Live(mem'[t], stream')
  <2>1. SameStream
    BY <1>7 DEF FeedFrame, SameStream, Typed, TypeOK, CoreType
  <2> QED
    BY <1>7, <2>1, FrameStep
<1>8. ASSUME NEW p \in Procs, Final(p), mem[t] # None
      PROVE  Video(mem'[t]) /\ Live(mem'[t], stream')
  <2>1. SameStream
    BY <1>8 DEF Final, SameStream
  <2>2. PICK m \in Session :
          Filmed(at[p].s, at[p].segment, m) /\ Stopped(at[p].s, m, at[p].to)
    BY <1>8, FinalStopped
  <2>3. at[p].pc = "final" /\ at[p].s \in Sessions /\ at[p].to \in Results
    BY <1>8 DEF Final, Typed, PlaceInv, Placed
  <2>4. m = mem[at[p].s]
    BY <2>2 DEF Filmed, PageInv
  <2> QED
    BY <1>8, <2>1, <2>2, <2>3, <2>4, EndStep
<1> QED
  BY <1>2, <1>3, <1>4, <1>5, <1>6, <1>7, <1>8, PictureMoves

LEMMA AlwaysVideo == Spec => [](Control /\ StreamInv /\ VideoInv)
<1>1. Init => Control /\ StreamInv /\ VideoInv
  BY InitControl DEF Init, StreamInv, VideoInv
<1>2. Control /\ StreamInv /\ VideoInv /\ [Next]_vars => Control' /\ StreamInv' /\ VideoInv'
  BY ControlStep, StreamInvStep, VideoStep DEF Control
<1> QED
  BY <1>1, <1>2, PTL DEF Spec

LEMMA VideoDecodable ==
  ASSUME Typed, VideoInv
  PROVE  SegmentsDecodable
<1> SUFFICES ASSUME NEW s \in Sessions, kind = "device", mem[s] # None, ~mem[s].lost,
                    NEW i \in DOMAIN mem[s].segments
             PROVE  /\ Cardinality(mem[s].segments[i].frames) = 1
                    /\ \A f \in mem[s].segments[i].frames :
                         f.config = mem[s].segments[i].config
  BY DEF SegmentsDecodable
<1> DEFINE g == mem[s].segments[i]
<1>1. PICK f \in g.frames : g.frames = {f} /\ f.config = g.config
  BY DEF VideoInv, Video, Listed, Whole
<1> QED
  BY <1>1, FS_Singleton

(* The video and the log of a recording can be used as evidence: a segment  *)
(* holds frames of one clock and of the parameter set its file says, unless *)
(* the session says that frames are missing, and an input that was accepted *)
(* is logged once, however the recording ends (feed_frame, emit,            *)
(* finalize_with).                                                          *)
THEOREM Evidence == Spec => []EvidenceIsTrue
<1>1. Control /\ VideoInv /\ Typed /\ LogInv => EvidenceIsTrue
  BY VideoDecodable, LoggedOnce DEF EvidenceIsTrue
<1> QED
  BY <1>1, AlwaysVideo, AlwaysLogged, PTL

=============================================================================
