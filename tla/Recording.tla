----------------------------- MODULE Recording -----------------------------
(* Recording a target (server/src/recording/mod.rs, browser.rs): a session  *)
(* follows the picture of one target into segments and the accepted inputs  *)
(* into a log, until a user, a lost stream, a failure or the shutdown ends  *)
(* it; what it is goes to session.json, which survives a crash.             *)
(*                                                                          *)
(* There is one target.  A device feeds frames, and the end of its stream   *)
(* is an event; a browser page feeds pictures, which are kept and encoded   *)
(* when the recording ends, and its collector looks at the page itself.     *)
(*                                                                          *)
(* A frame is the parameter set and the clock of its encoder: a clock that  *)
(* starts again is seen as such.  One pointer stands for the pointers and   *)
(* keys, which are kept in maps of their own and treated alike.  Writes of  *)
(* session.json succeed.  Left out: sizes, times, names, the one encoder    *)
(* process for which pages wait a limited time, and the events that were    *)
(* not written, which the session counts as missing.                        *)
EXTENDS Naturals, Sequences, FiniteSets

CONSTANTS
    Sessions,    \* recordings that may be started
    Kinds,       \* what the target may be: "device", "browser"
    Callers,     \* requests in progress
    Watch,       \* the device layer, or the collector of a page
    None,
    Spared,      \* races left out: "orphan", "split"
    MaxFrames, MaxConfigs, MaxInputs, MaxCalls, MaxFaults, MaxCrashes,
    MaxEvents    \* of these together

ASSUME RecordingAssumption ==
    /\ Kinds \subseteq {"device", "browser"}
    /\ Spared \subseteq {"orphan", "split"}
    /\ Callers \cap Sessions = {} /\ Watch \notin Sessions \cup Callers
    /\ MaxFrames \in Nat /\ MaxConfigs \in Nat /\ MaxInputs \in Nat
    /\ MaxCalls \in Nat /\ MaxFaults \in Nat /\ MaxCrashes \in Nat /\ MaxEvents \in Nat

(* A segment and its frames, a session, and its session.json.               *)
States == {"Recording", "Finalizing", "Completed", "Interrupted", "Cancelled", "Failed"}
Frame == [config : Nat, clock : Nat]
Segment == [file : Nat, config : 1..MaxConfigs \cup {None}, frames : SUBSET Frame]
SessionFile == [state : States, segments : Seq(Segment)]
Session ==
    [state : States, stopping : BOOLEAN, cancelled : BOOLEAN, stream : Nat, page : BOOLEAN,
     pictures : BOOLEAN, current : Segment \cup {None}, pending : 1..MaxConfigs \cup {None},
     opened : Nat, segments : Seq(Segment), lost : BOOLEAN, held : Nat, ops : Nat,
     log : Seq(Nat)]

ASSUME NoneAssumption ==
    None \notin Sessions /\ None \notin Session /\ None \notin SessionFile
    /\ None \notin 1..MaxConfigs

VARIABLES
    kind,     \* what the target is
    stream,   \* (external) its stream: number, whether it is up, the encoder
    slot,     \* active_by_device of the target
    mem,      \* the sessions, in the sessions map until they are removed
    disk,     \* session.json in the archive, None where there is none
    media,    \* the videos in the library: state of each segment's file
    halt,     \* the shutdown: whether it began, and whom it has yet to ask
    at,       \* what each process is doing; a session stands for its worker
    removed,  \* (history) recordings deleted from the history
    spent     \* frames, inputs, calls, faults and crashes so far

vars == <<kind, stream, slot, mem, disk, media, halt, at, removed, spent>>

Procs == Callers \cup Sessions \cup {Watch}
Active == {"Recording", "Finalizing"}
Idle == [pc |-> "idle", s |-> None, to |-> None, segment |-> FALSE]

Open(s) == mem[s] # None /\ s \notin removed
IsIn(s, state) == mem[s] # None /\ mem[s].state = state
Events == spent.frames + spent.inputs + spent.calls + spent.faults + spent.crashes
Spend(what) == Events < MaxEvents /\ spent' = [spent EXCEPT ![what] = @ + 1]
Goes(p, pc) == at' = [at EXCEPT ![p].pc = pc]
Rests(p) == at' = [at EXCEPT ![p] = Idle]

(* What session.json holds.                                                 *)
Saved(m) == [state |-> m.state, segments |-> m.segments]

-----------------------------------------------------------------------------
(* Segments.                                                                *)
Closed_Unlisted(m) == [m EXCEPT !.current = None]

(* close_segment: the segment that is being written joins the list.         *)
Closed(m) ==
    IF m.current = None THEN m
    ELSE [m EXCEPT !.current = None, !.segments = Append(@, m.current)]

(* open_segment takes the parameter set that was received last, if it was   *)
(* not taken by a segment before.                                           *)
Opened(m, frame) ==
    [m EXCEPT !.opened = @ + 1, !.pending = None,
              !.current = [file |-> m.opened + 1, config |-> m.pending, frames |-> {frame}]]

Grown(m, frame) == [m EXCEPT !.current.frames = @ \cup {frame}]

(* finalize_with: what is unfinished is logged as such, the segment closed, *)
(* and the session is what it was ended as; a session that has ended stays. *)
Ended_KeepsHeld(m, to) ==
    IF m.state \notin Active THEN m
    ELSE [Closed(m) EXCEPT !.state = to, !.stopping = TRUE]
Ended(m, to) ==
    IF m.state \notin Active THEN m
    ELSE [Closed(m) EXCEPT !.state = to, !.stopping = TRUE, !.held = 0,
              !.log = IF m.held = 0 THEN @ ELSE Append(@, m.held)]

(* ...and the state is written before the target is free.                   *)
Ends_Unsaved(s, m, to) ==
    /\ mem' = [mem EXCEPT ![s] = Ended(m, to)]
    /\ disk' = disk
    /\ slot' = IF m.state \in Active /\ slot = s THEN None ELSE slot
Ends(s, m, to) ==
    /\ mem' = [mem EXCEPT ![s] = Ended(m, to)]
    /\ disk' = IF m.state \in Active THEN [disk EXCEPT ![s] = Saved(Ended(m, to))] ELSE disk
    /\ slot' = IF m.state \in Active /\ slot = s THEN None ELSE slot

(* Files of the segments: one is there when it was opened, ready when it    *)
(* was closed.                                                              *)
Files(s, m) ==
    media' = [media EXCEPT ![s] =
        [n \in DOMAIN @ |-> IF \E i \in DOMAIN m.segments : m.segments[i].file = n
                               /\ (Open(s) => \A j \in DOMAIN mem[s].segments :
                                                 mem[s].segments[j].file # n)
                            THEN "ready"
                            ELSE IF m.current # None /\ m.current.file = n THEN "importing"
                            ELSE @[n]]]

-----------------------------------------------------------------------------
(* start.                                                                   *)
Fresh(k, number) ==
    [state |-> "Recording", stopping |-> FALSE, cancelled |-> FALSE,
     stream |-> number, page |-> k = "browser", pictures |-> FALSE, current |-> None,
     pending |-> None, opened |-> 0, segments |-> <<>>, lost |-> FALSE,
     held |-> 0, ops |-> 0, log |-> <<>>]

(* The session and the frames of the target are looked up...                *)
StartLooks(c) ==
    /\ at[c].pc = "idle" /\ spent.calls < MaxCalls
    /\ ~halt.closed /\ stream.up
    /\ at' = [at EXCEPT ![c] = [Idle EXCEPT !.pc = "admit", !.s = stream.number]]
    /\ Spend("calls")
    /\ UNCHANGED <<kind, stream, slot, mem, disk, media, halt, removed>>

StartRefused(c) ==
    /\ at[c].pc = "admit"
    /\ halt.closed \/ slot # None
    /\ Rests(c)
    /\ UNCHANGED <<kind, stream, slot, mem, disk, media, halt, removed, spent>>

(* ...before the slot is taken, under whose lock the shutdown is asked for  *)
(* again.                                                                   *)
Used == {s \in Sessions : mem[s] # None \/ disk[s] # None \/ s \in removed}
NewId == IF Used = Sessions THEN None ELSE CHOOSE s \in Sessions \ Used : TRUE

Admits(c, s) ==
    /\ slot' = s
    /\ mem' = [mem EXCEPT ![s] = Fresh(kind, at[c].s)]
    /\ disk' = [disk EXCEPT ![s] = Saved(Fresh(kind, at[c].s))]
    /\ Rests(c)
    /\ UNCHANGED <<kind, stream, media, halt, removed, spent>>

StartAdmits_AskedOnce(c, s) ==
    at[c].pc = "admit" /\ slot = None /\ s = NewId /\ Admits(c, s)
StartAdmits(c, s) ==
    at[c].pc = "admit" /\ slot = None /\ ~halt.closed /\ s = NewId /\ Admits(c, s)

-----------------------------------------------------------------------------
(* feed_frame: the frames of a device.                                      *)
Encoded == [config |-> stream.config, clock |-> stream.clock]

Takes_KeepsSegment(m, config) == [m EXCEPT !.pending = config]

(* A parameter set that is not the pending one closes the segment.          *)
Takes(m, config) ==
    IF m.pending = config THEN m ELSE [Closed(m) EXCEPT !.pending = config]

(* The first frame of a segment is a key frame; a clock that started again  *)
(* closes the segment.                                                      *)
Adds(m, key) ==
    IF m.current = None
    THEN IF key /\ m.pending # None THEN Opened(m, Encoded) ELSE m
    ELSE IF \E f \in m.current.frames : f.clock # stream.clock
    THEN IF key THEN Opened(Closed(m), Encoded) ELSE Closed(m)
    ELSE Grown(m, Encoded)

(* One frame reaches whoever records this stream and makes its session m,   *)
(* or is dropped because the consumer lags.                                 *)
Reaches(m) ==
    IF slot = None \/ mem[slot].stream # stream.number \/ mem[slot].state # "Recording"
    THEN UNCHANGED <<mem, disk, media>>
    ELSE \/ /\ mem' = [mem EXCEPT ![slot] = m]
            /\ disk' = IF m.segments # mem[slot].segments \/ m.opened # mem[slot].opened
                       THEN [disk EXCEPT ![slot] = Saved(m)] ELSE disk
            /\ Files(slot, m)
         \/ /\ mem' = [mem EXCEPT ![slot].lost = TRUE]
            /\ UNCHANGED <<disk, media>>

Sends == /\ kind = "device" /\ stream.up /\ spent.frames < MaxFrames
         /\ Spend("frames")
         /\ UNCHANGED <<kind, slot, halt, at, removed>>

(* The encoder starts, starts again with another clock, or repeats its      *)
(* parameter set.                                                           *)
FeedConfig ==
    /\ Sends
    /\ \E c \in 1..MaxConfigs, restarted \in {0, 1} :
          /\ c = stream.config \/ restarted = 0
          /\ stream' = [stream EXCEPT !.config = c, !.clock = @ + restarted,
                                      !.keyed = @ /\ c = stream.config /\ restarted = 0]
          /\ Reaches(Takes(mem[slot], c))

FeedFrame(key) ==
    /\ Sends
    /\ stream.config # 0 /\ (key \/ stream.keyed)
    /\ stream' = [stream EXCEPT !.keyed = TRUE]
    /\ Reaches(Adds(mem[slot], key))

(* A segment that cannot be opened or written, or a full disk.              *)
FrameFails ==
    /\ kind = "device" /\ stream.up /\ slot # None /\ IsIn(slot, "Recording")
    /\ mem[slot].stream = stream.number
    /\ spent.faults < MaxFaults /\ Spend("faults")
    /\ Ends(slot, mem[slot], "Failed")
    /\ Files(slot, Closed(mem[slot]))
    /\ UNCHANGED <<kind, stream, halt, at, removed>>

(* collect: a picture of the page is kept.                                  *)
Collect ==
    /\ kind = "browser" /\ stream.up /\ slot # None /\ IsIn(slot, "Recording")
    /\ ~mem[slot].pictures
    /\ mem' = [mem EXCEPT ![slot].pictures = TRUE]
    /\ UNCHANGED <<kind, stream, slot, disk, media, halt, at, removed, spent>>

-----------------------------------------------------------------------------
(* on_touch, on_key: inputs the target has accepted.                        *)
Input(m, down) ==
    LET op == m.ops + 1 IN
    IF down THEN [m EXCEPT !.ops = op, !.held = op,
                           !.log = IF m.held = 0 THEN @ ELSE Append(@, m.held)]
    ELSE IF m.held # 0 THEN [m EXCEPT !.held = 0, !.log = Append(@, m.held)]
    ELSE [m EXCEPT !.ops = op, !.log = Append(@, op)]

Observe ==
    /\ slot # None /\ IsIn(slot, "Recording") /\ spent.inputs < MaxInputs
    /\ \E down \in BOOLEAN : mem' = [mem EXCEPT ![slot] = Input(@, down)]
    /\ Spend("inputs")
    /\ UNCHANGED <<kind, stream, slot, disk, media, halt, at, removed>>

-----------------------------------------------------------------------------
(* Ending a recording: request_finish and its worker; finalize_stop,        *)
(* finalize_cancel and end_interrupted.                                     *)

(* Somebody who ends the recording of a page looked at `stopping` before.   *)
Splits(s) == kind = "browser" /\ \E p \in Callers \cup {Watch} : at[p].s = s

(* The state and the clock are frozen under one lock, and a worker begins.  *)
Finishes(s) ==
    /\ mem' = [mem EXCEPT ![s].state = "Finalizing", ![s].stopping = TRUE]
    /\ disk' = [disk EXCEPT ![s] = Saved(mem'[s])]

RequestFinish(c, s) ==
    /\ at[c].pc = "idle" /\ spent.calls < MaxCalls
    /\ IsIn(s, "Recording")
    /\ Splits(s) => "split" \notin Spared
    /\ Finishes(s)
    /\ at' = [at EXCEPT ![s] = [Idle EXCEPT !.pc = "begin", !.s = s, !.to = "Completed"]]
    /\ Spend("calls")
    /\ UNCHANGED <<kind, stream, slot, media, halt, removed>>

(* The worker: a shutdown that came first makes it an interruption.         *)
Begins(s) ==
    /\ at[s].pc = "begin"
    /\ at' = [at EXCEPT ![s].pc = "take",
                        ![s].to = IF mem[s].cancelled THEN "Interrupted" ELSE @]
    /\ UNCHANGED <<kind, stream, slot, mem, disk, media, halt, removed, spent>>

(* finalize_browser, first half: whoever takes the pictures encodes them.   *)
Take(p) ==
    LET s == at[p].s IN
    /\ at[p].pc = "take"
    /\ IF mem[s].page
       THEN /\ mem' = [mem EXCEPT ![s].page = FALSE, ![s].state = "Finalizing",
                                  ![s].stopping = TRUE]
            /\ disk' = [disk EXCEPT ![s] = Saved(mem'[s])]
            /\ Goes(p, "encode")
       ELSE /\ Goes(p, IF p \in Sessions THEN "final" ELSE "again")
            /\ UNCHANGED <<mem, disk>>
    /\ UNCHANGED <<kind, stream, slot, media, halt, removed, spent>>

(* finish, without the lock of the session: the video, or nothing when      *)
(* there were no pictures; the shutdown ends it, and it may fail.           *)
Encode(p) ==
    LET s == at[p].s IN
    /\ at[p].pc = "encode" /\ ~mem[s].cancelled
    /\ at' = [at EXCEPT ![p].pc = "final", ![p].segment = mem[s].pictures]
    /\ media' = IF mem[s].pictures THEN [media EXCEPT ![s][1] = "ready"] ELSE media
    /\ UNCHANGED <<kind, stream, slot, mem, disk, halt, removed, spent>>

EncodeFails(p) ==
    LET s == at[p].s IN
    /\ at[p].pc = "encode" /\ mem[s].pictures
    /\ IF mem[s].cancelled
       THEN at' = [at EXCEPT ![p].pc = "final", ![p].to = "Interrupted"] /\ UNCHANGED spent
       ELSE /\ spent.faults < MaxFaults /\ Spend("faults")
            /\ at' = [at EXCEPT ![p].pc = "final", ![p].to = "Failed"]
    /\ UNCHANGED <<kind, stream, slot, mem, disk, media, halt, removed>>

EncodeNothing(p) ==
    LET s == at[p].s IN
    /\ at[p].pc = "encode" /\ mem[s].cancelled /\ ~mem[s].pictures
    /\ Goes(p, "final")
    /\ UNCHANGED <<kind, stream, slot, mem, disk, media, halt, removed, spent>>

(* The video of a page joins the list, then finalize_with.                  *)
Final(p) ==
    LET s == at[p].s
        page == [file |-> 1, config |-> None, frames |-> {}]
        m == IF at[p].segment THEN [mem[s] EXCEPT !.segments = Append(@, page)] ELSE mem[s] IN
    /\ at[p].pc = "final"
    /\ Ends(s, m, at[p].to)
    /\ Files(s, Closed(m))
    /\ Rests(p)
    /\ UNCHANGED <<kind, stream, halt, removed, spent>>

(* stop and cancel of an extension (finalize_stop, finalize_cancel), which  *)
(* differ in the end they ask for.                                          *)
Stop(c, s) ==
    /\ at[c].pc = "idle" /\ spent.calls < MaxCalls /\ Spend("calls")
    /\ IsIn(s, "Recording")
    /\ at' = [at EXCEPT ![c] = [Idle EXCEPT !.pc = "check", !.s = s, !.to = "Cancelled"]]
    /\ UNCHANGED <<kind, stream, slot, mem, disk, media, halt, removed>>

(* They, like end_interrupted, look at `stopping` before each half.         *)
Checks(p) ==
    /\ at[p].pc \in {"check", "again"}
    /\ IF mem[at[p].s].stopping THEN Rests(p)
       ELSE Goes(p, IF at[p].pc = "check" THEN "take" ELSE "final")
    /\ UNCHANGED <<kind, stream, slot, mem, disk, media, halt, removed, spent>>

-----------------------------------------------------------------------------
(* The stream of the target.                                                *)
Connect ==
    /\ ~stream.up /\ stream.number < 2 /\ at[Watch].pc = "idle"
    /\ stream' = [number |-> stream.number + 1, up |-> TRUE, config |-> 0,
                  clock |-> 0, keyed |-> FALSE]
    /\ UNCHANGED <<kind, slot, mem, disk, media, halt, at, removed, spent>>

(* The stream ends; of a device, the device layer is told, and looks for    *)
(* the recording.                                                           *)
Disconnect ==
    /\ stream.up /\ at[Watch].pc = "idle"
    /\ "orphan" \in Spared => \A c \in Callers : at[c].pc # "admit"
    /\ stream' = [stream EXCEPT !.up = FALSE]
    /\ IF kind = "device" THEN Goes(Watch, "look") ELSE UNCHANGED at
    /\ UNCHANGED <<kind, slot, mem, disk, media, halt, removed, spent>>

Interrupts(s) == [Idle EXCEPT !.pc = "check", !.s = s, !.to = "Interrupted"]

Boundary ==
    /\ at[Watch].pc = "look"
    /\ at' = [at EXCEPT ![Watch] = IF slot = None THEN Idle ELSE Interrupts(slot)]
    /\ UNCHANGED <<kind, stream, slot, mem, disk, media, halt, removed, spent>>

(* The collector of a page finds the session it collects from gone.         *)
EndsGone(lost) ==
    /\ kind = "browser" /\ at[Watch].pc = "idle"
    /\ slot # None /\ IsIn(slot, "Recording") /\ lost
    /\ at' = [at EXCEPT ![Watch] = Interrupts(slot)]
    /\ UNCHANGED <<kind, stream, slot, mem, disk, media, halt, removed>>

PageGone_AnySession == EndsGone(~stream.up) /\ UNCHANGED spent
PageGone == EndsGone(~stream.up \/ stream.number # mem[slot].stream) /\ UNCHANGED spent

(* A picture it cannot keep: another size, a full disk, a failed write.     *)
CollectFails == EndsGone(stream.up) /\ spent.faults < MaxFaults /\ Spend("faults")

-----------------------------------------------------------------------------
(* shutdown: closed under the lock of admission, so that nobody joins the   *)
(* sessions that are then listed; they are asked one after the other.       *)
HaltBegins ==
    /\ ~halt.closed
    /\ halt' = [closed |-> TRUE, todo |-> {s \in Sessions : Open(s)}]
    /\ UNCHANGED <<kind, stream, slot, mem, disk, media, at, removed, spent>>

HaltAsks(s) ==
    /\ s \in halt.todo
    /\ halt' = [halt EXCEPT !.todo = @ \ {s}]
    /\ IF ~Open(s) THEN UNCHANGED <<mem, disk, at>>
       ELSE IF mem[s].state # "Recording"
       THEN mem' = [mem EXCEPT ![s].cancelled = TRUE] /\ UNCHANGED <<disk, at>>
       ELSE /\ Splits(s) => "split" \notin Spared
            /\ mem' = [mem EXCEPT ![s].cancelled = TRUE, ![s].state = "Finalizing",
                                  ![s].stopping = TRUE]
            /\ disk' = [disk EXCEPT ![s] = Saved(mem'[s])]
            /\ at' = [at EXCEPT ![s] = [Idle EXCEPT !.pc = "begin", !.s = s,
                                                    !.to = "Cancelled"]]
    /\ UNCHANGED <<kind, stream, slot, media, removed, spent>>

-----------------------------------------------------------------------------
(* History.                                                                 *)
State(s) == IF Open(s) THEN mem[s].state ELSE disk[s].state

(* load_from_disk: an open session of an earlier process was interrupted.   *)
Recover(s) ==
    /\ ~Open(s) /\ disk[s] # None /\ disk[s].state \in Active
    /\ disk' = [disk EXCEPT ![s].state = "Interrupted"]
    /\ UNCHANGED <<kind, stream, slot, mem, media, halt, at, removed, spent>>

(* The user deletes videos in the library, which does not ask for the       *)
(* recording.                                                               *)
MediaDeleted(s) ==
    /\ \E n \in DOMAIN media[s] : media[s][n] = "ready"
    /\ media' = [media EXCEPT ![s] = [n \in DOMAIN @ |-> IF @[n] = "ready" THEN "none" ELSE @[n]]]
    /\ UNCHANGED <<kind, stream, slot, mem, disk, halt, at, removed, spent>>

Deletes(c, s) ==
    /\ at[c].pc = "idle" /\ spent.calls < MaxCalls
    /\ disk[s] # None /\ media[s][1] = "none"
    /\ \A i \in DOMAIN disk[s].segments : media[s][disk[s].segments[i].file] = "none"
    /\ at' = [at EXCEPT ![c] = [Idle EXCEPT !.pc = "delete", !.s = s]]
    /\ Spend("calls")
    /\ UNCHANGED <<kind, stream, slot, mem, disk, media, halt, removed>>

DeleteBegins_AnyState(c, s) == Deletes(c, s)
DeleteBegins(c, s) == disk[s] # None /\ State(s) \notin Active /\ Deletes(c, s)

DeleteRemoves(c) ==
    LET s == at[c].s IN
    /\ at[c].pc = "delete"
    /\ disk' = [disk EXCEPT ![s] = None]
    /\ removed' = removed \cup {s}
    /\ Rests(c)
    /\ UNCHANGED <<kind, stream, slot, mem, media, halt, spent>>

(* The process dies: what is on disk is left.                               *)
Crash ==
    /\ spent.crashes < MaxCrashes /\ Spend("crashes")
    /\ slot' = None /\ mem' = [s \in Sessions |-> None]
    /\ halt' = [closed |-> FALSE, todo |-> {}]
    /\ at' = [p \in Procs |-> Idle]
    /\ stream' = [stream EXCEPT !.up = FALSE]
    /\ UNCHANGED <<kind, disk, media, removed>>

-----------------------------------------------------------------------------
Init ==
    /\ kind \in Kinds
    /\ stream = [number |-> 1, up |-> TRUE, config |-> 0, clock |-> 0, keyed |-> FALSE]
    /\ slot = None
    /\ mem = [s \in Sessions |-> None] /\ disk = [s \in Sessions |-> None]
    /\ media = [s \in Sessions |-> [n \in 1..(MaxFrames + 1) |-> "none"]]
    /\ halt = [closed |-> FALSE, todo |-> {}]
    /\ at = [p \in Procs |-> Idle]
    /\ removed = {}
    /\ spent = [frames |-> 0, inputs |-> 0, calls |-> 0, faults |-> 0, crashes |-> 0]

Feed == FeedConfig \/ (\E key \in BOOLEAN : FeedFrame(key)) \/ FrameFails \/ Collect
        \/ CollectFails

(* What a task does next, once it may.                                      *)
Step(p) ==
    \/ Checks(p) \/ Take(p) \/ Encode(p) \/ EncodeFails(p) \/ EncodeNothing(p) \/ Final(p)
    \/ p \in Sessions /\ Begins(p)
    \/ p = Watch /\ (Boundary \/ PageGone)
    \/ p \in Callers /\ (\/ StartRefused(p) \/ DeleteRemoves(p)
                         \/ \E s \in Sessions : StartAdmits(p, s))

Halts == \E s \in Sessions : HaltAsks(s)

Next ==
    \/ \E p \in Procs : Step(p)
    \/ Feed \/ Observe
    \/ \E c \in Callers : \/ StartLooks(c)
                          \/ \E s \in Sessions : \/ RequestFinish(c, s) \/ Stop(c, s)
                                                \/ DeleteBegins(c, s)
    \/ Connect \/ Disconnect
    \/ HaltBegins \/ Halts
    \/ \E s \in Sessions : Recover(s) \/ MediaDeleted(s)
    \/ Crash

(* Tasks that can go on do, and the shutdown does; an encoder ends, its     *)
(* time is limited.  Nobody has to call, to send a frame or to fail.        *)
Spec ==
    /\ Init /\ [][Next]_vars
    /\ \A p \in Procs : WF_vars(Step(p))
    /\ WF_vars(Halts)

-----------------------------------------------------------------------------
(* mod.rs:620 (finalize_with): what the memory shows of a recording that    *)
(* has ended, its segments included, is what session.json says: no crash    *)
(* changes the end or loses a segment.                                      *)
ShownIsDurable ==
    \A s \in Sessions : Open(s) /\ mem[s].state \notin Active
        => disk[s] = Saved(mem[s])

(* mod.rs:445 (the stamps of two clocks are never put into one segment), a  *)
(* segment that holds frames of two parameter sets or clocks, or of another *)
(* parameter set than its file says, is in a recording that says that       *)
(* frames are missing (feed_frame, note_dropped).                           *)
SegmentsDecodable ==
    \A s \in Sessions : kind = "device" /\ Open(s) /\ ~mem[s].lost
        => \A i \in DOMAIN mem[s].segments :
              LET g == mem[s].segments[i] IN
              /\ Cardinality(g.frames) = 1
              /\ \A f \in g.frames : f.config = g.config

(* Every accepted input of a recording that has ended is in its log, once:  *)
(* finished or unfinished, however the recording came to its end            *)
(* (on_touch, finalize_with).                                               *)
InputsRecordedOnce ==
    \A s \in Sessions : Open(s) /\ mem[s].state \notin Active
        => \A op \in 1..mem[s].ops :
              Cardinality({i \in DOMAIN mem[s].log : mem[s].log[i] = op}) = 1

(* mod.rs:1219 "Shutdown takes this same admission lock before snapshotting *)
(* sessions": once all are asked, nothing records.                          *)
ShutdownStopsAll ==
    halt.closed /\ halt.todo = {} => \A s \in Sessions : ~IsIn(s, "Recording")

(* A recording that was deleted from the history does not come back: nobody *)
(* who is still at its end writes it again (delete_history).                *)
DeletedStays == \A s \in removed : disk[s] = None

(* mod.rs:1936 (the end of the video loop ends an active recording): a      *)
(* recording whose stream is gone does not go on, and one that is being     *)
(* ended ends (on_device_session_boundary, collect, finish).                *)
Gone(s) == IsIn(s, "Recording") /\ (~stream.up \/ mem[s].stream # stream.number)
StreamLossEnds ==
    \A s \in Sessions : Gone(s) \/ IsIn(s, "Finalizing")
                          ~> ~Open(s) \/ mem[s].state \notin Active

(* What session.json says of a recording is what its user was shown, and it *)
(* is gone when it was deleted (persist, delete_history).                   *)
DiskIsTrue == ShownIsDurable /\ DeletedStays

(* The video and the inputs of a recording can be used as evidence: frames  *)
(* in their own segments, each input once (feed_frame, emit).               *)
EvidenceIsTrue == SegmentsDecodable /\ InputsRecordedOnce
=============================================================================
