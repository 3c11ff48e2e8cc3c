------------------------------- MODULE Frames -------------------------------
(* The frame cache of a device (server/src/device/frames.rs): the group of   *)
(* pictures since the last key frame, the decodes on demand that requests    *)
(* for a picture share, and the result that is kept for a moment.            *)
(*                                                                           *)
(* A frame is its sequence number and the parameter set it was encoded with; *)
(* latest_frame_at changes with frame_sequence and with nothing else, so the *)
(* sequence number stands for the time of receipt too.  A decoded picture is *)
(* the sequence number of the snapshot it was decoded from.                  *)
(*                                                                           *)
(* Left out: pixels, sizes in bytes (the limit counts frames), metrics.      *)
EXTENDS Naturals, Sequences, FiniteSets

CONSTANTS
    Requests,    \* requests for the latest picture
    MaxFrames,   \* frames the encoder sends
    MaxConfigs,  \* parameter sets it uses
    GopMax,      \* GOP_MAX_FRAMES
    MaxAsked,    \* pictures asked for
    MaxFaults    \* decodes that fail or time out

ASSUME FramesAssumption ==
    /\ MaxFrames \in Nat /\ MaxConfigs \in Nat \ {0} /\ GopMax \in Nat \ {0}
    /\ MaxAsked \in Nat /\ MaxFaults \in Nat /\ IsFiniteSet(Requests)

VARIABLES
    encoder,   \* (external) its parameter set, and whether it sent a key frame
    config,    \* config_buf, 0 when no parameter set was received
    gop,       \* frames since the last key frame
    seen,      \* frame_sequence, and latest_frame_at
    snaps,     \* snapshot_generation
    configs,   \* config_generation
    entry,     \* every in-flight entry ever made: key, waiters and progress
    shared,    \* the entries the in-flight map holds
    budget,    \* the entry that holds the decode permit, 0 when it is free
    cached,    \* decoded_result
    req,       \* what each request is doing
    spent      \* pictures asked for and decodes failed so far

state == <<config, gop, seen, snaps, configs>>
vars == <<encoder, config, gop, seen, snaps, configs, entry, shared, budget,
          cached, req, spent>>

Key == [snap |-> snaps, config |-> configs, seq |-> seen]
NoKey == [snap |-> 0, config |-> 0, seq |-> 0]
NoResult == [key |-> NoKey, fresh |-> FALSE]
Nothing == [got |-> "nothing", picture |-> 0, receipt |-> 0]
Idle == [pc |-> "idle", key |-> NoKey, entry |-> 0, refreshed |-> FALSE,
         retried |-> FALSE, answer |-> Nothing]

SameGeneration(k) == snaps = k.snap /\ configs = k.config
Current(k) == gop # <<>> /\ SameGeneration(k)

-----------------------------------------------------------------------------
(* feed.                                                                     *)
Others == UNCHANGED <<entry, shared, budget, cached, req, spent>>

Observe == seen' = seen + 1

(* A parameter set: a different one makes the group undecodable.             *)
FeedConfig_KeepsGop(c) ==
    /\ Observe
    /\ encoder' = [config |-> c, keyed |-> FALSE]
    /\ IF c # config
       THEN /\ config' = c /\ configs' = configs + 1 /\ snaps' = snaps + 1
       ELSE UNCHANGED <<config, configs, snaps>>
    /\ UNCHANGED gop /\ Others
FeedConfig(c) ==
    /\ Observe
    /\ encoder' = [encoder EXCEPT !.config = c, !.keyed = @ /\ c = config]
    /\ IF c # config
       THEN /\ config' = c /\ configs' = configs + 1 /\ snaps' = snaps + 1
            /\ gop' = IF config # 0 THEN <<>> ELSE gop
       ELSE UNCHANGED <<config, configs, snaps, gop>>
    /\ Others

Frame(key) == [seq |-> seen + 1, config |-> encoder.config, key |-> key]

FeedKey ==
    /\ encoder.config # 0
    /\ Observe
    /\ encoder' = [encoder EXCEPT !.keyed = TRUE]
    /\ gop' = <<Frame(TRUE)>> /\ snaps' = snaps + 1
    /\ UNCHANGED <<config, configs>> /\ Others

(* A frame that needs the ones before it; past the limit the group goes.     *)
FeedDelta ==
    /\ encoder.keyed
    /\ Observe
    /\ IF gop = <<>> THEN UNCHANGED <<gop, snaps>>
       ELSE IF Len(gop) < GopMax THEN gop' = Append(gop, Frame(FALSE)) /\ UNCHANGED snaps
       ELSE gop' = <<>> /\ snaps' = snaps + 1
    /\ UNCHANGED <<encoder, config, configs>> /\ Others

Feed ==
    /\ seen < MaxFrames
    /\ \/ \E c \in {encoder.config, encoder.config + 1} : c \in 1..MaxConfigs /\ FeedConfig(c)
       \/ FeedKey
       \/ FeedDelta

-----------------------------------------------------------------------------
(* decode_latest_frame_timestamped.                                          *)
At(r, pc) == req[r].pc = pc
Kept == UNCHANGED <<encoder, state>>

Answer(r, got, picture, receipt) ==
    req' = [req EXCEPT ![r] = [Idle EXCEPT !.pc = "answered",
              !.answer = [got |-> got, picture |-> picture, receipt |-> receipt]]]

Ask(r) ==
    /\ At(r, "idle") /\ spent.asked < MaxAsked
    /\ spent' = [spent EXCEPT !.asked = @ + 1]
    /\ req' = [req EXCEPT ![r].pc = "await"]
    /\ Kept /\ UNCHANGED <<entry, shared, budget, cached>>

(* The caller takes the answer.                                              *)
Leave(r) ==
    /\ At(r, "answered")
    /\ req' = [req EXCEPT ![r] = Idle]
    /\ Kept /\ UNCHANGED <<entry, shared, budget, cached, spent>>

(* await_gop: the snapshot, or none within the time allowed.                 *)
Snapshot(r) ==
    /\ At(r, "await") /\ gop # <<>>
    /\ req' = [req EXCEPT ![r].pc = "lookup", ![r].key = Key]
    /\ Kept /\ UNCHANGED <<entry, shared, budget, cached, spent>>

AwaitTimesOut(r) ==
    /\ At(r, "await") /\ gop = <<>>
    /\ Answer(r, IF req[r].retried THEN "error" ELSE "nothing", 0, 0)
    /\ Kept /\ UNCHANGED <<entry, shared, budget, cached, spent>>

(* cached_decoded_frame: the generations are compared, the sequence is not.  *)
Usable_AnyGeneration(k) == cached # NoResult /\ Current(k)
Usable(k) ==
    /\ cached # NoResult /\ Current(k)
    /\ cached.key.snap = k.snap /\ cached.key.config = k.config

Lookup(r) ==
    /\ At(r, "lookup")
    /\ IF Usable(req[r].key) /\ cached.fresh
       THEN /\ Answer(r, "frame", cached.key.seq, req[r].key.seq)
            /\ UNCHANGED cached
       ELSE /\ req' = [req EXCEPT ![r].pc = "join"]
            /\ cached' = IF Usable(req[r].key) THEN NoResult ELSE cached
    /\ Kept /\ UNCHANGED <<entry, shared, budget, spent>>

(* InFlight::run: the entry of the key is found or made under the lock of    *)
(* the map; the waiter is counted after the lock is dropped.                 *)
Join(r) ==
    LET found == {e \in shared : entry[e].key = req[r].key} IN
    /\ At(r, "join")
    /\ IF found # {}
       THEN /\ \E e \in found : req' = [req EXCEPT ![r].pc = "count", ![r].entry = e]
            /\ UNCHANGED <<entry, shared>>
       ELSE /\ entry' = Append(entry, [key |-> req[r].key, waiters |-> 0, is |-> "new"])
            /\ shared' = shared \cup {Len(entry) + 1}
            /\ req' = [req EXCEPT ![r].pc = "count", ![r].entry = Len(entry) + 1]
    /\ Kept /\ UNCHANGED <<budget, cached, spent>>

Count(r) ==
    /\ At(r, "count")
    /\ entry' = [entry EXCEPT ![req[r].entry].waiters = @ + 1]
    /\ req' = [req EXCEPT ![r].pc = "wait"]
    /\ Kept /\ UNCHANGED <<shared, budget, cached, spent>>

(* A shared decode goes on while one of its waiters is there to drive it:    *)
(* the permit, then the decoder, which may fail or time out.                 *)
Driven(e) == \E r \in Requests : At(r, "wait") /\ req[r].entry = e

DecodeBegins(e) ==
    /\ entry[e].is = "new" /\ Driven(e) /\ budget = 0
    /\ budget' = e
    /\ entry' = [entry EXCEPT ![e].is = "decoding"]
    /\ Kept /\ UNCHANGED <<shared, cached, req, spent>>

DecodeEnds(e) ==
    /\ entry[e].is = "decoding" /\ Driven(e)
    /\ budget' = 0
    /\ \/ entry' = [entry EXCEPT ![e].is = "decoded"] /\ UNCHANGED spent
       \/ /\ spent.faults < MaxFaults
          /\ spent' = [spent EXCEPT !.faults = @ + 1]
          /\ entry' = [entry EXCEPT ![e].is = "failed"]
    /\ Kept /\ UNCHANGED <<shared, cached, req>>

(* InFlightWaiter::drop: a waiter that has its result and the last one to    *)
(* leave take the entry out of the map; with the last one goes the decode.   *)
Drops_LastOnly(r, completed) ==
    LET e == req[r].entry IN
    /\ entry' = [entry EXCEPT ![e].waiters = @ - 1]
    /\ shared' = IF completed THEN shared \ {e} ELSE shared
    /\ budget' = budget
Drops_KeepsPermit(r, completed) ==
    LET e == req[r].entry IN
    /\ entry' = [entry EXCEPT ![e].waiters = @ - 1]
    /\ shared' = IF completed \/ entry[e].waiters = 1 THEN shared \ {e} ELSE shared
    /\ budget' = budget
Drops(r, completed) ==
    LET e == req[r].entry
        last == entry[e].waiters = 1
        held == \E q \in Requests \ {r} : req[q].entry = e IN
    /\ entry' = [entry EXCEPT ![e].waiters = @ - 1,
                              ![e].is = IF held \/ completed THEN @ ELSE "dropped"]
    /\ shared' = IF completed \/ last THEN shared \ {e} ELSE shared
    /\ budget' = IF budget = e /\ ~held THEN 0 ELSE budget

(* The request is dropped while it waits.                                    *)
Cancel(r) ==
    /\ \/ /\ At(r, "wait") /\ entry[req[r].entry].is \in {"new", "decoding"}
          /\ Drops(r, FALSE)
       \/ At(r, "await") /\ UNCHANGED <<entry, shared, budget>>
    /\ req' = [req EXCEPT ![r] = Idle]
    /\ Kept /\ UNCHANGED <<cached, spent>>

Receive(r) ==
    /\ At(r, "wait") /\ entry[req[r].entry].is \in {"decoded", "failed"}
    /\ Drops(r, TRUE)
    /\ req' = [req EXCEPT ![r].pc = entry[req[r].entry].is, ![r].entry = 0]
    /\ Kept /\ UNCHANGED <<cached, spent>>

(* The picture counts while its generation is current; one that came too     *)
(* late is replaced once.  The result is stored in the same step: one that   *)
(* is stored a moment too late is refused by Usable.                         *)
Decoded(r) ==
    LET k == req[r].key IN
    /\ At(r, "decoded")
    /\ IF Current(k)
       THEN /\ cached' = [key |-> k, fresh |-> TRUE]
            /\ Answer(r, "frame", k.seq, k.seq)
       ELSE /\ IF req[r].refreshed THEN Answer(r, "nothing", 0, 0)
               ELSE req' = [req EXCEPT ![r].pc = "await", ![r].refreshed = TRUE]
            /\ UNCHANGED cached
    /\ Kept /\ UNCHANGED <<entry, shared, budget, spent>>

(* clear_gop_if_same: the group goes when the failure is about what is there *)
(* now; then one more attempt.                                               *)
Failed(r) ==
    LET same == gop # <<>> /\ Key = req[r].key IN
    /\ At(r, "failed")
    /\ gop' = IF same THEN <<>> ELSE gop
    /\ snaps' = IF same THEN snaps + 1 ELSE snaps
    /\ cached' = IF same THEN NoResult ELSE cached
    /\ IF req[r].retried THEN Answer(r, "error", 0, 0)
       ELSE req' = [req EXCEPT ![r].pc = "await", ![r].retried = TRUE]
    /\ UNCHANGED <<encoder, config, seen, configs, entry, shared, budget, spent>>

(* The freshness window of the kept result passes.                           *)
Ages ==
    /\ cached.fresh
    /\ cached' = [cached EXCEPT !.fresh = FALSE]
    /\ Kept /\ UNCHANGED <<entry, shared, budget, req, spent>>

-----------------------------------------------------------------------------
Init ==
    /\ encoder = [config |-> 0, keyed |-> FALSE]
    /\ config = 0 /\ gop = <<>> /\ seen = 0 /\ snaps = 0 /\ configs = 0
    /\ entry = <<>> /\ shared = {} /\ budget = 0 /\ cached = NoResult
    /\ req = [r \in Requests |-> Idle]
    /\ spent = [asked |-> 0, faults |-> 0]

Moves(r) ==
    \/ Snapshot(r) \/ AwaitTimesOut(r) \/ Lookup(r) \/ Join(r) \/ Count(r)
    \/ Receive(r) \/ Decoded(r) \/ Failed(r) \/ Leave(r)

Decodes == \E e \in DOMAIN entry : DecodeBegins(e) \/ DecodeEnds(e)

Next ==
    \/ Feed
    \/ \E r \in Requests : Ask(r) \/ Cancel(r) \/ Moves(r)
    \/ Decodes
    \/ Ages

(* A task that can go on does; a decode ends, its time is limited; nothing   *)
(* makes the device send a frame or a caller ask or cancel.                  *)
Spec ==
    /\ Init /\ [][Next]_vars
    /\ \A r \in Requests : WF_vars(Moves(r))
    /\ WF_vars(Decodes)

-----------------------------------------------------------------------------
Keys == [snap : Nat, config : Nat, seq : Nat]
FrameType == [seq : Nat, config : Nat, key : BOOLEAN]
EntryType == [key : Keys, waiters : Nat,
              is : {"new", "decoding", "decoded", "failed", "dropped"}]
Places == {"idle", "await", "lookup", "join", "count", "wait", "decoded", "failed",
           "answered"}
AnswerType == [got : {"nothing", "frame", "error"}, picture : Nat, receipt : Nat]
RequestType == [pc : Places, key : Keys, entry : Nat, refreshed : BOOLEAN,
                retried : BOOLEAN, answer : AnswerType]
ResultType == [key : Keys, fresh : BOOLEAN]

(* The type of every variable.                                               *)
TypeOK ==
    /\ encoder \in [config : Nat, keyed : BOOLEAN]
    /\ config \in Nat /\ seen \in Nat /\ snaps \in Nat /\ configs \in Nat
    /\ gop \in Seq(FrameType)
    /\ entry \in Seq(EntryType)
    /\ shared \subseteq DOMAIN entry
    /\ cached \in ResultType
    /\ req \in [Requests -> RequestType]

(* The group that is replayed to a new viewer and decoded on demand can be   *)
(* decoded with the parameter set in front of it: it begins with a key frame *)
(* and all its frames were encoded with that set (feed, initial_frames).     *)
GopIsDecodable ==
    \A n \in DOMAIN gop : gop[n].config = config /\ (gop[n].key <=> n = 1)

(* An entry in the in-flight map has a request that waits for it or is about *)
(* to: no decode is kept that nobody drives, and no result that a later      *)
(* request would take for its own (InFlightWaiter::drop).                    *)
EntriesAreHeld ==
    \A e \in shared : \E r \in Requests : req[r].entry = e

(* A picture that is returned belongs to the group and the parameter set the *)
(* cache holds at that moment, whatever was fed while it was decoded or kept *)
(* (is_snapshot_current).                                                    *)
NeverSuperseded ==
    [][\A r \in Requests :
         ~At(r, "answered") /\ req'[r].answer.got = "frame" =>
             /\ gop' # <<>>
             /\ gop'[1].seq <= req'[r].answer.picture]_vars

(* Every request for a picture is answered, with a picture, with none or     *)
(* with an error, or is dropped.                                             *)
RequestsEnd == \A r \in Requests : ~At(r, "idle") ~> At(r, "idle")

(* "Receipt time belongs to the exact encoded snapshot, not to completion of *)
(* decoding or a later request" (frames.rs:574): the time that goes with a   *)
(* picture is the time of the frame it was decoded from.                     *)
ReceiptIsExact ==
    \A r \in Requests : req[r].answer.got = "frame" =>
        req[r].answer.receipt = req[r].answer.picture

(* "Concurrent calls for one key execute once" (frames.rs:321): two decodes  *)
(* of the same frame are never under way.                                    *)
DecodedOnce ==
    \A e, f \in DOMAIN entry :
        /\ e # f /\ entry[e].key = entry[f].key
        /\ Driven(e) /\ Driven(f)
        => ~(entry[e].is \in {"new", "decoding"} /\ entry[f].is \in {"new", "decoding"})

(* The pictures are those of one group, and a decode that is awaited is     *)
(* held (feed, InFlightWaiter::drop).                                       *)
CacheIsSound == GopIsDecodable /\ EntriesAreHeld
=============================================================================
