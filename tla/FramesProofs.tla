---------------------------- MODULE FramesProofs ----------------------------
(* Proofs about Frames for every set of requests and every bound: the types, *)
(* that the cache is sound, and that no superseded picture is returned.      *)
EXTENDS Frames, TLAPS, FiniteSetTheorems, SequenceTheorems

-----------------------------------------------------------------------------
(* The inductive invariant.                                                  *)

(* The encoder and the cache know the same parameter set; a group needs one, *)
(* and has been counted.                                                     *)
GroupInv ==
    /\ encoder.config = config
    /\ gop # <<>> => config # 0 /\ snaps # 0 /\ gop[1].seq <= seen
    /\ GopIsDecodable

(* Every key was taken from a group that is current or was replaced.         *)
Recent(k) == k.snap <= snaps /\ (Current(k) => gop[1].seq <= k.seq)
KeyInv == Recent(cached.key) /\ \A r \in Requests : Recent(req[r].key)

(* A picture is with a request that was answered, and with no other.         *)
AnswerInv == \A r \in Requests : req[r].answer.got = "frame" => req[r].pc = "answered"

(* The waiters of an entry are counted, and who waits or is about to wait    *)
(* names an entry.                                                           *)
Holding == {"count", "wait"}
Waiting(e) == {r \in Requests : req[r].pc = "wait" /\ req[r].entry = e}
Counted == \A e \in DOMAIN entry : entry[e].waiters = Cardinality(Waiting(e))
HoldInv ==
    /\ \A r \in Requests : IF req[r].pc \in Holding THEN req[r].entry \in DOMAIN entry
                           ELSE req[r].entry = 0
    /\ Counted
    /\ EntriesAreHeld

IInv == TypeOK /\ GroupInv /\ KeyInv /\ AnswerInv /\ HoldInv

-----------------------------------------------------------------------------
(* What a request does about entries is all that HoldInv sees.               *)
LEMMA SameHold ==
  ASSUME HoldInv, DOMAIN entry' = DOMAIN entry, shared' = shared,
         \A e \in DOMAIN entry : entry'[e].waiters = entry[e].waiters,
         \A r \in Requests : /\ req'[r].entry = req[r].entry
                             /\ req'[r].pc = "wait" <=> req[r].pc = "wait"
                             /\ req'[r].pc \in Holding <=> req[r].pc \in Holding
  PROVE  HoldInv'
<1>1. \A e : Waiting(e)' = Waiting(e)
  BY DEF Waiting
<1>2. Counted'
  BY <1>1 DEF HoldInv, Counted
<1>3. EntriesAreHeld'
  BY DEF HoldInv, EntriesAreHeld
<1> QED
  BY <1>2, <1>3 DEF HoldInv

(* The set of the waiters of an entry is finite.                             *)
LEMMA WaitingFinite == ASSUME NEW e PROVE IsFiniteSet(Waiting(e))
  BY FS_Subset, FramesAssumption DEF Waiting

LEMMA InitInv == Init => IInv
<1> SUFFICES ASSUME Init PROVE IInv
  OBVIOUS
<1> USE DEF Init
<1>1. NoKey \in Keys /\ Idle \in RequestType /\ NoResult \in ResultType
  BY DEF Keys, NoKey, Idle, RequestType, Places, AnswerType, Nothing, NoResult, ResultType
<1>2. TypeOK
  BY <1>1 DEF TypeOK
<1>3. GroupInv
  BY DEF GroupInv, GopIsDecodable
<1>4. KeyInv
  BY DEF KeyInv, Recent, Current, NoResult, NoKey, Idle
<1>5. HoldInv
  BY DEF HoldInv, Counted, EntriesAreHeld, Idle, Holding
<1>6. AnswerInv
  BY DEF AnswerInv, Idle, Nothing
<1> QED
  BY <1>2, <1>3, <1>4, <1>5, <1>6 DEF IInv

-----------------------------------------------------------------------------
(* feed: the frames of the encoder change the group, and no request.         *)
LEMMA ConfigInv ==
  ASSUME IInv, NEW c \in 1..MaxConfigs, FeedConfig(c)
  PROVE  IInv'
<1>1. c \in Nat /\ c # 0
  BY FramesAssumption
<1>2. UNCHANGED <<entry, shared, cached, req>> /\ seen' = seen + 1
  BY DEF FeedConfig, Others, Observe
<1>3. encoder' \in [config : Nat, keyed : BOOLEAN] /\ encoder'.config = c
  BY <1>1 DEF FeedConfig, IInv, TypeOK
<1>4. HoldInv' /\ AnswerInv'
  BY <1>2, SameHold DEF IInv, AnswerInv
<1>5. CASE c # config
  <2>1. /\ config' = c /\ configs' = configs + 1 /\ snaps' = snaps + 1
        /\ gop' = IF config # 0 THEN <<>> ELSE gop
    BY <1>5 DEF FeedConfig
  <2>2. gop' = <<>>
    BY <2>1 DEF IInv, GroupInv
  <2>3. TypeOK'
    BY <1>1, <1>2, <1>3, <2>1, <2>2 DEF IInv, TypeOK
  <2>4. GroupInv'
    BY <1>3, <2>1, <2>2 DEF GroupInv, GopIsDecodable
  <2>5. \A k \in Keys : Recent(k) => Recent(k)'
    BY <2>1, <2>2 DEF IInv, TypeOK, Recent, Current, Keys
  <2>6. KeyInv'
    BY <1>2, <2>5 DEF IInv, TypeOK, KeyInv, ResultType, RequestType
  <2> QED
    BY <1>4, <2>3, <2>4, <2>6 DEF IInv
<1>6. CASE c = config
  <2>1. UNCHANGED <<config, configs, snaps, gop>>
    BY <1>6 DEF FeedConfig
  <2>2. TypeOK'
    BY <1>2, <1>3, <2>1 DEF IInv, TypeOK
  <2>3. ASSUME gop # <<>> PROVE gop[1].seq <= seen'
    <3>1. gop[1] \in FrameType
      BY <2>3, EmptySeq DEF IInv, TypeOK
    <3> QED
      BY <1>2, <2>3, <3>1 DEF IInv, TypeOK, GroupInv, FrameType
  <2>4. GroupInv'
    BY <1>3, <1>6, <2>1, <2>3 DEF IInv, GroupInv, GopIsDecodable
  <2>5. KeyInv'
    BY <1>2, <2>1 DEF IInv, KeyInv, Recent, Current, SameGeneration
  <2> QED
    BY <1>4, <2>2, <2>4, <2>5 DEF IInv
<1> QED
  BY <1>5, <1>6

LEMMA KeyFrameInv ==
  ASSUME IInv, FeedKey
  PROVE  IInv'
<1> DEFINE f == Frame(TRUE)
<1>1. /\ UNCHANGED <<config, configs, entry, shared, cached, req>>
      /\ seen' = seen + 1 /\ snaps' = snaps + 1 /\ gop' = <<f>> /\ config # 0
  BY DEF FeedKey, Others, Observe, IInv, GroupInv
<1>2. f \in FrameType /\ f.seq = seen' /\ f.key /\ f.config = config
  BY <1>1 DEF Frame, FrameType, IInv, TypeOK, GroupInv
<1> HIDE DEF f
<1>3. gop' \in Seq(FrameType) /\ gop'[1] = f /\ DOMAIN gop' = {1} /\ gop' # <<>>
  BY <1>1, <1>2
<1>4. encoder' \in [config : Nat, keyed : BOOLEAN] /\ encoder'.config = config
  BY DEF FeedKey, IInv, TypeOK, GroupInv
<1>5. TypeOK'
  BY <1>1, <1>3, <1>4 DEF IInv, TypeOK
<1>6. GroupInv'
  BY <1>1, <1>2, <1>3, <1>4, <1>5 DEF IInv, TypeOK, GroupInv, GopIsDecodable
<1>7. \A k \in Keys : Recent(k) => Recent(k)'
  BY <1>1 DEF IInv, TypeOK, Recent, Current, SameGeneration, Keys
<1>8. KeyInv'
  BY <1>1, <1>7 DEF IInv, TypeOK, KeyInv, ResultType, RequestType
<1>9. HoldInv' /\ AnswerInv'
  BY <1>1, SameHold DEF IInv, AnswerInv
<1> QED
  BY <1>5, <1>6, <1>8, <1>9 DEF IInv

LEMMA DeltaInv ==
  ASSUME IInv, FeedDelta
  PROVE  IInv'
<1> DEFINE f == Frame(FALSE)
<1>1. UNCHANGED <<encoder, config, configs, entry, shared, cached, req>> /\ seen' = seen + 1
  BY DEF FeedDelta, Others, Observe
<1>2. HoldInv' /\ AnswerInv'
  BY <1>1, SameHold DEF IInv, AnswerInv
<1>3. CASE gop # <<>> /\ Len(gop) < GopMax
  <2>1. gop' = Append(gop, f) /\ snaps' = snaps
    BY <1>3 DEF FeedDelta
  <2>2. f \in FrameType /\ ~f.key /\ f.config = config
    BY DEF Frame, FrameType, IInv, TypeOK, GroupInv
  <2>3. gop \in Seq(FrameType) /\ gop # <<>>
    BY <1>3 DEF IInv, TypeOK
  <2>4. Len(gop) \in Nat \ {0} /\ DOMAIN gop = 1..Len(gop)
    BY <2>3, EmptySeq
  <2> HIDE DEF f
  <2>5. /\ gop' \in Seq(FrameType) /\ DOMAIN gop' = 1..(Len(gop) + 1) /\ gop' # <<>>
        /\ \A n \in 1..Len(gop) : gop'[n] = gop[n]
        /\ gop'[Len(gop) + 1] = f
    BY <2>1, <2>2, <2>3, <2>4
  <2>6. gop'[1] = gop[1] /\ gop[1] \in FrameType
    BY <2>3, <2>4, <2>5
  <2>7. TypeOK'
    BY <1>1, <2>1, <2>5 DEF IInv, TypeOK
  <2>8. GopIsDecodable'
    BY <1>1, <2>2, <2>4, <2>5 DEF IInv, GroupInv, GopIsDecodable
  <2>9. GroupInv'
    BY <1>1, <2>1, <2>3, <2>6, <2>8 DEF IInv, TypeOK, GroupInv, FrameType
  <2>10. KeyInv'
    BY <1>1, <2>1, <2>3, <2>5, <2>6 DEF IInv, KeyInv, Recent, Current, SameGeneration
  <2> QED
    BY <1>2, <2>7, <2>9, <2>10 DEF IInv
<1>4. CASE gop = <<>> \/ ~(Len(gop) < GopMax)
  <2>1. gop' = <<>> /\ (snaps' = snaps \/ snaps' = snaps + 1)
    BY <1>4 DEF FeedDelta
  <2>2. snaps' \in Nat /\ snaps <= snaps'
    BY <2>1 DEF IInv, TypeOK
  <2>3. TypeOK'
    BY <1>1, <2>1, <2>2 DEF IInv, TypeOK
  <2>4. GroupInv'
    BY <1>1, <2>1 DEF IInv, GroupInv, GopIsDecodable
  <2>5. \A k \in Keys : Recent(k) => Recent(k)'
    BY <2>1, <2>2 DEF IInv, TypeOK, Recent, Current, Keys
  <2>6. KeyInv'
    BY <1>1, <2>5 DEF IInv, TypeOK, KeyInv, ResultType, RequestType
  <2> QED
    BY <1>2, <2>3, <2>4, <2>6 DEF IInv
<1> QED
  BY <1>3, <1>4

-----------------------------------------------------------------------------
(* The steps of a request that touch no entry.                               *)
Alone(r) ==
    \/ Ask(r) \/ Leave(r) \/ Snapshot(r) \/ AwaitTimesOut(r) \/ Lookup(r)
    \/ Decoded(r) \/ Failed(r)

(* The request holds no entry before and after; its key is the one it had,   *)
(* none, or the present one; the group may only go; a picture it is given    *)
(* belongs to the group that is there.                                       *)
Given(r) == /\ req'[r].pc = "answered" /\ gop' # <<>>
            /\ gop'[1].seq <= req'[r].answer.picture
Moved(r) ==
    /\ UNCHANGED <<encoder, config, seen, configs, entry, shared>>
    /\ (gop' = gop /\ snaps' = snaps) \/ (gop' = <<>> /\ snaps' = snaps + 1)
    /\ req[r].pc \notin Holding
    /\ req' \in [Requests -> RequestType]
    /\ \A q \in Requests \ {r} : req'[q] = req[q]
    /\ req'[r].pc \notin Holding /\ req'[r].entry = 0
    /\ req'[r].key \in {req[r].key, Key, NoKey}
    /\ req'[r].answer.got = "frame" => Given(r)
    /\ cached' \in ResultType
    /\ cached'.key \in {cached.key, req[r].key, NoKey}

LEMMA AloneMoves ==
  ASSUME IInv, NEW r \in Requests, Alone(r)
  PROVE  Moved(r)
<1> DEFINE a == req[r]
<1>1. /\ a \in RequestType /\ req \in [Requests -> RequestType]
      /\ a.pc \notin Holding => a.entry = 0
      /\ a.pc # "answered" => a.answer.got # "frame"
      /\ cached \in ResultType /\ seen \in Nat
  BY DEF IInv, TypeOK, HoldInv, AnswerInv
<1>2. /\ Key \in Keys /\ NoKey \in Keys /\ NoResult \in ResultType /\ NoResult.key = NoKey
      /\ Idle \in RequestType /\ Idle.key = NoKey /\ Idle.entry = 0
      /\ Idle.pc \notin Holding /\ Idle.answer.got # "frame"
  BY DEF Key, NoKey, Keys, NoResult, ResultType, Idle, RequestType, Places, AnswerType,
         Nothing, Holding, IInv, TypeOK
<1>0. ASSUME NEW v \in RequestType, req' = [req EXCEPT ![r] = v],
             v.pc \notin Holding, v.entry = 0, v.key \in {a.key, Key, NoKey},
             v.answer.got = "frame" =>
                v.pc = "answered" /\ gop' # <<>> /\ gop'[1].seq <= v.answer.picture
      PROVE  /\ req' \in [Requests -> RequestType]
             /\ \A q \in Requests \ {r} : req'[q] = req[q]
             /\ req'[r].pc \notin Holding /\ req'[r].entry = 0
             /\ req'[r].key \in {req[r].key, Key, NoKey}
             /\ req'[r].answer.got = "frame" => Given(r)
  BY <1>0, <1>1 DEF Given
<1>3. ASSUME NEW got \in {"nothing", "frame", "error"}, NEW x \in Nat, NEW y \in Nat,
             Answer(r, got, x, y)
      PROVE  \E v \in RequestType :
                /\ req' = [req EXCEPT ![r] = v]
                /\ v.pc \notin Holding /\ v.entry = 0 /\ v.key = NoKey
                /\ v.pc = "answered" /\ v.answer.got = got /\ v.answer.picture = x
  <2> DEFINE v == [Idle EXCEPT !.pc = "answered",
                      !.answer = [got |-> got, picture |-> x, receipt |-> y]]
  <2>1. req' = [req EXCEPT ![r] = v]
    BY <1>3 DEF Answer
  <2>2. /\ v \in RequestType /\ v.pc \notin Holding /\ v.entry = 0 /\ v.key = NoKey
        /\ v.pc = "answered" /\ v.answer.got = got /\ v.answer.picture = x
    BY DEF Idle, RequestType, Places, AnswerType, Holding, NoKey, Keys
  <2> QED
    BY <2>1, <2>2
<1>4. CASE Ask(r)
  <2> DEFINE v == [a EXCEPT !.pc = "await"]
  <2>1. req' = [req EXCEPT ![r] = v] /\ a.pc = "idle" /\ Kept
        /\ UNCHANGED <<entry, shared, cached>>
    BY <1>4 DEF Ask, At
  <2>2. /\ v \in RequestType /\ v.pc = "await" /\ v.entry = a.entry /\ v.key = a.key
        /\ v.answer = a.answer
    BY <1>1 DEF RequestType, Places
  <2> HIDE DEF v
  <2> QED
    BY <1>0, <1>1, <2>1, <2>2 DEF Moved, Kept, state, Holding
<1>5. CASE Leave(r)
  BY <1>0, <1>1, <1>2, <1>5 DEF Leave, At, Moved, Kept, state, Holding
<1>6. CASE Snapshot(r)
  <2> DEFINE v == [a EXCEPT !.pc = "lookup", !.key = Key]
  <2>1. req' = [req EXCEPT ![r] = v] /\ a.pc = "await" /\ Kept
        /\ UNCHANGED <<entry, shared, cached>>
    BY <1>6 DEF Snapshot, At
  <2>2. /\ v \in RequestType /\ v.pc = "lookup" /\ v.entry = a.entry /\ v.key = Key
        /\ v.answer = a.answer
    BY <1>1, <1>2 DEF RequestType, Places
  <2> HIDE DEF v
  <2> QED
    BY <1>0, <1>1, <2>1, <2>2 DEF Moved, Kept, state, Holding
<1>7. CASE AwaitTimesOut(r)
  <2>1. PICK v \in RequestType : /\ req' = [req EXCEPT ![r] = v] /\ v.answer.got # "frame"
                                 /\ v.pc \notin Holding /\ v.entry = 0 /\ v.key = NoKey
    BY <1>3, <1>7 DEF AwaitTimesOut
  <2> QED
    BY <1>0, <1>1, <1>7, <2>1 DEF AwaitTimesOut, At, Moved, Kept, state, Holding
<1>8. CASE Lookup(r)
  <2>0. a.pc = "lookup" /\ Kept /\ UNCHANGED <<entry, shared>>
    BY <1>8 DEF Lookup, At
  <2>1. CASE Usable(a.key) /\ cached.fresh
    <3>1. Answer(r, "frame", cached.key.seq, a.key.seq) /\ cached' = cached
      BY <1>8, <2>1 DEF Lookup
    <3>2. cached.key.seq \in Nat /\ a.key.seq \in Nat
      BY <1>1 DEF ResultType, RequestType, Keys
    <3>3. PICK v \in RequestType : /\ req' = [req EXCEPT ![r] = v]
                                   /\ v.pc = "answered" /\ v.answer.picture = cached.key.seq
                                   /\ v.pc \notin Holding /\ v.entry = 0 /\ v.key = NoKey
      BY <1>3, <3>1, <3>2
    <3>4. Current(cached.key)
      BY <2>1 DEF Usable, Current, SameGeneration
    <3>5. gop' = gop /\ gop # <<>> /\ gop[1].seq <= cached.key.seq
      BY <2>0, <3>4 DEF IInv, KeyInv, Recent, Current, Kept, state
    <3> QED
      BY <1>0, <1>1, <2>0, <3>1, <3>3, <3>5 DEF Moved, Kept, state, Holding
  <2>2. CASE ~(Usable(a.key) /\ cached.fresh)
    <3> DEFINE v == [a EXCEPT !.pc = "join"]
    <3>1. req' = [req EXCEPT ![r] = v] /\ cached' \in {cached, NoResult}
      BY <1>8, <2>2 DEF Lookup
    <3>2. /\ v \in RequestType /\ v.pc = "join" /\ v.entry = a.entry /\ v.key = a.key
        /\ v.answer = a.answer
      BY <1>1 DEF RequestType, Places
    <3> HIDE DEF v
    <3> QED
      BY <1>0, <1>1, <1>2, <2>0, <3>1, <3>2 DEF Moved, Kept, state, Holding
  <2> QED
    BY <2>1, <2>2
<1>9. CASE Decoded(r)
  <2>0. a.pc = "decoded" /\ Kept /\ UNCHANGED <<entry, shared>>
    BY <1>9 DEF Decoded, At
  <2>1. CASE Current(a.key)
    <3>1. cached' = [key |-> a.key, fresh |-> TRUE] /\ Answer(r, "frame", a.key.seq, a.key.seq)
      BY <1>9, <2>1 DEF Decoded
    <3>2. a.key \in Keys /\ a.key.seq \in Nat
      BY <1>1 DEF RequestType, Keys
    <3>3. PICK v \in RequestType : /\ req' = [req EXCEPT ![r] = v]
                                   /\ v.pc = "answered" /\ v.answer.picture = a.key.seq
                                   /\ v.pc \notin Holding /\ v.entry = 0 /\ v.key = NoKey
      BY <1>3, <3>1, <3>2
    <3>4. cached' \in ResultType /\ cached'.key = a.key
      BY <3>1, <3>2 DEF ResultType
    <3>5. gop' = gop /\ gop # <<>> /\ gop[1].seq <= a.key.seq
      BY <2>0, <2>1 DEF IInv, KeyInv, Recent, Current, Kept, state
    <3> QED
      BY <1>0, <1>1, <2>0, <3>3, <3>4, <3>5 DEF Moved, Kept, state, Holding
  <2>2. CASE ~Current(a.key) /\ a.refreshed
    <3>1. PICK v \in RequestType : /\ req' = [req EXCEPT ![r] = v]
                                   /\ v.answer.got # "frame"
                                   /\ v.pc \notin Holding /\ v.entry = 0 /\ v.key = NoKey
      BY <1>3, <1>9, <2>2 DEF Decoded
    <3> QED
      BY <1>0, <1>1, <1>9, <2>0, <2>2, <3>1 DEF Decoded, Moved, Kept, state, Holding
  <2>3. CASE ~Current(a.key) /\ ~a.refreshed
    <3> DEFINE v == [a EXCEPT !.pc = "await", !.refreshed = TRUE]
    <3>1. req' = [req EXCEPT ![r] = v] /\ cached' = cached
      BY <1>9, <2>3 DEF Decoded
    <3>2. /\ v \in RequestType /\ v.pc = "await" /\ v.entry = a.entry /\ v.key = a.key
        /\ v.answer = a.answer
      BY <1>1 DEF RequestType, Places
    <3> HIDE DEF v
    <3> QED
      BY <1>0, <1>1, <2>0, <3>1, <3>2 DEF Moved, Kept, state, Holding
  <2> QED
    BY <2>1, <2>2, <2>3
<1>10. CASE Failed(r)
  <2>0. /\ a.pc = "failed" /\ UNCHANGED <<encoder, config, seen, configs, entry, shared>>
        /\ (gop' = gop /\ snaps' = snaps) \/ (gop' = <<>> /\ snaps' = snaps + 1)
        /\ cached' \in {cached, NoResult}
    <3> DEFINE same == gop # <<>> /\ Key = a.key
    <3>1. CASE same
      BY <1>10, <3>1 DEF Failed, At
    <3>2. CASE ~same
      BY <1>10, <3>2 DEF Failed, At
    <3> QED
      BY <3>1, <3>2
  <2>1. CASE a.retried
    <3>1. PICK v \in RequestType : /\ req' = [req EXCEPT ![r] = v]
                                   /\ v.answer.got # "frame"
                                   /\ v.pc \notin Holding /\ v.entry = 0 /\ v.key = NoKey
      BY <1>3, <1>10, <2>1 DEF Failed
    <3> QED
      BY <1>0, <1>1, <1>2, <2>0, <3>1 DEF Moved, Holding
  <2>2. CASE ~a.retried
    <3> DEFINE v == [a EXCEPT !.pc = "await", !.retried = TRUE]
    <3>1. req' = [req EXCEPT ![r] = v]
      BY <1>10, <2>2 DEF Failed
    <3>2. /\ v \in RequestType /\ v.pc = "await" /\ v.entry = a.entry /\ v.key = a.key
        /\ v.answer = a.answer
      BY <1>1 DEF RequestType, Places
    <3> HIDE DEF v
    <3> QED
      BY <1>0, <1>1, <1>2, <2>0, <3>1, <3>2 DEF Moved, Holding
  <2> QED
    BY <2>1, <2>2
<1> QED
  BY <1>4, <1>5, <1>6, <1>7, <1>8, <1>9, <1>10 DEF Alone

LEMMA AloneInv ==
  ASSUME IInv, NEW r \in Requests, Alone(r)
  PROVE  IInv'
<1>1. Moved(r)
  BY AloneMoves
<1>2. req \in [Requests -> RequestType] /\ \A q \in Requests \ {r} : req'[q] = req[q]
  BY <1>1 DEF Moved, IInv, TypeOK
<1>3. req[r].entry = 0
  BY <1>1 DEF Moved, IInv, HoldInv
<1>4. \A q \in Requests : /\ req'[q].entry = req[q].entry
                          /\ req'[q].pc = "wait" <=> req[q].pc = "wait"
                          /\ req'[q].pc \in Holding <=> req[q].pc \in Holding
  BY <1>1, <1>2, <1>3 DEF Moved, Holding
<1>5. HoldInv'
  BY <1>1, <1>4, SameHold DEF Moved, IInv
<1>6. snaps' \in Nat /\ snaps <= snaps' /\ gop' \in Seq(FrameType)
  <2>1. snaps \in Nat /\ gop \in Seq(FrameType) /\ <<>> \in Seq(FrameType)
    BY EmptySeq DEF IInv, TypeOK
  <2>2. CASE gop' = gop /\ snaps' = snaps
    BY <2>1, <2>2
  <2>3. CASE gop' = <<>> /\ snaps' = snaps + 1
    BY <2>1, <2>3
  <2> QED
    BY <1>1, <2>2, <2>3 DEF Moved
<1>7. TypeOK'
  BY <1>1, <1>2, <1>6 DEF Moved, IInv, TypeOK
<1>8. GroupInv'
  BY <1>1 DEF Moved, IInv, GroupInv, GopIsDecodable
<1>9. \A k \in Keys : Recent(k) => Recent(k)'
  BY <1>1, <1>6 DEF Moved, IInv, TypeOK, Recent, Current, SameGeneration, Keys
<1>10. Recent(Key) /\ Recent(NoKey) /\ Key \in Keys /\ NoKey \in Keys
  BY DEF IInv, TypeOK, GroupInv, Recent, Current, SameGeneration, Key, NoKey, Keys
<1>11. KeyInv'
  BY <1>1, <1>2, <1>9, <1>10 DEF Moved, IInv, TypeOK, KeyInv, ResultType, RequestType
<1>12. AnswerInv'
  BY <1>1, <1>2 DEF Moved, Given, IInv, AnswerInv
<1> QED
  BY <1>5, <1>7, <1>8, <1>11, <1>12 DEF IInv

-----------------------------------------------------------------------------
(* The steps about entries leave the group and the keys alone.               *)
LEMMA KeptKeys ==
  ASSUME IInv, Kept, cached' = cached,
         \A r \in Requests : req'[r].key \in {req[r].key, NoKey}
  PROVE  GroupInv' /\ KeyInv'
<1>1. Recent(NoKey)
  BY DEF IInv, TypeOK, GroupInv, Recent, Current, SameGeneration, NoKey
<1>2. \A k : Recent(k)' <=> Recent(k)
  BY DEF Kept, state, Recent, Current, SameGeneration
<1>3. GroupInv'
  BY DEF Kept, state, IInv, GroupInv, GopIsDecodable
<1>4. KeyInv'
  BY <1>1, <1>2 DEF IInv, KeyInv
<1> QED
  BY <1>3, <1>4

(* A request that names no entry is not the one that holds any.              *)
LEMMA StillHeld ==
  ASSUME IInv, NEW r \in Requests, req[r].pc \notin Holding, NEW f \in shared,
         \A q \in Requests \ {r} : req'[q].entry = req[q].entry
  PROVE  \E q \in Requests : req'[q].entry = f
<1>1. PICK q \in Requests : req[q].entry = f
  BY DEF IInv, HoldInv, EntriesAreHeld
<1>2. f # 0
  BY LenProperties DEF IInv, TypeOK
<1>3. q # r
  BY <1>1, <1>2 DEF IInv, HoldInv
<1> QED
  BY <1>1, <1>3

(* A request finds the entry of its key...                                   *)
LEMMA JoinFoundInv ==
  ASSUME IInv, NEW r \in Requests, req[r].pc = "join", NEW e \in shared,
         req' = [req EXCEPT ![r].pc = "count", ![r].entry = e],
         Kept, UNCHANGED <<entry, shared, cached>>
  PROVE  IInv'
<1> DEFINE v == [req[r] EXCEPT !.pc = "count", !.entry = e]
<1>1. /\ entry \in Seq(EntryType) /\ e \in DOMAIN entry /\ e \in Nat
      /\ req \in [Requests -> RequestType] /\ r \in Requests
  BY LenProperties DEF IInv, TypeOK
<1>2. /\ v \in RequestType /\ v.pc = "count" /\ v.entry = e /\ v.key = req[r].key
      /\ v.answer = req[r].answer
  BY <1>1 DEF RequestType, Places
<1>3. req' = [req EXCEPT ![r] = v]
  OBVIOUS
<1> HIDE DEF v
<1>4. /\ req' \in [Requests -> RequestType] /\ req'[r] = v
      /\ \A q \in Requests \ {r} : req'[q] = req[q]
  BY <1>1, <1>2, <1>3
<1>5. TypeOK'
  BY <1>4 DEF IInv, TypeOK, Kept, state
<1>6. GroupInv' /\ KeyInv'
  BY <1>2, <1>4, KeptKeys
<1>7. \A f : Waiting(f)' = Waiting(f)
  BY <1>2, <1>4 DEF Waiting
<1>8. Counted'
  BY <1>7 DEF IInv, HoldInv, Counted
<1>9. EntriesAreHeld'
  BY <1>4, StillHeld DEF EntriesAreHeld, Holding
<1>10. HoldInv'
  BY <1>1, <1>2, <1>4, <1>8, <1>9 DEF IInv, HoldInv, Holding
<1>11. AnswerInv'
  BY <1>2, <1>4 DEF IInv, AnswerInv
<1> QED
  BY <1>5, <1>6, <1>10, <1>11 DEF IInv

(* ...or makes one.                                                          *)
LEMMA JoinNewInv ==
  ASSUME IInv, NEW r \in Requests, req[r].pc = "join", NEW n, n = Len(entry) + 1,
         entry' = Append(entry, [key |-> req[r].key, waiters |-> 0, is |-> "new"]),
         shared' = shared \cup {n},
         req' = [req EXCEPT ![r].pc = "count", ![r].entry = n],
         Kept, UNCHANGED cached
  PROVE  IInv'
<1> DEFINE v == [req[r] EXCEPT !.pc = "count", !.entry = n]
           x == [key |-> req[r].key, waiters |-> 0, is |-> "new"]
<1>1. /\ entry \in Seq(EntryType) /\ Len(entry) \in Nat /\ n \in Nat /\ n # 0
      /\ DOMAIN entry = 1..Len(entry) /\ n \notin DOMAIN entry
      /\ req \in [Requests -> RequestType] /\ r \in Requests
  BY LenProperties DEF IInv, TypeOK
<1>2. /\ v \in RequestType /\ v.pc = "count" /\ v.entry = n /\ v.key = req[r].key
      /\ v.answer = req[r].answer
  BY <1>1 DEF RequestType, Places
<1>3. req' = [req EXCEPT ![r] = v]
  OBVIOUS
<1>4. x \in EntryType /\ x.waiters = 0 /\ entry' = Append(entry, x)
  BY <1>1 DEF EntryType, RequestType
<1> HIDE DEF v, x
<1>5. /\ req' \in [Requests -> RequestType] /\ req'[r] = v
      /\ \A q \in Requests \ {r} : req'[q] = req[q]
  BY <1>1, <1>2, <1>3
<1>6. /\ entry' \in Seq(EntryType) /\ DOMAIN entry' = 1..n /\ entry'[n] = x
      /\ \A e \in DOMAIN entry : entry'[e] = entry[e]
  BY <1>1, <1>4
<1>7. DOMAIN entry' = DOMAIN entry \cup {n}
  BY <1>1, <1>6
<1>8. TypeOK'
  BY <1>5, <1>6, <1>7 DEF IInv, TypeOK, Kept, state
<1>9. GroupInv' /\ KeyInv'
  BY <1>2, <1>5, KeptKeys
<1>10. \A f : Waiting(f)' = Waiting(f)
  BY <1>2, <1>5 DEF Waiting
<1>11. Waiting(n) = {}
  BY <1>1 DEF Waiting, IInv, HoldInv, Holding
<1>12. Counted'
  <2> SUFFICES ASSUME NEW e \in DOMAIN entry' PROVE entry'[e].waiters = Cardinality(Waiting(e)')
    BY DEF Counted
  <2>1. CASE e = n
    BY <1>4, <1>6, <1>10, <1>11, <2>1, FS_EmptySet
  <2>2. CASE e \in DOMAIN entry
    BY <1>6, <1>10, <2>2 DEF IInv, HoldInv, Counted
  <2> QED
    BY <1>7, <2>1, <2>2
<1>13. EntriesAreHeld'
  <2> SUFFICES ASSUME NEW f \in shared' PROVE \E q \in Requests : req'[q].entry = f
    BY DEF EntriesAreHeld
  <2>1. CASE f = n
    BY <1>1, <1>2, <1>5, <2>1
  <2>2. CASE f \in shared
    BY <1>5, <2>2, StillHeld DEF Holding
  <2> QED
    BY <2>1, <2>2
<1>14. HoldInv'
  BY <1>1, <1>2, <1>5, <1>7, <1>12, <1>13 DEF IInv, HoldInv, Holding
<1>15. AnswerInv'
  BY <1>2, <1>5 DEF IInv, AnswerInv
<1> QED
  BY <1>8, <1>9, <1>14, <1>15 DEF IInv

LEMMA JoinInv ==
  ASSUME IInv, NEW r \in Requests, Join(r)
  PROVE  IInv'
<1> DEFINE found == {e \in shared : entry[e].key = req[r].key}
<1>1. req[r].pc = "join" /\ Kept /\ cached' = cached
  BY DEF Join, At
<1>2. CASE found # {}
  <2>1. PICK e \in found : req' = [req EXCEPT ![r].pc = "count", ![r].entry = e]
    BY <1>2 DEF Join
  <2>2. UNCHANGED <<entry, shared>>
    BY <1>2 DEF Join
  <2> QED
    BY <1>1, <2>1, <2>2, JoinFoundInv
<1>3. CASE found = {}
  <2> DEFINE n == Len(entry) + 1
  <2>1. /\ entry' = Append(entry, [key |-> req[r].key, waiters |-> 0, is |-> "new"])
        /\ shared' = shared \cup {n}
        /\ req' = [req EXCEPT ![r].pc = "count", ![r].entry = n]
    BY <1>3 DEF Join
  <2> QED
    BY <1>1, <2>1, JoinNewInv
<1> QED
  BY <1>2, <1>3

-----------------------------------------------------------------------------
(* The steps that change one entry.                                          *)
LEMMA EntryChanges ==
  ASSUME TypeOK, NEW e \in DOMAIN entry, NEW x \in EntryType,
         entry' = [entry EXCEPT ![e] = x]
  PROVE  /\ entry' \in Seq(EntryType) /\ DOMAIN entry' = DOMAIN entry
         /\ entry'[e] = x
         /\ \A f \in DOMAIN entry \ {e} : entry'[f] = entry[f]
<1>1. entry \in Seq(EntryType) /\ DOMAIN entry = 1..Len(entry)
  BY LenProperties DEF TypeOK
<1>2. entry' \in Seq(EntryType) /\ Len(entry') = Len(entry)
  BY <1>1, ExceptSeq
<1> QED
  BY <1>1, <1>2, LenProperties

LEMMA CountInv ==
  ASSUME IInv, NEW r \in Requests, Count(r)
  PROVE  IInv'
<1>0. PICK e : e = req[r].entry
  OBVIOUS
<1> DEFINE x == [entry[e] EXCEPT !.waiters = @ + 1]
           v == [req[r] EXCEPT !.pc = "wait"]
<1>1. /\ req[r].pc = "count" /\ Kept /\ UNCHANGED <<shared, cached>>
      /\ entry' = [entry EXCEPT ![e] = x] /\ req' = [req EXCEPT ![r] = v]
  BY <1>0 DEF Count, At
<1>2. e \in DOMAIN entry /\ entry[e] \in EntryType /\ req[r] \in RequestType
  BY <1>0, <1>1 DEF IInv, TypeOK, HoldInv, Holding
<1>3. x \in EntryType /\ x.waiters = entry[e].waiters + 1
  BY <1>2 DEF EntryType
<1>4. /\ v \in RequestType /\ v.pc = "wait" /\ v.entry = e
      /\ v.key = req[r].key /\ v.answer = req[r].answer
  BY <1>0, <1>2 DEF RequestType, Places
<1> HIDE DEF x, v
<1>5. /\ entry' \in Seq(EntryType) /\ DOMAIN entry' = DOMAIN entry /\ entry'[e] = x
      /\ \A f \in DOMAIN entry \ {e} : entry'[f] = entry[f]
  BY <1>1, <1>2, <1>3, EntryChanges DEF IInv
<1>6. /\ req' \in [Requests -> RequestType] /\ req'[r] = v
      /\ \A q \in Requests \ {r} : req'[q] = req[q]
  BY <1>1, <1>4 DEF IInv, TypeOK
<1>7. TypeOK'
  BY <1>1, <1>5, <1>6 DEF IInv, TypeOK, Kept, state
<1>8. GroupInv' /\ KeyInv' /\ AnswerInv'
  BY <1>1, <1>4, <1>6, KeptKeys DEF IInv, AnswerInv
<1>9. Waiting(e)' = Waiting(e) \cup {r} /\ r \notin Waiting(e)
  BY <1>0, <1>1, <1>4, <1>6 DEF Waiting
<1>10. \A f \in DOMAIN entry \ {e} : Waiting(f)' = Waiting(f)
  BY <1>0, <1>1, <1>4, <1>6 DEF Waiting
<1>11. Cardinality(Waiting(e)') = Cardinality(Waiting(e)) + 1
  BY <1>9, FS_AddElement, WaitingFinite
<1>12. Counted'
  BY <1>2, <1>3, <1>5, <1>10, <1>11 DEF IInv, HoldInv, Counted
<1>13. EntriesAreHeld'
  BY <1>0, <1>1, <1>4, <1>6 DEF IInv, HoldInv, EntriesAreHeld
<1>14. HoldInv'
  BY <1>0, <1>1, <1>2, <1>4, <1>5, <1>6, <1>12, <1>13 DEF IInv, HoldInv, Holding
<1> QED
  BY <1>7, <1>8, <1>14 DEF IInv

(* A decode goes on: only the progress of its entry changes.                 *)
LEMMA DecodesInv ==
  ASSUME IInv, Decodes
  PROVE  IInv'
<1>1. PICK e \in DOMAIN entry : DecodeBegins(e) \/ DecodeEnds(e)
  BY DEF Decodes
<1>2. PICK s \in {"decoding", "decoded", "failed"} :
         entry' = [entry EXCEPT ![e] = [entry[e] EXCEPT !.is = s]]
  BY <1>1 DEF DecodeBegins, DecodeEnds
<1> DEFINE x == [entry[e] EXCEPT !.is = s]
<1>3. Kept /\ UNCHANGED <<shared, cached, req>>
  BY <1>1 DEF DecodeBegins, DecodeEnds
<1>4. entry[e] \in EntryType
  BY DEF IInv, TypeOK
<1>5. x \in EntryType /\ x.waiters = entry[e].waiters
  BY <1>4 DEF EntryType
<1> HIDE DEF x
<1>6. /\ entry' \in Seq(EntryType) /\ DOMAIN entry' = DOMAIN entry /\ entry'[e] = x
      /\ \A f \in DOMAIN entry \ {e} : entry'[f] = entry[f]
  BY <1>2, <1>5, EntryChanges DEF IInv, x
<1>7. TypeOK'
  BY <1>3, <1>6 DEF IInv, TypeOK, Kept, state
<1>8. GroupInv' /\ KeyInv' /\ AnswerInv'
  BY <1>3, KeptKeys DEF IInv, AnswerInv
<1>9. HoldInv'
  BY <1>3, <1>5, <1>6, SameHold DEF IInv
<1> QED
  BY <1>7, <1>8, <1>9 DEF IInv

(* InFlightWaiter::drop: the request is no longer a waiter, and the entry is *)
(* gone from the map unless another request still waits for it.              *)
LEMMA DropInv ==
  ASSUME IInv, NEW r \in Requests, req[r].pc = "wait", NEW completed \in BOOLEAN,
         Drops(r, completed), Kept, UNCHANGED cached,
         req' \in [Requests -> RequestType],
         \A q \in Requests \ {r} : req'[q] = req[q],
         req'[r].pc \notin Holding, req'[r].entry = 0,
         req'[r].key \in {req[r].key, NoKey}, req'[r].answer.got # "frame"
  PROVE  IInv'
<1>0. PICK e : e = req[r].entry
  OBVIOUS
<1> DEFINE held == \E q \in Requests \ {r} : req[q].entry = e
           x == [entry[e] EXCEPT !.waiters = @ - 1,
                                 !.is = IF held \/ completed THEN @ ELSE "dropped"]
<1>1. /\ entry' = [entry EXCEPT ![e] = x]
      /\ shared' = IF completed \/ entry[e].waiters = 1 THEN shared \ {e} ELSE shared
  BY <1>0 DEF Drops
<1>2. e \in DOMAIN entry /\ entry[e] \in EntryType
  BY <1>0 DEF IInv, TypeOK, HoldInv, Holding
<1>3. /\ IsFiniteSet(Waiting(e)) /\ r \in Waiting(e)
      /\ entry[e].waiters = Cardinality(Waiting(e))
  BY <1>0, <1>2, WaitingFinite DEF Waiting, IInv, HoldInv, Counted
<1>4. entry[e].waiters \in Nat \ {0}
  BY <1>3, FS_EmptySet, FS_CardinalityType
<1>5. x \in EntryType /\ x.waiters = entry[e].waiters - 1
  <2> DEFINE w == entry[e].waiters - 1
             s == IF held \/ completed THEN entry[e].is ELSE "dropped"
  <2>1. w \in Nat /\ s \in {"new", "decoding", "decoded", "failed", "dropped"}
    BY <1>2, <1>4 DEF EntryType
  <2> HIDE DEF w, s
  <2>2. /\ [entry[e] EXCEPT !.waiters = w, !.is = s] \in EntryType
        /\ [entry[e] EXCEPT !.waiters = w, !.is = s].waiters = w
    BY <1>2, <2>1 DEF EntryType
  <2> QED
    BY <2>2 DEF w, s
<1> HIDE DEF x
<1>6. /\ entry' \in Seq(EntryType) /\ DOMAIN entry' = DOMAIN entry /\ entry'[e] = x
      /\ \A f \in DOMAIN entry \ {e} : entry'[f] = entry[f]
  BY <1>1, <1>2, <1>5, EntryChanges DEF IInv
<1>7. TypeOK'
  BY <1>1, <1>6 DEF IInv, TypeOK, Kept, state
<1>8. GroupInv' /\ KeyInv' /\ AnswerInv'
  <2>1. \A q \in Requests : req'[q].key \in {req[q].key, NoKey}
    OBVIOUS
  <2> QED
    BY <2>1, KeptKeys DEF IInv, AnswerInv
<1>9. Waiting(e)' = Waiting(e) \ {r}
  BY <1>0 DEF Waiting, Holding
<1>10. \A f \in DOMAIN entry \ {e} : Waiting(f)' = Waiting(f)
  BY <1>0 DEF Waiting, Holding
<1>11. Cardinality(Waiting(e)') = Cardinality(Waiting(e)) - 1
  BY <1>3, <1>9, FS_RemoveElement
<1>12. Counted'
  BY <1>2, <1>3, <1>5, <1>6, <1>10, <1>11 DEF IInv, HoldInv, Counted
<1>13. EntriesAreHeld'
  <2> SUFFICES ASSUME NEW f \in shared' PROVE \E q \in Requests : req'[q].entry = f
    BY DEF EntriesAreHeld
  <2>1. CASE f # e
    <3>1. PICK q \in Requests : req[q].entry = f
      BY <1>1 DEF IInv, HoldInv, EntriesAreHeld
    <3> QED
      BY <1>0, <2>1, <3>1
  <2>2. CASE f = e
    <3>1. Cardinality(Waiting(e)) # 1
      BY <1>1, <1>3, <2>2
    <3>2. Waiting(e) # {r}
      BY <1>3, <3>1, FS_Singleton
    <3>3. PICK q \in Waiting(e) : q # r
      BY <1>3, <3>2
    <3> QED
      BY <2>2, <3>3 DEF Waiting
  <2> QED
    BY <2>1, <2>2
<1>14. HoldInv'
  BY <1>6, <1>12, <1>13 DEF IInv, HoldInv
<1> QED
  BY <1>7, <1>8, <1>14 DEF IInv

LEMMA ReceiveInv ==
  ASSUME IInv, NEW r \in Requests, Receive(r)
  PROVE  IInv'
<1> DEFINE v == [req[r] EXCEPT !.pc = entry[req[r].entry].is, !.entry = 0]
<1>1. /\ req[r].pc = "wait" /\ entry[req[r].entry].is \in {"decoded", "failed"}
      /\ Drops(r, TRUE) /\ Kept /\ cached' = cached
      /\ req' = [req EXCEPT ![r] = v]
  BY DEF Receive, At
<1>2. req \in [Requests -> RequestType] /\ req[r].answer.got # "frame"
  BY <1>1 DEF IInv, TypeOK, AnswerInv
<1>3. /\ v \in RequestType /\ v.pc \in {"decoded", "failed"} /\ v.entry = 0
      /\ v.key = req[r].key /\ v.answer = req[r].answer
  BY <1>1, <1>2 DEF RequestType, Places
<1> HIDE DEF v
<1>4. /\ req' \in [Requests -> RequestType] /\ req'[r] = v
      /\ \A q \in Requests \ {r} : req'[q] = req[q]
  BY <1>1, <1>2, <1>3
<1> QED
  BY <1>1, <1>2, <1>3, <1>4, DropInv DEF Holding

LEMMA CancelInv ==
  ASSUME IInv, NEW r \in Requests, Cancel(r)
  PROVE  IInv'
<1>1. req' = [req EXCEPT ![r] = Idle] /\ Kept /\ cached' = cached
  BY DEF Cancel
<1>2. /\ Idle \in RequestType /\ Idle.pc = "idle" /\ Idle.entry = 0
      /\ Idle.key = NoKey /\ Idle.answer.got # "frame"
  BY DEF Idle, RequestType, Places, AnswerType, Nothing, NoKey, Keys
<1>3. /\ req' \in [Requests -> RequestType] /\ req'[r] = Idle
      /\ \A q \in Requests \ {r} : req'[q] = req[q]
  BY <1>1, <1>2 DEF IInv, TypeOK
<1>4. CASE At(r, "wait") /\ Drops(r, FALSE)
  BY <1>1, <1>2, <1>3, <1>4, DropInv DEF At, Holding
<1>5. CASE At(r, "await") /\ UNCHANGED <<entry, shared, budget>>
  <2>1. req[r].entry = 0 /\ req[r].pc = "await"
    BY <1>5 DEF At, IInv, HoldInv, Holding
  <2>2. \A q \in Requests : /\ req'[q].entry = req[q].entry
                            /\ req'[q].pc = "wait" <=> req[q].pc = "wait"
                            /\ req'[q].pc \in Holding <=> req[q].pc \in Holding
    BY <1>2, <1>3, <2>1 DEF Holding
  <2>3. HoldInv'
    BY <1>5, <2>2, SameHold DEF IInv
  <2>4. TypeOK'
    BY <1>1, <1>3, <1>5 DEF IInv, TypeOK, Kept, state
  <2>5. \A q \in Requests : req'[q].key \in {req[q].key, NoKey}
    BY <1>2, <1>3
  <2>6. GroupInv' /\ KeyInv' /\ AnswerInv'
    BY <1>1, <1>2, <1>3, <2>5, KeptKeys DEF IInv, AnswerInv
  <2> QED
    BY <2>3, <2>4, <2>6 DEF IInv
<1> QED
  BY <1>4, <1>5 DEF Cancel

-----------------------------------------------------------------------------
LEMMA StepInv == IInv /\ [Next]_vars => IInv'
<1> SUFFICES ASSUME IInv, [Next]_vars PROVE IInv'
  OBVIOUS
<1>1. CASE Feed
  BY <1>1, ConfigInv, KeyFrameInv, DeltaInv DEF Feed
<1>2. ASSUME NEW r \in Requests, Ask(r) \/ Cancel(r) \/ Moves(r) PROVE IInv'
  BY <1>2, AloneInv, JoinInv, CountInv, ReceiveInv, CancelInv DEF Moves, Alone
<1>3. CASE Decodes
  BY <1>3, DecodesInv
<1>4. CASE Ages
  <2>1. Kept /\ UNCHANGED <<entry, shared, req>>
    BY <1>4 DEF Ages
  <2>2. cached' \in ResultType /\ cached'.key = cached.key
    BY <1>4 DEF Ages, IInv, TypeOK, ResultType
  <2>3. HoldInv' /\ AnswerInv'
    BY <2>1, SameHold DEF IInv, AnswerInv
  <2>4. TypeOK' /\ GroupInv'
    BY <2>1, <2>2 DEF IInv, TypeOK, GroupInv, GopIsDecodable, Kept, state
  <2>5. KeyInv'
    BY <2>1, <2>2 DEF IInv, KeyInv, Recent, Current, SameGeneration, Kept, state
  <2> QED
    BY <2>3, <2>4, <2>5 DEF IInv
<1>5. CASE UNCHANGED vars
  <2>1. HoldInv' /\ AnswerInv'
    BY <1>5, SameHold DEF vars, IInv, AnswerInv
  <2>2. TypeOK' /\ GroupInv'
    BY <1>5 DEF vars, state, IInv, TypeOK, GroupInv, GopIsDecodable
  <2>3. KeyInv'
    BY <1>5 DEF vars, state, IInv, KeyInv, Recent, Current, SameGeneration
  <2> QED
    BY <2>1, <2>2, <2>3 DEF IInv
<1> QED
  BY <1>1, <1>2, <1>3, <1>4, <1>5 DEF Next

LEMMA Invariant == Spec => []IInv
  BY InitInv, StepInv, PTL DEF Spec

(* The values of the state, of entries, requests and results (frames.rs)     *)
(* have their types, the count of the waiters of an entry among them.        *)
THEOREM TypeCorrect == Spec => []TypeOK
<1>1. IInv => TypeOK
  BY DEF IInv
<1> QED
  BY <1>1, Invariant, PTL

(* The group of pictures is decodable with the parameter set in front of it  *)
(* (feed), and every entry of the in-flight map has a request that waits for *)
(* it or is about to (InFlightWaiter::drop), however many requests join,     *)
(* leave and are dropped.                                                    *)
THEOREM SoundCache == Spec => []CacheIsSound
<1>1. IInv => CacheIsSound
  BY DEF IInv, GroupInv, HoldInv, CacheIsSound
<1> QED
  BY <1>1, Invariant, PTL

(* No request is given a picture of a group that was replaced, whatever was  *)
(* fed while the picture was decoded or kept (is_snapshot_current).          *)
THEOREM CurrentPictures == Spec => NeverSuperseded
<1>1. IInv /\ [Next]_vars =>
        [\A r \in Requests :
           ~At(r, "answered") /\ req'[r].answer.got = "frame" =>
               /\ gop' # <<>>
               /\ gop'[1].seq <= req'[r].answer.picture]_vars
  <2> SUFFICES ASSUME IInv, Next, NEW r \in Requests, ~At(r, "answered"),
                      req'[r].answer.got = "frame"
               PROVE  gop' # <<>> /\ gop'[1].seq <= req'[r].answer.picture
    OBVIOUS
  <2>1. req[r].answer.got # "frame"
    BY DEF IInv, AnswerInv, At
  <2>2. PICK q \in Requests : Ask(q) \/ Cancel(q) \/ Moves(q)
    <3>1. ~Feed /\ ~Decodes /\ ~Ages
      BY <2>1 DEF Feed, FeedConfig, FeedKey, FeedDelta, Others, Decodes, DecodeBegins,
                  DecodeEnds, Ages
    <3> QED
      BY <3>1 DEF Next
  <2>3. CASE Alone(q)
    BY <2>1, <2>3, AloneMoves DEF Moved, Given
  <2>4. req'[r].pc = "answered"
    BY StepInv DEF IInv, AnswerInv
  <2>5. CASE Join(q) \/ Count(q) \/ Receive(q) \/ Cancel(q)
    <3>1. req'[r].answer = req[r].answer \/ req'[r] = Idle
      <4>1. r \in DOMAIN req /\ "answer" \in DOMAIN req[r]
        BY DEF IInv, TypeOK, RequestType
      <4>2. CASE Join(q)
        BY <4>1, <4>2 DEF Join
      <4>3. CASE Count(q)
        BY <4>1, <4>3 DEF Count
      <4>4. CASE Receive(q)
        BY <4>1, <4>4 DEF Receive
      <4>5. CASE Cancel(q)
        BY <4>1, <4>5 DEF Cancel
      <4> QED
        BY <2>5, <4>2, <4>3, <4>4, <4>5
    <3> QED
      BY <2>1, <3>1 DEF Idle, Nothing
  <2> QED
    BY <2>2, <2>3, <2>5 DEF Alone, Moves
<1> QED
  BY <1>1, Invariant, PTL DEF Spec, NeverSuperseded
=============================================================================
