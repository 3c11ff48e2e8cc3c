------------------------ MODULE ExternalControlProofs ------------------------
(***************************************************************************)
(* Proofs about ExternalControl for every set of clients and users, every  *)
(* set of operations and every bound on calls, captures and faults.        *)
(***************************************************************************)
EXTENDS ExternalControl, SequenceTheorems, TLAPS

(* The theorems about the registry, at the registry of the session. *)
Proved == INSTANCE ControlRegistryProofs WITH
  Owners <- {Session}, MaxTickets <- 0, MaxGen <- MaxCalls + 2 * MaxFaults + 4

Lease   == [owner : {Session, NoOwner}, generation : Nat]
ArgType == [gen : Nat, op : Ops \cup {None}, frame : Nat]

SessionType ==
  [ phase : {"Starting", "Running", "Pausing", "Paused", "Resuming", "Stopping", "Finished"},
    gen : Nat, lease : Lease, obs : Nat, receipts : SUBSET (Nat \X (Ops \cup {None})),
    ending : BOOLEAN, listed : BOOLEAN, run : BOOLEAN, package : BOOLEAN, expired : BOOLEAN ]

SessionTypes ==
  /\ session \in SessionType
  /\ run \in [stop : BOOLEAN, activity : BOOLEAN, over : BOOLEAN]

CallTypes ==
  /\ at \in [Procs -> Places] /\ arg \in [Procs -> ArgType]
  /\ transition \in Procs \cup {None} /\ operation \in Callers \cup {None}
  /\ gaveUp \subseteq {Run, Watch}

HistoryTypes == frames \in Seq(Nat) /\ injected \in Seq(ArgType)

Types == SessionTypes /\ CallTypes /\ HistoryTypes

(* The lease the session keeps was given to it. *)
LeaseInv == session.lease # NoLease => session.lease \in leases

(* Of the registry only what the types of the session rest on. *)
Leases == next \in [Procs -> Lease] /\ leases \subseteq Lease

(* The actions of a step, one by one. *)
LEMMA Actions ==
  ASSUME [Next]_vars
  PROVE  \/ Submit \/ Record \/ RunFails \/ Prepare \/ Acquire \/ Claim \/ Claimed
         \/ LoopEnds \/ LoopPauses \/ RunEnds \/ Panic \/ Expire \/ UNCHANGED vars
         \/ Opens \/ OpeningFails
         \/ \E p \in Procs :
              \/ EnterGate(p) \/ GateOpens(p) \/ CleanupFails(p) \/ RunIsOver(p) \/ GivesUp(p)
              \/ PauseBegins(p) \/ Paused(p) \/ SwitchUnwinds(p)
              \/ ReleaseBegins(p) \/ ReleaseEnds(p) \/ ReleaseFails(p) \/ ReleaseAgain(p)
         \/ \E c \in Callers :
              \/ Call(c) \/ Revoke(c) \/ Stop(c) \/ ReleaseAsked(c)
              \/ ResumeBegins(c) \/ Resumed(c) \/ \E ok \in BOOLEAN : Woken(c, ok)
              \/ CaptureBegins(c) \/ InputBegins(c) \/ OperationRefused(c) \/ OperationFails(c)
              \/ Captured(c) \/ Checked(c) \/ Observe(c) \/ Looks(c)
              \/ \E panics \in BOOLEAN : Inject(c, panics)
<1>1. CASE Environment
  BY <1>1 DEF Environment
<1>2. CASE \E p \in Procs : Step(p)
  <2>1. PICK p \in Procs : Step(p)
    BY <1>2
  <2> QED
    BY <2>1 DEF Step, Pauses, Resumes, Releases, Operates
<1> QED
  BY <1>1, <1>2 DEF Next

(* What is written to a task's place and argument, and to the session. *)
LEMMA Moves ==
  ASSUME at \in [Procs -> Places], arg \in [Procs -> ArgType], NEW p \in Procs, NEW place \in Places
  PROVE  /\ Goes(p, place) => at' \in [Procs -> Places] /\ arg' \in [Procs -> ArgType]
         /\ \A a \in ArgType : GoesWith(p, place, a) =>
               at' \in [Procs -> Places] /\ arg' \in [Procs -> ArgType]
  BY DEF Goes, GoesWith, NoArg, ArgType

LEMMA Receipts ==
  ASSUME arg \in [Procs -> ArgType], NEW c \in Callers
  PROVE  /\ Receipt(c) \in Nat \X (Ops \cup {None})
         /\ \A f \in Nat : [arg[c] EXCEPT !.frame = f] \in ArgType
<1>1. arg[c] \in ArgType
  BY DEF Procs
<1> QED
  BY <1>1 DEF ArgType, Receipt

SessionPhases == {"Starting", "Running", "Pausing", "Paused", "Resuming", "Stopping", "Finished"}

LEMMA Writes ==
  ASSUME NEW s \in SessionType
  PROVE  /\ \A ph \in SessionPhases : [s EXCEPT !.phase = ph] \in SessionType
         /\ [s EXCEPT !.ending = TRUE] \in SessionType
         /\ [s EXCEPT !.run = TRUE] \in SessionType
         /\ [s EXCEPT !.expired = TRUE] \in SessionType
         /\ [s EXCEPT !.listed = FALSE, !.package = FALSE] \in SessionType
         /\ [s EXCEPT !.phase = "Finished", !.package = FALSE] \in SessionType
         /\ [s EXCEPT !.phase = "Pausing", !.obs = 0] \in SessionType
         /\ [s EXCEPT !.phase = "Running", !.obs = 0, !.receipts = {}, !.expired = FALSE] \in SessionType
         /\ [s EXCEPT !.ending = TRUE, !.obs = 0] \in SessionType
         /\ [s EXCEPT !.lease = NoLease] \in SessionType
         /\ Stopped(s) \in SessionType
         /\ [[s EXCEPT !.ending = TRUE, !.obs = 0] EXCEPT !.lease = NoLease] \in SessionType
         /\ \A f \in Nat : [s EXCEPT !.obs = f] \in SessionType
         /\ \A l \in Lease :
              /\ [s EXCEPT !.lease = l, !.gen = l.generation] \in SessionType
              /\ [s EXCEPT !.lease = l, !.gen = l.generation, !.obs = 0, !.phase = "Paused"] \in SessionType
         /\ \A R \in SUBSET (Nat \X (Ops \cup {None})) :
              /\ [s EXCEPT !.receipts = R] \in SessionType
              /\ [s EXCEPT !.obs = 0, !.receipts = R] \in SessionType
<1>1. NoLease \in Lease
  BY DEF NoLease, Registry!NoLease, Lease
<1> USE DEF SessionType
<1>2. /\ \A ph \in SessionPhases : [s EXCEPT !.phase = ph] \in SessionType
      /\ [s EXCEPT !.ending = TRUE] \in SessionType
      /\ [s EXCEPT !.run = TRUE] \in SessionType
      /\ [s EXCEPT !.expired = TRUE] \in SessionType
  BY DEF SessionPhases
<1>3. /\ [s EXCEPT !.listed = FALSE, !.package = FALSE] \in SessionType
      /\ [s EXCEPT !.phase = "Finished", !.package = FALSE] \in SessionType
      /\ [s EXCEPT !.phase = "Pausing", !.obs = 0] \in SessionType
  OBVIOUS
<1>4. [s EXCEPT !.phase = "Running", !.obs = 0, !.receipts = {}, !.expired = FALSE] \in SessionType
  OBVIOUS
<1>5. /\ [s EXCEPT !.ending = TRUE, !.obs = 0] \in SessionType
      /\ [s EXCEPT !.lease = NoLease] \in SessionType
  BY <1>1
<1>6. Stopped(s) \in SessionType
  BY DEF Stopped
<1>7. [[s EXCEPT !.ending = TRUE, !.obs = 0] EXCEPT !.lease = NoLease] \in SessionType
  BY <1>1
<1>8. \A f \in Nat : [s EXCEPT !.obs = f] \in SessionType
  OBVIOUS
<1>9. ASSUME NEW l \in Lease
      PROVE  [s EXCEPT !.lease = l, !.gen = l.generation] \in SessionType
  BY DEF Lease
<1>10. ASSUME NEW l \in Lease
       PROVE  [s EXCEPT !.lease = l, !.gen = l.generation, !.obs = 0, !.phase = "Paused"] \in SessionType
  BY DEF Lease
<1>11. ASSUME NEW R \in SUBSET (Nat \X (Ops \cup {None}))
       PROVE  /\ [s EXCEPT !.receipts = R] \in SessionType
              /\ [s EXCEPT !.obs = 0, !.receipts = R] \in SessionType
  OBVIOUS
<1> HIDE DEF SessionType
<1> QED
  BY <1>2, <1>3, <1>4, <1>5, <1>6, <1>7, <1>8, <1>9, <1>10, <1>11

LEMMA SessionTypesStep ==
  ASSUME Types, Leases, [Next]_vars
  PROVE  SessionTypes'
<1> USE Writes DEF Types, SessionTypes, CallTypes, SessionPhases, ArgType, Leases, Procs
<1>1. CASE Submit
  BY <1>1 DEF Submit
<1>2. CASE Record \/ RunFails \/ Prepare
  BY <1>2 DEF Record, RunFails, Prepare
<1>3. CASE Acquire \/ Claim
  BY <1>3 DEF Acquire, Claim, Leaves
<1>4. CASE Claimed
  BY <1>4 DEF Claimed
<1>5. ASSUME Opens \/ OpeningFails PROVE SessionTypes'
  BY <1>5 DEF Opens, Cleaned, Prepared, Traced, OpeningFails, Leaves
<1>6. CASE LoopEnds \/ LoopPauses \/ RunEnds
  BY <1>6 DEF LoopEnds, LoopPauses, RunEnds
<1>7. CASE Panic
  BY <1>7 DEF Panic
<1>8. ASSUME NEW p \in Procs, EnterGate(p) \/ GateOpens(p) \/ CleanupFails(p) PROVE SessionTypes'
  BY <1>8 DEF EnterGate, GateOpens, CleanupFails, Own
<1>9. ASSUME NEW p \in Procs, PauseBegins(p) PROVE SessionTypes'
  BY <1>9 DEF PauseBegins, Back
<1>10. ASSUME NEW p \in Procs, Paused(p) PROVE SessionTypes'
  BY <1>10 DEF Paused, Back
<1>11. ASSUME NEW p \in Procs, SwitchUnwinds(p) PROVE SessionTypes'
  BY <1>11 DEF SwitchUnwinds, Back
<1>12. ASSUME NEW c \in Callers, ResumeBegins(c) PROVE SessionTypes'
  BY <1>12 DEF ResumeBegins
<1>13. ASSUME NEW c \in Callers, Resumed(c) PROVE SessionTypes'
  BY <1>13 DEF Resumed
<1>14. ASSUME NEW c \in Callers, NEW ok \in BOOLEAN, Woken(c, ok) PROVE SessionTypes'
  BY <1>14 DEF Woken
<1>15. ASSUME NEW p \in Procs, ReleaseBegins(p) PROVE SessionTypes'
  <2>1. /\ [session EXCEPT !.ending = TRUE, !.obs = 0] \in SessionType
        /\ [[session EXCEPT !.ending = TRUE, !.obs = 0] EXCEPT !.lease = NoLease] \in SessionType
    BY Writes
  <2>2. session' \in SessionType
    BY <1>15, <2>1, Writes DEF ReleaseBegins, Released
  <2> QED
    BY <1>15, <2>2 DEF ReleaseBegins
<1>16. ASSUME NEW p \in Procs, ReleaseEnds(p) PROVE SessionTypes'
  BY <1>16 DEF ReleaseEnds, Released
<1>17. ASSUME NEW p \in Procs, ReleaseFails(p) \/ ReleaseAgain(p) \/ RunIsOver(p) PROVE SessionTypes'
  BY <1>17 DEF ReleaseFails, ReleaseAgain, RunIsOver
<1>18. ASSUME NEW p \in Procs, GivesUp(p) PROVE SessionTypes'
  BY <1>18 DEF GivesUp
<1>19. ASSUME NEW c \in Callers, Call(c) PROVE SessionTypes'
  BY <1>19 DEF Call
<1>20. ASSUME NEW c \in Callers, Revoke(c) PROVE SessionTypes'
  BY <1>20 DEF Revoke
<1>21. ASSUME NEW c \in Callers, Stop(c) \/ ReleaseAsked(c) PROVE SessionTypes'
  BY <1>21 DEF Stop, ReleaseAsked, Stops
<1>22. CASE Expire
  BY <1>22 DEF Expire
<1>23. ASSUME NEW c \in Callers, CaptureBegins(c) PROVE SessionTypes'
  BY <1>23 DEF CaptureBegins, OperationBegins
<1>24. ASSUME NEW c \in Callers, InputBegins(c) PROVE SessionTypes'
  <2>1. session.receipts \cup {Receipt(c)} \in SUBSET (Nat \X (Ops \cup {None}))
    <3>1. session.receipts \in SUBSET (Nat \X (Ops \cup {None}))
      BY DEF SessionType
    <3>2. Receipt(c) \in Nat \X (Ops \cup {None})
      BY Receipts
    <3> QED
      BY <3>1, <3>2, Zenon
  <2> QED
    BY <1>24, <2>1 DEF InputBegins, OperationBegins
<1>25. ASSUME NEW c \in Callers, OperationRefused(c) \/ OperationFails(c) PROVE SessionTypes'
  BY <1>25 DEF OperationRefused, OperationFails
<1>26. ASSUME NEW c \in Callers, Captured(c) PROVE SessionTypes'
  BY <1>26 DEF Captured
<1>27. ASSUME NEW c \in Callers, Observe(c) PROVE SessionTypes'
  BY <1>27 DEF Observe
<1>28. ASSUME NEW c \in Callers, Checked(c) \/ Looks(c) PROVE SessionTypes'
  BY <1>28 DEF Checked, Looks
<1>29. ASSUME NEW c \in Callers, NEW panics \in BOOLEAN, Inject(c, panics) PROVE SessionTypes'
  <2>1. /\ session.receipts \in SUBSET (Nat \X (Ops \cup {None}))
        /\ session.receipts \cup {Receipt(c)} \in SUBSET (Nat \X (Ops \cup {None}))
    <3>1. session.receipts \in SUBSET (Nat \X (Ops \cup {None}))
      BY DEF SessionType
    <3>2. Receipt(c) \in Nat \X (Ops \cup {None})
      BY Receipts
    <3> QED
      BY <3>1, <3>2, Zenon
  <2> QED
    BY <1>29, <2>1 DEF Inject
<1>30. CASE UNCHANGED vars
  BY <1>30 DEF vars, registry
<1> HIDE DEF SessionTypes
<1> QED
  BY Actions, <1>1, <1>2, <1>3, <1>4, <1>5, <1>6, <1>7, <1>8, <1>9, <1>10, <1>11, <1>12,
      <1>13, <1>14, <1>15, <1>16, <1>17, <1>18, <1>19, <1>20, <1>21, <1>22, <1>23, <1>24,
      <1>25, <1>26, <1>27, <1>28, <1>29, <1>30

LEMMA CallTypesStep ==
  ASSUME Types, Leases, [Next]_vars
  PROVE  CallTypes'
<1> USE ProcsAssumption, Moves DEF Types, SessionTypes, CallTypes, HistoryTypes,
    SessionType, ArgType, Lease, Leases, Procs, NoArg, Same, history, locks, Places
<1>1. CASE Submit
  BY <1>1, SMTT(30) DEF Submit
<1>2. CASE Record \/ RunFails \/ Prepare
  BY <1>2 DEF Record, RunFails, Prepare
<1>3. CASE Acquire \/ Claim
  BY <1>3 DEF Acquire, Claim, Leaves
<1>4. CASE Claimed
  <2>1. Run \in Procs /\ "clean" \in Places
        /\ [NoArg EXCEPT !.gen = next[Run].generation] \in ArgType
    OBVIOUS
  <2>2. GoesWith(Run, "clean", [NoArg EXCEPT !.gen = next[Run].generation])
    BY <1>4 DEF Claimed
  <2>3. at' \in [Procs -> Places] /\ arg' \in [Procs -> ArgType]
    <3> HIDE DEF Procs, Places, ArgType, NoArg
    <3> QED
      BY <2>1, <2>2, Moves
  <2> QED
    BY <1>4, <2>3 DEF Claimed
<1>5. ASSUME Opens \/ OpeningFails PROVE CallTypes'
  BY <1>5 DEF Opens, Cleaned, Prepared, Traced, OpeningFails, Leaves
<1>6. CASE LoopEnds \/ LoopPauses \/ RunEnds
  <2>1. Run \in Procs /\ {"release", "over", "pause"} \subseteq Places
        /\ [NoArg EXCEPT !.gen = session.gen] \in ArgType
    OBVIOUS
  <2>2. \/ Goes(Run, "release") \/ Goes(Run, "over")
        \/ GoesWith(Run, "pause", [NoArg EXCEPT !.gen = session.gen])
    BY <1>6 DEF LoopEnds, LoopPauses, RunEnds
  <2>3. at' \in [Procs -> Places] /\ arg' \in [Procs -> ArgType]
    <3> HIDE DEF Procs, Places, ArgType, NoArg
    <3> QED
      BY <2>1, <2>2, Moves
  <2> QED
    BY <1>6, <2>3 DEF LoopEnds, LoopPauses, RunEnds
<1>7. CASE Panic
  BY <1>7 DEF Panic
<1>8. ASSUME NEW p \in Procs, EnterGate(p) \/ GateOpens(p) \/ CleanupFails(p) PROVE CallTypes'
  <2>1. UNCHANGED <<at, arg, transition, operation, gaveUp>>
    BY <1>8 DEF EnterGate, GateOpens, CleanupFails, Own
  <2> HIDE DEF SessionType, ArgType, Places, Procs
  <2> QED
    BY <2>1
<1>9. ASSUME NEW p \in Procs, PauseBegins(p) PROVE CallTypes'
  BY <1>9 DEF PauseBegins, Back
<1>10. ASSUME NEW p \in Procs, Paused(p) PROVE CallTypes'
  BY <1>10 DEF Paused, Back
<1>11. ASSUME NEW p \in Procs, SwitchUnwinds(p) PROVE CallTypes'
  BY <1>11 DEF SwitchUnwinds, Back
<1>12. ASSUME NEW c \in Callers, ResumeBegins(c) PROVE CallTypes'
  BY <1>12 DEF ResumeBegins
<1>13. ASSUME NEW c \in Callers, Resumed(c) PROVE CallTypes'
  <2>1. c \in Procs /\ "waking" \in Places
        /\ [NoArg EXCEPT !.gen = next[c].generation] \in ArgType
    OBVIOUS
  <2>2. GoesWith(c, "waking", [NoArg EXCEPT !.gen = next[c].generation])
    BY <1>13 DEF Resumed
  <2>3. at' \in [Procs -> Places] /\ arg' \in [Procs -> ArgType]
    <3> HIDE DEF Procs, Places, ArgType, NoArg
    <3> QED
      BY <2>1, <2>2, Moves
  <2> QED
    BY <1>13, <2>3 DEF Resumed
<1>14. ASSUME NEW c \in Callers, NEW ok \in BOOLEAN, Woken(c, ok) PROVE CallTypes'
  BY <1>14 DEF Woken
<1>15. ASSUME NEW p \in Procs, ReleaseBegins(p) PROVE CallTypes'
  BY <1>15 DEF ReleaseBegins, Released
<1>16. ASSUME NEW p \in Procs, ReleaseEnds(p) PROVE CallTypes'
  BY <1>16 DEF ReleaseEnds, Released
<1>17. ASSUME NEW p \in Procs, ReleaseFails(p) \/ ReleaseAgain(p) \/ RunIsOver(p) PROVE CallTypes'
  BY <1>17 DEF ReleaseFails, ReleaseAgain, RunIsOver
<1>18. ASSUME NEW p \in Procs, GivesUp(p) PROVE CallTypes'
  BY <1>18 DEF GivesUp
<1>19. ASSUME NEW c \in Callers, Call(c) PROVE CallTypes'
  <2>1. PICK place \in {"pause", "ask", "shoot", "input", "resume", "stop"}, a \in ArgType :
          GoesWith(c, place, a)
    <3>1. \E place \in {"pause", "ask", "shoot", "input", "resume", "stop"}, op \in Ops,
             f \in 1..Len(frames) \cup {0} :
            GoesWith(c, place, IF place \in {"resume", "stop"} THEN NoArg
                               ELSE [gen |-> session.gen, op |-> IF f = 0 THEN None ELSE op,
                                     frame |-> f])
      BY <1>19 DEF Call
    <3>2. session.gen \in Nat /\ NoArg \in ArgType
      BY DEF SessionType
    <3>3. \A op \in Ops, f \in 1..Len(frames) \cup {0} :
            [gen |-> session.gen, op |-> IF f = 0 THEN None ELSE op, frame |-> f] \in ArgType
      BY <3>2
    <3> HIDE DEF ArgType, NoArg
    <3> QED
      BY <3>1, <3>2, <3>3, Zenon
  <2>2. at' \in [Procs -> Places] /\ arg' \in [Procs -> ArgType]
    <3>1. c \in Procs /\ place \in Places
      OBVIOUS
    <3> HIDE DEF Procs, Places, ArgType
    <3> QED
      BY <2>1, <3>1, Moves
  <2> QED
    BY <1>19, <2>2 DEF Call
<1>20. ASSUME NEW c \in Callers, Revoke(c) PROVE CallTypes'
  BY <1>20 DEF Revoke
<1>21. ASSUME NEW c \in Callers, Stop(c) \/ ReleaseAsked(c) PROVE CallTypes'
  BY <1>21 DEF Stop, ReleaseAsked, Stops
<1>22. CASE Expire
  BY <1>22 DEF Expire
<1>23. ASSUME NEW c \in Callers, CaptureBegins(c) PROVE CallTypes'
  BY <1>23 DEF CaptureBegins, OperationBegins
<1>24. ASSUME NEW c \in Callers, InputBegins(c) PROVE CallTypes'
  BY <1>24 DEF InputBegins, OperationBegins, Receipt
<1>25. ASSUME NEW c \in Callers, OperationRefused(c) \/ OperationFails(c) PROVE CallTypes'
  BY <1>25 DEF OperationRefused, OperationFails
<1>26. ASSUME NEW c \in Callers, Captured(c) PROVE CallTypes'
  <2>1. Len(frames') \in Nat
    BY <1>26, AppendProperties, LenProperties DEF Captured
  <2>2. [arg[c] EXCEPT !.frame = Len(frames')] \in ArgType
    BY <2>1, Receipts
  <2> QED
    BY <1>26, <2>2 DEF Captured
<1>27. ASSUME NEW c \in Callers, Observe(c) PROVE CallTypes'
  BY <1>27 DEF Observe
<1>28. ASSUME NEW c \in Callers, Checked(c) \/ Looks(c) PROVE CallTypes'
  BY <1>28 DEF Checked, Looks
<1>29. ASSUME NEW c \in Callers, NEW panics \in BOOLEAN, Inject(c, panics) PROVE CallTypes'
  BY <1>29 DEF Inject, Receipt
<1>30. CASE UNCHANGED vars
  BY <1>30 DEF vars, registry
<1> HIDE DEF CallTypes
<1> QED
  BY Actions, <1>1, <1>2, <1>3, <1>4, <1>5, <1>6, <1>7, <1>8, <1>9, <1>10, <1>11, <1>12,
      <1>13, <1>14, <1>15, <1>16, <1>17, <1>18, <1>19, <1>20, <1>21, <1>22, <1>23, <1>24,
      <1>25, <1>26, <1>27, <1>28, <1>29, <1>30

LEMMA HistoryTypesStep ==
  ASSUME Types, Leases, [Next]_vars
  PROVE  HistoryTypes'
<1> USE AppendProperties DEF Types, HistoryTypes, CallTypes, ArgType, Same, history, Procs
<1>1. CASE Submit
  BY <1>1 DEF Submit
<1>2. CASE Record \/ RunFails \/ Prepare
  BY <1>2 DEF Record, RunFails, Prepare
<1>3. CASE Acquire \/ Claim
  BY <1>3 DEF Acquire, Claim, Leaves
<1>4. CASE Claimed
  BY <1>4 DEF Claimed
<1>5. ASSUME Opens \/ OpeningFails PROVE HistoryTypes'
  BY <1>5 DEF Opens, Cleaned, Prepared, Traced, OpeningFails, Leaves
<1>6. CASE LoopEnds \/ LoopPauses \/ RunEnds
  BY <1>6 DEF LoopEnds, LoopPauses, RunEnds
<1>7. CASE Panic
  BY <1>7 DEF Panic
<1>8. ASSUME NEW p \in Procs, EnterGate(p) \/ GateOpens(p) \/ CleanupFails(p) PROVE HistoryTypes'
  BY <1>8 DEF EnterGate, GateOpens, CleanupFails, Own
<1>9. ASSUME NEW p \in Procs, PauseBegins(p) PROVE HistoryTypes'
  BY <1>9 DEF PauseBegins, Back
<1>10. ASSUME NEW p \in Procs, Paused(p) PROVE HistoryTypes'
  BY <1>10 DEF Paused, Back
<1>11. ASSUME NEW p \in Procs, SwitchUnwinds(p) PROVE HistoryTypes'
  BY <1>11 DEF SwitchUnwinds, Back
<1>12. ASSUME NEW c \in Callers, ResumeBegins(c) PROVE HistoryTypes'
  BY <1>12 DEF ResumeBegins
<1>13. ASSUME NEW c \in Callers, Resumed(c) PROVE HistoryTypes'
  BY <1>13 DEF Resumed
<1>14. ASSUME NEW c \in Callers, NEW ok \in BOOLEAN, Woken(c, ok) PROVE HistoryTypes'
  BY <1>14 DEF Woken
<1>15. ASSUME NEW p \in Procs, ReleaseBegins(p) PROVE HistoryTypes'
  BY <1>15 DEF ReleaseBegins, Released
<1>16. ASSUME NEW p \in Procs, ReleaseEnds(p) PROVE HistoryTypes'
  BY <1>16 DEF ReleaseEnds, Released
<1>17. ASSUME NEW p \in Procs, ReleaseFails(p) \/ ReleaseAgain(p) \/ RunIsOver(p) PROVE HistoryTypes'
  BY <1>17 DEF ReleaseFails, ReleaseAgain, RunIsOver
<1>18. ASSUME NEW p \in Procs, GivesUp(p) PROVE HistoryTypes'
  BY <1>18 DEF GivesUp
<1>19. ASSUME NEW c \in Callers, Call(c) PROVE HistoryTypes'
  BY <1>19 DEF Call
<1>20. ASSUME NEW c \in Callers, Revoke(c) PROVE HistoryTypes'
  BY <1>20 DEF Revoke
<1>21. ASSUME NEW c \in Callers, Stop(c) \/ ReleaseAsked(c) PROVE HistoryTypes'
  BY <1>21 DEF Stop, ReleaseAsked, Stops
<1>22. CASE Expire
  BY <1>22 DEF Expire
<1>23. ASSUME NEW c \in Callers, CaptureBegins(c) PROVE HistoryTypes'
  BY <1>23 DEF CaptureBegins, OperationBegins
<1>24. ASSUME NEW c \in Callers, InputBegins(c) PROVE HistoryTypes'
  BY <1>24 DEF InputBegins, OperationBegins, Receipt
<1>25. ASSUME NEW c \in Callers, OperationRefused(c) \/ OperationFails(c) PROVE HistoryTypes'
  BY <1>25 DEF OperationRefused, OperationFails
<1>26. ASSUME NEW c \in Callers, Captured(c) PROVE HistoryTypes'
  BY <1>26 DEF Captured
<1>27. ASSUME NEW c \in Callers, Observe(c) PROVE HistoryTypes'
  BY <1>27 DEF Observe
<1>28. ASSUME NEW c \in Callers, Checked(c) \/ Looks(c) PROVE HistoryTypes'
  BY <1>28 DEF Checked, Looks
<1>29. ASSUME NEW c \in Callers, NEW panics \in BOOLEAN, Inject(c, panics) PROVE HistoryTypes'
  BY <1>29 DEF Inject, Receipt
<1>30. CASE UNCHANGED vars
  BY <1>30 DEF vars, registry
<1> HIDE DEF HistoryTypes
<1> QED
  BY Actions, <1>1, <1>2, <1>3, <1>4, <1>5, <1>6, <1>7, <1>8, <1>9, <1>10, <1>11, <1>12,
      <1>13, <1>14, <1>15, <1>16, <1>17, <1>18, <1>19, <1>20, <1>21, <1>22, <1>23, <1>24,
      <1>25, <1>26, <1>27, <1>28, <1>29, <1>30

-----------------------------------------------------------------------------
(* What the invariant of the registry says of its state. *)

Switches == {"switching", "cleaning", "unwinding"}

RegistryFacts ==
  /\ next \in [Procs -> Lease] /\ original \in [Procs -> Lease] /\ leases \subseteq Lease
  /\ pc \in [Procs -> Registry!PCs] /\ identity \in [Procs -> Registry!Identity]
  /\ after \in [Procs -> {"Idle", "Running", "Paused"}]
  /\ generation \in Nat /\ owner \in {Session, NoOwner}
  /\ phase = "Idle" <=> owner = NoOwner
  /\ \A l \in leases : l.owner = Session
  /\ phase \in {"Running", "Paused"}
       => \E l \in leases : l.owner = owner /\ l.generation = generation
  /\ \A p \in Procs : pc[p] \in Switches \cup {"claiming"} =>
       /\ \A q \in Procs : pc[q] \in Switches \cup {"claiming"} => q = p
       /\ next[p].generation = generation /\ next[p].owner = owner /\ owner = Session
       /\ phase \in {"Pausing", "Resuming", "Stopping"}
       /\ pc[p] = "claiming" => phase = "Resuming"
       /\ \A l \in leases : l.generation < generation
       /\ pc[p] # "claiming" => original[p] \in leases
  /\ \A p \in Procs : pc[p] = "inside" /\ identity[p].kind = "owned"
       => owner = identity[p].owner

LEMMA FromRegistry ==
  ASSUME Proved!IInv
  PROVE  RegistryFacts
<1> USE SessionAssumption DEF Proved!IInv, Switches
<1>1. /\ next \in [Procs -> Lease] /\ original \in [Procs -> Lease] /\ leases \subseteq Lease
      /\ pc \in [Procs -> Registry!PCs] /\ identity \in [Procs -> Registry!Identity]
      /\ after \in [Procs -> {"Idle", "Running", "Paused"}]
      /\ generation \in Nat /\ owner \in {Session, NoOwner}
  BY DEF Proved!TypeOK, Proved!Lease, Lease, Proved!PCs, Registry!PCs,
     Proved!Identity, Registry!Identity
<1>2. /\ phase = "Idle" <=> owner = NoOwner
      /\ \A l \in leases : l.owner = Session
  BY DEF Proved!FreeInv, Proved!LeaseInv
<1>3. ASSUME NEW p \in Procs, pc[p] \in Switches \cup {"claiming"}
      PROVE  /\ \A q \in Procs : pc[q] \in Switches \cup {"claiming"} => q = p
             /\ next[p].generation = generation /\ next[p].owner = owner /\ owner = Session
             /\ phase \in {"Pausing", "Resuming", "Stopping"}
             /\ pc[p] = "claiming" => phase = "Resuming"
             /\ \A l \in leases : l.generation < generation
             /\ pc[p] # "claiming" => original[p] \in leases
  BY <1>3 DEF Proved!FlightInv, Proved!InFlight, Proved!Holds
<1>4. phase \in {"Running", "Paused"}
        => \E l \in leases : l.owner = owner /\ l.generation = generation
  BY DEF Proved!AlwaysStoppable, Proved!FlightInv, Proved!InFlight, Proved!Holds
<1>5. \A p \in Procs : pc[p] = "inside" /\ identity[p].kind = "owned"
        => owner = identity[p].owner
  BY DEF Proved!NoMixedInput, Proved!Admitted
<1> QED
  BY <1>1, <1>2, <1>3, <1>4, <1>5 DEF RegistryFacts

(* The registry the theorems are about is the registry of the session. *)
LEMMA Bridge ==
  ASSUME NEW p \in Procs
  PROVE  /\ Registry!Claim(p, Session) => Proved!Next
         /\ Registry!ClaimGranted(p) \/ Registry!ClaimDropped(p) => Proved!Next
         /\ Registry!Acquire(p) \/ Registry!Turned(p) \/ Registry!Leave(p) => Proved!Next
         /\ Registry!Switch(p) \/ Registry!SwitchFailed(p) => Proved!Next
         /\ Registry!Switched(p) \/ Registry!SwitchDropped(p) => Proved!Next
         /\ \A l \in leases :
              /\ Registry!Enter(p, Registry!Owned(l)) => Proved!Next
              /\ Registry!Pause(p, l) \/ Registry!Resume(p, l) \/ Registry!Release(p, l)
                   => Proved!Next
         /\ UNCHANGED registry => UNCHANGED Proved!vars
<1> USE DEF Registry!state, Registry!locals, Registry!ghosts, Proved!state, Proved!locals,
       Proved!ghosts, Registry!Return, Proved!Return, Registry!Holds, Proved!Holds,
       Registry!NoLease, Proved!NoLease, Registry!NoIdentity, Proved!NoIdentity,
       Registry!Cleanup, Proved!Cleanup, Registry!Check, Proved!Check,
       Registry!Owned, Proved!Owned, Registry!Transition, Proved!Transition
<1>1. Registry!Claim(p, Session) => Proved!Claim(p, Session)
  BY DEF Registry!Claim, Proved!Claim
<1>2. /\ Registry!ClaimGranted(p) => Proved!ClaimGranted(p)
      /\ Registry!ClaimDropped(p) => Proved!ClaimDropped(p)
  BY DEF Registry!ClaimGranted, Proved!ClaimGranted, Registry!ClaimDropped, Proved!ClaimDropped
<1>3. /\ Registry!Acquire(p) => Proved!Acquire(p)
      /\ Registry!Turned(p) => Proved!Turned(p)
      /\ Registry!Leave(p) => Proved!Leave(p)
  BY DEF Registry!Acquire, Proved!Acquire, Registry!Turned, Proved!Turned,
     Registry!Leave, Proved!Leave
<1>4. /\ Registry!Switch(p) => Proved!Switch(p)
      /\ Registry!SwitchFailed(p) => Proved!SwitchFailed(p)
  BY DEF Registry!Switch, Proved!Switch, Registry!SwitchFailed, Proved!SwitchFailed
<1>5. /\ Registry!Switched(p) => Proved!Switched(p)
      /\ Registry!SwitchDropped(p) => Proved!SwitchDropped(p)
  BY DEF Registry!Switched, Proved!Switched, Registry!SwitchDropped, Proved!SwitchDropped
<1>6. ASSUME NEW l \in leases
      PROVE  /\ Registry!Enter(p, Registry!Owned(l)) => Proved!Enter(p, Proved!Owned(l))
             /\ Registry!Pause(p, l) => Proved!Pause(p, l)
             /\ Registry!Resume(p, l) => Proved!Resume(p, l)
             /\ Registry!Release(p, l) => Proved!Release(p, l)
  BY DEF Registry!Enter, Proved!Enter, Registry!Pause, Proved!Pause, Registry!Resume,
     Proved!Resume, Registry!Release, Proved!Release
<1>7. \A l \in leases : Proved!Owned(l) \in Proved!Presentable
  BY DEF Proved!Presentable
<1>8. UNCHANGED registry => UNCHANGED Proved!vars
  BY DEF registry, Proved!vars
<1> HIDE DEF Registry!state, Registry!locals, Registry!ghosts, Proved!state, Proved!locals,
       Proved!ghosts, Registry!Return, Proved!Return, Registry!Holds, Proved!Holds,
       Registry!NoLease, Proved!NoLease, Registry!NoIdentity, Proved!NoIdentity,
       Registry!Cleanup, Proved!Cleanup, Registry!Check, Proved!Check,
       Registry!Owned, Proved!Owned, Registry!Transition, Proved!Transition
<1> QED
  BY <1>1, <1>2, <1>3, <1>4, <1>5, <1>6, <1>7, <1>8 DEF Proved!Next

(* The session uses the registry only through its operations, under leases *)
(* the registry has given it.                                              *)
LEMMA RegistryStep ==
  ASSUME Types, RegistryFacts, LeaseInv, [Next]_vars
  PROVE  [Proved!Next]_(Proved!vars)
<1> USE Bridge, ProcsAssumption DEF Procs
<1>1. ASSUME NEW p \in Procs, EnterGate(p) PROVE Proved!Next
  <2> DEFINE lease == [owner |-> Session, generation |-> arg[p].gen]
  <2>1. owner = Session /\ generation = arg[p].gen /\ phase = "Running"
    BY <1>1 DEF EnterGate, Registry!Enter, Registry!Check, Registry!Owned, Registry!Holds
  <2>2. lease \in leases
    BY <2>1 DEF RegistryFacts, Lease
  <2> QED
    BY <1>1, <2>2 DEF EnterGate
<1>2. ASSUME NEW p \in Procs, PauseBegins(p) PROVE [Proved!Next]_(Proved!vars)
  <2>1. CASE Registry!Pause(p, session.lease)
    <3>1. owner = session.lease.owner /\ generation = session.lease.generation /\ phase = "Running"
      BY <2>1 DEF Registry!Pause, Registry!Transition, Registry!Holds
    <3>2. session.lease \in Lease
      BY DEF Types, SessionTypes, SessionType
    <3>3. session.lease \in leases
      BY <3>1, <3>2 DEF RegistryFacts, Lease
    <3> QED
      BY <2>1, <3>3
  <2> QED
    BY <1>2, <2>1 DEF PauseBegins
<1>3. ASSUME NEW c \in Callers, ResumeBegins(c) PROVE [Proved!Next]_(Proved!vars)
  <2>1. CASE Registry!Resume(c, session.lease)
    <3>1. owner = session.lease.owner /\ generation = session.lease.generation /\ phase = "Paused"
      BY <2>1 DEF Registry!Resume, Registry!Transition, Registry!Holds
    <3>2. session.lease \in Lease
      BY DEF Types, SessionTypes, SessionType
    <3>3. session.lease \in leases
      BY <3>1, <3>2 DEF RegistryFacts, Lease
    <3> QED
      BY <2>1, <3>3
  <2> QED
    BY <1>3, <2>1 DEF ResumeBegins
<1>4. ASSUME NEW p \in Procs, ReleaseBegins(p) PROVE [Proved!Next]_(Proved!vars)
  BY <1>4 DEF ReleaseBegins, LeaseInv
<1>5. CASE UNCHANGED registry
  BY <1>5
<1>6. CASE Claim \/ Claimed
  BY <1>6 DEF Claim, Claimed
<1>7. ASSUME Opens \/ OpeningFails PROVE [Proved!Next]_(Proved!vars)
  BY <1>7 DEF Opens, Cleaned, Prepared, Traced, OpeningFails
<1>8. CASE Panic
  BY <1>8 DEF Panic
<1>9. ASSUME NEW p \in Procs,
             GateOpens(p) \/ CleanupFails(p) \/ Paused(p) \/ SwitchUnwinds(p)
               \/ ReleaseEnds(p) \/ ReleaseFails(p) \/ GivesUp(p)
      PROVE  [Proved!Next]_(Proved!vars)
  BY <1>9 DEF GateOpens, CleanupFails, Paused, SwitchUnwinds, ReleaseEnds, ReleaseFails, GivesUp
<1>10. ASSUME NEW c \in Callers,
              \/ Resumed(c) \/ OperationFails(c) \/ Captured(c)
              \/ \E ok \in BOOLEAN : Woken(c, ok) \/ Inject(c, ok)
       PROVE  [Proved!Next]_(Proved!vars)
  BY <1>10 DEF Resumed, OperationFails, Captured, Woken, Inject
<1>11. ASSUME \/ Submit \/ Record \/ RunFails \/ Prepare \/ Acquire
            \/ LoopEnds \/ LoopPauses \/ RunEnds \/ Expire \/ UNCHANGED vars
       PROVE UNCHANGED registry
  BY <1>11 DEF Submit, Record, RunFails, Prepare, Acquire, LoopEnds, LoopPauses, RunEnds,
     Expire, vars
<1>12. ASSUME NEW p \in Procs, RunIsOver(p) \/ ReleaseAgain(p) PROVE UNCHANGED registry
  BY <1>12 DEF RunIsOver, ReleaseAgain
<1>13. ASSUME NEW c \in Callers,
              \/ Call(c) \/ Revoke(c) \/ Stop(c) \/ ReleaseAsked(c)
              \/ CaptureBegins(c) \/ InputBegins(c) \/ OperationRefused(c)
              \/ Checked(c) \/ Observe(c) \/ Looks(c)
       PROVE  UNCHANGED registry
  BY <1>13 DEF Call, Revoke, Stop, ReleaseAsked, CaptureBegins, InputBegins, OperationBegins,
     OperationRefused, Checked, Observe, Looks
<1> QED
  BY Actions, <1>1, <1>2, <1>3, <1>4, <1>5, <1>6, <1>7, <1>8, <1>9, <1>10, <1>11, <1>12, <1>13

-----------------------------------------------------------------------------
(* What an operation of the registry changes, of what the session looks at. *)

Others(p) ==
  \A q \in Procs \ {p} : /\ pc'[q] = pc[q] /\ identity'[q] = identity[q] /\ next'[q] = next[q]
                         /\ original'[q] = original[q] /\ after'[q] = after[q]

Locals(p) == next'[p] = next[p] /\ original'[p] = original[p] /\ after'[p] = after[p]

State == <<owner, generation, phase, leases>>

(* p begins a switch from its lease l. *)
Begins(p, l, to) ==
  /\ Others(p) /\ pc[p] = "idle" /\ pc'[p] = "switching"
  /\ owner = l.owner /\ generation = l.generation
  /\ next'[p] = [l EXCEPT !.generation = generation + 1] /\ original'[p] = l /\ after'[p] = to
  /\ identity'[p] = identity[p]
  /\ generation' = generation + 1 /\ owner' = owner /\ leases' = leases

(* p drops a switch. *)
Drops(p) ==
  /\ Others(p) /\ pc[p] \in {"switching", "unwinding"} /\ pc'[p] = "idle"
  /\ identity'[p] = identity[p]
  /\ generation' = original[p].generation
  /\ owner' = owner /\ phase' = phase /\ leases' = leases

(* p leaves the gate, or the queue before it. *)
Withdraws(p) ==
  /\ Others(p) /\ Locals(p) /\ UNCHANGED State
  /\ pc'[p] = "idle" /\ identity'[p] = Registry!NoIdentity

LEMMA Effects ==
  ASSUME RegistryFacts, NEW p \in Procs
  PROVE  /\ Registry!Claim(p, Session) =>
              /\ Others(p) /\ pc[p] = "idle" /\ pc'[p] = "claiming" /\ identity'[p] = identity[p]
              /\ phase = "Idle" /\ owner' = Session /\ generation' = generation + 1
              /\ next'[p] = [owner |-> Session, generation |-> generation + 1]
              /\ original'[p] = original[p] /\ after'[p] = after[p] /\ leases' = leases
         /\ Registry!ClaimGranted(p) =>
              /\ Others(p) /\ pc[p] = "claiming" /\ pc'[p] = "idle" /\ identity'[p] = identity[p]
              /\ owner' = owner /\ generation' = generation /\ phase' = "Running"
              /\ leases' = leases \cup {next[p]}
         /\ Registry!ClaimDropped(p) =>
              /\ Others(p) /\ pc[p] = "claiming" /\ pc'[p] = "idle" /\ identity'[p] = identity[p]
              /\ owner' = NoOwner /\ generation' = generation /\ leases' = leases
         /\ \A id : Registry!Enter(p, id) =>
              /\ Others(p) /\ Locals(p) /\ UNCHANGED State
              /\ pc[p] = "idle" /\ pc'[p] = "entering" /\ identity'[p] = id
         /\ Registry!Acquire(p) =>
              /\ Others(p) /\ Locals(p) /\ UNCHANGED State
              /\ pc[p] \in {"entering", "sweeping"} /\ pc'[p] = "inside"
              /\ pc[p] = "entering" => identity'[p] = identity[p]
         /\ Registry!Turned(p) => Withdraws(p) /\ pc[p] \in {"entering", "sweeping"}
         /\ Registry!Leave(p) => Withdraws(p) /\ pc[p] \in {"inside", "worker"}
         /\ \A l : /\ Registry!Pause(p, l) => Begins(p, l, "Paused") /\ phase = "Running"
                   /\ Registry!Resume(p, l) => Begins(p, l, "Running") /\ phase = "Paused"
                   /\ Registry!Release(p, l) => Begins(p, l, "Idle")
         /\ Registry!Switch(p) =>
              /\ Others(p) /\ Locals(p) /\ UNCHANGED State
              /\ pc[p] = "switching" /\ pc'[p] = "cleaning"
         /\ Registry!SwitchFailed(p) =>
              /\ Others(p) /\ Locals(p) /\ UNCHANGED State
              /\ pc[p] = "cleaning" /\ pc'[p] = "unwinding"
         /\ Registry!Switched(p) =>
              /\ Others(p) /\ pc[p] = "cleaning" /\ pc'[p] = "idle"
              /\ owner' = (IF after[p] = "Idle" THEN NoOwner ELSE owner)
              /\ leases' = (IF after[p] = "Idle" THEN leases ELSE leases \cup {next[p]})
              /\ generation' = generation
         /\ Registry!SwitchDropped(p) => Drops(p)
<1> USE DEF RegistryFacts, Others, Locals, State, Registry!state, Registry!locals,
    Registry!ghosts
<1>1. /\ pc \in [Procs -> Registry!PCs] /\ identity \in [Procs -> Registry!Identity]
      /\ next \in [Procs -> Lease] /\ original \in [Procs -> Lease]
      /\ after \in [Procs -> {"Idle", "Running", "Paused"}]
  OBVIOUS
<1>2. Registry!Claim(p, Session) =>
              /\ Others(p) /\ pc[p] = "idle" /\ pc'[p] = "claiming" /\ identity'[p] = identity[p]
              /\ phase = "Idle" /\ owner' = Session /\ generation' = generation + 1
              /\ next'[p] = [owner |-> Session, generation |-> generation + 1]
              /\ original'[p] = original[p] /\ after'[p] = after[p] /\ leases' = leases
  BY <1>1 DEF Registry!Claim
<1>3. Registry!ClaimGranted(p) =>
              /\ Others(p) /\ pc[p] = "claiming" /\ pc'[p] = "idle" /\ identity'[p] = identity[p]
              /\ owner' = owner /\ generation' = generation /\ phase' = "Running"
              /\ leases' = leases \cup {next[p]}
  BY <1>1 DEF Registry!ClaimGranted, Registry!Return
<1>4. Registry!ClaimDropped(p) =>
              /\ Others(p) /\ pc[p] = "claiming" /\ pc'[p] = "idle" /\ identity'[p] = identity[p]
              /\ owner' = NoOwner /\ generation' = generation /\ leases' = leases
  BY <1>1 DEF Registry!ClaimDropped, Registry!Return, Registry!Holds
<1>5. \A id : Registry!Enter(p, id) =>
              /\ Others(p) /\ Locals(p) /\ UNCHANGED State
              /\ pc[p] = "idle" /\ pc'[p] = "entering" /\ identity'[p] = id
  BY <1>1 DEF Registry!Enter
<1>6. Registry!Acquire(p) =>
              /\ Others(p) /\ Locals(p) /\ UNCHANGED State
              /\ pc[p] \in {"entering", "sweeping"} /\ pc'[p] = "inside"
              /\ pc[p] = "entering" => identity'[p] = identity[p]
  BY <1>1 DEF Registry!Acquire
<1>7. /\ Registry!Turned(p) => Withdraws(p) /\ pc[p] \in {"entering", "sweeping"}
      /\ Registry!Leave(p) => Withdraws(p) /\ pc[p] \in {"inside", "worker"}
  BY <1>1 DEF Registry!Turned, Registry!Leave, Withdraws
<1>8. ASSUME NEW l, NEW from, NEW during, NEW to, Registry!Transition(p, l, from, during, to)
      PROVE  Begins(p, l, to) /\ phase = from
  BY <1>1, <1>8 DEF Registry!Transition, Registry!Holds, Begins
<1>9. \A l : /\ Registry!Pause(p, l) => Begins(p, l, "Paused") /\ phase = "Running"
             /\ Registry!Resume(p, l) => Begins(p, l, "Running") /\ phase = "Paused"
             /\ Registry!Release(p, l) => Begins(p, l, "Idle")
  BY <1>8 DEF Registry!Pause, Registry!Resume, Registry!Release
<1>10. /\ Registry!Switch(p) =>
              /\ Others(p) /\ Locals(p) /\ UNCHANGED State
              /\ pc[p] = "switching" /\ pc'[p] = "cleaning"
       /\ Registry!SwitchFailed(p) =>
              /\ Others(p) /\ Locals(p) /\ UNCHANGED State
              /\ pc[p] = "cleaning" /\ pc'[p] = "unwinding"
  BY <1>1 DEF Registry!Switch, Registry!SwitchFailed
<1>11. Registry!Switched(p) =>
              /\ Others(p) /\ pc[p] = "cleaning" /\ pc'[p] = "idle"
              /\ owner' = (IF after[p] = "Idle" THEN NoOwner ELSE owner)
              /\ leases' = (IF after[p] = "Idle" THEN leases ELSE leases \cup {next[p]})
              /\ generation' = generation
  BY <1>1 DEF Registry!Switched, Registry!Return
<1>12. Registry!SwitchDropped(p) => Drops(p)
  BY <1>1 DEF Registry!SwitchDropped, Registry!Return, Registry!Holds, Drops, Switches
<1> HIDE DEF RegistryFacts, Others, Locals, State
<1> QED
  BY <1>2, <1>3, <1>4, <1>5, <1>6, <1>7, <1>9, <1>10, <1>11, <1>12

-----------------------------------------------------------------------------
(* Where the tasks are, and what they hold there. *)

Switching == {"pausing", "resuming", "releasing"}
Holding   == Switching \cup {"claim", "clean", "prepare", "trace", "waking"}
Operating == {"frame", "check", "observe", "act", "inject"}

RunPlaces == {"submitted", "queued", "prepared", "execute", "claim", "clean", "prepare",
              "trace", "loop", "pause", "pausing", "release", "releasing", "failed", "left", "over"}
WatchPlaces == {"start", "record", "watch", "done", "release", "releasing", "failed"}
CallerPlaces == {"idle", "pause", "pausing", "ask", "shoot", "input", "resume", "resuming",
                 "waking", "stop", "wait", "release", "releasing", "failed"} \cup Operating

PlaceInv ==
  /\ at[Run] \in RunPlaces /\ at[Watch] \in WatchPlaces
  /\ \A c \in Callers : at[c] \in CallerPlaces
  /\ at[Watch] = "start" => at[Run] = "submitted"

(* The two mutexes of the session. *)
LockInv ==
  /\ \A p \in Procs : at[p] \in Holding <=> transition = p
  /\ \A c \in Callers : at[c] \in Operating <=> operation = c

(* The call of the registry a task is in. *)
CallInv ==
  \A p \in Procs :
    /\ at[p] = "claim" <=> pc[p] = "claiming"
    /\ at[p] \in Switching <=> pc[p] \in Switches
    /\ pc[p] \in {"entering", "inside"} => at[p] \in {"clean", "prepare", "waking", "act", "frame", "inject"}
    /\ pc[p] \notin {"sweeping", "worker"}
    /\ at[p] = "inject" => pc[p] = "inside"

(* What a switch of the session leads to. *)
AfterInv ==
  \A p \in Procs : /\ at[p] = "pausing"   => after[p] = "Paused"
                   /\ at[p] = "resuming"  => after[p] = "Running"
                   /\ at[p] = "releasing" => after[p] = "Idle"
                   /\ at[p] = "claim"     => next[p].generation > 0

(* p goes to a place, with its argument or without. *)
LEMMA Moved ==
  ASSUME CallTypes, NEW p \in Procs, NEW place
  PROVE  /\ Goes(p, place) =>
              /\ at'[p] = place
              /\ arg'[p] = (IF place \in {"idle", "loop"} THEN NoArg ELSE arg[p])
              /\ \A q \in Procs \ {p} : at'[q] = at[q] /\ arg'[q] = arg[q]
         /\ \A a : GoesWith(p, place, a) =>
              /\ at'[p] = place /\ arg'[p] = a
              /\ \A q \in Procs \ {p} : at'[q] = at[q] /\ arg'[q] = arg[q]
  BY DEF CallTypes, Goes, GoesWith

LEMMA PlaceStep ==
  ASSUME Types, PlaceInv, [Next]_vars
  PROVE  PlaceInv'
<1> USE ProcsAssumption DEF PlaceInv, Types, RunPlaces, WatchPlaces, CallerPlaces,
    Operating, Procs
<1>1. CASE Submit
  BY <1>1, Moved DEF Submit, CallTypes
<1>2. CASE Record \/ RunFails \/ Prepare
  BY <1>2, Moved DEF Record, RunFails, Prepare
<1>3. CASE Acquire
  BY <1>3, Moved DEF Acquire, Leaves
<1>4. CASE Claim
  BY <1>4, Moved DEF Claim, Leaves
<1>5. CASE Claimed
  BY <1>5, Moved DEF Claimed, GoesWith, CallTypes
<1>6. ASSUME Opens \/ OpeningFails PROVE PlaceInv'
  BY <1>6, Moved DEF Opens, Cleaned, Prepared, Traced, OpeningFails, Leaves
<1>7. CASE LoopEnds \/ RunEnds
  BY <1>7, Moved DEF LoopEnds, RunEnds
<1>8. CASE LoopPauses
  BY <1>8, Moved DEF LoopPauses, GoesWith, CallTypes
<1>9. CASE Panic
  BY <1>9, Moved DEF Panic
<1>10. ASSUME NEW p \in Procs, EnterGate(p) PROVE PlaceInv'
  BY <1>10, Moved DEF EnterGate, Own
<1>11. ASSUME NEW p \in Procs, GateOpens(p) \/ CleanupFails(p) PROVE PlaceInv'
  BY <1>11, Moved DEF GateOpens, CleanupFails, Own
<1>12. ASSUME NEW p \in Procs, PauseBegins(p) PROVE PlaceInv'
  BY <1>12, Moved DEF PauseBegins, Back
<1>13. ASSUME NEW p \in Procs, Paused(p) PROVE PlaceInv'
  BY <1>13, Moved DEF Paused, Back
<1>14. ASSUME NEW p \in Procs, SwitchUnwinds(p) PROVE PlaceInv'
  BY <1>14, Moved DEF SwitchUnwinds, Back
<1>15. ASSUME NEW c \in Callers, ResumeBegins(c) PROVE PlaceInv'
  BY <1>15, Moved DEF ResumeBegins
<1>16. ASSUME NEW c \in Callers, Resumed(c) PROVE PlaceInv'
  BY <1>16, Moved DEF Resumed, GoesWith, CallTypes
<1>17. ASSUME NEW c \in Callers, NEW ok \in BOOLEAN, Woken(c, ok) PROVE PlaceInv'
  BY <1>17, Moved DEF Woken
<1>18. ASSUME NEW p \in Procs, ReleaseBegins(p) PROVE PlaceInv'
  BY <1>18, Moved DEF ReleaseBegins, Released
<1>19. ASSUME NEW p \in Procs, ReleaseEnds(p) PROVE PlaceInv'
  BY <1>19, Moved DEF ReleaseEnds, Released
<1>20. ASSUME NEW p \in Procs, ReleaseFails(p) PROVE PlaceInv'
  BY <1>20, Moved DEF ReleaseFails
<1>21. ASSUME NEW p \in Procs, ReleaseAgain(p) \/ RunIsOver(p) PROVE PlaceInv'
  BY <1>21, Moved DEF ReleaseAgain, RunIsOver
<1>22. ASSUME NEW p \in Procs, GivesUp(p) PROVE PlaceInv'
  BY <1>22, Moved DEF GivesUp
<1>23. ASSUME NEW c \in Callers, Call(c) PROVE PlaceInv'
  BY <1>23, Moved DEF Call, GoesWith, CallTypes
<1>24. ASSUME NEW c \in Callers, Revoke(c) PROVE PlaceInv'
  BY <1>24, Moved DEF Revoke
<1>25. ASSUME NEW c \in Callers, Stop(c) \/ ReleaseAsked(c) PROVE PlaceInv'
  BY <1>25, Moved DEF Stop, ReleaseAsked, Stops
<1>26. CASE Expire
  BY <1>26, Moved DEF Expire
<1>27. ASSUME NEW c \in Callers, CaptureBegins(c) \/ InputBegins(c) PROVE PlaceInv'
  BY <1>27, Moved DEF CaptureBegins, InputBegins, OperationBegins
<1>28. ASSUME NEW c \in Callers, OperationRefused(c) PROVE PlaceInv'
  BY <1>28, Moved DEF OperationRefused
<1>29. ASSUME NEW c \in Callers, OperationFails(c) PROVE PlaceInv'
  BY <1>29, Moved DEF OperationFails
<1>30. ASSUME NEW c \in Callers, Captured(c) PROVE PlaceInv'
  BY <1>30, Moved DEF Captured, GoesWith, CallTypes
<1>31. ASSUME NEW c \in Callers, Checked(c) \/ Looks(c) PROVE PlaceInv'
  BY <1>31, Moved DEF Checked, Looks
<1>32. ASSUME NEW c \in Callers, Observe(c) PROVE PlaceInv'
  BY <1>32, Moved DEF Observe
<1>33. ASSUME NEW c \in Callers, NEW panics \in BOOLEAN, Inject(c, panics) PROVE PlaceInv'
  BY <1>33, Moved DEF Inject
<1>34. CASE UNCHANGED vars
  BY <1>34, Moved DEF vars, registry
<1> HIDE DEF PlaceInv
<1> QED
  BY Actions, <1>1, <1>2, <1>3, <1>4, <1>5, <1>6, <1>7, <1>8, <1>9, <1>10, <1>11, <1>12,
      <1>13, <1>14, <1>15, <1>16, <1>17, <1>18, <1>19, <1>20, <1>21, <1>22, <1>23, <1>24,
      <1>25, <1>26, <1>27, <1>28, <1>29, <1>30, <1>31, <1>32, <1>33, <1>34

LEMMA LockStep ==
  ASSUME Types, PlaceInv, LockInv, [Next]_vars
  PROVE  LockInv'
<1> USE ProcsAssumption, NoneAssumption DEF LockInv, PlaceInv, Types, Holding, Switching,
    Operating, Procs, locks, Same, RunPlaces, WatchPlaces, CallerPlaces
<1>1. CASE Submit
  BY <1>1, Moved DEF Submit, CallTypes
<1>2. CASE Record \/ RunFails \/ Prepare
  BY <1>2, Moved DEF Record, RunFails, Prepare
<1>3. CASE Acquire
  BY <1>3, Moved DEF Acquire, Leaves
<1>4. CASE Claim
  BY <1>4, Moved DEF Claim, Leaves
<1>5. CASE Claimed
  BY <1>5, Moved DEF Claimed, GoesWith, CallTypes
<1>6. ASSUME Opens \/ OpeningFails PROVE LockInv'
  BY <1>6, Moved DEF Opens, Cleaned, Prepared, Traced, OpeningFails, Leaves
<1>7. CASE LoopEnds \/ RunEnds
  BY <1>7, Moved DEF LoopEnds, RunEnds
<1>8. CASE LoopPauses
  BY <1>8, Moved DEF LoopPauses, GoesWith, CallTypes
<1>9. CASE Panic
  BY <1>9, Moved DEF Panic
<1>10. ASSUME NEW p \in Procs, EnterGate(p) PROVE LockInv'
  BY <1>10, Moved DEF EnterGate, Own
<1>11. ASSUME NEW p \in Procs, GateOpens(p) \/ CleanupFails(p) PROVE LockInv'
  BY <1>11, Moved DEF GateOpens, CleanupFails, Own
<1>12. ASSUME NEW p \in Procs, PauseBegins(p) PROVE LockInv'
  BY <1>12, Moved DEF PauseBegins, Back
<1>13. ASSUME NEW p \in Procs, Paused(p) PROVE LockInv'
  BY <1>13, Moved DEF Paused, Back
<1>14. ASSUME NEW p \in Procs, SwitchUnwinds(p) PROVE LockInv'
  BY <1>14, Moved DEF SwitchUnwinds, Back
<1>15. ASSUME NEW c \in Callers, ResumeBegins(c) PROVE LockInv'
  BY <1>15, Moved DEF ResumeBegins
<1>16. ASSUME NEW c \in Callers, Resumed(c) PROVE LockInv'
  BY <1>16, Moved DEF Resumed, GoesWith, CallTypes
<1>17. ASSUME NEW c \in Callers, NEW ok \in BOOLEAN, Woken(c, ok) PROVE LockInv'
  BY <1>17, Moved DEF Woken
<1>18. ASSUME NEW p \in Procs, ReleaseBegins(p) PROVE LockInv'
  BY <1>18, Moved DEF ReleaseBegins, Released
<1>19. ASSUME NEW p \in Procs, ReleaseEnds(p) PROVE LockInv'
  BY <1>19, Moved DEF ReleaseEnds, Released
<1>20. ASSUME NEW p \in Procs, ReleaseFails(p) PROVE LockInv'
  BY <1>20, Moved DEF ReleaseFails
<1>21. ASSUME NEW p \in Procs, ReleaseAgain(p) \/ RunIsOver(p) PROVE LockInv'
  BY <1>21, Moved DEF ReleaseAgain, RunIsOver
<1>22. ASSUME NEW p \in Procs, GivesUp(p) PROVE LockInv'
  BY <1>22, Moved DEF GivesUp
<1>23. ASSUME NEW c \in Callers, Call(c) PROVE LockInv'
  BY <1>23, Moved DEF Call, GoesWith, CallTypes
<1>24. ASSUME NEW c \in Callers, Revoke(c) PROVE LockInv'
  BY <1>24, Moved DEF Revoke
<1>25. ASSUME NEW c \in Callers, Stop(c) \/ ReleaseAsked(c) PROVE LockInv'
  BY <1>25, Moved DEF Stop, ReleaseAsked, Stops
<1>26. CASE Expire
  BY <1>26, Moved DEF Expire
<1>27. ASSUME NEW c \in Callers, CaptureBegins(c) \/ InputBegins(c) PROVE LockInv'
  BY <1>27, Moved DEF CaptureBegins, InputBegins, OperationBegins
<1>28. ASSUME NEW c \in Callers, OperationRefused(c) PROVE LockInv'
  BY <1>28, Moved DEF OperationRefused
<1>29. ASSUME NEW c \in Callers, OperationFails(c) PROVE LockInv'
  BY <1>29, Moved DEF OperationFails
<1>30. ASSUME NEW c \in Callers, Captured(c) PROVE LockInv'
  BY <1>30, Moved DEF Captured, GoesWith, CallTypes
<1>31. ASSUME NEW c \in Callers, Checked(c) \/ Looks(c) PROVE LockInv'
  BY <1>31, Moved DEF Checked, Looks
<1>32. ASSUME NEW c \in Callers, Observe(c) PROVE LockInv'
  BY <1>32, Moved DEF Observe
<1>33. ASSUME NEW c \in Callers, NEW panics \in BOOLEAN, Inject(c, panics) PROVE LockInv'
  BY <1>33, Moved DEF Inject
<1>34. CASE UNCHANGED vars
  BY <1>34, Moved DEF vars, registry
<1> HIDE DEF LockInv
<1> QED
  BY Actions, <1>1, <1>2, <1>3, <1>4, <1>5, <1>6, <1>7, <1>8, <1>9, <1>10, <1>11, <1>12,
      <1>13, <1>14, <1>15, <1>16, <1>17, <1>18, <1>19, <1>20, <1>21, <1>22, <1>23, <1>24,
      <1>25, <1>26, <1>27, <1>28, <1>29, <1>30, <1>31, <1>32, <1>33, <1>34

LEMMA CallStep ==
  ASSUME Types, RegistryFacts, PlaceInv, CallInv, [Next]_vars
  PROVE  CallInv'
<1> USE ProcsAssumption DEF CallInv, PlaceInv, Types, Switching, Switches, Procs, Others,
    registry, Withdraws, Begins, Drops, RunPlaces, WatchPlaces, CallerPlaces, Operating
<1>1. CASE Submit
  BY <1>1, Effects, Moved DEF Submit, CallTypes
<1>2. CASE Record \/ RunFails \/ Prepare
  BY <1>2, Effects, Moved DEF Record, RunFails, Prepare
<1>3. CASE Acquire
  BY <1>3, Effects, Moved DEF Acquire, Leaves
<1>4. CASE Claim
  BY <1>4, Effects, Moved DEF Claim, Leaves
<1>5. CASE Claimed
  BY <1>5, Effects, Moved DEF Claimed, GoesWith, CallTypes
<1>6. ASSUME Opens \/ OpeningFails PROVE CallInv'
  BY <1>6, Effects, Moved DEF Opens, Cleaned, Prepared, Traced, OpeningFails, Leaves
<1>7. CASE LoopEnds \/ RunEnds
  BY <1>7, Effects, Moved DEF LoopEnds, RunEnds
<1>8. CASE LoopPauses
  BY <1>8, Effects, Moved DEF LoopPauses, GoesWith, CallTypes
<1>9. CASE Panic
  BY <1>9, Effects, Moved DEF Panic
<1>10. ASSUME NEW p \in Procs, EnterGate(p) PROVE CallInv'
  BY <1>10, Effects, Moved DEF EnterGate, Own
<1>11. ASSUME NEW p \in Procs, GateOpens(p) \/ CleanupFails(p) PROVE CallInv'
  BY <1>11, Effects, Moved DEF GateOpens, CleanupFails, Own
<1>12. ASSUME NEW p \in Procs, PauseBegins(p) PROVE CallInv'
  <2>1. CASE Registry!Pause(p, session.lease)
    <3>1. Begins(p, session.lease, "Paused")
      BY <2>1, Effects, ZenonT(30) DEF Procs
    <3> QED
      BY <1>12, <2>1, <3>1, Moved DEF PauseBegins, Back
  <2>2. CASE ~Registry!Pause(p, session.lease)
    BY <1>12, <2>2, Moved DEF PauseBegins, Back
  <2> QED
    BY <2>1, <2>2
<1>13. ASSUME NEW p \in Procs, Paused(p) PROVE CallInv'
  BY <1>13, Effects, Moved DEF Paused, Back
<1>14. ASSUME NEW p \in Procs, SwitchUnwinds(p) PROVE CallInv'
  BY <1>14, Effects, Moved DEF SwitchUnwinds, Back
<1>15. ASSUME NEW c \in Callers, ResumeBegins(c) PROVE CallInv'
  <2>1. CASE Registry!Resume(c, session.lease)
    <3>1. Begins(c, session.lease, "Running")
      BY <2>1, Effects, ZenonT(30) DEF Procs
    <3> QED
      BY <1>15, <2>1, <3>1, Moved DEF ResumeBegins
  <2>2. CASE ~Registry!Resume(c, session.lease)
    BY <1>15, <2>2, Moved DEF ResumeBegins
  <2> QED
    BY <2>1, <2>2
<1>16. ASSUME NEW c \in Callers, Resumed(c) PROVE CallInv'
  BY <1>16, Effects, Moved, SMTT(30) DEF Resumed, GoesWith, CallTypes
<1>17. ASSUME NEW c \in Callers, NEW ok \in BOOLEAN, Woken(c, ok) PROVE CallInv'
  BY <1>17, Effects, Moved DEF Woken
<1>18. ASSUME NEW p \in Procs, ReleaseBegins(p) PROVE CallInv'
  <2>1. CASE Registry!Release(p, session.lease)
    <3>1. Begins(p, session.lease, "Idle")
      BY <2>1, Effects, ZenonT(30) DEF Procs
    <3> QED
      BY <1>18, <2>1, <3>1, Moved DEF ReleaseBegins, Released
  <2>2. CASE ~Registry!Release(p, session.lease)
    BY <1>18, <2>2, Moved DEF ReleaseBegins, Released
  <2> QED
    BY <2>1, <2>2
<1>19. ASSUME NEW p \in Procs, ReleaseEnds(p) PROVE CallInv'
  BY <1>19, Effects, Moved DEF ReleaseEnds, Released
<1>20. ASSUME NEW p \in Procs, ReleaseFails(p) PROVE CallInv'
  BY <1>20, Effects, Moved DEF ReleaseFails
<1>21. ASSUME NEW p \in Procs, ReleaseAgain(p) \/ RunIsOver(p) PROVE CallInv'
  BY <1>21, Effects, Moved DEF ReleaseAgain, RunIsOver
<1>22. ASSUME NEW p \in Procs, GivesUp(p) PROVE CallInv'
  BY <1>22, Effects, Moved DEF GivesUp
<1>23. ASSUME NEW c \in Callers, Call(c) PROVE CallInv'
  BY <1>23, Effects, Moved DEF Call, GoesWith, CallTypes
<1>24. ASSUME NEW c \in Callers, Revoke(c) PROVE CallInv'
  BY <1>24, Effects, Moved DEF Revoke
<1>25. ASSUME NEW c \in Callers, Stop(c) \/ ReleaseAsked(c) PROVE CallInv'
  BY <1>25, Effects, Moved DEF Stop, ReleaseAsked, Stops
<1>26. CASE Expire
  BY <1>26, Effects, Moved DEF Expire
<1>27. ASSUME NEW c \in Callers, CaptureBegins(c) \/ InputBegins(c) PROVE CallInv'
  BY <1>27, Effects, Moved DEF CaptureBegins, InputBegins, OperationBegins
<1>28. ASSUME NEW c \in Callers, OperationRefused(c) PROVE CallInv'
  BY <1>28, Effects, Moved DEF OperationRefused
<1>29. ASSUME NEW c \in Callers, OperationFails(c) PROVE CallInv'
  BY <1>29, Effects, Moved DEF OperationFails
<1>30. ASSUME NEW c \in Callers, Captured(c) PROVE CallInv'
  <2>1. Withdraws(c)
    BY <1>30, Effects DEF Captured
  <2> QED
    BY <1>30, <2>1 DEF Captured, GoesWith, CallTypes
<1>31. ASSUME NEW c \in Callers, Checked(c) \/ Looks(c) PROVE CallInv'
  BY <1>31, Effects, Moved DEF Checked, Looks
<1>32. ASSUME NEW c \in Callers, Observe(c) PROVE CallInv'
  BY <1>32, Effects, Moved DEF Observe
<1>33. ASSUME NEW c \in Callers, NEW panics \in BOOLEAN, Inject(c, panics) PROVE CallInv'
  BY <1>33, Effects, Moved DEF Inject
<1>34. CASE UNCHANGED vars
  BY <1>34, Effects, Moved DEF vars, registry
<1> HIDE DEF CallInv
<1> QED
  BY Actions, <1>1, <1>2, <1>3, <1>4, <1>5, <1>6, <1>7, <1>8, <1>9, <1>10, <1>11, <1>12,
      <1>13, <1>14, <1>15, <1>16, <1>17, <1>18, <1>19, <1>20, <1>21, <1>22, <1>23, <1>24,
      <1>25, <1>26, <1>27, <1>28, <1>29, <1>30, <1>31, <1>32, <1>33, <1>34

LEMMA AfterStep ==
  ASSUME Types, RegistryFacts, CallInv, AfterInv, [Next]_vars
  PROVE  AfterInv'
<1> USE ProcsAssumption DEF AfterInv, CallInv, Types, Switching, Switches, Procs, Others,
    Locals, registry, Withdraws, Begins, Drops
<1>1. CASE Submit
  BY <1>1, Effects, Moved DEF Submit, CallTypes
<1>2. CASE Record \/ RunFails \/ Prepare
  BY <1>2, Effects, Moved DEF Record, RunFails, Prepare
<1>3. CASE Acquire
  BY <1>3, Effects, Moved DEF Acquire, Leaves
<1>4. CASE Claim
  <2>1. generation \in Nat
    BY DEF RegistryFacts
  <2>2. CASE Registry!Claim(Run, Session)
    BY <1>4, <2>1, <2>2, Effects, Moved DEF Claim
  <2> QED
    BY <1>4, <2>2, Moved DEF Claim, Leaves
<1>5. CASE Claimed
  <2>1. at'[Run] = "clean" /\ \A q \in Procs \ {Run} : at'[q] = at[q]
    BY <1>5, Moved DEF Claimed
  <2>2. Others(Run)
    BY <1>5, Effects DEF Claimed
  <2> QED
    BY <2>1, <2>2
<1>6. ASSUME Opens \/ OpeningFails PROVE AfterInv'
  BY <1>6, Effects, Moved DEF Opens, Cleaned, Prepared, Traced, OpeningFails, Leaves
<1>7. CASE LoopEnds \/ RunEnds
  BY <1>7, Effects, Moved DEF LoopEnds, RunEnds
<1>8. CASE LoopPauses
  BY <1>8, Effects, Moved DEF LoopPauses, GoesWith, CallTypes
<1>9. CASE Panic
  BY <1>9, Effects, Moved DEF Panic
<1>10. ASSUME NEW p \in Procs, EnterGate(p) PROVE AfterInv'
  BY <1>10, Effects, Moved DEF EnterGate, Own
<1>11. ASSUME NEW p \in Procs, GateOpens(p) \/ CleanupFails(p) PROVE AfterInv'
  BY <1>11, Effects, Moved DEF GateOpens, CleanupFails, Own
<1>12. ASSUME NEW p \in Procs, PauseBegins(p) PROVE AfterInv'
  <2>1. CASE Registry!Pause(p, session.lease)
    <3>1. Begins(p, session.lease, "Paused")
      BY <2>1, Effects, ZenonT(30) DEF Procs
    <3> QED
      BY <1>12, <2>1, <3>1, Moved DEF PauseBegins, Back
  <2>2. CASE ~Registry!Pause(p, session.lease)
    BY <1>12, <2>2, Moved DEF PauseBegins, Back
  <2> QED
    BY <2>1, <2>2
<1>13. ASSUME NEW p \in Procs, Paused(p) PROVE AfterInv'
  BY <1>13, Effects, Moved DEF Paused, Back
<1>14. ASSUME NEW p \in Procs, SwitchUnwinds(p) PROVE AfterInv'
  BY <1>14, Effects, Moved DEF SwitchUnwinds, Back
<1>15. ASSUME NEW c \in Callers, ResumeBegins(c) PROVE AfterInv'
  <2>1. CASE Registry!Resume(c, session.lease)
    <3>1. Begins(c, session.lease, "Running")
      BY <2>1, Effects, ZenonT(30) DEF Procs
    <3> QED
      BY <1>15, <2>1, <3>1, Moved DEF ResumeBegins
  <2>2. CASE ~Registry!Resume(c, session.lease)
    BY <1>15, <2>2, Moved DEF ResumeBegins
  <2> QED
    BY <2>1, <2>2
<1>16. ASSUME NEW c \in Callers, Resumed(c) PROVE AfterInv'
  BY <1>16, Effects, Moved, SMTT(30) DEF Resumed, GoesWith, CallTypes
<1>17. ASSUME NEW c \in Callers, NEW ok \in BOOLEAN, Woken(c, ok) PROVE AfterInv'
  BY <1>17, Effects, Moved DEF Woken
<1>18. ASSUME NEW p \in Procs, ReleaseBegins(p) PROVE AfterInv'
  <2>1. CASE Registry!Release(p, session.lease)
    <3>1. Begins(p, session.lease, "Idle")
      BY <2>1, Effects, ZenonT(30) DEF Procs
    <3> QED
      BY <1>18, <2>1, <3>1, Moved DEF ReleaseBegins, Released
  <2>2. CASE ~Registry!Release(p, session.lease)
    BY <1>18, <2>2, Moved DEF ReleaseBegins, Released
  <2> QED
    BY <2>1, <2>2
<1>19. ASSUME NEW p \in Procs, ReleaseEnds(p) PROVE AfterInv'
  BY <1>19, Effects, Moved DEF ReleaseEnds, Released
<1>20. ASSUME NEW p \in Procs, ReleaseFails(p) PROVE AfterInv'
  BY <1>20, Effects, Moved DEF ReleaseFails
<1>21. ASSUME NEW p \in Procs, ReleaseAgain(p) \/ RunIsOver(p) PROVE AfterInv'
  BY <1>21, Effects, Moved DEF ReleaseAgain, RunIsOver
<1>22. ASSUME NEW p \in Procs, GivesUp(p) PROVE AfterInv'
  BY <1>22, Effects, Moved DEF GivesUp
<1>23. ASSUME NEW c \in Callers, Call(c) PROVE AfterInv'
  BY <1>23, Effects, Moved DEF Call, GoesWith, CallTypes
<1>24. ASSUME NEW c \in Callers, Revoke(c) PROVE AfterInv'
  BY <1>24, Effects, Moved DEF Revoke
<1>25. ASSUME NEW c \in Callers, Stop(c) \/ ReleaseAsked(c) PROVE AfterInv'
  BY <1>25, Effects, Moved DEF Stop, ReleaseAsked, Stops
<1>26. CASE Expire
  BY <1>26, Effects, Moved DEF Expire
<1>27. ASSUME NEW c \in Callers, CaptureBegins(c) \/ InputBegins(c) PROVE AfterInv'
  BY <1>27, Effects, Moved DEF CaptureBegins, InputBegins, OperationBegins
<1>28. ASSUME NEW c \in Callers, OperationRefused(c) PROVE AfterInv'
  BY <1>28, Effects, Moved DEF OperationRefused
<1>29. ASSUME NEW c \in Callers, OperationFails(c) PROVE AfterInv'
  BY <1>29, Effects, Moved DEF OperationFails
<1>30. ASSUME NEW c \in Callers, Captured(c) PROVE AfterInv'
  BY <1>30, Effects, Moved, SMTT(30) DEF Captured, GoesWith, CallTypes
<1>31. ASSUME NEW c \in Callers, Checked(c) \/ Looks(c) PROVE AfterInv'
  BY <1>31, Effects, Moved DEF Checked, Looks
<1>32. ASSUME NEW c \in Callers, Observe(c) PROVE AfterInv'
  BY <1>32, Effects, Moved DEF Observe
<1>33. ASSUME NEW c \in Callers, NEW panics \in BOOLEAN, Inject(c, panics) PROVE AfterInv'
  <2>1. Withdraws(c)
    BY <1>33, Effects DEF Inject
  <2> QED
    BY <1>33, <2>1, Moved DEF Inject
<1>34. CASE UNCHANGED vars
  BY <1>34, Effects, Moved DEF vars, registry
<1> HIDE DEF AfterInv
<1> QED
  BY Actions, <1>1, <1>2, <1>3, <1>4, <1>5, <1>6, <1>7, <1>8, <1>9, <1>10, <1>11, <1>12,
      <1>13, <1>14, <1>15, <1>16, <1>17, <1>18, <1>19, <1>20, <1>21, <1>22, <1>23, <1>24,
      <1>25, <1>26, <1>27, <1>28, <1>29, <1>30, <1>31, <1>32, <1>33, <1>34

-----------------------------------------------------------------------------
(* The lease of the session, and what a stop leaves of the session. *)

LEMMA StoppedIs ==
  ASSUME session \in SessionType
  PROVE  /\ Stopped(session).ending = TRUE /\ Stopped(session).obs = 0
         /\ Stopped(session).phase = "Stopping"
         /\ Stopped(session).lease = session.lease /\ Stopped(session).gen = session.gen
         /\ Stopped(session).receipts = session.receipts
         /\ Stopped(session).package = session.package
  BY DEF SessionType, Stopped

(* The lease of the session is one it was given. *)
LEMMA LeaseStep ==
  ASSUME Types, RegistryFacts, CallInv, AfterInv, LeaseInv, [Next]_vars
  PROVE  LeaseInv'
<1> USE ProcsAssumption DEF LeaseInv, CallInv, AfterInv, Types, SessionTypes, SessionType,
    Lease, Procs, State, Switches, Switching, Begins, Drops, Withdraws, registry, NoLease,
    Registry!NoLease
<1>1. CASE Submit
  BY <1>1, Effects DEF Submit, CallTypes
<1>2. CASE Record \/ RunFails \/ Prepare
  BY <1>2, Effects DEF Record, RunFails, Prepare
<1>3. CASE Acquire
  BY <1>3, Effects DEF Acquire, Leaves
<1>4. CASE Claim
  BY <1>4, Effects DEF Claim, Leaves
<1>5. CASE Claimed
  BY <1>5, Effects DEF Claimed, GoesWith, CallTypes
<1>6. ASSUME Opens \/ OpeningFails PROVE LeaseInv'
  BY <1>6, Effects DEF Opens, Cleaned, Prepared, Traced, OpeningFails, Leaves
<1>7. CASE LoopEnds \/ RunEnds
  <2>1. session'.lease = session.lease
    <3> HIDE DEF SessionType
    <3> QED
      BY <1>7, StoppedIs DEF LoopEnds, RunEnds
  <2> QED
    BY <1>7, <2>1 DEF LoopEnds, RunEnds
<1>8. CASE LoopPauses
  BY <1>8, Effects DEF LoopPauses, GoesWith, CallTypes
<1>9. CASE Panic
  BY <1>9, Effects DEF Panic
<1>10. ASSUME NEW p \in Procs, EnterGate(p) PROVE LeaseInv'
  BY <1>10, Effects DEF EnterGate, Own
<1>11. ASSUME NEW p \in Procs, GateOpens(p) \/ CleanupFails(p) PROVE LeaseInv'
  BY <1>11, Effects DEF GateOpens, CleanupFails, Own
<1>12. ASSUME NEW p \in Procs, PauseBegins(p) PROVE LeaseInv'
  <2>1. CASE Registry!Pause(p, session.lease)
    <3>1. Begins(p, session.lease, "Paused")
      BY <2>1, Effects, ZenonT(30) DEF Procs
    <3> QED
      <4>1. session'.lease = session.lease
        BY <1>12 DEF PauseBegins
      <4>2. leases' = leases
        BY <3>1
      <4> QED
        BY <4>1, <4>2
  <2>2. CASE ~Registry!Pause(p, session.lease)
    BY <1>12, <2>2, Effects DEF PauseBegins, Back
  <2> QED
    BY <2>1, <2>2
<1>13. ASSUME NEW p \in Procs, Paused(p) PROVE LeaseInv'
  BY <1>13, Effects DEF Paused, Back
<1>14. ASSUME NEW p \in Procs, SwitchUnwinds(p) PROVE LeaseInv'
  BY <1>14, Effects DEF SwitchUnwinds, Back
<1>15. ASSUME NEW c \in Callers, ResumeBegins(c) PROVE LeaseInv'
  <2>1. CASE Registry!Resume(c, session.lease)
    <3>1. Begins(c, session.lease, "Running")
      BY <2>1, Effects, ZenonT(30) DEF Procs
    <3> QED
      BY <1>15, <2>1, <3>1, Effects DEF ResumeBegins
  <2>2. CASE ~Registry!Resume(c, session.lease)
    BY <1>15, <2>2, Effects DEF ResumeBegins
  <2> QED
    BY <2>1, <2>2
<1>16. ASSUME NEW c \in Callers, Resumed(c) PROVE LeaseInv'
  BY <1>16, Effects DEF Resumed, GoesWith, CallTypes
<1>17. ASSUME NEW c \in Callers, NEW ok \in BOOLEAN, Woken(c, ok) PROVE LeaseInv'
  <2>1. session'.lease = session.lease
    <3>1. CASE session' = Stopped(session)
      <4> HIDE DEF SessionType
      <4> QED
        BY <3>1, StoppedIs
    <3> QED
      BY <1>17, <3>1 DEF Woken
  <2> QED
    BY <1>17, <2>1, Effects DEF Woken
<1>18. ASSUME NEW p \in Procs, ReleaseBegins(p) PROVE LeaseInv'
  <2>1. CASE Registry!Release(p, session.lease)
    <3>1. Begins(p, session.lease, "Idle")
      BY <2>1, Effects, ZenonT(30) DEF Procs
    <3> QED
      <4>1. session'.lease \in {session.lease, NoLease}
        <5>1. \/ session' = [session EXCEPT !.ending = TRUE, !.obs = 0]
              \/ UNCHANGED registry
          BY <1>18 DEF ReleaseBegins
        <5>2. ~UNCHANGED registry
          BY <3>1
        <5> QED
          BY <5>1, <5>2
      <4>2. leases' = leases
        BY <3>1
      <4> QED
        BY <4>1, <4>2
  <2>2. CASE ~Registry!Release(p, session.lease)
    BY <1>18, <2>2, Effects DEF ReleaseBegins, Released
  <2> QED
    BY <2>1, <2>2
<1>19. ASSUME NEW p \in Procs, ReleaseEnds(p) PROVE LeaseInv'
  BY <1>19, Effects DEF ReleaseEnds, Released
<1>20. ASSUME NEW p \in Procs, ReleaseFails(p) PROVE LeaseInv'
  BY <1>20, Effects DEF ReleaseFails
<1>21. ASSUME NEW p \in Procs, ReleaseAgain(p) \/ RunIsOver(p) PROVE LeaseInv'
  BY <1>21, Effects DEF ReleaseAgain, RunIsOver
<1>22. ASSUME NEW p \in Procs, GivesUp(p) PROVE LeaseInv'
  BY <1>22, Effects DEF GivesUp
<1>23. ASSUME NEW c \in Callers, Call(c) PROVE LeaseInv'
  BY <1>23, Effects DEF Call, GoesWith, CallTypes
<1>24. ASSUME NEW c \in Callers, Revoke(c) PROVE LeaseInv'
  BY <1>24, Effects DEF Revoke
<1>25. ASSUME NEW c \in Callers, Stop(c) \/ ReleaseAsked(c) PROVE LeaseInv'
  <2>1. session'.lease = session.lease
    <3> HIDE DEF SessionType
    <3> QED
      BY <1>25, StoppedIs DEF Stop, ReleaseAsked, Stops
  <2> QED
    BY <1>25, <2>1 DEF Stop, ReleaseAsked
<1>26. CASE Expire
  BY <1>26, Effects DEF Expire
<1>27. ASSUME NEW c \in Callers, CaptureBegins(c) \/ InputBegins(c) PROVE LeaseInv'
  BY <1>27, Effects DEF CaptureBegins, InputBegins, OperationBegins
<1>28. ASSUME NEW c \in Callers, OperationRefused(c) PROVE LeaseInv'
  BY <1>28, Effects DEF OperationRefused
<1>29. ASSUME NEW c \in Callers, OperationFails(c) PROVE LeaseInv'
  BY <1>29, Effects DEF OperationFails
<1>30. ASSUME NEW c \in Callers, Captured(c) PROVE LeaseInv'
  BY <1>30, Effects DEF Captured, GoesWith, CallTypes
<1>31. ASSUME NEW c \in Callers, Checked(c) \/ Looks(c) PROVE LeaseInv'
  BY <1>31, Effects DEF Checked, Looks
<1>32. ASSUME NEW c \in Callers, Observe(c) PROVE LeaseInv'
  BY <1>32, Effects DEF Observe
<1>33. ASSUME NEW c \in Callers, NEW panics \in BOOLEAN, Inject(c, panics) PROVE LeaseInv'
  BY <1>33, Effects DEF Inject
<1>34. CASE UNCHANGED vars
  BY <1>34, Effects DEF vars, registry
<1> HIDE DEF LeaseInv
<1> QED
  BY Actions, <1>1, <1>2, <1>3, <1>4, <1>5, <1>6, <1>7, <1>8, <1>9, <1>10, <1>11, <1>12,
      <1>13, <1>14, <1>15, <1>16, <1>17, <1>18, <1>19, <1>20, <1>21, <1>22, <1>23, <1>24,
      <1>25, <1>26, <1>27, <1>28, <1>29, <1>30, <1>31, <1>32, <1>33, <1>34

-----------------------------------------------------------------------------
(* Pictures: an input is decided on one that was taken in its generation   *)
(* and that no other input was decided on.                                 *)

Unused(f) == f \in DOMAIN frames /\ \A i \in DOMAIN injected : injected[i].frame # f

FrameInv ==
  /\ session.obs # 0 => Unused(session.obs)
  /\ \A c \in Callers :
       /\ at[c] \in {"check", "observe", "inject"} => Unused(arg[c].frame)
       /\ at[c] = "inject" => frames[arg[c].frame] = arg[c].gen
  /\ \A i \in DOMAIN injected : injected[i].frame \in DOMAIN frames
  /\ FreshFrame

(* Nothing is taken, observed or injected. *)
FramesKept ==
  /\ UNCHANGED <<frames, injected>>
  /\ session'.obs \in {0, session.obs}
  /\ \A c \in Callers :
       /\ at'[c] \in {"check", "observe"} => at[c] \in {"check", "observe"} /\ arg'[c] = arg[c]
       /\ at'[c] = "inject" => at[c] = "inject" /\ arg'[c] = arg[c]

LEMMA MostKeepFrames ==
  ASSUME Types, [Next]_vars
  PROVE  FramesKept \/ \E c \in Callers : \/ Captured(c) \/ Observe(c) \/ Looks(c)
                                            \/ \E panics \in BOOLEAN : Inject(c, panics)
<1> USE DEF FramesKept
<1> USE ProcsAssumption DEF Types, SessionTypes, SessionType, Procs, Same, history
<1>1. CASE Submit
  BY <1>1 DEF Submit, CallTypes
<1>2. CASE Record \/ RunFails \/ Prepare
  BY <1>2, Moved DEF Record, RunFails, Prepare
<1>3. CASE Acquire
  BY <1>3, Moved DEF Acquire, Leaves
<1>4. CASE Claim
  BY <1>4, Moved DEF Claim, Leaves
<1>5. CASE Claimed
  BY <1>5, Moved DEF Claimed, GoesWith, CallTypes
<1>6. ASSUME Opens \/ OpeningFails PROVE FramesKept
  BY <1>6, Moved DEF Opens, Cleaned, Prepared, Traced, OpeningFails, Leaves
<1>7. CASE LoopEnds \/ RunEnds
  <2>1. session'.obs \in {0, session.obs}
    <3> HIDE DEF SessionType
    <3> QED
      BY <1>7, StoppedIs DEF LoopEnds, RunEnds
  <2> QED
    BY <1>7, <2>1, Moved DEF LoopEnds, RunEnds
<1>8. CASE LoopPauses
  BY <1>8, Moved DEF LoopPauses, GoesWith, CallTypes
<1>9. CASE Panic
  BY <1>9, Moved DEF Panic
<1>10. ASSUME NEW p \in Procs, EnterGate(p) PROVE FramesKept
  BY <1>10, Moved DEF EnterGate, Own
<1>11. ASSUME NEW p \in Procs, GateOpens(p) \/ CleanupFails(p) PROVE FramesKept
  BY <1>11, Moved DEF GateOpens, CleanupFails, Own
<1>12. ASSUME NEW p \in Procs, PauseBegins(p) PROVE FramesKept
  <2>1. session'.obs \in {0, session.obs}
    BY <1>12 DEF PauseBegins, Back
  <2>2. UNCHANGED <<frames, injected>>
    BY <1>12 DEF PauseBegins, Back
  <2>3. at'[p] \notin {"check", "observe", "inject"}
        /\ \A q \in Procs \ {p} : at'[q] = at[q] /\ arg'[q] = arg[q]
    BY <1>12, Moved DEF PauseBegins, Back
  <2> QED
    BY <2>1, <2>2, <2>3
<1>13. ASSUME NEW p \in Procs, Paused(p) PROVE FramesKept
  BY <1>13, Moved DEF Paused, Back
<1>14. ASSUME NEW p \in Procs, SwitchUnwinds(p) PROVE FramesKept
  BY <1>14, Moved DEF SwitchUnwinds, Back
<1>15. ASSUME NEW c \in Callers, ResumeBegins(c) PROVE FramesKept
  BY <1>15, Moved DEF ResumeBegins
<1>16. ASSUME NEW c \in Callers, Resumed(c) PROVE FramesKept
  BY <1>16, Moved DEF Resumed, GoesWith, CallTypes
<1>17. ASSUME NEW c \in Callers, NEW ok \in BOOLEAN, Woken(c, ok) PROVE FramesKept
  BY <1>17, Moved, StoppedIs DEF Woken
<1>18. ASSUME NEW p \in Procs, ReleaseBegins(p) PROVE FramesKept
  <2>1. session'.obs \in {0, session.obs}
    BY <1>18 DEF ReleaseBegins, Released
  <2>2. UNCHANGED <<frames, injected>>
    BY <1>18 DEF ReleaseBegins, Released
  <2>3. at'[p] \notin {"check", "observe", "inject"}
        /\ \A q \in Procs \ {p} : at'[q] = at[q] /\ arg'[q] = arg[q]
    BY <1>18, Moved DEF ReleaseBegins, Released
  <2> QED
    BY <2>1, <2>2, <2>3
<1>19. ASSUME NEW p \in Procs, ReleaseEnds(p) PROVE FramesKept
  BY <1>19, Moved DEF ReleaseEnds, Released
<1>20. ASSUME NEW p \in Procs, ReleaseFails(p) PROVE FramesKept
  BY <1>20, Moved DEF ReleaseFails
<1>21. ASSUME NEW p \in Procs, ReleaseAgain(p) \/ RunIsOver(p) PROVE FramesKept
  BY <1>21, Moved DEF ReleaseAgain, RunIsOver
<1>22. ASSUME NEW p \in Procs, GivesUp(p) PROVE FramesKept
  BY <1>22, Moved DEF GivesUp
<1>23. ASSUME NEW c \in Callers, Call(c) PROVE FramesKept
  BY <1>23, Moved DEF Call, GoesWith, CallTypes
<1>24. ASSUME NEW c \in Callers, Revoke(c) PROVE FramesKept
  BY <1>24, Moved DEF Revoke
<1>25. ASSUME NEW c \in Callers, Stop(c) \/ ReleaseAsked(c) PROVE FramesKept
  <2>1. session'.obs \in {0, session.obs}
    <3> HIDE DEF SessionType
    <3> QED
      BY <1>25, StoppedIs DEF Stop, ReleaseAsked, Stops
  <2> QED
    BY <1>25, <2>1, Moved DEF Stop, ReleaseAsked, Stops
<1>26. CASE Expire
  BY <1>26, Moved DEF Expire
<1>27. ASSUME NEW c \in Callers, CaptureBegins(c) \/ InputBegins(c) PROVE FramesKept
  BY <1>27, Moved DEF CaptureBegins, InputBegins, OperationBegins
<1>28. ASSUME NEW c \in Callers, OperationRefused(c) PROVE FramesKept
  BY <1>28, Moved DEF OperationRefused
<1>29. ASSUME NEW c \in Callers, OperationFails(c) PROVE FramesKept
  BY <1>29, Moved DEF OperationFails
<1>30. ASSUME NEW c \in Callers, Checked(c) PROVE FramesKept
  <2>1. /\ at'[c] \in {"observe", "idle"} /\ at[c] = "check"
        /\ at'[c] = "observe" => arg'[c] = arg[c]
        /\ \A q \in Procs \ {c} : at'[q] = at[q] /\ arg'[q] = arg[q]
    BY <1>30, Moved DEF Checked
  <2>2. session' = session /\ frames' = frames /\ injected' = injected
    BY <1>30 DEF Checked
  <2> QED
    BY <2>1, <2>2
<1>31. CASE UNCHANGED vars
  BY <1>31, Moved DEF vars, registry
<1> HIDE DEF FramesKept
<1> QED
  BY Actions, <1>1, <1>2, <1>3, <1>4, <1>5, <1>6, <1>7, <1>8, <1>9, <1>10, <1>11, <1>12,
      <1>13, <1>14, <1>15, <1>16, <1>17, <1>18, <1>19, <1>20, <1>21, <1>22, <1>23, <1>24,
      <1>25, <1>26, <1>27, <1>28, <1>29, <1>30, <1>31

LEMMA FrameStep ==
  ASSUME Types, Types', LockInv, FrameInv, [Next]_vars
  PROVE  FrameInv'
<1> USE DEF Types, CallTypes, HistoryTypes, Procs, Same, history
<1>1. CASE FramesKept
  BY <1>1 DEF FramesKept, FrameInv, FreshFrame, Unused
<1>2. ASSUME NEW c \in Callers, Captured(c) PROVE FrameInv'
  <2> DEFINE f == Len(frames) + 1
  <2>1. /\ f \in Nat /\ Len(frames') = f /\ f \notin DOMAIN frames
        /\ DOMAIN frames = 1..Len(frames) /\ DOMAIN frames' = DOMAIN frames \cup {f}
        /\ \A g \in DOMAIN frames : frames'[g] = frames[g]
    <3>1. frames \in Seq(Nat) /\ arg[c].gen \in Nat /\ frames' = Append(frames, arg[c].gen)
      BY <1>2 DEF Captured, ArgType
    <3>2. /\ Len(frames) \in Nat /\ DOMAIN frames = 1..Len(frames)
          /\ Len(frames') = Len(frames) + 1 /\ DOMAIN frames' = 1..(Len(frames) + 1)
          /\ \A g \in 1..Len(frames) : frames'[g] = frames[g]
      BY <3>1, AppendProperties, LenProperties
    <3> QED
      BY <3>2
  <2> HIDE DEF f
  <2>2. /\ at'[c] = "check" /\ arg'[c].frame = f
        /\ \A d \in Callers \ {c} : at'[d] = at[d] /\ arg'[d] = arg[d]
    BY <1>2, <2>1 DEF Captured, GoesWith, ArgType
  <2>3. session' = session /\ injected' = injected
    BY <1>2 DEF Captured
  <2>4. f \in DOMAIN frames' /\ \A i \in DOMAIN injected' : injected'[i].frame # f
    BY <2>1, <2>3 DEF FrameInv
  <2>5. \A g : Unused(g) => g \in DOMAIN frames' /\ \A i \in DOMAIN injected' : injected'[i].frame # g
    BY <2>1, <2>3 DEF Unused
  <2>6. \A d \in Callers :
          /\ at'[d] \in {"check", "observe", "inject"}
               => arg'[d].frame \in DOMAIN frames'
                  /\ \A i \in DOMAIN injected' : injected'[i].frame # arg'[d].frame
          /\ at'[d] = "inject" => frames'[arg'[d].frame] = arg'[d].gen
    <3>1. ASSUME NEW d \in Callers, d # c, at'[d] = "inject"
          PROVE  frames'[arg'[d].frame] = arg'[d].gen
      BY <2>1, <2>2, <3>1 DEF FrameInv, Unused
    <3>2. ASSUME NEW d \in Callers, d # c, at'[d] \in {"check", "observe", "inject"}
          PROVE  arg'[d].frame \in DOMAIN frames'
                   /\ \A i \in DOMAIN injected' : injected'[i].frame # arg'[d].frame
      BY <2>2, <2>5, <3>2 DEF FrameInv
    <3> QED
      BY <2>2, <2>4, <3>1, <3>2
  <2>7. FreshFrame' /\ \A i \in DOMAIN injected' : injected'[i].frame \in DOMAIN frames'
    <3>1. DOMAIN injected = 1..Len(injected)
      BY LenProperties
    <3> QED
      BY <2>1, <2>3, <3>1 DEF FrameInv, FreshFrame
  <2> QED
    BY <2>3, <2>5, <2>6, <2>7 DEF FrameInv, Unused
<1>3. ASSUME NEW c \in Callers, Observe(c) PROVE FrameInv'
  <2>1. session'.obs = arg[c].frame /\ Unused(arg[c].frame)
    BY <1>3 DEF Observe, FrameInv, SessionTypes, SessionType
  <2>2. frames' = frames /\ injected' = injected /\ at'[c] = "idle"
        /\ \A d \in Callers \ {c} : at'[d] = at[d] /\ arg'[d] = arg[d]
    BY <1>3, Moved DEF Observe
  <2> QED
    <3>1. \A f : Unused(f)' <=> Unused(f)
      BY <2>2 DEF Unused
    <3>2. \A d \in Callers : /\ at'[d] \in {"check", "observe", "inject"} => Unused(arg'[d].frame)
                            /\ at'[d] = "inject" => frames[arg'[d].frame] = arg'[d].gen
      <4> HIDE DEF Types
      <4> QED
        BY <2>2 DEF FrameInv
    <3>3. FreshFrame' /\ \A i \in DOMAIN injected' : injected'[i].frame \in DOMAIN frames'
      BY <2>2 DEF FrameInv, FreshFrame
    <3> HIDE DEF Types
    <3> QED
      BY <2>1, <2>2, <3>1, <3>2, <3>3 DEF FrameInv
<1>4. ASSUME NEW c \in Callers, Looks(c) PROVE FrameInv'
  <2>1. at'[c] = "inject" /\ arg'[c] = arg[c]
        /\ \A d \in Callers \ {c} : at'[d] = at[d] /\ arg'[d] = arg[d]
    BY <1>4, Moved DEF Looks
  <2> QED
    BY <1>4, <2>1 DEF Looks, FrameInv, FreshFrame, Unused
<1>5. ASSUME NEW c \in Callers, NEW panics \in BOOLEAN, Inject(c, panics) PROVE FrameInv'
  <2>1. /\ Len(injected') = Len(injected) + 1 /\ injected'[Len(injected) + 1] = arg[c]
        /\ \A i \in DOMAIN injected : injected'[i] = injected[i]
        /\ DOMAIN injected = 1..Len(injected) /\ DOMAIN injected' = 1..Len(injected) + 1
        /\ Len(injected) \in Nat
    BY <1>5, AppendProperties, LenProperties DEF Inject
  <2>2. session'.obs = 0 /\ frames' = frames
    BY <1>5 DEF Inject, SessionTypes, SessionType
  <2>3. at'[c] = "idle" /\ \A d \in Callers \ {c} : at'[d] = at[d] /\ at'[d] \notin Operating
    BY <1>5, Moved DEF Inject, LockInv, Operating
  <2>4. Unused(arg[c].frame) /\ frames[arg[c].frame] = arg[c].gen
    BY <1>5 DEF Inject, FrameInv
  <2>5. FreshFrame'
    <3>1. ASSUME NEW i \in 1..Len(injected')
          PROVE  \/ i \in DOMAIN injected /\ injected'[i] = injected[i]
                 \/ i = Len(injected) + 1 /\ injected'[i] = arg[c]
      <4> DEFINE n == Len(injected)
      <4>1. i \in 1..(n + 1) /\ n \in Nat
        BY <2>1
      <4> HIDE DEF n
      <4>2. i \in 1..n \/ i = n + 1
        BY <4>1
      <4> QED
        BY <2>1, <4>2 DEF n
    <3>2. /\ \A i \in DOMAIN injected : injected[i].frame # arg[c].frame
          /\ frames'[arg[c].frame] = arg[c].gen
      BY <2>2, <2>4 DEF Unused
    <3>3. \A i \in DOMAIN injected : frames'[injected[i].frame] = injected[i].gen
            /\ \A j \in DOMAIN injected : injected[j].frame = injected[i].frame => i = j
      BY <2>1, <2>2 DEF FrameInv, FreshFrame
    <3> QED
      BY <3>1, <3>2, <3>3 DEF FreshFrame
  <2>6. \A i \in DOMAIN injected' : injected'[i].frame \in DOMAIN frames'
    BY <2>1, <2>2, <2>4 DEF FrameInv, Unused
  <2> QED
    BY <2>2, <2>3, <2>5, <2>6 DEF FrameInv, Operating
<1> QED
  BY MostKeepFrames, <1>1, <1>2, <1>3, <1>4, <1>5

-----------------------------------------------------------------------------
(* Operations: one that was injected is known by its receipt for as long   *)
(* as its generation lasts, and a generation that is over never returns.   *)

(* Until a resumed session is woken it does not run. *)
AwakeInv == \A c \in Callers : at[c] \in {"resuming", "waking"} => session.phase # "Running"

OnceInv ==
  /\ session.gen # 0 => [owner |-> Session, generation |-> session.gen] \in leases
  /\ \A p \in Procs : arg[p].gen <= session.gen
  /\ \A i \in DOMAIN injected :
       /\ injected[i].gen <= session.gen
       /\ injected[i].gen = session.gen
            => <<injected[i].gen, injected[i].op>> \in session.receipts
  /\ \A c \in Callers : at[c] = "waking" =>
       /\ \A i \in DOMAIN injected : injected[i].gen # session.gen
       /\ \A d \in Callers : at[d] \in {"act", "inject"} => arg[d].gen # session.gen
  /\ \A c \in Callers : at[c] \in {"act", "inject"} =>
       /\ \A i \in DOMAIN injected : injected[i].gen = arg[c].gen => injected[i].op # arg[c].op
       /\ arg[c].gen = session.gen => Receipt(c) \in session.receipts
  /\ OperationOnce

LEMMA AwakeStep ==
  ASSUME Types, LockInv, AwakeInv, [Next]_vars
  PROVE  AwakeInv'
<1> USE ProcsAssumption DEF AwakeInv, LockInv, Holding, Switching, Types, SessionTypes,
    SessionType, Procs
<1>1. CASE Submit
  BY <1>1 DEF Submit, CallTypes
<1>2. CASE Record \/ RunFails \/ Prepare
  BY <1>2, Moved DEF Record, RunFails, Prepare
<1>3. CASE Acquire
  BY <1>3, Moved DEF Acquire, Leaves
<1>4. CASE Claim
  BY <1>4, Moved DEF Claim, Leaves
<1>5. CASE Claimed
  BY <1>5, Moved DEF Claimed, GoesWith, CallTypes
<1>6. ASSUME Opens \/ OpeningFails PROVE AwakeInv'
  BY <1>6, Moved DEF Opens, Cleaned, Prepared, Traced, OpeningFails, Leaves
<1>7. CASE LoopEnds \/ RunEnds
  <2>1. session'.phase \in {session.phase, "Stopping"}
    <3> HIDE DEF SessionType
    <3> QED
      BY <1>7, StoppedIs DEF LoopEnds, RunEnds
  <2> QED
    BY <1>7, <2>1, Moved DEF LoopEnds, RunEnds
<1>8. CASE LoopPauses
  BY <1>8, Moved DEF LoopPauses, GoesWith, CallTypes
<1>9. CASE Panic
  BY <1>9, Moved DEF Panic
<1>10. ASSUME NEW p \in Procs, EnterGate(p) PROVE AwakeInv'
  BY <1>10, Moved DEF EnterGate, Own
<1>11. ASSUME NEW p \in Procs, GateOpens(p) \/ CleanupFails(p) PROVE AwakeInv'
  BY <1>11, Moved DEF GateOpens, CleanupFails, Own
<1>12. ASSUME NEW p \in Procs, PauseBegins(p) PROVE AwakeInv'
  BY <1>12, Moved DEF PauseBegins, Back
<1>13. ASSUME NEW p \in Procs, Paused(p) PROVE AwakeInv'
  BY <1>13, Moved DEF Paused, Back
<1>14. ASSUME NEW p \in Procs, SwitchUnwinds(p) PROVE AwakeInv'
  BY <1>14, Moved DEF SwitchUnwinds, Back
<1>15. ASSUME NEW c \in Callers, ResumeBegins(c) PROVE AwakeInv'
  BY <1>15, Moved DEF ResumeBegins
<1>16. ASSUME NEW c \in Callers, Resumed(c) PROVE AwakeInv'
  BY <1>16, Moved DEF Resumed, GoesWith, CallTypes
<1>17. ASSUME NEW c \in Callers, NEW ok \in BOOLEAN, Woken(c, ok) PROVE AwakeInv'
  BY <1>17, Moved DEF Woken
<1>18. ASSUME NEW p \in Procs, ReleaseBegins(p) PROVE AwakeInv'
  <2>1. session'.phase \in {session.phase, "Finished"}
    BY <1>18 DEF ReleaseBegins, Released
  <2>2. at'[p] \notin {"resuming", "waking"} /\ \A q \in Procs \ {p} : at'[q] = at[q]
    BY <1>18, Moved DEF ReleaseBegins, Released
  <2> QED
    BY <2>1, <2>2
<1>19. ASSUME NEW p \in Procs, ReleaseEnds(p) PROVE AwakeInv'
  BY <1>19, Moved DEF ReleaseEnds, Released
<1>20. ASSUME NEW p \in Procs, ReleaseFails(p) PROVE AwakeInv'
  BY <1>20, Moved DEF ReleaseFails
<1>21. ASSUME NEW p \in Procs, ReleaseAgain(p) \/ RunIsOver(p) PROVE AwakeInv'
  BY <1>21, Moved DEF ReleaseAgain, RunIsOver
<1>22. ASSUME NEW p \in Procs, GivesUp(p) PROVE AwakeInv'
  BY <1>22, Moved DEF GivesUp
<1>23. ASSUME NEW c \in Callers, Call(c) PROVE AwakeInv'
  BY <1>23, Moved DEF Call, GoesWith, CallTypes
<1>24. ASSUME NEW c \in Callers, Revoke(c) PROVE AwakeInv'
  BY <1>24, Moved DEF Revoke
<1>25. ASSUME NEW c \in Callers, Stop(c) \/ ReleaseAsked(c) PROVE AwakeInv'
  <2>1. session'.phase \in {session.phase, "Stopping"}
    <3> HIDE DEF SessionType
    <3> QED
      BY <1>25, StoppedIs DEF Stop, ReleaseAsked, Stops
  <2> QED
    BY <1>25, <2>1, Moved DEF Stop, ReleaseAsked, Stops
<1>26. CASE Expire
  BY <1>26, Moved DEF Expire
<1>27. ASSUME NEW c \in Callers, CaptureBegins(c) \/ InputBegins(c) PROVE AwakeInv'
  BY <1>27, Moved DEF CaptureBegins, InputBegins, OperationBegins
<1>28. ASSUME NEW c \in Callers, OperationRefused(c) PROVE AwakeInv'
  BY <1>28, Moved DEF OperationRefused
<1>29. ASSUME NEW c \in Callers, OperationFails(c) PROVE AwakeInv'
  BY <1>29, Moved DEF OperationFails
<1>30. ASSUME NEW c \in Callers, Captured(c) PROVE AwakeInv'
  BY <1>30, Moved DEF Captured, GoesWith, CallTypes
<1>31. ASSUME NEW c \in Callers, Checked(c) \/ Looks(c) PROVE AwakeInv'
  BY <1>31, Moved DEF Checked, Looks
<1>32. ASSUME NEW c \in Callers, Observe(c) PROVE AwakeInv'
  BY <1>32, Moved DEF Observe
<1>33. ASSUME NEW c \in Callers, NEW panics \in BOOLEAN, Inject(c, panics) PROVE AwakeInv'
  BY <1>33, Moved DEF Inject
<1>34. CASE UNCHANGED vars
  BY <1>34, Moved DEF vars, registry
<1> HIDE DEF AwakeInv
<1> QED
  BY Actions, <1>1, <1>2, <1>3, <1>4, <1>5, <1>6, <1>7, <1>8, <1>9, <1>10, <1>11, <1>12,
      <1>13, <1>14, <1>15, <1>16, <1>17, <1>18, <1>19, <1>20, <1>21, <1>22, <1>23, <1>24,
      <1>25, <1>26, <1>27, <1>28, <1>29, <1>30, <1>31, <1>32, <1>33, <1>34

(* The generation goes on, and nothing is injected or begun. *)
RecordKept ==
  /\ injected' = injected /\ session'.gen = session.gen
  /\ session.receipts \subseteq session'.receipts

CallsKept ==
  /\ \A p \in Procs : arg'[p].gen \in {0, session.gen, arg[p].gen}
  /\ \A c \in Callers :
       /\ at'[c] = "waking" => at[c] = "waking"
       /\ at'[c] \in {"act", "inject"} => at[c] \in {"act", "inject"} /\ arg'[c] = arg[c]

LEMMA LeasesGrow ==
  ASSUME [Proved!Next]_(Proved!vars)
  PROVE  leases \subseteq leases'
<1> USE DEF Proved!state, Proved!locals, Proved!ghosts, Proved!vars
<1>1. CASE Proved!ManualLease
  BY <1>1 DEF Proved!ManualLease
<1>2. ASSUME NEW p \in Procs, NEW l, Proved!Pause(p, l) \/ Proved!Resume(p, l) \/ Proved!Release(p, l)
      PROVE  leases \subseteq leases'
  BY <1>2 DEF Proved!Pause, Proved!Resume, Proved!Release, Proved!Transition
<1>3. ASSUME NEW p \in Procs,
             \/ \E id : Proved!Enter(p, id) \/ Proved!Sweep(p, id) \/ Proved!Transfer(p, id) \/ Proved!Claim(p, id)
             \/ Proved!Acquire(p) \/ Proved!Turned(p) \/ Proved!Leave(p)
             \/ Proved!ClaimGranted(p) \/ Proved!ClaimDropped(p)
             \/ Proved!Switch(p) \/ Proved!Switched(p) \/ Proved!SwitchFailed(p) \/ Proved!SwitchDropped(p)
      PROVE  leases \subseteq leases'
  BY <1>3 DEF Proved!Enter, Proved!Sweep, Proved!Transfer, Proved!Claim, Proved!Acquire,
      Proved!Turned,
     Proved!Leave, Proved!ClaimGranted, Proved!ClaimDropped, Proved!Switch, Proved!Switched,
     Proved!SwitchFailed, Proved!SwitchDropped
<1> QED
  BY <1>1, <1>2, <1>3 DEF Proved!Next

LEMMA MostKeepRecord ==
  ASSUME Types, [Next]_vars
  PROVE  \/ RecordKept \/ Claimed
         \/ \E p \in Procs : Paused(p)
         \/ \E c \in Callers : \/ Resumed(c) \/ InputBegins(c)
                              \/ \E ok \in BOOLEAN : Woken(c, ok) \/ Inject(c, ok)
<1> USE DEF RecordKept
<1> USE ProcsAssumption DEF Types, SessionTypes, SessionType, Same, history
<1>1. CASE Submit
  BY <1>1, StoppedIs DEF Submit, CallTypes
<1>2. CASE Record \/ RunFails \/ Prepare
  BY <1>2, StoppedIs DEF Record, RunFails, Prepare
<1>3. CASE Acquire
  BY <1>3, StoppedIs DEF Acquire, Leaves
<1>4. CASE Claim
  BY <1>4, StoppedIs DEF Claim, Leaves
<1>5. ASSUME Opens \/ OpeningFails PROVE RecordKept
  BY <1>5, StoppedIs DEF Opens, Cleaned, Prepared, Traced, OpeningFails, Leaves
<1>6. CASE LoopEnds \/ RunEnds
  BY <1>6, StoppedIs DEF LoopEnds, RunEnds
<1>7. CASE LoopPauses
  BY <1>7, StoppedIs DEF LoopPauses, GoesWith, CallTypes
<1>8. CASE Panic
  BY <1>8, StoppedIs DEF Panic
<1>9. ASSUME NEW p \in Procs, EnterGate(p) PROVE RecordKept
  BY <1>9, StoppedIs DEF EnterGate, Own
<1>10. ASSUME NEW p \in Procs, GateOpens(p) \/ CleanupFails(p) PROVE RecordKept
  BY <1>10, StoppedIs DEF GateOpens, CleanupFails, Own
<1>11. ASSUME NEW p \in Procs, PauseBegins(p) PROVE RecordKept
  BY <1>11, StoppedIs DEF PauseBegins, Back
<1>12. ASSUME NEW p \in Procs, SwitchUnwinds(p) PROVE RecordKept
  BY <1>12, StoppedIs DEF SwitchUnwinds, Back
<1>13. ASSUME NEW c \in Callers, ResumeBegins(c) PROVE RecordKept
  BY <1>13, StoppedIs DEF ResumeBegins
<1>14. ASSUME NEW p \in Procs, ReleaseBegins(p) PROVE RecordKept
  <2>1. session'.gen = session.gen /\ session'.receipts = session.receipts
    BY <1>14 DEF ReleaseBegins, Released
  <2> QED
    BY <1>14, <2>1 DEF ReleaseBegins
<1>15. ASSUME NEW p \in Procs, ReleaseEnds(p) PROVE RecordKept
  BY <1>15, StoppedIs DEF ReleaseEnds, Released
<1>16. ASSUME NEW p \in Procs, ReleaseFails(p) PROVE RecordKept
  BY <1>16, StoppedIs DEF ReleaseFails
<1>17. ASSUME NEW p \in Procs, ReleaseAgain(p) \/ RunIsOver(p) PROVE RecordKept
  BY <1>17, StoppedIs DEF ReleaseAgain, RunIsOver
<1>18. ASSUME NEW p \in Procs, GivesUp(p) PROVE RecordKept
  BY <1>18, StoppedIs DEF GivesUp
<1>19. ASSUME NEW c \in Callers, Call(c) PROVE RecordKept
  BY <1>19, StoppedIs DEF Call, GoesWith, CallTypes
<1>20. ASSUME NEW c \in Callers, Revoke(c) PROVE RecordKept
  BY <1>20, StoppedIs DEF Revoke
<1>21. ASSUME NEW c \in Callers, Stop(c) \/ ReleaseAsked(c) PROVE RecordKept
  BY <1>21, StoppedIs DEF Stop, ReleaseAsked, Stops
<1>22. CASE Expire
  BY <1>22, StoppedIs DEF Expire
<1>23. ASSUME NEW c \in Callers, CaptureBegins(c) PROVE RecordKept
  BY <1>23, StoppedIs DEF CaptureBegins, OperationBegins
<1>24. ASSUME NEW c \in Callers, OperationRefused(c) PROVE RecordKept
  BY <1>24, StoppedIs DEF OperationRefused
<1>25. ASSUME NEW c \in Callers, OperationFails(c) PROVE RecordKept
  BY <1>25, StoppedIs DEF OperationFails
<1>26. ASSUME NEW c \in Callers, Captured(c) PROVE RecordKept
  BY <1>26, StoppedIs DEF Captured, GoesWith, CallTypes
<1>27. ASSUME NEW c \in Callers, Checked(c) \/ Looks(c) PROVE RecordKept
  BY <1>27, StoppedIs DEF Checked, Looks
<1>28. ASSUME NEW c \in Callers, Observe(c) PROVE RecordKept
  BY <1>28, StoppedIs DEF Observe
<1>29. CASE UNCHANGED vars
  BY <1>29, StoppedIs DEF vars, registry
<1> HIDE DEF RecordKept
<1> QED
  BY Actions, <1>1, <1>2, <1>3, <1>4, <1>5, <1>6, <1>7, <1>8, <1>9, <1>10, <1>11, <1>12,
      <1>13, <1>14, <1>15, <1>16, <1>17, <1>18, <1>19, <1>20, <1>21, <1>22, <1>23, <1>24,
      <1>25, <1>26, <1>27, <1>28, <1>29

LEMMA MostKeepCalls ==
  ASSUME Types, [Next]_vars
  PROVE  \/ CallsKept \/ Claimed
         \/ \E p \in Procs : Paused(p)
         \/ \E c \in Callers : \/ Resumed(c) \/ InputBegins(c)
                              \/ \E ok \in BOOLEAN : Woken(c, ok) \/ Inject(c, ok)
<1> USE DEF CallsKept
<1> USE ProcsAssumption DEF Types, Procs, NoArg, Own
<1>1. CASE Submit
  BY <1>1 DEF Submit, CallTypes
<1>2. CASE Record \/ RunFails \/ Prepare
  BY <1>2, Moved DEF Record, RunFails, Prepare
<1>3. CASE Acquire
  BY <1>3, Moved DEF Acquire, Leaves
<1>4. CASE Claim
  BY <1>4, Moved DEF Claim, Leaves
<1>5. ASSUME Opens \/ OpeningFails PROVE CallsKept
  BY <1>5, Moved DEF Opens, Cleaned, Prepared, Traced, OpeningFails, Leaves
<1>6. CASE LoopEnds \/ RunEnds
  BY <1>6, Moved DEF LoopEnds, RunEnds
<1>7. CASE LoopPauses
  BY <1>7, Moved DEF LoopPauses, GoesWith, CallTypes
<1>8. CASE Panic
  BY <1>8, Moved DEF Panic
<1>9. ASSUME NEW p \in Procs, EnterGate(p) PROVE CallsKept
  BY <1>9, Moved DEF EnterGate, Own
<1>10. ASSUME NEW p \in Procs, GateOpens(p) \/ CleanupFails(p) PROVE CallsKept
  BY <1>10, Moved DEF GateOpens, CleanupFails, Own
<1>11. ASSUME NEW p \in Procs, PauseBegins(p) PROVE CallsKept
  BY <1>11, Moved DEF PauseBegins, Back
<1>12. ASSUME NEW p \in Procs, SwitchUnwinds(p) PROVE CallsKept
  BY <1>12, Moved DEF SwitchUnwinds, Back
<1>13. ASSUME NEW c \in Callers, ResumeBegins(c) PROVE CallsKept
  BY <1>13, Moved DEF ResumeBegins
<1>14. ASSUME NEW p \in Procs, ReleaseBegins(p) PROVE CallsKept
  BY <1>14, Moved DEF ReleaseBegins, Released
<1>15. ASSUME NEW p \in Procs, ReleaseEnds(p) PROVE CallsKept
  BY <1>15, Moved DEF ReleaseEnds, Released
<1>16. ASSUME NEW p \in Procs, ReleaseFails(p) PROVE CallsKept
  BY <1>16, Moved DEF ReleaseFails
<1>17. ASSUME NEW p \in Procs, ReleaseAgain(p) \/ RunIsOver(p) PROVE CallsKept
  BY <1>17, Moved DEF ReleaseAgain, RunIsOver
<1>18. ASSUME NEW p \in Procs, GivesUp(p) PROVE CallsKept
  BY <1>18, Moved DEF GivesUp
<1>19. ASSUME NEW c \in Callers, Call(c) PROVE CallsKept
  BY <1>19, Moved DEF Call, GoesWith, CallTypes
<1>20. ASSUME NEW c \in Callers, Revoke(c) PROVE CallsKept
  BY <1>20, Moved DEF Revoke
<1>21. ASSUME NEW c \in Callers, Stop(c) \/ ReleaseAsked(c) PROVE CallsKept
  BY <1>21, Moved DEF Stop, ReleaseAsked, Stops
<1>22. CASE Expire
  BY <1>22, Moved DEF Expire
<1>23. ASSUME NEW c \in Callers, CaptureBegins(c) PROVE CallsKept
  BY <1>23, Moved DEF CaptureBegins, OperationBegins
<1>24. ASSUME NEW c \in Callers, OperationRefused(c) PROVE CallsKept
  BY <1>24, Moved DEF OperationRefused
<1>25. ASSUME NEW c \in Callers, OperationFails(c) PROVE CallsKept
  BY <1>25, Moved DEF OperationFails
<1>26. ASSUME NEW c \in Callers, Captured(c) PROVE CallsKept
  BY <1>26, Moved DEF Captured, GoesWith, CallTypes
<1>27. ASSUME NEW c \in Callers, Checked(c) \/ Looks(c) PROVE CallsKept
  BY <1>27, Moved DEF Checked, Looks
<1>28. ASSUME NEW c \in Callers, Observe(c) PROVE CallsKept
  BY <1>28, Moved DEF Observe
<1>29. CASE UNCHANGED vars
  BY <1>29, Moved DEF vars, registry
<1> HIDE DEF CallsKept
<1> QED
  BY Actions, <1>1, <1>2, <1>3, <1>4, <1>5, <1>6, <1>7, <1>8, <1>9, <1>10, <1>11, <1>12,
      <1>13, <1>14, <1>15, <1>16, <1>17, <1>18, <1>19, <1>20, <1>21, <1>22, <1>23, <1>24,
      <1>25, <1>26, <1>27, <1>28, <1>29

(* A new lease has a generation of its own, later than any before it. *)
Renews(p) ==
  /\ session'.gen = generation /\ session.gen < generation /\ generation > 0
  /\ [owner |-> Session, generation |-> generation] \in leases'
  /\ injected' = injected
  /\ arg'[p].gen \in {0, arg[p].gen, generation} /\ at'[p] \notin {"act", "inject"}
  /\ \A q \in Procs \ {p} : at'[q] = at[q] /\ arg'[q] = arg[q]

LEMMA Renewals ==
  ASSUME Types, RegistryFacts, CallInv, AfterInv, OnceInv
  PROVE  /\ Claimed => Renews(Run)
         /\ \A p \in Procs : Paused(p) => Renews(p) /\ at'[p] # "waking"
         /\ \A c \in Callers : Resumed(c) => Renews(c)
<1> USE ProcsAssumption DEF Types, SessionTypes, CallTypes, Procs
<1>1. ASSUME NEW p \in Procs, pc[p] \in Switches \cup {"claiming"}
      PROVE  /\ next[p] = [owner |-> Session, generation |-> generation] /\ generation \in Nat
             /\ session.gen # 0 => session.gen < generation
             /\ pc[p] # "claiming" => generation > 0
  <2>1. /\ next[p].generation = generation /\ next[p].owner = Session
        /\ next[p] \in Lease /\ generation \in Nat
        /\ \A l \in leases : l.generation < generation /\ l.generation \in Nat
        /\ pc[p] # "claiming" => original[p] \in leases
    BY <1>1 DEF RegistryFacts, Lease
  <2>2. session.gen # 0 => [owner |-> Session, generation |-> session.gen] \in leases
    BY DEF OnceInv
  <2>3. session.gen # 0 => session.gen < generation
    BY <2>1, <2>2
  <2>4. pc[p] # "claiming" => generation > 0
    BY <2>1
  <2> QED
    BY <2>1, <2>3, <2>4 DEF Lease
<1>2. session.gen \in Nat /\ \A l : l = [owner |-> Session, generation |-> generation] => l.generation = generation
  BY DEF SessionType
<1>3. ASSUME Claimed PROVE Renews(Run)
  <2>1. Registry!ClaimGranted(Run) /\ at[Run] = "claim"
    BY <1>3 DEF Claimed
  <2>2. pc[Run] = "claiming" /\ leases' = leases \cup {next[Run]} /\ next[Run].generation > 0
    BY <2>1, Effects DEF AfterInv
  <2>3. session'.gen = generation /\ arg'[Run].gen = generation /\ at'[Run] = "clean"
        /\ \A q \in Procs \ {Run} : at'[q] = at[q] /\ arg'[q] = arg[q]
    BY <1>1, <1>2, <1>3, <2>2 DEF Claimed, GoesWith, SessionType, NoArg
  <2> QED
    BY <1>1, <1>2, <1>3, <2>2, <2>3 DEF Renews, Claimed, Same, history
<1>4. ASSUME NEW p \in Procs, Paused(p) PROVE Renews(p) /\ at'[p] # "waking"
  <2>1. Registry!Switched(p) /\ at[p] = "pausing"
    BY <1>4 DEF Paused
  <2>2. pc[p] = "cleaning" /\ leases' = leases \cup {next[p]}
    BY <2>1, Effects DEF AfterInv
  <2>3. session'.gen = generation
    BY <1>1, <1>2, <1>4, <2>2 DEF Paused, SessionType, Switches
  <2>4. arg'[p].gen \in {0, arg[p].gen} /\ at'[p] \in {"idle", "loop"}
        /\ \A q \in Procs \ {p} : at'[q] = at[q] /\ arg'[q] = arg[q]
    BY <1>4, Moved DEF Paused, Back, NoArg
  <2> QED
    BY <1>1, <1>2, <1>4, <2>2, <2>3, <2>4 DEF Renews, Paused, Same, history, Switches
<1>5. ASSUME NEW c \in Callers, Resumed(c) PROVE Renews(c)
  <2>1. Registry!Switched(c) /\ at[c] = "resuming"
    BY <1>5 DEF Resumed
  <2>2. pc[c] = "cleaning" /\ leases' = leases \cup {next[c]}
    BY <2>1, Effects DEF AfterInv
  <2>3. session'.gen = generation /\ arg'[c].gen = generation /\ at'[c] = "waking"
        /\ \A q \in Procs \ {c} : at'[q] = at[q] /\ arg'[q] = arg[q]
    BY <1>1, <1>2, <1>5, <2>2 DEF Resumed, GoesWith, SessionType, NoArg, Switches
  <2> QED
    BY <1>1, <1>2, <1>5, <2>2, <2>3 DEF Renews, Resumed, Same, history, Switches
<1> QED
  BY <1>3, <1>4, <1>5

LEMMA OnceStep ==
  ASSUME Types, Types', RegistryFacts, RegistryFacts', LockInv, LockInv', CallInv, AfterInv,
         AwakeInv, AwakeInv', OnceInv, leases \subseteq leases', [Next]_vars
  PROVE  OnceInv'
<1> USE DEF Types, CallTypes, HistoryTypes, Procs
<1>t. /\ session.gen \in Nat /\ session'.gen \in Nat
      /\ \A p \in Procs : arg[p].gen \in Nat /\ arg'[p].gen \in Nat
      /\ DOMAIN injected = 1..Len(injected)
      /\ \A i \in DOMAIN injected : injected[i].gen \in Nat
  <2>1. session.gen \in Nat /\ session'.gen \in Nat
    BY DEF SessionTypes, SessionType
  <2>2. \A p \in Procs : arg[p].gen \in Nat /\ arg'[p].gen \in Nat
    BY DEF ArgType
  <2>3. /\ DOMAIN injected = 1..Len(injected)
        /\ \A i \in DOMAIN injected : injected[i] \in ArgType
    BY LenProperties, ElementOfSeq
  <2> QED
    BY <2>1, <2>2, <2>3 DEF ArgType
<1>o. /\ \A p \in Procs : arg[p].gen <= session.gen
      /\ \A i \in DOMAIN injected : injected[i].gen <= session.gen
  BY DEF OnceInv
<1>1. CASE RecordKept /\ CallsKept
  <2> USE <1>1 DEF RecordKept, CallsKept, OnceInv
  <2>1. session'.gen # 0 => [owner |-> Session, generation |-> session'.gen] \in leases'
    OBVIOUS
  <2>2. ASSUME NEW p \in Procs PROVE arg'[p].gen <= session'.gen
    <3>1. arg'[p].gen \in {0, session.gen, arg[p].gen} /\ session'.gen = session.gen
      OBVIOUS
    <3>2. arg[p].gen <= session.gen /\ session.gen \in Nat /\ arg[p].gen \in Nat
      BY <1>t, <1>o
    <3> HIDE <1>1 DEF Types, OnceInv
    <3> QED
      BY <3>1, <3>2
  <2>3. \A c \in Callers : at'[c] \in {"act", "inject"} => Receipt(c)' = Receipt(c)
    BY DEF Receipt
  <2> QED
    BY <2>1, <2>2, <2>3 DEF OperationOnce
<1>2. ASSUME NEW p \in Procs, Renews(p) PROVE OnceInv'
  <2> USE <1>2 DEF Renews, OnceInv
  <2>1. ASSUME NEW q \in Procs PROVE arg[q].gen < generation /\ arg'[q].gen <= generation
    <3>1. arg'[q].gen \in {0, arg[q].gen, generation} /\ session.gen < generation
      OBVIOUS
    <3>2. /\ arg[q].gen <= session.gen /\ session.gen \in Nat /\ arg[q].gen \in Nat
          /\ generation \in Nat
      BY <1>t, <1>o DEF RegistryFacts
    <3> HIDE <1>2 DEF Types, OnceInv
    <3> QED
      BY <3>1, <3>2
  <2>2. \A i \in DOMAIN injected : injected[i].gen < generation
    <3> HIDE DEF OnceInv
    <3> QED
      BY <1>t, <1>o DEF RegistryFacts
  <2>3. \A c \in Callers : at'[c] \in {"act", "inject"}
          => at'[c] = at[c] /\ arg'[c] = arg[c] /\ arg'[c].gen < generation
    BY <2>1
  <2>4. /\ session'.gen # 0 => [owner |-> Session, generation |-> session'.gen] \in leases'
        /\ \A q \in Procs : arg'[q].gen <= session'.gen
    BY <2>1
  <2>5. /\ injected' = injected
        /\ \A i \in DOMAIN injected' : injected'[i].gen < session'.gen /\ injected'[i].gen # session'.gen
    BY <2>2, <1>t DEF RegistryFacts
  <2>6. ASSUME NEW c \in Callers, at'[c] \in {"act", "inject"}
        PROVE  /\ \A i \in DOMAIN injected' :
                    injected'[i].gen = arg'[c].gen => injected'[i].op # arg'[c].op
               /\ arg'[c].gen # session'.gen
    <3>1. at[c] \in {"act", "inject"} /\ arg'[c] = arg[c] /\ arg[c].gen < generation
      BY <2>3, <2>6
    <3>2. arg[c].gen # generation
      <4>1. arg[c].gen \in Nat /\ generation \in Nat
        BY <1>t DEF RegistryFacts
      <4> HIDE DEF Types, OnceInv, Renews
      <4> QED
        BY <3>1, <4>1
    <3>3. \A i \in DOMAIN injected : injected[i].gen = arg[c].gen => injected[i].op # arg[c].op
      BY <3>1
    <3>4. injected' = injected /\ session'.gen = generation
      OBVIOUS
    <3> HIDE <1>2 DEF Types, OnceInv, Renews
    <3> QED
      BY <3>1, <3>2, <3>3, <3>4
  <2>7. \A i \in DOMAIN injected' : injected'[i].gen <= session'.gen
    <3>1. \A i \in DOMAIN injected : injected[i].gen < generation /\ injected[i].gen \in Nat
      BY <2>2, <1>t
    <3>2. injected' = injected /\ session'.gen = generation /\ generation \in Nat
      BY DEF RegistryFacts
    <3> HIDE <1>2 DEF Types, OnceInv, Renews
    <3> QED
      BY <3>1, <3>2
  <2>8. OperationOnce'
    BY <2>5 DEF OperationOnce
  <2> HIDE <1>2 DEF Renews
  <2> QED
    BY <2>4, <2>5, <2>6, <2>7, <2>8
<1>3. ASSUME NEW c \in Callers, NEW ok \in BOOLEAN, Woken(c, ok) PROVE OnceInv'
  <2>1. /\ session'.gen = session.gen /\ injected' = injected
        /\ \/ session'.receipts = session.receipts
           \/ \A i \in DOMAIN injected : injected[i].gen # session.gen
    <3>1. CASE session' = Stopped(session)
      BY <1>3, <3>1, StoppedIs DEF Woken, SessionTypes, Same, history
    <3>2. at[c] = "waking"
      BY <1>3 DEF Woken
    <3> QED
      BY <1>3, <3>1, <3>2 DEF Woken, SessionTypes, SessionType, Same, history, OnceInv
  <2>2. /\ at'[c] = "idle" /\ arg'[c].gen \in {0, arg[c].gen} /\ at[c] = "waking"
        /\ \A q \in Procs \ {c} : at'[q] = at[q] /\ arg'[q] = arg[q]
    BY <1>3, Moved DEF Woken, NoArg
  <2>3. \A d \in Callers : at'[d] \in {"act", "inject"}
          => at[d] = at'[d] /\ arg'[d] = arg[d] /\ arg[d].gen # session.gen
    BY <2>2 DEF OnceInv
  <2>4. ASSUME NEW q \in Procs PROVE arg'[q].gen <= session'.gen
    <3>1. arg'[q].gen \in {0, arg[q].gen} /\ session'.gen = session.gen
      BY <2>1, <2>2
    <3>2. arg[q].gen <= session.gen /\ session.gen \in Nat /\ arg[q].gen \in Nat
      BY <1>t, <1>o
    <3> HIDE DEF Types
    <3> QED
      BY <3>1, <3>2
  <2>5. /\ session'.gen # 0 => [owner |-> Session, generation |-> session'.gen] \in leases'
        /\ \A i \in DOMAIN injected' :
             /\ injected'[i].gen <= session'.gen
             /\ injected'[i].gen = session'.gen
                  => <<injected'[i].gen, injected'[i].op>> \in session'.receipts
    BY <2>1 DEF OnceInv
  <2>6. \A d \in Callers : at'[d] # "waking"
    BY <2>2 DEF LockInv, Holding
  <2>7. ASSUME NEW d \in Callers, at'[d] \in {"act", "inject"}
        PROVE  /\ \A i \in DOMAIN injected' :
                    injected'[i].gen = arg'[d].gen => injected'[i].op # arg'[d].op
               /\ arg'[d].gen # session'.gen
    BY <2>1, <2>3, <2>7 DEF OnceInv
  <2>8. OperationOnce'
    BY <2>1 DEF OnceInv, OperationOnce
  <2> QED
    BY <2>4, <2>5, <2>6, <2>7, <2>8 DEF OnceInv
<1>4. ASSUME NEW c \in Callers, InputBegins(c) PROVE OnceInv'
  <2>1. /\ session'.gen = session.gen /\ injected' = injected
        /\ session'.receipts = session.receipts \cup {Receipt(c)}
        /\ session.phase = "Running" /\ session.gen = arg[c].gen
        /\ Receipt(c) \notin session.receipts
    BY <1>4 DEF InputBegins, OperationBegins, Allowed, Running, SessionTypes, SessionType,
       Same, history
  <2>2. /\ at'[c] = "act" /\ arg'[c] = arg[c]
        /\ \A q \in Procs \ {c} : at'[q] = at[q] /\ arg'[q] = arg[q]
    <3>1. Goes(c, "act")
      BY <1>4 DEF InputBegins, OperationBegins
    <3> QED
      BY <3>1, Moved
  <2>3. \A d \in Callers : at'[d] # "waking"
    BY <2>1, <2>2 DEF AwakeInv
  <2>4. \A i \in DOMAIN injected : injected[i].gen = arg[c].gen => injected[i].op # arg[c].op
    BY <2>1 DEF OnceInv, Receipt
  <2>5. \A d \in Callers : Receipt(d)' = Receipt(d)
    BY <2>2 DEF Receipt
  <2> QED
    BY <2>1, <2>2, <2>3, <2>4, <2>5, <1>t DEF OnceInv, OperationOnce
<1>5. ASSUME NEW c \in Callers, NEW panics \in BOOLEAN, Inject(c, panics) PROVE OnceInv'
  <2> DEFINE n == Len(injected)
  <2>1. /\ DOMAIN injected' = 1..(n + 1) /\ n \in Nat /\ injected'[n + 1] = arg[c]
        /\ Len(injected') = n + 1
        /\ \A i \in 1..n : injected'[i] = injected[i]
    BY <1>5, AppendProperties, LenProperties DEF Inject
  <2>2. session'.gen = session.gen /\ session.receipts \subseteq session'.receipts
    BY <1>5 DEF Inject, SessionTypes, SessionType
  <2>3. /\ at[c] = "inject" /\ at'[c] = "idle" /\ arg'[c].gen = 0
        /\ \A q \in Procs \ {c} : at'[q] = at[q] /\ arg'[q] = arg[q]
    BY <1>5, Moved DEF Inject, NoArg
  <2>4. \A d \in Callers : at'[d] \notin {"act", "inject"}
    BY <2>3 DEF LockInv, Operating
  <2>5. /\ \A i \in 1..n : injected[i].gen = arg[c].gen => injected[i].op # arg[c].op
        /\ arg[c].gen = session.gen => <<arg[c].gen, arg[c].op>> \in session.receipts
    BY <2>3, <1>t DEF OnceInv, Receipt
  <2> HIDE DEF n
  <2>6. \A i \in 1..(n + 1) : i \in 1..n \/ i = n + 1
    BY <2>1
  <2>7. DOMAIN injected = 1..n
    BY <1>t DEF n
  <2>8. OperationOnce'
    BY <2>1, <2>5, <2>6, <2>7 DEF OnceInv, OperationOnce, n
  <2>9. \A i \in DOMAIN injected' :
          /\ injected'[i].gen <= session'.gen
          /\ injected'[i].gen = session'.gen
               => <<injected'[i].gen, injected'[i].op>> \in session'.receipts
    BY <2>1, <2>2, <2>5, <2>6, <2>7 DEF OnceInv
  <2>10. ASSUME NEW d \in Callers, at'[d] = "waking", NEW i \in DOMAIN injected'
         PROVE  injected'[i].gen # session'.gen
    <3>1. at[d] = "waking"
      BY <2>3, <2>10
    <3>2. /\ \A j \in 1..n : injected[j].gen # session.gen
          /\ arg[c].gen # session.gen
      BY <2>3, <2>7, <3>1 DEF OnceInv
    <3>3. i \in 1..n \/ i = n + 1
      BY <2>1, <2>6, <2>10
    <3> QED
      BY <2>1, <2>2, <3>2, <3>3
  <2>11. \A p \in Procs : arg'[p].gen <= session'.gen
    BY <2>2, <2>3, <1>t, <1>o
  <2>12. session'.gen # 0 => [owner |-> Session, generation |-> session'.gen] \in leases'
    BY <2>2 DEF OnceInv
  <2> QED
    BY <2>2, <2>3, <2>4, <2>8, <2>9, <2>10, <2>11, <2>12 DEF OnceInv
<1> QED
  BY MostKeepRecord, MostKeepCalls, Renewals, <1>1, <1>2, <1>3, <1>4, <1>5, ProcsAssumption

-----------------------------------------------------------------------------
(* The target: while no claim or switch is under way it is owned exactly   *)
(* under the lease of the session, and a switch that is dropped returns to *)
(* that lease.                                                             *)

Unclaimed == {"submitted", "queued", "prepared", "execute"}

OwnedInv ==
  \A p \in Procs : pc[p] \in {"entering", "inside"} => identity[p].owner = Session

HeldInv ==
  /\ at[Run] \in Unclaimed => owner = NoOwner
  /\ at[Run] \in Unclaimed \cup {"claim"} => session.lease = NoLease
  /\ \A p \in Procs : at[p] \in Switching => session.lease # NoLease /\ original[p] = session.lease
  /\ (\A p \in Procs : at[p] \notin Switching \cup {"claim"}) /\ owner # NoOwner
       => session.lease # NoLease /\ generation = session.lease.generation

LEMMA OwnedStep ==
  ASSUME Types, RegistryFacts, CallInv, OwnedInv, [Next]_vars
  PROVE  OwnedInv'
<1> USE ProcsAssumption DEF OwnedInv, CallInv, Types, Procs, Others, Locals, State,
    Withdraws, Begins, Drops, registry, Switches, Switching
<1>1. CASE Submit
  BY <1>1, Effects DEF Submit, CallTypes
<1>2. CASE Record \/ RunFails \/ Prepare
  BY <1>2, Effects DEF Record, RunFails, Prepare
<1>3. CASE Acquire
  BY <1>3, Effects DEF Acquire, Leaves
<1>4. CASE Claim
  BY <1>4, Effects DEF Claim, Leaves
<1>5. CASE Claimed
  BY <1>5, Effects DEF Claimed, GoesWith, CallTypes
<1>6. ASSUME Opens \/ OpeningFails PROVE OwnedInv'
  BY <1>6, Effects DEF Opens, Cleaned, Prepared, Traced, OpeningFails, Leaves
<1>7. CASE LoopEnds \/ RunEnds
  BY <1>7, Effects DEF LoopEnds, RunEnds
<1>8. CASE LoopPauses
  BY <1>8, Effects DEF LoopPauses, GoesWith, CallTypes
<1>9. CASE Panic
  BY <1>9, Effects DEF Panic
<1>10. ASSUME NEW p \in Procs, EnterGate(p) PROVE OwnedInv'
  <2>1. /\ Others(p) /\ identity'[p] = Registry!Owned([owner |-> Session, generation |-> arg[p].gen])
    BY <1>10, Effects DEF EnterGate
  <2> QED
    BY <2>1 DEF Registry!Owned
<1>11. ASSUME NEW p \in Procs, GateOpens(p) \/ CleanupFails(p) PROVE OwnedInv'
  BY <1>11, Effects DEF GateOpens, CleanupFails, Own
<1>12. ASSUME NEW p \in Procs, PauseBegins(p) PROVE OwnedInv'
  <2>1. CASE Registry!Pause(p, session.lease)
    <3>1. Begins(p, session.lease, "Paused")
      BY <2>1, Effects, ZenonT(30) DEF Procs
    <3> QED
      BY <1>12, <2>1, <3>1, Effects DEF PauseBegins, Back
  <2>2. CASE ~Registry!Pause(p, session.lease)
    BY <1>12, <2>2, Effects DEF PauseBegins, Back
  <2> QED
    BY <2>1, <2>2
<1>13. ASSUME NEW p \in Procs, Paused(p) PROVE OwnedInv'
  BY <1>13, Effects DEF Paused, Back
<1>14. ASSUME NEW p \in Procs, SwitchUnwinds(p) PROVE OwnedInv'
  BY <1>14, Effects DEF SwitchUnwinds, Back
<1>15. ASSUME NEW c \in Callers, ResumeBegins(c) PROVE OwnedInv'
  <2>1. CASE Registry!Resume(c, session.lease)
    <3>1. Begins(c, session.lease, "Running")
      BY <2>1, Effects, ZenonT(30) DEF Procs
    <3> QED
      BY <1>15, <2>1, <3>1, Effects DEF ResumeBegins
  <2>2. CASE ~Registry!Resume(c, session.lease)
    BY <1>15, <2>2, Effects DEF ResumeBegins
  <2> QED
    BY <2>1, <2>2
<1>16. ASSUME NEW c \in Callers, Resumed(c) PROVE OwnedInv'
  BY <1>16, Effects DEF Resumed, GoesWith, CallTypes
<1>17. ASSUME NEW c \in Callers, NEW ok \in BOOLEAN, Woken(c, ok) PROVE OwnedInv'
  BY <1>17, Effects DEF Woken
<1>18. ASSUME NEW p \in Procs, ReleaseBegins(p) PROVE OwnedInv'
  <2>1. CASE Registry!Release(p, session.lease)
    <3>1. Begins(p, session.lease, "Idle")
      BY <2>1, Effects, ZenonT(30) DEF Procs
    <3> QED
      BY <1>18, <2>1, <3>1, Effects DEF ReleaseBegins, Released
  <2>2. CASE ~Registry!Release(p, session.lease)
    BY <1>18, <2>2, Effects DEF ReleaseBegins, Released
  <2> QED
    BY <2>1, <2>2
<1>19. ASSUME NEW p \in Procs, ReleaseEnds(p) PROVE OwnedInv'
  BY <1>19, Effects DEF ReleaseEnds, Released
<1>20. ASSUME NEW p \in Procs, ReleaseFails(p) PROVE OwnedInv'
  BY <1>20, Effects DEF ReleaseFails
<1>21. ASSUME NEW p \in Procs, ReleaseAgain(p) \/ RunIsOver(p) PROVE OwnedInv'
  BY <1>21, Effects DEF ReleaseAgain, RunIsOver
<1>22. ASSUME NEW p \in Procs, GivesUp(p) PROVE OwnedInv'
  BY <1>22, Effects DEF GivesUp
<1>23. ASSUME NEW c \in Callers, Call(c) PROVE OwnedInv'
  BY <1>23, Effects DEF Call, GoesWith, CallTypes
<1>24. ASSUME NEW c \in Callers, Revoke(c) PROVE OwnedInv'
  BY <1>24, Effects DEF Revoke
<1>25. ASSUME NEW c \in Callers, Stop(c) \/ ReleaseAsked(c) PROVE OwnedInv'
  BY <1>25, Effects DEF Stop, ReleaseAsked, Stops
<1>26. CASE Expire
  BY <1>26, Effects DEF Expire
<1>27. ASSUME NEW c \in Callers, CaptureBegins(c) \/ InputBegins(c) PROVE OwnedInv'
  BY <1>27, Effects DEF CaptureBegins, InputBegins, OperationBegins
<1>28. ASSUME NEW c \in Callers, OperationRefused(c) PROVE OwnedInv'
  BY <1>28, Effects DEF OperationRefused
<1>29. ASSUME NEW c \in Callers, OperationFails(c) PROVE OwnedInv'
  BY <1>29, Effects DEF OperationFails
<1>30. ASSUME NEW c \in Callers, Captured(c) PROVE OwnedInv'
  <2>1. Withdraws(c)
    BY <1>30, Effects DEF Captured
  <2> QED
    BY <2>1
<1>31. ASSUME NEW c \in Callers, Checked(c) \/ Looks(c) PROVE OwnedInv'
  BY <1>31, Effects DEF Checked, Looks
<1>32. ASSUME NEW c \in Callers, Observe(c) PROVE OwnedInv'
  BY <1>32, Effects DEF Observe
<1>33. ASSUME NEW c \in Callers, NEW panics \in BOOLEAN, Inject(c, panics) PROVE OwnedInv'
  BY <1>33, Effects DEF Inject
<1>34. CASE UNCHANGED vars
  BY <1>34, Effects DEF vars, registry
<1> HIDE DEF OwnedInv
<1> QED
  BY Actions, <1>1, <1>2, <1>3, <1>4, <1>5, <1>6, <1>7, <1>8, <1>9, <1>10, <1>11, <1>12,
      <1>13, <1>14, <1>15, <1>16, <1>17, <1>18, <1>19, <1>20, <1>21, <1>22, <1>23, <1>24,
      <1>25, <1>26, <1>27, <1>28, <1>29, <1>30, <1>31, <1>32, <1>33, <1>34

(* Nothing is claimed, switched or given back. *)
HoldKept ==
  /\ session'.lease = session.lease
  /\ owner' = owner /\ generation' = generation /\ \A p \in Procs : original'[p] = original[p]

PlacesKept ==
  /\ \A p \in Procs : at'[p] \in Switching \cup {"claim"} <=> at[p] \in Switching \cup {"claim"}
  /\ \A p \in Procs : at'[p] \in Switching <=> at[p] \in Switching
  /\ at'[Run] \in Unclaimed => at[Run] \in Unclaimed
  /\ at'[Run] = "claim" <=> at[Run] = "claim"

LEMMA WithdrawsKeeps ==
  ASSUME NEW x \in Procs, Withdraws(x)
  PROVE  owner' = owner /\ generation' = generation /\ \A p \in Procs : original'[p] = original[p]
  BY DEF Withdraws, Others, Locals, State

LEMMA MostKeepHold ==
  ASSUME Types, RegistryFacts, PlaceInv, [Next]_vars
  PROVE  \/ HoldKept \/ Claim \/ Claimed \/ Panic
         \/ \E p \in Procs : \/ PauseBegins(p) \/ Paused(p) \/ SwitchUnwinds(p) \/ GivesUp(p)
                            \/ ReleaseBegins(p) \/ ReleaseEnds(p) \/ ReleaseFails(p)
         \/ \E c \in Callers : ResumeBegins(c) \/ Resumed(c)
<1> USE DEF HoldKept
<1> USE ProcsAssumption DEF Types, SessionTypes, SessionType, Own, Others, Locals, State,
    Withdraws, registry
<1>1. CASE Submit
  BY <1>1, StoppedIs, Effects DEF Submit, CallTypes
<1>2. CASE Record \/ RunFails \/ Prepare
  BY <1>2, StoppedIs, Effects DEF Record, RunFails, Prepare
<1>3. CASE Acquire
  BY <1>3, StoppedIs, Effects DEF Acquire, Leaves
<1>4. ASSUME Opens \/ OpeningFails PROVE HoldKept
  <2>1. Withdraws(Run) \/ UNCHANGED registry
    <3>1. Registry!Leave(Run) \/ UNCHANGED registry
      BY <1>4 DEF Opens, Cleaned, Prepared, Traced, OpeningFails
    <3> QED
      BY <3>1, Effects DEF Procs
  <2>2. session'.lease = session.lease
    BY <1>4, StoppedIs DEF Opens, Cleaned, Prepared, Traced, OpeningFails, Leaves
  <2> QED
    BY <2>1, <2>2, WithdrawsKeeps DEF Procs
<1>5. CASE LoopEnds \/ RunEnds
  BY <1>5, StoppedIs, Effects DEF LoopEnds, RunEnds
<1>6. CASE LoopPauses
  BY <1>6, StoppedIs, Effects DEF LoopPauses, GoesWith, CallTypes
<1>7. ASSUME NEW p \in Procs, EnterGate(p) PROVE HoldKept
  BY <1>7, StoppedIs, Effects DEF EnterGate, Own
<1>8. ASSUME NEW p \in Procs, GateOpens(p) \/ CleanupFails(p) PROVE HoldKept
  BY <1>8, StoppedIs, Effects DEF GateOpens, CleanupFails, Own
<1>9. ASSUME NEW c \in Callers, NEW ok \in BOOLEAN, Woken(c, ok) PROVE HoldKept
  <2>1. Withdraws(c)
    BY <1>9, Effects DEF Woken, Procs
  <2>2. session'.lease = session.lease
    <3>1. CASE session' = Stopped(session)
      <4> HIDE DEF SessionType
      <4> QED
        BY <3>1, StoppedIs
    <3> QED
      BY <1>9, <3>1 DEF Woken
  <2> QED
    BY <2>1, <2>2, WithdrawsKeeps DEF Procs
<1>10. ASSUME NEW p \in Procs, ReleaseAgain(p) \/ RunIsOver(p) PROVE HoldKept
  BY <1>10, StoppedIs, Effects DEF ReleaseAgain, RunIsOver
<1>11. ASSUME NEW c \in Callers, Call(c) PROVE HoldKept
  BY <1>11, StoppedIs, Effects DEF Call, GoesWith, CallTypes
<1>12. ASSUME NEW c \in Callers, Revoke(c) PROVE HoldKept
  BY <1>12, StoppedIs, Effects DEF Revoke
<1>13. ASSUME NEW c \in Callers, Stop(c) \/ ReleaseAsked(c) PROVE HoldKept
  BY <1>13, StoppedIs, Effects DEF Stop, ReleaseAsked, Stops
<1>14. CASE Expire
  BY <1>14, StoppedIs, Effects DEF Expire
<1>15. ASSUME NEW c \in Callers, CaptureBegins(c) \/ InputBegins(c) PROVE HoldKept
  BY <1>15, StoppedIs, Effects DEF CaptureBegins, InputBegins, OperationBegins
<1>16. ASSUME NEW c \in Callers, OperationRefused(c) PROVE HoldKept
  BY <1>16, StoppedIs, Effects DEF OperationRefused
<1>17. ASSUME NEW c \in Callers, OperationFails(c) PROVE HoldKept
  <2>1. Withdraws(c) \/ UNCHANGED registry
    BY <1>17, Effects DEF OperationFails, Procs
  <2> QED
    BY <1>17, <2>1, WithdrawsKeeps DEF OperationFails, Procs
<1>18. ASSUME NEW c \in Callers, Captured(c) PROVE HoldKept
  <2>1. Withdraws(c)
    BY <1>18, Effects DEF Captured, Procs
  <2>2. session'.lease = session.lease
    BY <1>18, StoppedIs DEF Captured
  <2> QED
    BY <2>1, <2>2, WithdrawsKeeps DEF Procs
<1>19. ASSUME NEW c \in Callers, Checked(c) \/ Looks(c) PROVE HoldKept
  BY <1>19, StoppedIs, Effects DEF Checked, Looks
<1>20. ASSUME NEW c \in Callers, Observe(c) PROVE HoldKept
  BY <1>20, StoppedIs, Effects DEF Observe
<1>21. ASSUME NEW c \in Callers, NEW panics \in BOOLEAN, Inject(c, panics) PROVE HoldKept
  <2>1. Withdraws(c)
    BY <1>21, Effects DEF Inject, Procs
  <2>2. session'.lease = session.lease
    BY <1>21, StoppedIs DEF Inject
  <2> QED
    BY <2>1, <2>2, WithdrawsKeeps DEF Procs
<1>22. CASE UNCHANGED vars
  BY <1>22, StoppedIs, Effects DEF vars, registry
<1> HIDE DEF HoldKept
<1> QED
  BY Actions, <1>1, <1>2, <1>3, <1>4, <1>5, <1>6, <1>7, <1>8, <1>9, <1>10, <1>11, <1>12,
      <1>13, <1>14, <1>15, <1>16, <1>17, <1>18, <1>19, <1>20, <1>21, <1>22

LEMMA MostKeepPlaces ==
  ASSUME Types, RegistryFacts, PlaceInv, [Next]_vars
  PROVE  \/ PlacesKept \/ Claim \/ Claimed \/ Panic
         \/ \E p \in Procs : \/ PauseBegins(p) \/ Paused(p) \/ SwitchUnwinds(p) \/ GivesUp(p)
                            \/ ReleaseBegins(p) \/ ReleaseEnds(p) \/ ReleaseFails(p)
         \/ \E c \in Callers : ResumeBegins(c) \/ Resumed(c)
<1> USE DEF PlacesKept
<1> USE ProcsAssumption DEF Types, Procs, Switching, Unclaimed, Own, PlaceInv
<1>1. CASE Submit
  BY <1>1 DEF Submit, CallTypes
<1>2. CASE Record \/ RunFails \/ Prepare
  BY <1>2, Moved DEF Record, RunFails, Prepare
<1>3. CASE Acquire
  BY <1>3, Moved DEF Acquire, Leaves
<1>4. ASSUME Opens \/ OpeningFails PROVE PlacesKept
  BY <1>4, Moved DEF Opens, Cleaned, Prepared, Traced, OpeningFails, Leaves
<1>5. CASE LoopEnds \/ RunEnds
  BY <1>5, Moved DEF LoopEnds, RunEnds
<1>6. CASE LoopPauses
  BY <1>6, Moved DEF LoopPauses, GoesWith, CallTypes
<1>7. ASSUME NEW p \in Procs, EnterGate(p) PROVE PlacesKept
  BY <1>7, Moved DEF EnterGate, Own
<1>8. ASSUME NEW p \in Procs, GateOpens(p) \/ CleanupFails(p) PROVE PlacesKept
  BY <1>8, Moved DEF GateOpens, CleanupFails, Own
<1>9. ASSUME NEW c \in Callers, NEW ok \in BOOLEAN, Woken(c, ok) PROVE PlacesKept
  BY <1>9, Moved DEF Woken
<1>10. ASSUME NEW p \in Procs, ReleaseAgain(p) \/ RunIsOver(p) PROVE PlacesKept
  BY <1>10, Moved DEF ReleaseAgain, RunIsOver
<1>11. ASSUME NEW c \in Callers, Call(c) PROVE PlacesKept
  BY <1>11, Moved DEF Call, GoesWith, CallTypes
<1>12. ASSUME NEW c \in Callers, Revoke(c) PROVE PlacesKept
  BY <1>12, Moved DEF Revoke
<1>13. ASSUME NEW c \in Callers, Stop(c) \/ ReleaseAsked(c) PROVE PlacesKept
  BY <1>13, Moved DEF Stop, ReleaseAsked, Stops
<1>14. CASE Expire
  BY <1>14, Moved DEF Expire
<1>15. ASSUME NEW c \in Callers, CaptureBegins(c) \/ InputBegins(c) PROVE PlacesKept
  BY <1>15, Moved DEF CaptureBegins, InputBegins, OperationBegins
<1>16. ASSUME NEW c \in Callers, OperationRefused(c) PROVE PlacesKept
  BY <1>16, Moved DEF OperationRefused
<1>17. ASSUME NEW c \in Callers, OperationFails(c) PROVE PlacesKept
  BY <1>17, Moved DEF OperationFails
<1>18. ASSUME NEW c \in Callers, Captured(c) PROVE PlacesKept
  BY <1>18, Moved DEF Captured, GoesWith, CallTypes
<1>19. ASSUME NEW c \in Callers, Checked(c) \/ Looks(c) PROVE PlacesKept
  BY <1>19, Moved DEF Checked, Looks
<1>20. ASSUME NEW c \in Callers, Observe(c) PROVE PlacesKept
  BY <1>20, Moved DEF Observe
<1>21. ASSUME NEW c \in Callers, NEW panics \in BOOLEAN, Inject(c, panics) PROVE PlacesKept
  BY <1>21, Moved DEF Inject
<1>22. CASE UNCHANGED vars
  BY <1>22, Moved DEF vars, registry
<1> HIDE DEF PlacesKept
<1> QED
  BY Actions, <1>1, <1>2, <1>3, <1>4, <1>5, <1>6, <1>7, <1>8, <1>9, <1>10, <1>11, <1>12,
      <1>13, <1>14, <1>15, <1>16, <1>17, <1>18, <1>19, <1>20, <1>21, <1>22

(* p goes from one place to another and nobody else moves. *)
Alone(p, places) == at'[p] \in places /\ \A q \in Procs \ {p} : at'[q] = at[q]

Settled == Places \ (Switching \cup Unclaimed \cup {"claim"})

LEMMA HeldStep ==
  ASSUME Types, Types', RegistryFacts, PlaceInv, LockInv, CallInv, AfterInv, LeaseInv,
         HeldInv, [Next]_vars
  PROVE  HeldInv'
<1> USE ProcsAssumption, NoneAssumption, SessionAssumption DEF Types, Procs
<1>a. /\ Run \in Procs
      /\ \A p, q \in Procs : at[p] \in Switching \cup {"claim"} /\ at[q] \in Switching \cup {"claim"}
                                => p = q
      /\ transition = None => \A p \in Procs : at[p] \notin Switching \cup {"claim"}
      /\ \A p \in Procs : pc[p] \in Switches \cup {"claiming"} <=> at[p] \in Switching \cup {"claim"}
      /\ \A p \in Procs : pc[p] \in Switches <=> at[p] \in Switching
  BY DEF LockInv, CallInv, Holding
<1>b. \A p \in Procs : at[p] \in Switching \cup {"claim"} =>
        /\ next[p].generation = generation /\ next[p].owner = Session /\ owner = Session
        /\ next[p] # NoLease
  BY <1>a DEF RegistryFacts, NoLease, Registry!NoLease
<1>1. CASE HoldKept /\ PlacesKept
  BY <1>1 DEF HoldKept, PlacesKept, HeldInv
<1>2. ASSUME NEW p \in Procs, Begins(p, session.lease, "Paused") \/ Begins(p, session.lease, "Running")
                                \/ Begins(p, session.lease, "Idle"),
             Alone(p, Switching), session'.lease = session.lease, owner' = owner, owner # NoOwner
      PROVE  HeldInv'
  <2>1. /\ session.lease # NoLease /\ original'[p] = session.lease
        /\ pc[p] = "idle" /\ \A q \in Procs \ {p} : original'[q] = original[q]
    BY <1>2 DEF Begins, Others, NoLease, Registry!NoLease
  <2> QED
    BY <1>2, <2>1, <1>a DEF HeldInv, Alone, Switching, Unclaimed
<1>3. ASSUME NEW p \in Procs, at[p] \in Switching \cup {"claim"},
             Alone(p, Settled), session'.lease = next[p], owner' = owner, generation' = generation
      PROVE  HeldInv'
  <2>1. \A q \in Procs : at'[q] \notin Switching \cup {"claim"}
    BY <1>3, <1>a DEF Alone, Settled
  <2>2. at'[Run] \notin Unclaimed \cup {"claim"}
    <3>1. CASE p = Run
      BY <1>3, <3>1 DEF Alone, Settled
    <3>2. CASE p # Run
      <4>1. at'[Run] = at[Run] /\ at[Run] # "claim"
        BY <1>3, <1>a, <3>2 DEF Alone
      <4>2. owner = Session
        BY <1>3, <1>b
      <4> QED
        BY <4>1, <4>2 DEF HeldInv
    <3> QED
      BY <3>1, <3>2
  <2> QED
    BY <1>3, <1>b, <2>1, <2>2 DEF HeldInv
<1>4. ASSUME NEW p \in Procs, at[p] \in Switching, Drops(p), Alone(p, Settled),
             session'.lease = session.lease
      PROVE  HeldInv'
  <2>1. \A q \in Procs : at'[q] \notin Switching \cup {"claim"}
    BY <1>4, <1>a DEF Alone, Settled
  <2>2. at'[Run] \notin Unclaimed \cup {"claim"}
    BY <1>4, <1>a, <2>1 DEF Alone, Settled, HeldInv, Switching, Unclaimed
  <2> QED
    BY <1>4, <2>1, <2>2 DEF HeldInv, Drops
<1>5. ASSUME NEW p \in Procs, owner' = NoOwner, Alone(p, Settled),
             \A q \in Procs \ {p} : at[q] \notin Switching \cup {"claim"},
             session'.lease \in {session.lease, NoLease}
      PROVE  HeldInv'
  BY <1>5 DEF HeldInv, Alone, Settled
<1>6. ASSUME NEW p \in Procs, Alone(p, Settled), at[p] \notin Switching \cup {"claim"},
             session'.lease = session.lease, owner' = owner, generation' = generation,
             \A q \in Procs : original'[q] = original[q]
      PROVE  HeldInv'
  BY <1>6 DEF HeldInv, Alone, Settled
<1>7. CASE Claim
  <2>1. CASE Registry!Claim(Run, Session)
    <3>1. /\ transition = None /\ session' = session /\ at'[Run] = "claim" /\ at[Run] = "execute"
          /\ \A q \in Procs \ {Run} : at'[q] = at[q] /\ original'[q] = original[q]
      <4>1. /\ Others(Run) /\ original'[Run] = original[Run] /\ pc[Run] = "idle" /\ pc'[Run] = "claiming"
        BY <2>1, Effects
      <4>2. /\ transition = None /\ at[Run] = "execute"
            /\ \/ session' = session /\ Goes(Run, "claim")
               \/ UNCHANGED registry
        BY <1>7 DEF Claim
      <4>3. session' = session /\ Goes(Run, "claim")
        BY <4>1, <4>2 DEF registry
      <4> QED
        BY <4>1, <4>2, <4>3, Moved DEF Others
    <3> QED
      BY <3>1, <1>a DEF HeldInv, Switching, Unclaimed
  <2>2. CASE ~Registry!Claim(Run, Session)
    <3>1. /\ session'.lease = session.lease /\ UNCHANGED registry
      BY <1>7, <2>2 DEF Claim, Leaves, SessionTypes, SessionType
    <3>2. Alone(Run, Settled) /\ at[Run] = "execute"
      BY <1>7, <2>2, Moved DEF Claim, Leaves, Alone, Settled, Switching, Unclaimed, Places
    <3> QED
      BY <1>6, <3>1, <3>2 DEF registry, Switching
  <2> QED
    BY <2>1, <2>2
<1>8. CASE Claimed
  <2>1. /\ session'.lease = next[Run] /\ at[Run] = "claim"
    BY <1>8 DEF Claimed, SessionTypes, SessionType
  <2>2. owner' = owner /\ generation' = generation
    BY <1>8, Effects DEF Claimed
  <2>3. Alone(Run, Settled)
    BY <1>8 DEF Claimed, GoesWith, CallTypes, Alone, Settled, Switching, Unclaimed, Places
  <2> QED
    BY <1>3, <2>1, <2>2, <2>3
<1>9. CASE Panic
  <2>1. session'.lease = session.lease
    BY <1>9 DEF Panic, SessionTypes, SessionType
  <2>2. Alone(Run, Settled)
    BY <1>9, Moved DEF Panic, Alone, Settled, Switching, Unclaimed, Places
  <2>3. CASE pc[Run] = "idle" /\ UNCHANGED registry
    <3>1. at[Run] \notin Switching \cup {"claim"}
      BY <1>a, <2>3 DEF Switches
    <3> QED
      BY <1>6, <2>1, <2>2, <2>3, <3>1 DEF registry
  <2>4. CASE Registry!ClaimDropped(Run)
    <3>1. owner' = NoOwner /\ pc[Run] = "claiming"
      BY <2>4, Effects
    <3> QED
      BY <1>5, <1>a, <2>1, <2>2, <3>1
  <2>5. CASE Registry!SwitchDropped(Run)
    <3>1. Drops(Run)
      BY <2>5, Effects
    <3>2. at[Run] \in Switching
      BY <3>1, <1>a DEF Drops, Switches
    <3> QED
      BY <1>4, <2>1, <2>2, <3>1, <3>2
  <2>6. CASE Registry!Turned(Run) \/ Registry!Leave(Run)
    <3>1. Withdraws(Run) /\ pc[Run] \in {"entering", "sweeping", "inside", "worker"}
      BY <2>6, Effects
    <3>2. at[Run] \notin Switching \cup {"claim"}
      BY <3>1, <1>a DEF Switches
    <3> QED
      BY <1>6, <2>1, <2>2, <3>1, <3>2, WithdrawsKeeps
  <2> QED
    BY <1>9, <2>3, <2>4, <2>5, <2>6 DEF Panic
<1>10. ASSUME NEW p \in Procs, PauseBegins(p) PROVE HeldInv'
  <2>1. session'.lease = session.lease
    BY <1>10 DEF PauseBegins, SessionTypes, SessionType
  <2>2. CASE Registry!Pause(p, session.lease)
    <3>1. Begins(p, session.lease, "Paused") /\ phase = "Running"
      BY <2>2, Effects, Zenon
    <3>2. owner' = owner /\ owner # NoOwner
      BY <3>1 DEF Begins, RegistryFacts
    <3>3. at[p] = "pause" /\ \A q \in Procs \ {p} : at'[q] = at[q]
      BY <1>10, Moved DEF PauseBegins
    <3>4. Alone(p, Switching)
      <4>1. Goes(p, "pausing") \/ UNCHANGED registry
        BY <1>10 DEF PauseBegins
      <4>2. ~UNCHANGED registry
        BY <3>1 DEF Begins, registry
      <4> QED
        BY <4>1, <4>2, Moved DEF Alone, Switching
    <3> QED
      BY <1>2, <2>1, <3>1, <3>2, <3>4
  <2>3. CASE ~Registry!Pause(p, session.lease)
    <3>1. UNCHANGED registry /\ at[p] = "pause"
      BY <1>10, <2>3 DEF PauseBegins
    <3>2. Alone(p, Settled)
      BY <1>10, <2>3, Moved DEF PauseBegins, Back, Alone, Settled, Switching, Unclaimed, Places
    <3> QED
      BY <1>6, <2>1, <3>1, <3>2 DEF registry, Switching
  <2> QED
    BY <2>2, <2>3
<1>11. ASSUME NEW p \in Procs, Paused(p) PROVE HeldInv'
  <2>1. session'.lease = next[p] /\ at[p] = "pausing"
    BY <1>11 DEF Paused, SessionTypes, SessionType
  <2>2. owner' = owner /\ generation' = generation
    BY <1>11, <2>1, Effects DEF Paused, AfterInv
  <2>3. Alone(p, Settled)
    BY <1>11, Moved DEF Paused, Back, Alone, Settled, Switching, Unclaimed, Places
  <2> QED
    BY <1>3, <2>1, <2>2, <2>3 DEF Switching
<1>12. ASSUME NEW p \in Procs, SwitchUnwinds(p) \/ ReleaseFails(p) PROVE HeldInv'
  <2>1. session' = session /\ at[p] \in Switching /\ Registry!SwitchDropped(p)
    BY <1>12 DEF SwitchUnwinds, ReleaseFails, Switching
  <2>2. Drops(p)
    BY <2>1, Effects
  <2>3. Alone(p, Settled)
    BY <1>12, Moved DEF SwitchUnwinds, ReleaseFails, Back, Alone, Settled, Switching,
        Unclaimed, Places
  <2> QED
    BY <1>4, <2>1, <2>2, <2>3
<1>13. ASSUME NEW c \in Callers, ResumeBegins(c) PROVE HeldInv'
  <2>1. session'.lease = session.lease
    BY <1>13 DEF ResumeBegins, SessionTypes, SessionType
  <2>2. CASE Registry!Resume(c, session.lease)
    <3>1. Begins(c, session.lease, "Running") /\ phase = "Paused"
      BY <2>2, Effects, Zenon
    <3>2. owner' = owner /\ owner # NoOwner
      BY <3>1 DEF Begins, RegistryFacts
    <3>3. at[c] = "resume" /\ \A q \in Procs \ {c} : at'[q] = at[q]
      BY <1>13, Moved DEF ResumeBegins
    <3>4. Alone(c, Switching)
      <4>1. Goes(c, "resuming") \/ UNCHANGED registry
        BY <1>13 DEF ResumeBegins
      <4>2. ~UNCHANGED registry
        BY <3>1 DEF Begins, registry
      <4> QED
        BY <4>1, <4>2, Moved DEF Alone, Switching
    <3> QED
      BY <1>2, <2>1, <3>1, <3>2, <3>4
  <2>3. CASE ~Registry!Resume(c, session.lease)
    <3>1. UNCHANGED registry /\ at[c] = "resume"
      BY <1>13, <2>3 DEF ResumeBegins
    <3>2. Alone(c, Settled)
      BY <1>13, <2>3, Moved DEF ResumeBegins, Alone, Settled, Switching, Unclaimed, Places
    <3> QED
      BY <1>6, <2>1, <3>1, <3>2 DEF registry, Switching
  <2> QED
    BY <2>2, <2>3
<1>14. ASSUME NEW c \in Callers, Resumed(c) PROVE HeldInv'
  <2>1. session'.lease = next[c] /\ at[c] = "resuming"
    BY <1>14 DEF Resumed, SessionTypes, SessionType
  <2>2. owner' = owner /\ generation' = generation
    BY <1>14, <2>1, Effects DEF Resumed, AfterInv
  <2>3. Alone(c, Settled)
    BY <1>14 DEF Resumed, GoesWith, CallTypes, Alone, Settled, Switching, Unclaimed, Places
  <2> QED
    BY <1>3, <2>1, <2>2, <2>3 DEF Switching
<1>15. ASSUME NEW p \in Procs, ReleaseBegins(p) PROVE HeldInv'
  <2>0. at[p] = "release" /\ transition = None
    BY <1>15 DEF ReleaseBegins
  <2>1. CASE Registry!Holds(session.lease) /\ session.lease # NoLease
    <3>1. Registry!Release(p, session.lease) /\ Goes(p, "releasing")
      BY <1>15, <2>1 DEF ReleaseBegins
    <3>2. session'.lease = session.lease
      BY <1>15, <2>1 DEF ReleaseBegins, SessionTypes, SessionType
    <3>3. Begins(p, session.lease, "Idle") /\ owner = session.lease.owner
      BY <3>1, Effects, Zenon DEF Begins
    <3>4. owner' = owner /\ owner # NoOwner
      BY <2>1, <3>3 DEF Begins, LeaseInv, RegistryFacts
    <3>5. Alone(p, Switching)
      BY <3>1, Moved DEF Alone, Switching
    <3> QED
      BY <1>2, <3>2, <3>3, <3>4, <3>5
  <2>2. CASE ~(Registry!Holds(session.lease) /\ session.lease # NoLease)
    <3>1. session'.lease = NoLease /\ UNCHANGED registry
      BY <1>15, <2>2 DEF ReleaseBegins, Released, SessionTypes, SessionType
    <3>2. Alone(p, Settled)
      BY <1>15, <2>2, Moved DEF ReleaseBegins, Released, Alone, Settled, Switching,
          Unclaimed, Places
    <3>3. \A q \in Procs : at[q] \notin Switching \cup {"claim"}
      BY <2>0, <1>a
    <3>4. owner = NoOwner
      <4>1. session.lease # NoLease => session.lease.owner = Session
        BY DEF LeaseInv, RegistryFacts
      <4>2. owner \in {Session, NoOwner}
        BY DEF RegistryFacts
      <4> QED
        BY <2>2, <3>3, <4>1, <4>2 DEF HeldInv, Registry!Holds
    <3> QED
      BY <1>5, <3>1, <3>2, <3>3, <3>4 DEF registry
  <2> QED
    BY <2>1, <2>2
<1>16. ASSUME NEW p \in Procs, ReleaseEnds(p) PROVE HeldInv'
  <2>1. at[p] = "releasing" /\ session'.lease = NoLease
    BY <1>16 DEF ReleaseEnds, Released, SessionTypes, SessionType
  <2>2. owner' = NoOwner
    BY <1>16, <2>1, Effects DEF ReleaseEnds, AfterInv
  <2>3. Alone(p, Settled)
    BY <1>16, Moved DEF ReleaseEnds, Released, Alone, Settled, Switching, Unclaimed, Places
  <2> QED
    BY <1>5, <1>a, <2>1, <2>2, <2>3 DEF Switching
<1>17. ASSUME NEW p \in Procs, GivesUp(p) PROVE HeldInv'
  <2>1. session'.lease = session.lease /\ at[p] \in {"wait", "release", "releasing", "failed"}
    BY <1>17 DEF GivesUp, SessionTypes, SessionType
  <2>2. Alone(p, Settled)
    BY <1>17, Moved DEF GivesUp, Alone, Settled, Switching, Unclaimed, Places
  <2>3. CASE pc[p] = "idle" /\ UNCHANGED registry
    <3>1. at[p] \notin Switching \cup {"claim"}
      BY <1>a, <2>3 DEF Switches
    <3> QED
      BY <1>6, <2>1, <2>2, <2>3, <3>1 DEF registry
  <2>4. CASE Registry!SwitchDropped(p)
    <3>1. Drops(p)
      BY <2>4, Effects
    <3>2. at[p] \in Switching
      BY <3>1, <1>a DEF Drops, Switches
    <3> QED
      BY <1>4, <2>1, <2>2, <3>1, <3>2
  <2> QED
    BY <1>17, <2>3, <2>4 DEF GivesUp
<1> QED
  BY MostKeepHold, MostKeepPlaces, <1>1, <1>7, <1>8, <1>9, <1>10, <1>11, <1>12, <1>13, <1>14,
     <1>15, <1>16, <1>17

-----------------------------------------------------------------------------
(* The end: a session that may be forgotten, and a run whose slot is free, *)
(* have given the target back.                                             *)

PackageInv ==
  /\ session.phase = "Finished" => ~session.package
  /\ ~session.package => owner = NoOwner /\ (session.ending \/ at[Run] = "over")
  /\ \A p \in Procs : at[p] = "releasing" => session.ending

Early == {"submitted", "queued", "prepared", "over"}
Late  == {"left", "over"}

SlotInv ==
  /\ at[Run] \notin Early => run.activity
  /\ at[Run] \in Late /\ Run \notin gaveUp => owner = NoOwner

(* Only the claim takes the target. *)
LEMMA OwnerStep ==
  ASSUME Types, RegistryFacts, PlaceInv, [Next]_vars
  PROVE  owner' \in {owner, NoOwner} \/ Claim
<1> USE DEF Procs
<1>a. \A p \in Procs :
        /\ Registry!SwitchDropped(p) => owner' = owner
        /\ Registry!Switched(p) => owner' \in {owner, NoOwner}
        /\ Registry!ClaimDropped(p) => owner' = NoOwner
        /\ Registry!ClaimGranted(p) => owner' = owner
        /\ Registry!Turned(p) \/ Registry!Leave(p) => owner' = owner
  BY Effects DEF Drops, Withdraws, State
<1>c. ASSUME NEW p \in Procs, NEW l,
             Registry!Pause(p, l) \/ Registry!Resume(p, l) \/ Registry!Release(p, l)
      PROVE  owner' = owner
  BY <1>c DEF Registry!Pause, Registry!Resume, Registry!Release, Registry!Transition
<1>b. UNCHANGED registry => owner' = owner
  BY DEF registry
<1>1. CASE HoldKept
  BY <1>1 DEF HoldKept
<1>2. CASE Claimed \/ Panic
  <2>1. \/ Registry!ClaimGranted(Run) \/ Registry!ClaimDropped(Run) \/ Registry!SwitchDropped(Run)
        \/ Registry!Turned(Run) \/ Registry!Leave(Run) \/ UNCHANGED registry
    BY <1>2 DEF Claimed, Panic
  <2> QED
    BY <2>1, <1>a, <1>b
<1>3. ASSUME NEW p \in Procs, PauseBegins(p) \/ Paused(p) \/ SwitchUnwinds(p) \/ GivesUp(p)
      PROVE  owner' \in {owner, NoOwner}
  <2>1. \/ Registry!Pause(p, session.lease) \/ Registry!Switched(p) \/ Registry!SwitchDropped(p)
        \/ UNCHANGED registry
    BY <1>3 DEF PauseBegins, Paused, SwitchUnwinds, GivesUp
  <2> QED
    BY <2>1, <1>a, <1>b, <1>c
<1>4. ASSUME NEW p \in Procs, ReleaseBegins(p) \/ ReleaseEnds(p) \/ ReleaseFails(p)
      PROVE  owner' \in {owner, NoOwner}
  <2>1. \/ Registry!Release(p, session.lease) \/ Registry!Switched(p) \/ Registry!SwitchDropped(p)
        \/ UNCHANGED registry
    BY <1>4 DEF ReleaseBegins, ReleaseEnds, ReleaseFails
  <2> QED
    BY <2>1, <1>a, <1>b, <1>c
<1>5. ASSUME NEW c \in Callers, ResumeBegins(c) \/ Resumed(c)
      PROVE  owner' \in {owner, NoOwner}
  <2>1. Registry!Resume(c, session.lease) \/ Registry!Switched(c) \/ UNCHANGED registry
    BY <1>5 DEF ResumeBegins, Resumed
  <2> QED
    BY <2>1, <1>a, <1>b, <1>c
<1> QED
  BY MostKeepHold, <1>1, <1>2, <1>3, <1>4, <1>5

(* The end of the session is not called off. *)
EndKept ==
  /\ session.ending => session'.ending
  /\ session'.package = session.package
  /\ session'.phase = "Finished" => session.phase = "Finished"
  /\ \A p \in Procs : at'[p] = "releasing" => at[p] = "releasing"
  /\ at[Run] = "over" => at'[Run] = "over"

LEMMA MostKeepEnd ==
  ASSUME Types, PlaceInv, [Next]_vars
  PROVE  \/ EndKept \/ Submit
         \/ \E p \in Procs : ReleaseBegins(p) \/ ReleaseEnds(p)
<1> USE DEF EndKept
<1> USE ProcsAssumption DEF Types, SessionTypes, SessionType, Procs, PlaceInv, WatchPlaces,
    CallerPlaces, Own
<1>1. CASE Record \/ RunFails \/ Prepare
  BY <1>1, StoppedIs, Moved DEF Record, RunFails, Prepare
<1>2. CASE Acquire
  BY <1>2, StoppedIs, Moved DEF Acquire, Leaves
<1>3. CASE Claim
  BY <1>3, StoppedIs, Moved DEF Claim, Leaves
<1>4. CASE Claimed
  BY <1>4, StoppedIs, Moved DEF Claimed, GoesWith, CallTypes
<1>5. ASSUME Opens \/ OpeningFails PROVE EndKept
  BY <1>5, StoppedIs, Moved DEF Opens, Cleaned, Prepared, Traced, OpeningFails, Leaves
<1>6. CASE LoopEnds \/ RunEnds
  <2>1. /\ session.ending => session'.ending
        /\ session'.package = session.package
        /\ session'.phase = "Finished" => session.phase = "Finished"
    BY <1>6, StoppedIs DEF LoopEnds, RunEnds
  <2>2. /\ \A q \in Procs : at'[q] = "releasing" => at[q] = "releasing"
        /\ at[Run] = "over" => at'[Run] = "over"
    BY <1>6, Moved DEF LoopEnds, RunEnds
  <2> QED
    BY <2>1, <2>2
<1>7. CASE LoopPauses
  BY <1>7, StoppedIs, Moved DEF LoopPauses, GoesWith, CallTypes
<1>8. CASE Panic
  BY <1>8, StoppedIs, Moved DEF Panic
<1>9. ASSUME NEW p \in Procs, EnterGate(p) PROVE EndKept
  BY <1>9, StoppedIs, Moved DEF EnterGate, Own
<1>10. ASSUME NEW p \in Procs, GateOpens(p) \/ CleanupFails(p) PROVE EndKept
  BY <1>10, StoppedIs, Moved DEF GateOpens, CleanupFails, Own
<1>11. ASSUME NEW p \in Procs, PauseBegins(p) PROVE EndKept
  <2>1. /\ session.ending => session'.ending
        /\ session'.package = session.package
        /\ session'.phase = "Finished" => session.phase = "Finished"
    BY <1>11, StoppedIs DEF PauseBegins, Back
  <2>2. /\ \A q \in Procs : at'[q] = "releasing" => at[q] = "releasing"
        /\ at[Run] = "over" => at'[Run] = "over"
    BY <1>11, Moved DEF PauseBegins, Back
  <2> QED
    BY <2>1, <2>2
<1>12. ASSUME NEW p \in Procs, Paused(p) PROVE EndKept
  BY <1>12, StoppedIs, Moved DEF Paused, Back
<1>13. ASSUME NEW p \in Procs, SwitchUnwinds(p) PROVE EndKept
  BY <1>13, StoppedIs, Moved DEF SwitchUnwinds, Back
<1>14. ASSUME NEW c \in Callers, ResumeBegins(c) PROVE EndKept
  BY <1>14, StoppedIs, Moved DEF ResumeBegins
<1>15. ASSUME NEW c \in Callers, Resumed(c) PROVE EndKept
  BY <1>15, StoppedIs, Moved DEF Resumed, GoesWith, CallTypes
<1>16. ASSUME NEW c \in Callers, NEW ok \in BOOLEAN, Woken(c, ok) PROVE EndKept
  <2>1. /\ session.ending => session'.ending
        /\ session'.package = session.package
        /\ session'.phase = "Finished" => session.phase = "Finished"
    BY <1>16, StoppedIs DEF Woken
  <2>2. /\ \A q \in Procs : at'[q] = "releasing" => at[q] = "releasing"
        /\ at[Run] = "over" => at'[Run] = "over"
    BY <1>16, Moved DEF Woken
  <2> QED
    BY <2>1, <2>2
<1>17. ASSUME NEW p \in Procs, ReleaseFails(p) PROVE EndKept
  BY <1>17, StoppedIs, Moved DEF ReleaseFails
<1>18. ASSUME NEW p \in Procs, ReleaseAgain(p) \/ RunIsOver(p) PROVE EndKept
  BY <1>18, StoppedIs, Moved DEF ReleaseAgain, RunIsOver
<1>19. ASSUME NEW p \in Procs, GivesUp(p) PROVE EndKept
  BY <1>19, StoppedIs, Moved DEF GivesUp
<1>20. ASSUME NEW c \in Callers, Call(c) PROVE EndKept
  BY <1>20, StoppedIs, Moved DEF Call, GoesWith, CallTypes
<1>21. ASSUME NEW c \in Callers, Revoke(c) PROVE EndKept
  BY <1>21, StoppedIs, Moved DEF Revoke
<1>22. ASSUME NEW c \in Callers, Stop(c) \/ ReleaseAsked(c) PROVE EndKept
  <2>1. /\ session.ending => session'.ending
        /\ session'.package = session.package
        /\ session'.phase = "Finished" => session.phase = "Finished"
    BY <1>22, StoppedIs DEF Stop, ReleaseAsked, Stops
  <2>2. /\ \A q \in Procs : at'[q] = "releasing" => at[q] = "releasing"
        /\ at[Run] = "over" => at'[Run] = "over"
    BY <1>22, Moved DEF Stop, ReleaseAsked, Stops
  <2> QED
    BY <2>1, <2>2
<1>23. CASE Expire
  BY <1>23, StoppedIs, Moved DEF Expire
<1>24. ASSUME NEW c \in Callers, CaptureBegins(c) \/ InputBegins(c) PROVE EndKept
  BY <1>24, StoppedIs, Moved DEF CaptureBegins, InputBegins, OperationBegins
<1>25. ASSUME NEW c \in Callers, OperationRefused(c) PROVE EndKept
  BY <1>25, StoppedIs, Moved DEF OperationRefused
<1>26. ASSUME NEW c \in Callers, OperationFails(c) PROVE EndKept
  BY <1>26, StoppedIs, Moved DEF OperationFails
<1>27. ASSUME NEW c \in Callers, Captured(c) PROVE EndKept
  BY <1>27, StoppedIs, Moved DEF Captured, GoesWith, CallTypes
<1>28. ASSUME NEW c \in Callers, Checked(c) \/ Looks(c) PROVE EndKept
  BY <1>28, StoppedIs, Moved DEF Checked, Looks
<1>29. ASSUME NEW c \in Callers, Observe(c) PROVE EndKept
  BY <1>29, StoppedIs, Moved DEF Observe
<1>30. ASSUME NEW c \in Callers, NEW panics \in BOOLEAN, Inject(c, panics) PROVE EndKept
  BY <1>30, StoppedIs, Moved DEF Inject
<1>31. CASE UNCHANGED vars
  BY <1>31, StoppedIs, Moved DEF vars, registry
<1> HIDE DEF EndKept
<1> QED
  BY Actions, <1>1, <1>2, <1>3, <1>4, <1>5, <1>6, <1>7, <1>8, <1>9, <1>10, <1>11, <1>12,
      <1>13, <1>14, <1>15, <1>16, <1>17, <1>18, <1>19, <1>20, <1>21, <1>22, <1>23, <1>24,
      <1>25, <1>26, <1>27, <1>28, <1>29, <1>30, <1>31

(* The run keeps its slot. *)
SlotKept ==
  /\ at'[Run] \in Late => at[Run] \in Late
  /\ at'[Run] \notin Early => run'.activity \/ (at[Run] \notin Early /\ run'.activity = run.activity)
  /\ gaveUp \subseteq gaveUp'

LEMMA MostKeepSlot ==
  ASSUME Types, PlaceInv, [Next]_vars
  PROVE  \/ SlotKept \/ Submit \/ RunFails \/ RunEnds
         \/ \E p \in Procs : ReleaseBegins(p) \/ ReleaseEnds(p) \/ GivesUp(p)
<1> USE DEF SlotKept
<1> USE ProcsAssumption DEF Types, SessionTypes, Procs, PlaceInv, WatchPlaces, CallerPlaces,
    Own, Same, history, Early, Late
<1>1. CASE Record \/ Prepare
  BY <1>1, Moved DEF Record, Prepare
<1>2. CASE Acquire
  BY <1>2, Moved DEF Acquire, Leaves
<1>3. CASE Claim
  BY <1>3, Moved DEF Claim, Leaves
<1>4. CASE Claimed
  BY <1>4, Moved DEF Claimed, GoesWith, CallTypes
<1>5. ASSUME Opens \/ OpeningFails PROVE SlotKept
  BY <1>5, Moved DEF Opens, Cleaned, Prepared, Traced, OpeningFails, Leaves
<1>6. CASE LoopEnds
  BY <1>6, Moved DEF LoopEnds
<1>7. CASE LoopPauses
  BY <1>7, Moved DEF LoopPauses, GoesWith, CallTypes
<1>8. CASE Panic
  BY <1>8, Moved DEF Panic
<1>9. ASSUME NEW p \in Procs, EnterGate(p) PROVE SlotKept
  BY <1>9, Moved DEF EnterGate, Own
<1>10. ASSUME NEW p \in Procs, GateOpens(p) \/ CleanupFails(p) PROVE SlotKept
  BY <1>10, Moved DEF GateOpens, CleanupFails, Own
<1>11. ASSUME NEW p \in Procs, PauseBegins(p) PROVE SlotKept
  BY <1>11, Moved DEF PauseBegins, Back
<1>12. ASSUME NEW p \in Procs, Paused(p) PROVE SlotKept
  BY <1>12, Moved DEF Paused, Back
<1>13. ASSUME NEW p \in Procs, SwitchUnwinds(p) PROVE SlotKept
  BY <1>13, Moved DEF SwitchUnwinds, Back
<1>14. ASSUME NEW c \in Callers, ResumeBegins(c) PROVE SlotKept
  BY <1>14, Moved DEF ResumeBegins
<1>15. ASSUME NEW c \in Callers, Resumed(c) PROVE SlotKept
  BY <1>15, Moved DEF Resumed, GoesWith, CallTypes
<1>16. ASSUME NEW c \in Callers, NEW ok \in BOOLEAN, Woken(c, ok) PROVE SlotKept
  BY <1>16, Moved DEF Woken
<1>17. ASSUME NEW p \in Procs, ReleaseFails(p) PROVE SlotKept
  BY <1>17, Moved DEF ReleaseFails
<1>18. ASSUME NEW p \in Procs, ReleaseAgain(p) \/ RunIsOver(p) PROVE SlotKept
  BY <1>18, Moved DEF ReleaseAgain, RunIsOver
<1>19. ASSUME NEW c \in Callers, Call(c) PROVE SlotKept
  BY <1>19, Moved DEF Call, GoesWith, CallTypes
<1>20. ASSUME NEW c \in Callers, Revoke(c) PROVE SlotKept
  BY <1>20, Moved DEF Revoke
<1>21. ASSUME NEW c \in Callers, Stop(c) \/ ReleaseAsked(c) PROVE SlotKept
  BY <1>21, Moved DEF Stop, ReleaseAsked, Stops
<1>22. CASE Expire
  BY <1>22, Moved DEF Expire
<1>23. ASSUME NEW c \in Callers, CaptureBegins(c) \/ InputBegins(c) PROVE SlotKept
  BY <1>23, Moved DEF CaptureBegins, InputBegins, OperationBegins
<1>24. ASSUME NEW c \in Callers, OperationRefused(c) PROVE SlotKept
  BY <1>24, Moved DEF OperationRefused
<1>25. ASSUME NEW c \in Callers, OperationFails(c) PROVE SlotKept
  BY <1>25, Moved DEF OperationFails
<1>26. ASSUME NEW c \in Callers, Captured(c) PROVE SlotKept
  BY <1>26, Moved DEF Captured, GoesWith, CallTypes
<1>27. ASSUME NEW c \in Callers, Checked(c) \/ Looks(c) PROVE SlotKept
  BY <1>27, Moved DEF Checked, Looks
<1>28. ASSUME NEW c \in Callers, Observe(c) PROVE SlotKept
  BY <1>28, Moved DEF Observe
<1>29. ASSUME NEW c \in Callers, NEW panics \in BOOLEAN, Inject(c, panics) PROVE SlotKept
  BY <1>29, Moved DEF Inject
<1>30. CASE UNCHANGED vars
  BY <1>30, Moved DEF vars, registry
<1> HIDE DEF SlotKept
<1> QED
  BY Actions, <1>1, <1>2, <1>3, <1>4, <1>5, <1>6, <1>7, <1>8, <1>9, <1>10, <1>11, <1>12,
      <1>13, <1>14, <1>15, <1>16, <1>17, <1>18, <1>19, <1>20, <1>21, <1>22, <1>23, <1>24,
      <1>25, <1>26, <1>27, <1>28, <1>29, <1>30

(* What a release that begins without a lease that is held has found. *)
LEMMA NothingHeld ==
  ASSUME RegistryFacts, PlaceInv, LockInv, LeaseInv, HeldInv, transition = None,
         ~(Registry!Holds(session.lease) /\ session.lease # NoLease)
  PROVE  owner = NoOwner
<1> USE NoneAssumption
<1>1. \A q \in Procs : at[q] \notin Switching \cup {"claim"}
  BY DEF LockInv, Holding
<1>2. session.lease # NoLease => session.lease.owner = Session
  BY DEF LeaseInv, RegistryFacts
<1>3. owner \in {Session, NoOwner}
  BY DEF RegistryFacts
<1> QED
  BY <1>1, <1>2, <1>3 DEF HeldInv, Registry!Holds

LEMMA PackageStep ==
  ASSUME Types, Types', RegistryFacts, PlaceInv, LockInv, AfterInv, LeaseInv, HeldInv, PackageInv,
         [Next]_vars
  PROVE  PackageInv'
<1> USE ProcsAssumption DEF Types, Procs
<1>1. CASE Claim
  <2>1. at[Run] = "execute" /\ transition = None
    BY <1>1 DEF Claim
  <2>2. /\ session'.package = session.package
        /\ session'.phase = "Finished" => session.phase = "Finished"
        /\ session.ending => session'.ending
    BY <1>1 DEF Claim, Leaves, SessionTypes, SessionType
  <2>3. \A p \in Procs : at'[p] = "releasing" => at[p] = "releasing"
    BY <1>1, Moved DEF Claim, Leaves
  <2>4. ~session.package => owner' = owner /\ session.ending
    <3>1. \/ Registry!Claim(Run, Session) /\ ~session.ending
          \/ UNCHANGED registry
      BY <1>1 DEF Claim
    <3> QED
      BY <2>1, <3>1 DEF PackageInv, registry
  <2> QED
    BY <2>2, <2>3, <2>4 DEF PackageInv
<1>2. CASE EndKept /\ ~Claim
  <2>1. owner' \in {owner, NoOwner}
    BY <1>2, OwnerStep
  <2> QED
    BY <1>2, <2>1 DEF EndKept, PackageInv, SessionTypes, SessionType
<1>3. CASE Submit
  <2>1. at[Run] = "submitted" /\ owner = NoOwner /\ owner' = owner
    BY <1>3 DEF Submit, PlaceInv, HeldInv, Unclaimed, registry
  <2>2. /\ session'.phase = session.phase /\ session'.ending = session.ending
        /\ \/ session'.package = session.package
           \/ ~session'.package /\ at'[Run] = "over"
    <3>1. CASE session' = session
      BY <3>1
    <3>2. CASE session' # session
      <4>1. /\ session' = [session EXCEPT !.listed = FALSE, !.package = FALSE]
            /\ at' = [at EXCEPT ![Watch] = "done", ![Run] = "over"]
        BY <1>3, <3>2 DEF Submit
      <4> QED
        BY <4>1 DEF SessionTypes, SessionType, CallTypes
    <3> QED
      BY <3>1, <3>2
  <2>3. \A p \in Procs : at'[p] = "releasing" => at[p] = "releasing"
    BY <1>3 DEF Submit, CallTypes
  <2> QED
    BY <2>1, <2>2, <2>3 DEF PackageInv
<1>4. ASSUME NEW p \in Procs, ReleaseBegins(p) PROVE PackageInv'
  <2>1. transition = None /\ session'.ending
    BY <1>4 DEF ReleaseBegins, Released, SessionTypes, SessionType
  <2>2. CASE Registry!Holds(session.lease) /\ session.lease # NoLease
    <3>1. session'.package = session.package /\ session'.phase = session.phase
      BY <1>4, <2>2 DEF ReleaseBegins, SessionTypes, SessionType
    <3>2. owner' = owner
      <4>1. Registry!Release(p, session.lease)
        BY <1>4, <2>2 DEF ReleaseBegins
      <4> QED
        BY <4>1 DEF Registry!Release, Registry!Transition
    <3> QED
      BY <2>1, <3>1, <3>2 DEF PackageInv
  <2>3. CASE ~(Registry!Holds(session.lease) /\ session.lease # NoLease)
    <3>1. owner = NoOwner
      BY <2>1, <2>3, NothingHeld
    <3>2. owner' = NoOwner
      BY <1>4, <2>3, <3>1 DEF ReleaseBegins, registry
    <3>3. session'.phase = "Finished" => session.phase = "Finished" \/ ~session'.package
      BY <1>4, <2>3 DEF ReleaseBegins, Released, SessionTypes, SessionType
    <3>4. session.package \/ ~session'.package
      BY <1>4, <2>3 DEF ReleaseBegins, Released, SessionTypes, SessionType
    <3> QED
      BY <2>1, <3>2, <3>3, <3>4 DEF PackageInv
  <2> QED
    BY <2>2, <2>3
<1>5. ASSUME NEW p \in Procs, ReleaseEnds(p) PROVE PackageInv'
  <2>1. owner' = NoOwner /\ session.ending
    BY <1>5, Effects DEF ReleaseEnds, AfterInv, PackageInv
  <2>2. /\ session'.ending = session.ending
        /\ session'.phase = "Finished" => session.phase = "Finished" \/ ~session'.package
        /\ session.package \/ ~session'.package
    BY <1>5 DEF ReleaseEnds, Released, SessionTypes, SessionType
  <2> QED
    BY <2>1, <2>2 DEF PackageInv
<1> QED
  BY MostKeepEnd, <1>1, <1>2, <1>3, <1>4, <1>5

LEMMA SlotStep ==
  ASSUME Types, Types', RegistryFacts, PlaceInv, LockInv, AfterInv, LeaseInv, HeldInv, SlotInv,
         [Next]_vars
  PROVE  SlotInv'
<1> USE ProcsAssumption DEF Types, Procs
<1>a. CASE Claim
  <2>1. at[Run] = "execute" /\ run' = run
    BY <1>a DEF Claim
  <2>2. at'[Run] \in {"claim", "release"}
    BY <1>a, Moved DEF Claim, Leaves
  <2> QED
    BY <2>1, <2>2 DEF SlotInv, Early, Late
<1>b. CASE SlotKept /\ ~Claim
  <2>1. owner' \in {owner, NoOwner}
    BY <1>b, OwnerStep
  <2> QED
    BY <1>b, <2>1 DEF SlotKept, SlotInv
<1>c. CASE Submit \/ RunFails
  <2>1. at[Run] \in Unclaimed /\ UNCHANGED owner
    BY <1>c DEF Submit, RunFails, PlaceInv, Unclaimed, registry
  <2>2. at'[Run] \in {"queued", "over"}
    BY <1>c, Moved DEF Submit, RunFails, CallTypes
  <2> QED
    BY <2>1, <2>2 DEF HeldInv, SlotInv, Early, Late
<1>d. CASE RunEnds
  <2>1. at[Run] = "left" /\ at'[Run] = "over" /\ UNCHANGED <<owner, gaveUp>>
    BY <1>d, Moved DEF RunEnds, registry, Same, history
  <2> QED
    BY <2>1 DEF SlotInv, Early, Late
<1>e. ASSUME NEW p \in Procs, ReleaseBegins(p) PROVE SlotInv'
  <2>1. transition = None /\ at[p] = "release" /\ UNCHANGED <<run, gaveUp>>
    BY <1>e DEF ReleaseBegins, Same, history
  <2>2. at[Run] \notin Early => at'[Run] \notin Early
    BY <1>e, Moved DEF ReleaseBegins, Released, Early
  <2>3. at'[Run] \notin Early => at[Run] \notin Early
    BY <1>e, <2>1, Moved DEF ReleaseBegins, Released, Early
  <2>4. CASE Registry!Holds(session.lease) /\ session.lease # NoLease
    <3>1. owner' = owner
      <4>1. Registry!Release(p, session.lease)
        BY <1>e, <2>4 DEF ReleaseBegins
      <4> QED
        BY <4>1 DEF Registry!Release, Registry!Transition
    <3>2. at'[Run] \in Late => at[Run] \in Late
      BY <1>e, <2>4, Moved DEF ReleaseBegins, Late
    <3> QED
      BY <2>1, <2>3, <3>1, <3>2 DEF SlotInv
  <2>5. CASE ~(Registry!Holds(session.lease) /\ session.lease # NoLease)
    <3>1. owner = NoOwner
      BY <2>1, <2>5, NothingHeld
    <3>2. owner' = NoOwner
      BY <1>e, <2>5, <3>1 DEF ReleaseBegins, registry
    <3> QED
      BY <2>1, <2>3, <3>2 DEF SlotInv
  <2> QED
    BY <2>4, <2>5
<1>f. ASSUME NEW p \in Procs, ReleaseEnds(p) PROVE SlotInv'
  <2>1. owner' = NoOwner /\ run' = run /\ at[p] = "releasing"
    BY <1>f, Effects DEF ReleaseEnds, AfterInv
  <2>2. at'[Run] \notin Early => at[Run] \notin Early
    BY <1>f, <2>1, Moved DEF ReleaseEnds, Released, Early
  <2> QED
    BY <2>1, <2>2 DEF SlotInv
<1>g. ASSUME NEW p \in Procs, GivesUp(p) PROVE SlotInv'
  <2>1. run' = run /\ at[p] \in {"wait", "release", "releasing", "failed"}
    BY <1>g DEF GivesUp
  <2>2. at'[Run] \notin Early => at[Run] \notin Early
    BY <1>g, <2>1, Moved DEF GivesUp, Early
  <2>3. owner' = owner \/ owner' = NoOwner
    BY <1>g DEF GivesUp, registry, Registry!SwitchDropped
  <2>4. CASE p = Run
    BY <1>g, <2>1, <2>2, <2>4 DEF GivesUp, SlotInv
  <2>5. CASE p # Run
    <3>1. at'[Run] = at[Run] /\ gaveUp \subseteq gaveUp'
      BY <1>g, <2>5, Moved DEF GivesUp
    <3> QED
      BY <2>1, <2>3, <3>1 DEF SlotInv
  <2> QED
    BY <2>4, <2>5
<1> QED
  BY MostKeepSlot, <1>a, <1>b, <1>c, <1>d, <1>e, <1>f, <1>g

-----------------------------------------------------------------------------
(* The inductive invariant: what the tasks hold, and what they have left   *)
(* behind.                                                                 *)

Holdings  == /\ Types /\ Proved!IInv /\ LeaseInv /\ PlaceInv /\ LockInv /\ CallInv /\ AfterInv
             /\ HeldInv
Histories == /\ FrameInv /\ AwakeInv /\ OnceInv /\ OwnedInv /\ PackageInv /\ SlotInv

LEMMA Initially == Init => Holdings /\ Histories /\ Proved!Init
<1> SUFFICES ASSUME Init PROVE Holdings /\ Histories /\ Proved!Init
  OBVIOUS
<1> USE ProcsAssumption, NoneAssumption, SessionAssumption DEF Procs
<1>1. Proved!Init
  BY DEF Init, Registry!Init, Proved!Init, Registry!NoIdentity, Proved!NoIdentity,
         Registry!NoLease, Proved!NoLease
<1>2. NoOwner \notin {Session} /\ MaxCalls + 2 * MaxFaults + 4 \in Nat /\ 0 \in Nat
  BY SessionBounds
<1>3. Proved!IInv
  BY <1>1, <1>2, Proved!InitInv
<1>4. /\ owner = NoOwner /\ leases = {} /\ \A p \in Procs : pc[p] = "idle"
  BY DEF Init, Registry!Init
<1>5. /\ session.phase = "Starting" /\ session.gen = 0 /\ session.lease = NoLease
      /\ session.obs = 0 /\ session.package
  BY DEF Init
<1>6. /\ at[Run] = "submitted" /\ at[Watch] = "start"
      /\ \A c \in Callers : at[c] = "idle"
      /\ \A p \in Procs : arg[p] = NoArg
  BY DEF Init
<1>7. /\ frames = <<>> /\ injected = <<>> /\ transition = None /\ operation = None
      /\ DOMAIN injected = {}
  BY DEF Init
<1>8. SessionTypes
  <2>1. NoLease \in Lease
    BY DEF NoLease, Registry!NoLease, Lease
  <2> QED
    BY <2>1 DEF Init, SessionTypes, SessionType
<1>9. CallTypes
  BY DEF Init, CallTypes, Places, ArgType, NoArg
<1>10. HistoryTypes
  BY <1>7 DEF HistoryTypes
<1>11. LeaseInv /\ PlaceInv /\ LockInv
  BY <1>5, <1>6, <1>7 DEF LeaseInv, PlaceInv, LockInv, RunPlaces, WatchPlaces, CallerPlaces,
     Holding, Switching, Operating
<1>12. CallInv /\ AfterInv /\ HeldInv
  BY <1>4, <1>5, <1>6 DEF CallInv, AfterInv, HeldInv, Switching, Switches, Unclaimed
<1>13. FrameInv /\ AwakeInv /\ OwnedInv
  BY <1>4, <1>5, <1>6, <1>7 DEF FrameInv, FreshFrame, AwakeInv, OwnedInv
<1>14. OnceInv
  <2>1. \A p \in Procs : arg[p].gen = 0
    BY <1>6 DEF NoArg
  <2> QED
    BY <1>5, <1>6, <1>7, <2>1 DEF OnceInv, OperationOnce
<1>15. PackageInv /\ SlotInv
  BY <1>4, <1>5, <1>6 DEF PackageInv, SlotInv, Early, Late
<1> QED
  BY <1>1, <1>3, <1>8, <1>9, <1>10, <1>11, <1>12, <1>13, <1>14, <1>15 DEF Holdings,
      Histories, Types

LEMMA HoldingsStep == Holdings /\ [Next]_vars => Holdings' /\ [Proved!Next]_(Proved!vars)
<1> SUFFICES ASSUME Holdings, [Next]_vars PROVE Holdings' /\ [Proved!Next]_(Proved!vars)
  OBVIOUS
<1>1. /\ Types /\ Proved!IInv /\ LeaseInv /\ PlaceInv /\ LockInv /\ CallInv /\ AfterInv
      /\ HeldInv
  BY DEF Holdings
<1>2. RegistryFacts
  BY <1>1, FromRegistry
<1>3. Leases
  BY <1>2 DEF RegistryFacts, Leases
<1>4. Types'
  <2>1. SessionTypes' /\ CallTypes' /\ HistoryTypes'
    BY <1>1, <1>3, SessionTypesStep, CallTypesStep, HistoryTypesStep
  <2> QED
    BY <2>1 DEF Types
<1>5. [Proved!Next]_(Proved!vars)
  BY <1>1, <1>2, RegistryStep
<1>6. Proved!IInv'
  <2>1. NoOwner \notin {Session} /\ MaxCalls + 2 * MaxFaults + 4 \in Nat /\ 0 \in Nat
    BY SessionAssumption, SessionBounds
  <2> QED
    BY <1>1, <1>5, <2>1, Proved!StepInv
<1>7. LeaseInv' /\ PlaceInv' /\ LockInv' /\ CallInv' /\ AfterInv'
  BY <1>1, <1>2, LeaseStep, PlaceStep, LockStep, CallStep, AfterStep
<1>8. HeldInv'
  BY <1>1, <1>2, <1>4, HeldStep
<1> QED
  BY <1>4, <1>5, <1>6, <1>7, <1>8 DEF Holdings

LEMMA FactsNext == Proved!IInv' => RegistryFacts'
<1>1. Proved!IInv => RegistryFacts
  BY FromRegistry
<1> QED
  BY <1>1, PTL

LEMMA HistoriesStep ==
  Holdings /\ Holdings' /\ Histories /\ [Proved!Next]_(Proved!vars) /\ [Next]_vars => Histories'
<1> SUFFICES ASSUME Holdings, Holdings', Histories, [Proved!Next]_(Proved!vars), [Next]_vars
             PROVE  Histories'
  OBVIOUS
<1>1. /\ Types /\ Proved!IInv /\ LeaseInv /\ PlaceInv /\ LockInv /\ CallInv /\ AfterInv
      /\ HeldInv
  BY DEF Holdings
<1>2. Types' /\ Proved!IInv' /\ LockInv'
  BY DEF Holdings
<1>3. /\ FrameInv /\ AwakeInv /\ OnceInv /\ OwnedInv /\ PackageInv /\ SlotInv
  BY DEF Histories
<1>4. RegistryFacts /\ RegistryFacts'
  BY <1>1, <1>2, FromRegistry, FactsNext
<1>5. FrameInv' /\ AwakeInv'
  BY <1>1, <1>2, <1>3, FrameStep, AwakeStep
<1>6. OnceInv'
  BY <1>1, <1>2, <1>3, <1>4, <1>5, OnceStep, LeasesGrow
<1>7. OwnedInv' /\ PackageInv' /\ SlotInv'
  BY <1>1, <1>2, <1>3, <1>4, OwnedStep, PackageStep, SlotStep
<1> QED
  BY <1>5, <1>6, <1>7 DEF Histories

LEMMA Invariant == Spec => [](Holdings /\ Histories)
  BY Initially, HoldingsStep, HistoriesStep, PTL DEF Spec

(* The session is a client of the registry as the registry is modelled on  *)
(* its own: it takes, switches and gives back the target only by the       *)
(* operations of ControlRegistry, under leases that were given to it, so   *)
(* every theorem of ControlRegistryProofs holds of it.                     *)
THEOREM UsesRegistry == Spec => Proved!Spec
<1>1. Init => Proved!Init
  BY Initially
<1> QED
  BY <1>1, Initially, HoldingsStep, PTL DEF Spec, Proved!Spec

(* Every input was decided on a picture of its own generation, and no      *)
(* picture is acted on twice, whatever is captured, paused, resumed and    *)
(* stopped meanwhile (capture.rs, input.rs).                               *)
THEOREM FreshPictures == Spec => []FreshFrame
<1>1. Histories => FreshFrame
  BY DEF Histories, FrameInv
<1> QED
  BY <1>1, Invariant, PTL

(* An operation reaches the target once, however it is retried and         *)
(* whatever fails on the way: the receipt is reserved before the input and *)
(* outlives every way to leave it (input.rs).                              *)
THEOREM OncePerOperation == Spec => []OperationOnce
<1>1. Histories => OperationOnce
  BY DEF Histories, OnceInv
<1> QED
  BY <1>1, Invariant, PTL

(* A session that is shown as finished, or whose package may be replaced,  *)
(* owns nothing and acts on nothing; the slot of its run is held until the *)
(* target was given back (wait_finished, release_control, Drop).           *)
THEOREM Held == Spec => []HeldToTheEnd
<1>1. Holdings /\ Histories => HeldToTheEnd
  <2> SUFFICES ASSUME Holdings, Histories PROVE HeldToTheEnd
    OBVIOUS
  <2>1. RegistryFacts /\ OwnedInv /\ PackageInv /\ SlotInv /\ HeldInv
    BY FromRegistry DEF Holdings, Histories
  <2>2. FinishedIsReleased
    <3> SUFFICES ASSUME ~session.package
                 PROVE  owner = NoOwner /\ \A p \in Procs : ~Acting(p)
      BY <2>1 DEF FinishedIsReleased, PackageInv
    <3>1. owner = NoOwner
      BY <2>1 DEF PackageInv
    <3>2. ASSUME NEW p \in Procs, Acting(p) PROVE FALSE
      BY <2>1, <3>1, <3>2, SessionAssumption DEF Acting, RegistryFacts, OwnedInv
    <3> QED
      BY <3>1, <3>2
  <2>3. SlotHeldWhileOwned
    <3>1. CASE at[Run] \in Unclaimed
      BY <2>1, <3>1 DEF HeldInv, SlotHeldWhileOwned
    <3>2. CASE at[Run] \notin Unclaimed
      BY <2>1, <3>2 DEF SlotInv, SlotHeldWhileOwned, Unclaimed, Early, Late
    <3> QED
      BY <3>1, <3>2
  <2> QED
    BY <2>2, <2>3 DEF HeldToTheEnd
<1> QED
  BY <1>1, Invariant, PTL
=============================================================================
