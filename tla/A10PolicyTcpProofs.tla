------------------------- MODULE A10PolicyTcpProofs -------------------------
(***************************************************************************)
(* Proofs about the policy plan, for every choice of positions, chunks,     *)
(* targets and bounds.                                                      *)
(***************************************************************************)
EXTENDS A10PolicyTcp, TLAPS, SequenceTheorems

-----------------------------------------------------------------------------
(* Segments *)

\* A distance in cycles is a whole number.
LEMMA CyclesForInt ==
  ASSUME NEW d \in Int
  PROVE  CyclesFor(d) \in Int
  BY SpeedAssumption DEF CyclesFor

\* A segment between two positions is a well-formed one that starts with its
\* first cycle, and lasts at least the cycles the caller asked for.
LEMMA StartSegmentType ==
  ASSUME NEW a \in Int, NEW b \in Int, NEW m \in Nat \ {0}
  PROVE  /\ StartSegment(a, b, m) \in Segment
         /\ StartSegment(a, b, m).q0 = a /\ StartSegment(a, b, m).q1 = b
         /\ StartSegment(a, b, m).step_idx = 0
         /\ StartSegment(a, b, m).n_steps >= m
<1>1. Abs(b - a) \in Int
  BY DEF Abs
<1>2. CyclesFor(Abs(b - a)) \in Int
  BY <1>1, CyclesForInt
<1>3. BlendSteps(a, b, m) \in Nat \ {0} /\ BlendSteps(a, b, m) >= m
  BY <1>2 DEF BlendSteps
<1> QED BY <1>3 DEF StartSegment, Segment

\* Ticking keeps a segment well formed and its ends in place, and it stays
\* active exactly while cycles remain.
LEMMA TickedType ==
  ASSUME NEW s \in Segment
  PROVE  /\ Ticked(s) \in Segment
         /\ Ticked(s).q0 = s.q0 /\ Ticked(s).q1 = s.q1
         /\ Ticked(s).n_steps = s.n_steps
         /\ Ticked(s).step_idx = s.step_idx + 1
         /\ Ticked(s).active = (s.step_idx + 1 < s.n_steps)
  BY DEF Ticked, Segment

\* Every commanded position is a whole number.
LEMMA LerpType ==
  ASSUME NEW s \in Segment, NEW p \in Lerp(s)
  PROVE  p \in Int
  BY DEF Lerp, Segment, Span

\* The cycle that uses up the segment commands its goal.
LEMMA LerpEnds ==
  ASSUME NEW s \in Segment, NEW p \in Lerp(s), s.step_idx + 1 >= s.n_steps
  PROVE  p = s.q1
  BY DEF Lerp, Segment

\* The first cycle of a segment of two or more commands its start.
LEMMA LerpStarts ==
  ASSUME NEW s \in Segment, NEW p \in Lerp(s), s.step_idx = 0, s.n_steps >= 2
  PROVE  p = s.q0
  BY DEF Lerp, Segment

LEMMA SpanType ==
  ASSUME NEW a \in Int, NEW b \in Int, NEW p \in Span(a, b)
  PROVE  p \in Int
  BY DEF Span

-----------------------------------------------------------------------------
(* The queue *)

\* A committed chunk becomes keyframes numbered from 1, all of its commit.
LEMMA RowsType ==
  ASSUME NEW chunk \in Chunks, NEW n \in Nat
  PROVE  /\ Rows(chunk, n) \in Seq(Keyframe)
         /\ Len(Rows(chunk, n)) = Len(chunk)
         /\ \A i \in 1..Len(chunk) : Rows(chunk, n)[i].seq = n /\ Rows(chunk, n)[i].row = i
<1>1. chunk \in Seq(Pos) /\ Len(chunk) \in Nat
  BY ChunksAssumption
<1>2. \A i \in 1..Len(chunk) : [seq |-> n, row |-> i, goal |-> chunk[i]] \in Keyframe
  BY <1>1 DEF Keyframe
<1>3. Rows(chunk, n) \in [1..Len(chunk) -> Keyframe]
  BY <1>2 DEF Rows
<1> QED BY <1>1, <1>3 DEF Rows

LEMMA PopType ==
  ASSUME NEW q \in Seq(Keyframe), q # <<>>
  PROVE  /\ Tail(q) \in Seq(Keyframe) /\ Head(q) \in Keyframe /\ Head(q) = q[1]
         /\ Len(q) \in Nat /\ Len(q) >= 1 /\ Len(Tail(q)) = Len(q) - 1
         /\ \A i \in 1..Len(Tail(q)) : i + 1 \in 1..Len(q) /\ Tail(q)[i] = q[i + 1]
         /\ \A i \in 1..Len(q) : q[i] \in Keyframe
  OBVIOUS
-----------------------------------------------------------------------------
(* The inductive invariant *)

LEMMA InitInv == Init => Inv
<1> SUFFICES ASSUME Init PROVE Inv
  OBVIOUS
<1>1. NoSegment \in Segment
  BY DEF NoSegment, Segment
<1>2. TypeOK
  <2>1. stop_requested \in BOOLEAN /\ policy_batch_mode \in BOOLEAN
    BY DEF Init
  <2>2. target_q_batch \in Seq(Keyframe) /\ batch_commit_seq \in Nat
    BY DEF Init, ServerInit
  <2>3. attempt \in 0..MaxSkips /\ waiting \in 0..MaxWaiting /\ active_batch_commit_seq \in Nat
    BY BoundsAssumption DEF Init
  <2>4. batch_seg \in Segment /\ legacy_seg \in Segment
    BY <1>1 DEF Init
  <2> QED BY <2>1, <2>2, <2>3, <2>4, HomeAssumption, Zenon DEF Init, ServerInit, TypeOK
<1>3. QueueIsRun /\ RestComesLater
  BY DEF Init, ServerInit, QueueIsRun, RestComesLater, NoKeyframe
<1>4. ~Executing /\ Phase /\ PeekedIsFront
  BY DEF Init, NoSegment, Executing, Phase, PeekedIsFront
<1> QED BY <1>2, <1>3, <1>4 DEF Init, Inv, CommandAtLastGoal, LostOnlyFirst

\* What the types say of the keyframes the history variables hold and of the front.
LEMMA KeyframeFacts ==
  ASSUME TypeOK
  PROVE  /\ held.seq \in Nat /\ held.row \in Nat /\ begun.seq \in Nat /\ begun.row \in Nat
         /\ target_q_batch # <<>> =>
              /\ Head(target_q_batch) = target_q_batch[1] /\ Head(target_q_batch) \in Keyframe
              /\ Head(target_q_batch).goal \in Int /\ Head(target_q_batch).row \in Nat \ {0}
              /\ 1 \in 1..Len(target_q_batch)
<1>0. \A k \in Keyframe : k.seq \in Nat /\ k.row \in Nat \ {0} /\ k.goal \in Int
  BY PosAssumption DEF Keyframe
<1>1. /\ held \in Keyframe \cup {NoKeyframe} /\ begun \in Keyframe \cup {NoKeyframe}
      /\ target_q_batch \in Seq(Keyframe)
  BY Zenon DEF TypeOK
<1>2. NoKeyframe.seq \in Nat /\ NoKeyframe.row \in Nat
  BY DEF NoKeyframe
<1>3. target_q_batch # <<>> =>
        /\ Head(target_q_batch) = target_q_batch[1] /\ Head(target_q_batch) \in Keyframe
        /\ 1 \in 1..Len(target_q_batch)
  BY <1>1, PopType
<1> QED BY <1>0, <1>1, <1>2, <1>3

\* A step that leaves the plan's segments alone and replaces or clears the queue
\* keeps what is known about the queue: it is a new run, and no row is popped.
LEMMA NewQueue ==
  ASSUME Inv, TypeOK',
         batch_commit_seq' = batch_commit_seq + 1,
         \A i \in 1..Len(target_q_batch') :
           target_q_batch'[i].seq = batch_commit_seq + 1 /\ target_q_batch'[i].row = i,
         UNCHANGED <<batch_seg, last_batch_q1, policy_batch_mode, cmd, held, begun, lost,
                     attempt>>,
         pc' = pc \/ (pc = "stopBatch" /\ pc' = "stopTarget")
  PROVE  Inv'
<1>0. batch_commit_seq \in Nat /\ target_q_batch' \in Seq(Keyframe)
  BY DEF Inv, TypeOK
<1>1. QueueIsRun'
  <2> SUFFICES ASSUME NEW i \in 1..Len(target_q_batch')
               PROVE  /\ target_q_batch'[i].seq = batch_commit_seq'
                      /\ target_q_batch'[i].row = target_q_batch'[1].row + i - 1
    BY DEF QueueIsRun
  <2>1. 1 \in 1..Len(target_q_batch') /\ i \in Nat
    BY <1>0
  <2> QED BY <2>1
<1>2. Phase'
  BY DEF Inv, Phase, Executing
<1>3. PeekedIsFront'
  <2> SUFFICES ASSUME Executing' \/ pc' = "skip"
               PROVE  /\ held'.seq <= batch_commit_seq'
                      /\ held'.seq # batch_commit_seq'
                      /\ target_q_batch' # <<>> => target_q_batch'[1].row = 1
    BY DEF PeekedIsFront
  <2>1. Executing \/ pc = "skip"
    BY DEF Executing
  <2>2. held.seq \in Nat /\ batch_commit_seq \in Nat
    BY DEF Inv, TypeOK, Keyframe, NoKeyframe
  <2>3. held.seq <= batch_commit_seq
    BY <2>1 DEF Inv, PeekedIsFront
  <2>4. target_q_batch' # <<>> => 1 \in 1..Len(target_q_batch')
    BY DEF TypeOK
  <2> QED BY <2>2, <2>3, <2>4
<1>4. RestComesLater'
  <2>1. begun' = begun /\ begun.seq \in Nat /\ begun.seq <= batch_commit_seq
    BY DEF Inv, TypeOK, RestComesLater, Keyframe, NoKeyframe
  <2> QED BY <1>0, <2>1 DEF RestComesLater
<1>5. CommandAtLastGoal' /\ LostOnlyFirst'
  BY DEF Inv, CommandAtLastGoal, LostOnlyFirst
<1> QED BY <1>1, <1>2, <1>3, <1>4, <1>5 DEF Inv

\* Types are preserved.  The only bound at risk is the one on skips.
LEMMA TypeStep == Inv /\ [Next]_vars => TypeOK'
<1> SUFFICES ASSUME Inv, [Next]_vars PROVE TypeOK'
  OBVIOUS
<1> USE DEF Inv
<1>1. CASE ClientBatch
  <2>1. PICK chunk \in Chunks : CommitBatch(chunk)
    BY <1>1 DEF ClientBatch
  <2>2. batch_commit_seq + 1 \in Nat
    BY DEF TypeOK
  <2>3. target_q_batch' \in Seq(Keyframe) /\ batch_commit_seq' \in Nat /\ target_q' = target_q
    BY <2>1, <2>2, RowsType DEF CommitBatch
  <2>4. UNCHANGED <<stop_requested, pc, attempt, planVars, motorVars, nrtVars, historyVars>>
    BY <1>1 DEF ClientBatch
  <2>5. UNCHANGED <<stop_requested, pc, attempt, active_batch_commit_seq, last_batch_q1,
                    policy_batch_mode, batch_seg, legacy_seg, last_legacy_target, actual, cmd,
                    nrt, waiting, held, begun, lost>>
    BY <2>4 DEF planVars, motorVars, nrtVars, historyVars
  <2>6. TypeOK
    OBVIOUS
  <2> QED BY <2>3, <2>5, <2>6, ZenonT(30) DEF TypeOK
<1>2. CASE ClientTarget
  <2>1. target_q' \in Pos \cup {None} /\ UNCHANGED <<target_q_batch, batch_commit_seq>>
    BY <1>2, ChunksAssumption DEF ClientTarget, StoreTarget
  <2> QED BY <2>1, <1>2, ZenonT(30)
          DEF ClientTarget, TypeOK, planVars, motorVars, nrtVars, historyVars
<1>3. CASE NrtPolicy
  <2>1. waiting' \in 0..MaxWaiting
    BY <1>3, BoundsAssumption DEF NrtPolicy, TypeOK
  <2> QED BY <2>1, <1>3, ZenonT(30)
          DEF NrtPolicy, TypeOK, serverVars, planVars, motorVars, historyVars
<1>4. CASE NrtStop
  BY <1>4, ZenonT(30) DEF NrtStop, TypeOK, serverVars, planVars, motorVars, historyVars
<1>5. CASE NrtStopClearBatch \/ RtStopClearBatch
  <2>1. batch_commit_seq + 1 \in Nat
    BY DEF TypeOK
  <2>2. ClearBatch
    BY <1>5 DEF NrtStopClearBatch, RtStopClearBatch
  <2>3. target_q_batch' \in Seq(Keyframe) /\ batch_commit_seq' \in Nat /\ target_q' = target_q
    BY <2>1, <2>2 DEF ClearBatch
  <2> QED BY <2>3, <1>5, ZenonT(30)
          DEF NrtStopClearBatch, RtStopClearBatch, TypeOK, planVars, motorVars, nrtVars,
              historyVars
<1>6. CASE NrtStopClearTarget \/ RtStopClearTarget
  BY <1>6, ZenonT(30)
  DEF NrtStopClearTarget, RtStopClearTarget, ClearTarget, TypeOK, planVars, motorVars,
      nrtVars, historyVars
<1>7. CASE RtStart \/ RtStop
  <2>1. NoSegment \in Segment
    BY DEF NoSegment, Segment
  <2>2. attempt' \in 0..MaxSkips /\ waiting' \in 0..MaxWaiting /\ active_batch_commit_seq' \in Nat
    BY <1>7, BoundsAssumption DEF RtStart, RtStop, ResetMotionState, TypeOK, nrtVars
  <2>3. actual' \in Int
    BY <1>7, SpanType DEF RtStart, RtStop, MotorsMove, motorVars, TypeOK
  <2> QED BY <2>1, <2>2, <2>3, <1>7, ZenonT(30)
          DEF RtStart, RtStop, ResetMotionState, TypeOK, serverVars, motorVars, nrtVars,
              historyVars
<1>8. CASE RtTick
  <2>1. cmd' \in Int /\ actual' \in Int
    BY <1>8, LerpType, SpanType DEF RtTick, MotorsMove, TypeOK
  <2>2. batch_seg' \in Segment
    BY <1>8, TickedType DEF RtTick, TypeOK
  <2>3. pc' \in {"entry", "pop"}
    BY <1>8 DEF RtTick
  <2> QED BY <2>1, <2>2, <2>3, <1>8, ZenonT(30) DEF RtTick, TypeOK, serverVars, nrtVars, historyVars
<1>9. CASE RtPop \/ RtSkip
  <2>1. target_q_batch' \in Seq(Keyframe) /\ batch_commit_seq' = batch_commit_seq
        /\ target_q' = target_q
    BY <1>9, PopType DEF RtPop, RtSkip, PopFront, TypeOK
  <2>2. lost' \in SUBSET Keyframe
    <3>1. Queued \subseteq Keyframe /\ lost \subseteq Keyframe
      BY DEF Queued, TypeOK
    <3> QED BY <1>9, <3>1 DEF RtPop, RtSkip, NoteLoss
  <2>3. attempt' \in 0..MaxSkips
    BY <1>9, BoundsAssumption DEF RtPop, RtSkip, TypeOK, Phase
  <2> QED BY <2>1, <2>2, <2>3, <1>9, ZenonT(30)
          DEF RtPop, RtSkip, TypeOK, planVars, motorVars, nrtVars
<1>10. CASE RtLook
  <2>1. actual' \in Int
    BY <1>10, SpanType DEF RtLook, MotorsMove, TypeOK
  <2> QED BY <2>1, <1>10, ZenonT(30) DEF RtLook, TypeOK, serverVars, planVars, nrtVars, historyVars
<1>11. CASE RtReadSeq
  <2>1. attempt' \in 0..MaxSkips
    BY <1>11, BoundsAssumption DEF RtReadSeq
  <2> QED BY <2>1, <1>11, ZenonT(30)
          DEF RtReadSeq, TypeOK, serverVars, motorVars, nrtVars, historyVars
<1>12. CASE RtBegin
  <2> DEFINE front == Head(target_q_batch)
             seg   == StartSegment(Seed, front.goal, 2)
  <2>1. front \in Keyframe /\ front.goal \in Int
    BY <1>12, PopType, PosAssumption DEF RtBegin, TypeOK, Keyframe
  <2>2. Seed \in Int
    BY DEF Seed, TypeOK
  <2>3. seg \in Segment
    BY <2>1, <2>2, StartSegmentType
  <2>4. batch_seg' \in Segment /\ cmd' \in Int
    BY <1>12, <2>3, TickedType, LerpType DEF RtBegin
  <2>5. pc' \in {"entry", "pop"} /\ last_batch_q1' \in Int /\ held' \in Keyframe /\ begun' \in Keyframe
    BY <1>12, <2>1 DEF RtBegin
  <2>6. /\ UNCHANGED <<target_q_batch, batch_commit_seq, target_q, stop_requested, attempt,
                       legacy_seg, last_legacy_target, active_batch_commit_seq, actual, nrt,
                       waiting, lost>>
        /\ policy_batch_mode' \in BOOLEAN
    BY <1>12 DEF RtBegin, serverVars, nrtVars
  <2>7. TypeOK
    OBVIOUS
  <2> QED BY <2>4, <2>5, <2>6, <2>7, ZenonT(30) DEF TypeOK
<1>13. CASE RtReject
  <2>1. held' \in Keyframe
    BY <1>13, PopType DEF RtReject, TypeOK
  <2> QED BY <2>1, <1>13, ZenonT(30) DEF RtReject, TypeOK, serverVars, planVars, motorVars, nrtVars
<1>14. CASE RtNoKeyframe
  <2>1. pc' \in {"entry", "target"}
    BY <1>14 DEF RtNoKeyframe
  <2> QED BY <2>1, <1>14, ZenonT(30)
          DEF RtNoKeyframe, TypeOK, serverVars, planVars, motorVars, nrtVars, historyVars
<1>15. CASE RtTarget
  <2>1. legacy_seg' \in Segment /\ cmd' \in Int /\ last_legacy_target' \in Int \cup {None}
    <3>1. CASE target_q = None
      BY <1>15, <3>1 DEF RtTarget, TypeOK, Segment
    <3>2. ASSUME NEW seg \in Segment, LegacyTick(seg)
          PROVE  /\ legacy_seg' \in Segment /\ cmd' \in Int
                 /\ last_legacy_target' \in Int \cup {None}
      <4>1. seg.q1 \in Int
        BY DEF Segment
      <4> QED BY <4>1, <3>2, TickedType, LerpType DEF LegacyTick, TypeOK
    <3>3. CASE target_q # None /\ legacy_seg.active
      BY <1>15, <3>2, <3>3 DEF RtTarget, TypeOK
    <3>4. CASE target_q # None /\ ~legacy_seg.active /\ target_q # last_legacy_target
      <4>1. StartSegment(actual, target_q, 1) \in Segment
        BY <3>4, StartSegmentType, PosAssumption DEF TypeOK
      <4> QED BY <1>15, <3>2, <3>4, <4>1 DEF RtTarget
    <3>5. CASE target_q # None /\ ~legacy_seg.active /\ target_q = last_legacy_target
      BY <1>15, <3>5, PosAssumption DEF RtTarget, TypeOK
    <3> QED BY <3>1, <3>3, <3>4, <3>5
  <2> QED BY <2>1, <1>15, ZenonT(30) DEF RtTarget, TypeOK, serverVars, nrtVars, historyVars
<1>16. CASE UNCHANGED vars
  <2>1. /\ UNCHANGED <<serverVars, stop_requested, pc, attempt, planVars>>
        /\ UNCHANGED <<motorVars, nrtVars, historyVars>>
    BY <1>16 DEF vars
  <2> QED BY <2>1 DEF TypeOK, serverVars, planVars, motorVars, nrtVars, historyVars
<1> QED
  BY <1>1, <1>2, <1>3, <1>4, <1>5, <1>6, <1>7, <1>8, <1>9, <1>10, <1>11, <1>12, <1>13,
     <1>14, <1>15, <1>16
  DEF Next, Client, Command, NrtStep, RtStep

\* A step that touches nothing the invariant speaks of, except that it may move
\* the real-time thread between two places where it holds no keyframe.
LEMMA QuietStep ==
  ASSUME Inv, TypeOK',
         UNCHANGED <<target_q_batch, batch_commit_seq, batch_seg, last_batch_q1,
                     policy_batch_mode, cmd, held, begun, lost>>,
         \/ pc' = pc /\ attempt' = attempt
         \/ /\ ~batch_seg.active /\ pc \notin {"pop", "stopBatch"}
            /\ pc' \notin {"pop", "skip", "target"}
  PROVE  Inv'
<1>1. QueueIsRun' /\ LostOnlyFirst' /\ CommandAtLastGoal'
  BY DEF Inv, QueueIsRun, LostOnlyFirst, CommandAtLastGoal
<1>2. Phase'
  BY DEF Inv, Phase, Executing
<1>3. PeekedIsFront'
  BY DEF Inv, PeekedIsFront, Executing
<1>4. RestComesLater'
  BY DEF Inv, RestComesLater, Executing
<1> QED BY <1>1, <1>2, <1>3, <1>4 DEF Inv

\* The steps of the clients and of the command-line thread, and the steps of the
\* real-time thread that only clear the server's buffers.
LEMMA OthersInv ==
  ASSUME Inv, TypeOK',
         \/ Client \/ Command \/ NrtStep \/ UNCHANGED vars
         \/ RtStopClearBatch \/ RtStopClearTarget
  PROVE  Inv'
<1>1. CASE ClientBatch
  <2>1. PICK chunk \in Chunks : CommitBatch(chunk)
    BY <1>1 DEF ClientBatch
  <2>2. batch_commit_seq + 1 \in Nat
    BY DEF Inv, TypeOK
  <2>3. \A i \in 1..Len(target_q_batch') :
          target_q_batch'[i].seq = batch_commit_seq + 1 /\ target_q_batch'[i].row = i
    BY <2>1, <2>2, RowsType DEF CommitBatch
  <2>4. /\ UNCHANGED <<batch_seg, last_batch_q1, policy_batch_mode, cmd, held, begun, lost,
                       attempt>>
        /\ pc' = pc
    BY <1>1 DEF ClientBatch, planVars, motorVars, historyVars
  <2>5. batch_commit_seq' = batch_commit_seq + 1
    BY <2>1 DEF CommitBatch
  <2> QED BY <2>3, <2>4, <2>5, NewQueue
<1>2. CASE NrtStopClearBatch \/ RtStopClearBatch
  <2>1. ClearBatch
    BY <1>2 DEF NrtStopClearBatch, RtStopClearBatch
  <2>2. batch_commit_seq' = batch_commit_seq + 1 /\ 1..Len(target_q_batch') = {}
    BY <2>1 DEF ClearBatch
  <2>3. /\ UNCHANGED <<batch_seg, last_batch_q1, policy_batch_mode, cmd, held, begun, lost,
                        attempt>>
        /\ pc' = pc \/ (pc = "stopBatch" /\ pc' = "stopTarget")
    <3>1. CASE NrtStopClearBatch
      BY <3>1 DEF NrtStopClearBatch, planVars, motorVars, historyVars
    <3>2. CASE RtStopClearBatch
      BY <3>2 DEF RtStopClearBatch, planVars, motorVars, historyVars
    <3> QED BY <1>2, <3>1, <3>2
  <2> QED BY <2>2, <2>3, NewQueue
<1>3. CASE ClientTarget \/ NrtPolicy \/ NrtStop \/ NrtStopClearTarget \/ UNCHANGED vars
  BY <1>3, QuietStep
  DEF ClientTarget, StoreTarget, NrtPolicy, NrtStop, NrtStopClearTarget, ClearTarget, vars,
      serverVars, planVars, motorVars, historyVars
<1>4. CASE RtStopClearTarget
  <2>1. ~batch_seg.active
    BY <1>4 DEF Inv, Phase, RtStopClearTarget
  <2> QED BY <1>4, <2>1, QuietStep
          DEF RtStopClearTarget, ClearTarget, planVars, motorVars, historyVars
<1> QED BY <1>1, <1>2, <1>3, <1>4 DEF Client, Command, NrtStep

\* The steps of the real-time thread inside a cycle.
LEMMA CycleInv ==
  ASSUME Inv, TypeOK',
         \/ RtStart \/ RtStop \/ RtTick \/ RtPop \/ RtLook \/ RtReadSeq
         \/ RtBegin \/ RtReject \/ RtSkip \/ RtNoKeyframe \/ RtTarget
  PROVE  Inv'
<1> USE DEF Inv
<1>1. CASE RtStart \/ RtStop
  <2>1. /\ ~Executing' /\ pc' \in {"entry", "stopBatch"} /\ last_batch_q1' = None
        /\ UNCHANGED <<target_q_batch, batch_commit_seq, held, begun, lost>>
    BY <1>1 DEF RtStart, RtStop, ResetMotionState, NoSegment, Executing, serverVars, historyVars
  <2>2. QueueIsRun' /\ LostOnlyFirst' /\ CommandAtLastGoal' /\ PeekedIsFront'
    BY <2>1 DEF QueueIsRun, LostOnlyFirst, CommandAtLastGoal, PeekedIsFront
  <2>3. Phase'
    BY <1>1, <2>1 DEF Phase, RtStart, RtStop, ResetMotionState, NoSegment
  <2>4. RestComesLater'
    <3>1. CASE RtStart
      <4>1. pc = "off" /\ pc' = "entry"
        BY <3>1 DEF RtStart
      <4>2. ~Executing
        BY <4>1 DEF Phase, Executing
      <4> QED BY <2>1, <4>1, <4>2 DEF RestComesLater
    <3>2. CASE RtStop
      BY <2>1, <3>2 DEF RtStop, RestComesLater
    <3> QED BY <1>1, <3>1, <3>2
  <2> QED BY <2>2, <2>3, <2>4
<1>2. CASE RtTick
  <2>1. /\ Executing /\ Executing' /\ pc' # "skip"
        /\ UNCHANGED <<target_q_batch, batch_commit_seq, held, begun, lost, last_batch_q1,
                       policy_batch_mode, attempt>>
    BY <1>2 DEF RtTick, Executing, serverVars, historyVars
  <2>2. QueueIsRun' /\ LostOnlyFirst' /\ PeekedIsFront' /\ RestComesLater'
    BY <2>1 DEF QueueIsRun, LostOnlyFirst, PeekedIsFront, RestComesLater
  <2>3. batch_seg' = Ticked(batch_seg) /\ batch_seg \in Segment /\ cmd' \in Lerp(batch_seg)
        /\ last_batch_q1 = batch_seg.q1
    BY <1>2 DEF RtTick, TypeOK, Phase
  <2>4. Phase'
    BY <1>2, <2>1, <2>3, TickedType DEF Phase, RtTick
  <2>5. CommandAtLastGoal'
    <3> SUFFICES ASSUME ~batch_seg'.active PROVE cmd' = last_batch_q1'
      BY DEF CommandAtLastGoal
    <3>1. batch_seg.step_idx + 1 >= batch_seg.n_steps
      BY <2>3, TickedType DEF Segment
    <3> QED BY <2>1, <2>3, <3>1, LerpEnds
  <2> QED BY <2>2, <2>4, <2>5
<1>3. CASE RtPop \/ RtSkip
  <2>1. /\ Executing \/ pc = "skip"
        /\ ~batch_seg.active
        /\ pc' \in {"entry", "peek"} /\ PopFront /\ NoteLoss
        /\ UNCHANGED <<batch_seg, last_batch_q1, policy_batch_mode, cmd, held, begun>>
    BY <1>3 DEF RtPop, RtSkip, Executing, Phase, planVars, motorVars
  <2>2. batch_commit_seq' = batch_commit_seq
    BY <2>1 DEF PopFront
  <2>3. ~Executing' /\ Phase' /\ PeekedIsFront' /\ CommandAtLastGoal'
    BY <2>1 DEF Executing, Phase, PeekedIsFront, CommandAtLastGoal
  <2>4. CASE target_q_batch = <<>>
    <3>1. target_q_batch' = <<>> /\ lost' = lost
      BY <2>1, <2>4 DEF PopFront, NoteLoss, Queued
    <3>2. QueueIsRun' /\ LostOnlyFirst' /\ RestComesLater'
      BY <2>1, <2>2, <3>1 DEF QueueIsRun, LostOnlyFirst, RestComesLater
    <3> QED BY <2>3, <3>2
  <2>5. CASE target_q_batch # <<>>
    <3> DEFINE q == target_q_batch
    <3>1. /\ q' = Tail(q) /\ q \in Seq(Keyframe) /\ Head(q) = q[1] /\ q[1] \in Keyframe
          /\ Len(q) \in Nat /\ Len(q) >= 1 /\ Len(q') = Len(q) - 1
          /\ \A i \in 1..Len(q') : i + 1 \in 1..Len(q) /\ q'[i] = q[i + 1]
          /\ \A i \in 1..Len(q) : q[i].row \in Nat /\ q[i].seq \in Nat
      BY <2>1, <2>5, PopType DEF PopFront, TypeOK, Keyframe
    <3>2. QueueIsRun'
      <4> SUFFICES ASSUME NEW i \in 1..Len(q')
                   PROVE  q'[i].seq = batch_commit_seq /\ q'[i].row = q'[1].row + i - 1
        BY <2>2 DEF QueueIsRun
      <4>1. q'[i] = q[i + 1] /\ q'[1] = q[2] /\ i + 1 \in 1..Len(q) /\ 2 \in 1..Len(q) /\ i \in Nat
        BY <3>1
      <4>2. q[2].row = q[1].row + 1 /\ q[i + 1].row = q[1].row + i /\ q[i + 1].seq = batch_commit_seq
        BY <3>1, <4>1 DEF QueueIsRun
      <4>3. q[1].row \in Nat /\ q[2].row \in Nat
        BY <3>1, <4>1
      <4>4. q'[i].row = q'[1].row + i - 1
        <5>1. q'[i].row = q[1].row + i /\ q'[1].row = q[1].row + 1
          BY <4>1, <4>2
        <5> HIDE DEF q
        <5> QED BY <4>1, <4>3, <5>1
      <4> QED BY <2>2, <4>1, <4>2, <4>4
    <3>3. LostOnlyFirst'
      <4> SUFFICES ASSUME NEW x \in Queued, x \notin Queued', x # held PROVE x.row = 1
        BY <2>1 DEF NoteLoss, LostOnlyFirst
      <4>1. PICK j \in 1..Len(q) : x = q[j]
        BY DEF Queued
      <4>2. j = 1
        <5>1. ASSUME j # 1 PROVE FALSE
          <6>1. j - 1 \in 1..Len(q') /\ q'[j - 1] = q[j]
            BY <3>1, <5>1
          <6> QED BY <4>1, <6>1 DEF Queued
        <5> QED BY <5>1
      <4> QED BY <2>1, <2>5, <4>1, <4>2 DEF PeekedIsFront
    <3>4. RestComesLater'
      <4> SUFFICES ASSUME begun.seq = batch_commit_seq, NEW i \in 1..Len(q')
                   PROVE  begun.row < q'[i].row
        BY <2>1, <2>2 DEF RestComesLater
      <4>1. /\ q'[i] = q[i + 1] /\ i + 1 \in 1..Len(q) /\ i \in Nat /\ i >= 1
            /\ q[i + 1].row = q[1].row + i /\ q[1].row \in Nat
        BY <3>1 DEF QueueIsRun
      <4>2. begun.row \in Nat
        BY KeyframeFacts
      <4>3. begun.row <= q[1].row
        <5>1. CASE Executing
          BY <5>1, <4>2 DEF Phase, PeekedIsFront
        <5>2. CASE ~Executing
          <6>1. pc = "skip" /\ 1 \in 1..Len(q)
            BY <2>1, <3>1, <5>2
          <6> QED BY <5>2, <6>1, <4>1, <4>2 DEF RestComesLater
        <5> QED BY <5>1, <5>2
      <4> QED BY <4>1, <4>2, <4>3
    <3> QED BY <2>3, <3>2, <3>3, <3>4
  <2> QED BY <2>4, <2>5
<1>4. CASE RtLook
  BY <1>4, QuietStep DEF RtLook, serverVars, planVars, historyVars
<1>5. CASE RtReadSeq
  <2>1. /\ ~Executing /\ ~Executing' /\ pc' = "peek" /\ pc = "seq"
        /\ UNCHANGED <<target_q_batch, batch_commit_seq, held, begun, lost, batch_seg, cmd,
                       policy_batch_mode>>
        /\ last_batch_q1' \in {None, last_batch_q1}
    BY <1>5 DEF RtReadSeq, Phase, Executing, serverVars, motorVars, historyVars
  <2> QED BY <2>1 DEF QueueIsRun, LostOnlyFirst, PeekedIsFront, RestComesLater, Phase,
                      CommandAtLastGoal, Executing
<1>6. CASE RtBegin
  <2> DEFINE front == Head(target_q_batch)
             seg   == StartSegment(Seed, front.goal, 2)
  <2>1. /\ pc = "peek" /\ target_q_batch # <<>> /\ UNCHANGED <<target_q_batch, batch_commit_seq>>
        /\ batch_seg' = Ticked(seg) /\ cmd' \in Lerp(seg)
        /\ last_batch_q1' = front.goal /\ held' = front /\ begun' = front
        /\ policy_batch_mode' = TRUE /\ lost' = lost
        /\ pc' = IF batch_seg'.active THEN "entry" ELSE "pop"
    BY <1>6 DEF RtBegin, serverVars
  <2>2. front = target_q_batch[1] /\ front \in Keyframe /\ front.goal \in Int
        /\ 1 \in 1..Len(target_q_batch)
    BY <2>1, KeyframeFacts
  <2>3. seg \in Segment /\ seg.q1 = front.goal /\ seg.step_idx = 0 /\ seg.n_steps >= 2
    <3>1. Seed \in Int
      BY DEF Seed, TypeOK
    <3> QED BY <2>2, <3>1, StartSegmentType
  <2>4. batch_seg'.active /\ batch_seg'.q1 = front.goal
    BY <2>1, <2>3, TickedType DEF Segment
  <2>5. front.seq = batch_commit_seq /\ batch_commit_seq \in Nat
    BY <2>2 DEF QueueIsRun, TypeOK
  <2>6. QueueIsRun' /\ LostOnlyFirst'
    BY <2>1 DEF QueueIsRun, LostOnlyFirst
  <2>7. Phase' /\ CommandAtLastGoal'
    BY <2>1, <2>4 DEF Phase, CommandAtLastGoal
  <2>8. PeekedIsFront' /\ RestComesLater'
    BY <2>1, <2>2, <2>4, <2>5 DEF PeekedIsFront, RestComesLater, Executing
  <2> QED BY <2>6, <2>7, <2>8
<1>7. CASE RtReject
  <2>1. /\ pc = "peek" /\ pc' = "skip" /\ target_q_batch # <<>> /\ held' = Head(target_q_batch)
        /\ attempt' = attempt /\ attempt < MaxSkips
        /\ UNCHANGED <<target_q_batch, batch_commit_seq, begun, lost, batch_seg, cmd,
                       last_batch_q1, policy_batch_mode>>
    BY <1>7 DEF RtReject, serverVars, planVars, motorVars
  <2>2. ~Executing /\ ~Executing'
    BY <2>1 DEF Phase, Executing
  <2>3. Head(target_q_batch) = target_q_batch[1] /\ 1 \in 1..Len(target_q_batch)
    BY <2>1, PopType DEF TypeOK
  <2>4. target_q_batch[1].seq = batch_commit_seq /\ batch_commit_seq \in Nat
    BY <2>3 DEF QueueIsRun, TypeOK
  <2>5. PeekedIsFront'
    BY <2>1, <2>3, <2>4 DEF PeekedIsFront
  <2>6. Phase' /\ QueueIsRun' /\ LostOnlyFirst' /\ RestComesLater' /\ CommandAtLastGoal'
    BY <2>1, <2>2 DEF Phase, QueueIsRun, LostOnlyFirst, RestComesLater, CommandAtLastGoal
  <2> QED BY <2>5, <2>6
<1>8. CASE RtNoKeyframe
  <2>1. /\ pc = "peek" /\ pc' = IF policy_batch_mode THEN "entry" ELSE "target"
        /\ attempt' = attempt
        /\ UNCHANGED <<target_q_batch, batch_commit_seq, held, begun, lost, batch_seg, cmd,
                       last_batch_q1, policy_batch_mode>>
    BY <1>8 DEF RtNoKeyframe, serverVars, planVars, motorVars, historyVars
  <2>2. ~Executing /\ ~Executing'
    BY <2>1 DEF Phase, Executing
  <2> QED BY <2>1, <2>2 DEF QueueIsRun, LostOnlyFirst, PeekedIsFront, RestComesLater, Phase,
                            CommandAtLastGoal
<1>9. CASE RtTarget
  <2>1. /\ pc = "target" /\ pc' = "entry" /\ last_batch_q1 = None
        /\ UNCHANGED <<target_q_batch, batch_commit_seq, held, begun, lost, batch_seg,
                       last_batch_q1, policy_batch_mode>>
    BY <1>9 DEF RtTarget, Phase, serverVars, historyVars
  <2>2. ~Executing /\ ~Executing'
    BY <2>1 DEF Phase, Executing
  <2> QED BY <2>1, <2>2 DEF QueueIsRun, LostOnlyFirst, PeekedIsFront, RestComesLater, Phase,
                            CommandAtLastGoal
<1> QED BY <1>1, <1>2, <1>3, <1>4, <1>5, <1>6, <1>7, <1>8, <1>9

\* Every reachable state of the plan satisfies the inductive invariant, whatever
\* the reader threads and the command line do in between.
THEOREM Invariance == Spec => []Inv
<1>1. Inv /\ [Next]_vars => Inv'
  <2> SUFFICES ASSUME Inv, [Next]_vars PROVE Inv'
    OBVIOUS
  <2>1. TypeOK'
    BY TypeStep
  <2> QED BY <2>1, OthersInv, CycleInv DEF Next, RtStep
<1> QED BY <1>1, InitInv, PTL DEF Spec

-----------------------------------------------------------------------------
(* What follows from it *)

\* The buffers, segments and program counters keep their types.
THEOREM TypeCorrect == Spec => []TypeOK
<1>1. Inv => TypeOK
  BY DEF Inv
<1> QED BY <1>1, Invariance, PTL

\* "remaining" counts the keyframe in execution: as long as its commit is the
\* newest, it is at the front of target_q_batch_ until its segment is over.
THEOREM ExecutingFront == Spec => []ExecutingIsFront
<1>1. Inv => ExecutingIsFront
  <2> SUFFICES ASSUME Inv, Executing, begun.seq = batch_commit_seq
               PROVE  target_q_batch # <<>> /\ Head(target_q_batch) = begun
    BY DEF ExecutingIsFront
  <2>1. TypeOK /\ held = begun
    BY DEF Inv, Phase
  <2>2. target_q_batch # <<>> /\ target_q_batch[1] = begun
    BY <2>1 DEF Inv, PeekedIsFront
  <2> QED BY <2>1, <2>2, KeyframeFacts
<1> QED BY <1>1, Invariance, PTL

\* The two separate locks of peek and pop cost at most the first keyframe of a
\* batch that replaces another; no later row is popped unseen.
THEOREM OnlyFirstLost == Spec => []LostOnlyFirst
<1>1. Inv => LostOnlyFirst
  BY DEF Inv
<1> QED BY <1>1, Invariance, PTL

\* The first command of a segment is the command in force or the arm's actual
\* position: the stored last_batch_q1 is never stale.
THEOREM SmoothBegin == Spec => NoJumpAtBegin
<1>1. Inv /\ RtBegin => cmd' \in {cmd, actual}
  <2> SUFFICES ASSUME Inv, RtBegin PROVE cmd' \in {cmd, actual}
    OBVIOUS
  <2> DEFINE front == Head(target_q_batch)
             seg   == StartSegment(Seed, front.goal, 2)
  <2>1. pc = "peek" /\ target_q_batch # <<>> /\ cmd' \in Lerp(seg)
    BY DEF RtBegin
  <2>2. Seed \in Int /\ front.goal \in Int
    <3>1. last_batch_q1 \in Int \cup {None} /\ actual \in Int /\ TypeOK
      BY Zenon DEF Inv, TypeOK
    <3> QED BY <2>1, <3>1, KeyframeFacts DEF Seed
  <2>3. cmd' = Seed
    BY <2>1, <2>2, StartSegmentType, LerpStarts
  <2>4. ~batch_seg.active
    BY <2>1 DEF Inv, Phase
  <2> QED BY <2>3, <2>4 DEF Seed, Inv, CommandAtLastGoal
<1>2. Inv /\ [Next]_vars => [RtBegin => cmd' \in {cmd, actual}]_vars
  BY <1>1
<1> QED BY <1>2, Invariance, PTL DEF Spec, NoJumpAtBegin

\* After the first keyframe the plan never commands the immediate target again.
THEOREM Committed == Spec => NoFallback
<1> DEFINE OnSegment ==
      policy_batch_mode' /\ cmd' # cmd => cmd' \in Span(batch_seg'.q0, batch_seg'.q1)
<1>1. ASSUME Inv, Next PROVE OnSegment
  <2> USE <1>1 DEF Inv
  <2>1. ASSUME NEW s \in Segment, NEW p \in Lerp(s)
        PROVE  p \in Span(s.q0, s.q1)
    BY <2>1 DEF Segment, Lerp, Span
  <2>2. CASE RtTick
    <3>1. batch_seg \in Segment /\ cmd' \in Lerp(batch_seg) /\ batch_seg' = Ticked(batch_seg)
      BY <2>2 DEF RtTick, TypeOK
    <3> QED BY <2>1, <3>1, TickedType
  <2>3. CASE RtBegin
    <3> DEFINE front == Head(target_q_batch)
               seg   == StartSegment(Seed, front.goal, 2)
    <3>1. target_q_batch # <<>> /\ batch_seg' = Ticked(seg) /\ cmd' \in Lerp(seg)
      BY <2>3 DEF RtBegin
    <3>2. Seed \in Int /\ front.goal \in Int
      <4>1. last_batch_q1 \in Int \cup {None} /\ actual \in Int /\ TypeOK
        BY Zenon DEF TypeOK
      <4> QED BY <3>1, <4>1, KeyframeFacts DEF Seed
    <3> QED BY <2>1, <3>1, <3>2, StartSegmentType, TickedType
  <2>4. CASE RtTarget
    BY <2>4 DEF RtTarget, Phase
  <2>5. CASE Client \/ Command \/ NrtStep
    BY <2>5 DEF Client, ClientBatch, ClientTarget, Command, NrtPolicy, NrtStop, NrtStep,
                NrtStopClearBatch, NrtStopClearTarget, motorVars
  <2>6. CASE RtStart \/ RtStop \/ RtStopClearBatch \/ RtStopClearTarget \/ RtPop \/ RtLook
             \/ RtReadSeq \/ RtReject \/ RtSkip \/ RtNoKeyframe
    BY <2>6 DEF RtStart, RtStop, RtStopClearBatch, RtStopClearTarget, RtPop, RtLook, RtReadSeq,
                RtReject, RtSkip, RtNoKeyframe, motorVars
  <2> QED BY <2>2, <2>3, <2>4, <2>5, <2>6 DEF Next, RtStep
<1>2. Inv /\ [Next]_vars => [OnSegment]_vars
  BY <1>1
<1> QED BY <1>2, Invariance, PTL DEF Spec, NoFallback

\* The plan with its threads, locks and restarts implements RecedingHorizon: the
\* arm follows the keyframes of the newest batch in order, none of them twice.
THEOREM Refinement == Spec => FollowsNewestPlan
<1>1. Init => Horizon!Init
  BY DEF Init, ServerInit, NoKeyframe, NoSegment, Horizon!Init
<1>2. ASSUME Inv, [Next]_vars PROVE [Horizon!Next]_(Horizon!vars)
  <2> USE <1>2 DEF Inv
  <2>0. TypeOK'
    BY TypeStep
  <2>1. CASE ClientBatch \/ NrtStopClearBatch \/ RtStopClearBatch
    <3>1. batch_commit_seq' = batch_commit_seq + 1
      BY <2>1 DEF ClientBatch, NrtStopClearBatch, RtStopClearBatch, CommitBatch, ClearBatch
    <3>2. UNCHANGED <<begun, batch_seg>>
      BY <2>1 DEF ClientBatch, NrtStopClearBatch, RtStopClearBatch, historyVars, planVars
    <3> QED BY <3>1, <3>2 DEF Horizon!Next, Horizon!Replan
  <2>2. CASE RtBegin
    <3>1. pc = "peek" /\ target_q_batch # <<>> /\ begun' = Head(target_q_batch)
          /\ batch_commit_seq' = batch_commit_seq
          /\ batch_seg' = Ticked(StartSegment(Seed, Head(target_q_batch).goal, 2))
      BY <2>2 DEF RtBegin, serverVars
    <3>2. Head(target_q_batch) = target_q_batch[1] /\ 1 \in 1..Len(target_q_batch)
          /\ begun'.row \in Nat \ {0} /\ Head(target_q_batch).goal \in Int
      BY <3>1, KeyframeFacts
    <3>3. begun'.seq = batch_commit_seq
      BY <3>1, <3>2 DEF QueueIsRun
    <3>4. ~Executing
      BY <3>1 DEF Phase, Executing
    <3>5. begun.seq = batch_commit_seq => begun.row < begun'.row
      BY <3>1, <3>2, <3>4 DEF RestComesLater
    <3>6. batch_seg'.active
      <4>1. last_batch_q1 \in Int \cup {None} /\ actual \in Int
        BY Zenon DEF TypeOK
      <4>2. Seed \in Int
        BY <4>1 DEF Seed
      <4> DEFINE seg == StartSegment(Seed, Head(target_q_batch).goal, 2)
      <4>3. seg \in Segment /\ seg.step_idx = 0 /\ seg.n_steps >= 2
        BY <3>2, <4>2, StartSegmentType
      <4> HIDE DEF seg
      <4>4. Ticked(seg).active
        BY <4>3, TickedType DEF Segment
      <4> QED BY <3>1, <4>4 DEF seg
    <3>7. batch_seg.active = FALSE
      BY <3>4 DEF TypeOK, Segment, Executing
    <3> QED BY <3>1, <3>2, <3>3, <3>5, <3>6, <3>7 DEF Horizon!Next, Horizon!Follow
  <2>4. CASE RtStart \/ RtStop \/ RtTick
    <3>1. UNCHANGED <<batch_commit_seq, begun>>
      BY <2>4 DEF RtStart, RtStop, RtTick, serverVars, historyVars
    <3>2. batch_seg.active \in BOOLEAN /\ batch_seg'.active \in BOOLEAN
      <4>1. batch_seg \in Segment /\ batch_seg' \in Segment
        BY <2>0, Zenon DEF TypeOK
      <4> QED BY <4>1 DEF Segment
    <3>3. ~batch_seg'.active \/ batch_seg.active
      BY <2>4 DEF RtStart, RtStop, RtTick, ResetMotionState, NoSegment
    <3> QED BY <3>1, <3>2, <3>3 DEF Horizon!Next, Horizon!Halt, Horizon!vars
  <2>3. CASE \/ ClientTarget \/ NrtPolicy \/ NrtStop \/ NrtStopClearTarget
             \/ RtStopClearTarget \/ RtPop \/ RtLook \/ RtReadSeq \/ RtReject \/ RtSkip
             \/ RtNoKeyframe \/ RtTarget \/ UNCHANGED vars
    <3>1. UNCHANGED <<batch_commit_seq, begun, batch_seg>>
      BY <2>3 DEF ClientTarget, StoreTarget, NrtPolicy, NrtStop, NrtStopClearTarget, ClearTarget,
                  RtStopClearTarget, RtPop, PopFront, RtLook, RtReadSeq, RtReject, RtSkip,
                  RtNoKeyframe, RtTarget, vars, serverVars, planVars, historyVars
    <3> QED BY <3>1 DEF Horizon!vars
  <2> QED BY <2>1, <2>2, <2>3, <2>4 DEF Next, Client, Command, NrtStep, RtStep
<1> QED BY <1>1, <1>2, Invariance, PTL DEF Spec, FollowsNewestPlan, Horizon!Spec

=============================================================================
