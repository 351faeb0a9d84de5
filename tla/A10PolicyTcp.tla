---------------------------- MODULE A10PolicyTcp ----------------------------
(***************************************************************************)
(* The "policy" plan (A10PolicyTcpDriver, a10_policy_tcp_plan.cpp) that      *)
(* makes the arm follow the keyframes queued in the A10TcpServer, and the    *)
(* command "stop" (A10PolicyTcpCliStop) that ends it.  Three kinds of thread *)
(* share the server's buffers:                                              *)
(*   - the TCP reader threads commit batches and immediate targets;          *)
(*   - the command-line thread runs prepareNrt of each command it is given;  *)
(*   - the real-time thread calls executeRT of the running plan every 2 ms.  *)
(* A step ends where the code takes a lock or touches an atomic that another *)
(* thread uses; what it then does to its own data belongs to that step.      *)
(***************************************************************************)
EXTENDS A10TcpServer

CONSTANTS
  Home,            \* where the arm is when the program starts
  Stride,          \* joint travel per cycle at full speed: max_arm_vel_rad_s * k_dt
  MaxDelta,        \* max_axis_delta: a keyframe farther away than this is skipped
  MaxSkips,        \* k_max_batch_skips_per_tick
  MaxSeq,          \* bound: no commit or stop once batch_commit_seq reached it
  MaxWaiting,      \* bound: plans queued behind the running one
  OperatorWaits    \* the operator enters "policy" only when no plan runs

ASSUME HomeAssumption == Home \in Int
ASSUME SpeedAssumption == Stride \in Nat \ {0}
ASSUME BoundsAssumption ==
  /\ MaxDelta \in Nat /\ MaxSkips \in Nat \ {0}
  /\ MaxSeq \in Nat /\ MaxWaiting \in Nat
ASSUME OperatorAssumption == OperatorWaits \in BOOLEAN

VARIABLES
  stop_requested,            \* g_a10_policy_tcp_stop_requested
  pc,                        \* where the real-time thread is in executeRT
  attempt,                   \* keyframes skipped in this cycle
  batch_seg,                 \* the segment towards a keyframe
  legacy_seg,                \* the segment towards the immediate target
  last_legacy_target,        \* the immediate target reached last, or None
  active_batch_commit_seq,   \* the commit last_batch_q1 belongs to
  last_batch_q1,             \* goal of the last keyframe begun, or None
  policy_batch_mode,         \* a keyframe has been begun since the plan started
  actual,                    \* motors' actual position
  cmd,                       \* motors' target position
  nrt,                       \* where the command-line thread is in prepareNrt
  waiting,                   \* "policy" plans prepared and not started yet
  held,                      \* history: the keyframe peeked last
  begun,                     \* history: the keyframe a segment was last begun for
  lost                       \* history: keyframes popped without being looked at

planVars == <<active_batch_commit_seq, last_batch_q1, policy_batch_mode,
              batch_seg, legacy_seg, last_legacy_target>>
motorVars == <<actual, cmd>>
nrtVars == <<nrt, waiting>>
historyVars == <<held, begun, lost>>
vars == <<serverVars, stop_requested, pc, attempt, planVars, motorVars, nrtVars,
          historyVars>>

-----------------------------------------------------------------------------
(* Segments: a straight blend from q0 to q1 in n_steps cycles. *)

Abs(x) == IF x < 0 THEN -x ELSE x

\* The positions between a and b, both included, in either direction.
Span(a, b) == IF a <= b THEN a..b ELSE b..a

CyclesFor(d) == (d + Stride - 1) \div Stride      \* std::ceil(d / Stride)

\* blend_steps_seven, and the caller's minimum
BlendSteps(q0, q1, min_steps) ==
  IF CyclesFor(Abs(q1 - q0)) < min_steps THEN min_steps ELSE CyclesFor(Abs(q1 - q0))

NoSegment == [active |-> FALSE, q0 |-> 0, q1 |-> 0, step_idx |-> 0, n_steps |-> 1]

Segment == [active : BOOLEAN, q0 : Int, q1 : Int, step_idx : Nat, n_steps : Nat \ {0}]

StartSegment(q0, q1, min_steps) ==
  [active |-> TRUE, q0 |-> q0, q1 |-> q1,
   step_idx |-> 0, n_steps |-> BlendSteps(q0, q1, min_steps)]

\* Where lerp_q may put the command: at q0 on the first cycle, at q1 on the
\* last one, in between meanwhile (the fraction is left open); a segment of
\* one cycle goes to q1 at once.
Lerp(seg) ==
  CASE seg.n_steps <= 1               -> {seg.q1}
    [] seg.n_steps > 1 /\ seg.step_idx = 0 -> {seg.q0}
    [] seg.n_steps > 1 /\ seg.step_idx >= seg.n_steps - 1 -> {seg.q1}
    [] OTHER                          -> Span(seg.q0, seg.q1)

\* Mutant of Ticked: the segment ends one cycle early.
TickedShort(seg) ==
  [active |-> seg.step_idx + 2 < seg.n_steps, q0 |-> seg.q0, q1 |-> seg.q1,
   step_idx |-> seg.step_idx + 1, n_steps |-> seg.n_steps]

\* The segment after one tick_segment_and_apply.
Ticked(seg) ==
  [active |-> seg.step_idx + 1 < seg.n_steps, q0 |-> seg.q0, q1 |-> seg.q1,
   step_idx |-> seg.step_idx + 1, n_steps |-> seg.n_steps]

\* batch_keyframe_exceeds_threshold, from the position q0
Exceeds(q0, keyframe) == Abs(keyframe.goal - q0) > MaxDelta

NoKeyframe == [seq |-> 0, row |-> 0, goal |-> Home]

-----------------------------------------------------------------------------
Init ==
  /\ ServerInit
  /\ stop_requested = FALSE
  /\ pc = "off" /\ attempt = 0
  /\ batch_seg = NoSegment /\ legacy_seg = NoSegment
  /\ last_legacy_target = None
  /\ active_batch_commit_seq = 0 /\ last_batch_q1 = None
  /\ policy_batch_mode = FALSE
  /\ actual = Home /\ cmd = Home
  /\ nrt = "ready" /\ waiting = 0
  /\ held = NoKeyframe /\ begun = NoKeyframe /\ lost = {}

-----------------------------------------------------------------------------
(* The TCP reader threads, on behalf of any client. *)

ClientBatch ==
  /\ batch_commit_seq < MaxSeq
  /\ \E chunk \in Chunks : CommitBatch(chunk)
  /\ UNCHANGED <<stop_requested, pc, attempt, planVars, motorVars, nrtVars, historyVars>>

\* A line with fewer than six numbers counts as no target (None).
ClientTarget ==
  /\ \E p \in Targets : StoreTarget(p)
  /\ UNCHANGED <<stop_requested, pc, attempt, planVars, motorVars, nrtVars, historyVars>>

-----------------------------------------------------------------------------
(* The command-line thread: prepareNrt of "policy" and of "stop". *)

\* "policy": prepareNrt drops a pending stop request, and the plan joins the
\* plans that wait for the real-time thread.
NrtPolicy ==
  /\ nrt = "ready" /\ waiting < MaxWaiting
  /\ OperatorWaits => pc = "off" /\ waiting = 0
  /\ stop_requested' = FALSE
  /\ waiting' = waiting + 1
  /\ UNCHANGED <<serverVars, pc, attempt, planVars, motorVars, nrt, historyVars>>

\* Mutant of NrtStop: the buffers are cleared, but no plan is asked to end.
NrtStopSilent ==
  /\ nrt = "ready" /\ batch_commit_seq < MaxSeq
  /\ nrt' = "clearBatch"
  /\ UNCHANGED <<serverVars, stop_requested, pc, attempt, planVars, motorVars, waiting,
                 historyVars>>

\* "stop": the request first, then the two buffers.  NOT_RUN_EXECUTE_FUNCTION:
\* this command never reaches the real-time thread.
NrtStop ==
  /\ nrt = "ready" /\ batch_commit_seq < MaxSeq
  /\ stop_requested' = TRUE
  /\ nrt' = "clearBatch"
  /\ UNCHANGED <<serverVars, pc, attempt, planVars, motorVars, waiting, historyVars>>

NrtStopClearBatch ==
  /\ nrt = "clearBatch"
  /\ ClearBatch
  /\ nrt' = "clearTarget"
  /\ UNCHANGED <<stop_requested, pc, attempt, planVars, motorVars, waiting, historyVars>>

NrtStopClearTarget ==
  /\ nrt = "clearTarget"
  /\ ClearTarget
  /\ nrt' = "ready"
  /\ UNCHANGED <<stop_requested, pc, attempt, planVars, motorVars, waiting, historyVars>>

-----------------------------------------------------------------------------
(* The real-time thread: executeRT once per cycle. *)

\* reset_motion_state
ResetMotionState ==
  /\ batch_seg' = NoSegment /\ legacy_seg' = NoSegment
  /\ last_legacy_target' = None
  /\ active_batch_commit_seq' = 0 /\ last_batch_q1' = None
  /\ policy_batch_mode' = FALSE

\* The controller starts the next waiting plan; its Imp is the copy that
\* prepareNrt reset.
RtStart ==
  /\ pc = "off" /\ waiting > 0
  /\ waiting' = waiting - 1
  /\ pc' = "entry" /\ attempt' = 0
  /\ ResetMotionState
  /\ UNCHANGED <<serverVars, stop_requested, motorVars, nrt, historyVars>>

\* Between two cycles the motors come closer to their target.
MotorsMove == actual' \in Span(actual, cmd)

\* A cycle that finds a stop request consumes it, clears the buffers and
\* returns 0: the plan is over.
RtStop ==
  /\ pc = "entry" /\ stop_requested
  /\ stop_requested' = FALSE
  /\ MotorsMove
  /\ ResetMotionState
  /\ pc' = "stopBatch"
  /\ UNCHANGED <<serverVars, attempt, cmd, nrtVars, historyVars>>

RtStopClearBatch ==
  /\ pc = "stopBatch"
  /\ ClearBatch
  /\ pc' = "stopTarget"
  /\ UNCHANGED <<stop_requested, attempt, planVars, motorVars, nrtVars, historyVars>>

RtStopClearTarget ==
  /\ pc = "stopTarget"
  /\ ClearTarget
  /\ pc' = "off"
  /\ UNCHANGED <<stop_requested, attempt, planVars, motorVars, nrtVars, historyVars>>

\* A cycle inside a segment advances it; the cycle that ends it goes on to pop.
RtTick ==
  /\ pc = "entry" /\ ~stop_requested /\ batch_seg.active
  /\ MotorsMove
  /\ cmd' \in Lerp(batch_seg)
  /\ batch_seg' = Ticked(batch_seg)
  /\ pc' = IF batch_seg'.active THEN "entry" ELSE "pop"
  /\ UNCHANGED <<serverVars, stop_requested, attempt, legacy_seg, last_legacy_target,
                 active_batch_commit_seq, last_batch_q1, policy_batch_mode,
                 nrtVars, historyVars>>

\* History: what a pop takes that is not the keyframe peeked before is lost.
Queued == {target_q_batch[i] : i \in 1..Len(target_q_batch)}
NoteLoss == lost' = lost \cup ((Queued \ Queued') \ {held})

\* The keyframe's segment is over: pop the front, whatever is there now.
RtPop ==
  /\ pc = "pop"
  /\ PopFront /\ NoteLoss
  /\ pc' = "entry"
  /\ UNCHANGED <<stop_requested, attempt, planVars, motorVars, nrtVars, held, begun>>

RtLook ==
  /\ pc = "entry" /\ ~stop_requested /\ ~batch_seg.active
  /\ MotorsMove
  /\ pc' = "seq"
  /\ UNCHANGED <<serverVars, stop_requested, attempt, planVars, cmd, nrtVars, historyVars>>

\* A batch other than the one last_batch_q1 came from starts from the arm's
\* actual position.
RtReadSeq ==
  /\ pc = "seq"
  /\ active_batch_commit_seq' = batch_commit_seq
  /\ last_batch_q1' = IF batch_commit_seq # active_batch_commit_seq THEN None ELSE last_batch_q1
  /\ attempt' = 0
  /\ pc' = "peek"
  /\ UNCHANGED <<serverVars, stop_requested, batch_seg, legacy_seg, last_legacy_target,
                 policy_batch_mode, motorVars, nrtVars, historyVars>>

\* Where the next segment begins: where the last one ended, or where the arm is.
Seed == IF last_batch_q1 # None THEN last_batch_q1 ELSE actual

\* The front keyframe is near enough: begin its segment and send its first
\* command, which is its start.
RtBegin ==
  /\ pc = "peek" /\ attempt < MaxSkips /\ target_q_batch # <<>>
  /\ LET front == Head(target_q_batch)
         seg   == StartSegment(Seed, front.goal, 2)
     IN  /\ ~Exceeds(Seed, front)
         /\ batch_seg' = Ticked(seg)
         /\ cmd' \in Lerp(seg)
         /\ last_batch_q1' = front.goal
         /\ held' = front /\ begun' = front
  /\ policy_batch_mode' = TRUE
  /\ pc' = IF batch_seg'.active THEN "entry" ELSE "pop"
  /\ UNCHANGED <<serverVars, stop_requested, attempt, legacy_seg, last_legacy_target,
                 active_batch_commit_seq, actual, nrtVars, lost>>

\* The front keyframe is too far away: skip it.
RtReject ==
  /\ pc = "peek" /\ attempt < MaxSkips /\ target_q_batch # <<>>
  /\ Exceeds(Seed, Head(target_q_batch))
  /\ held' = Head(target_q_batch)
  /\ pc' = "skip"
  /\ UNCHANGED <<serverVars, stop_requested, attempt, planVars, motorVars, nrtVars,
                 begun, lost>>

\* Mutant of RtSkip: the keyframe that is too far away stays at the front.
RtSkipKeeps ==
  /\ pc = "skip"
  /\ attempt' = attempt + 1
  /\ pc' = "peek"
  /\ UNCHANGED <<serverVars, stop_requested, planVars, motorVars, nrtVars, historyVars>>

RtSkip ==
  /\ pc = "skip"
  /\ PopFront /\ NoteLoss
  /\ attempt' = attempt + 1
  /\ pc' = "peek"
  /\ UNCHANGED <<stop_requested, planVars, motorVars, nrtVars, held, begun>>

\* Mutant of RtNoKeyframe: an empty queue always turns to the immediate target.
RtNoKeyframeFallsBack ==
  /\ pc = "peek" /\ (attempt = MaxSkips \/ target_q_batch = <<>>)
  /\ pc' = "target"
  /\ UNCHANGED <<serverVars, stop_requested, attempt, planVars, motorVars, nrtVars,
                 historyVars>>

\* No keyframe to begin in this cycle: hold the arm once keyframes have been
\* followed, else turn to the immediate target.
RtNoKeyframe ==
  /\ pc = "peek" /\ (attempt = MaxSkips \/ target_q_batch = <<>>)
  /\ pc' = IF policy_batch_mode THEN "entry" ELSE "target"
  /\ UNCHANGED <<serverVars, stop_requested, attempt, planVars, motorVars, nrtVars,
                 historyVars>>

\* One tick of the segment towards the immediate target.
LegacyTick(seg) ==
  /\ cmd' \in Lerp(seg)
  /\ legacy_seg' = Ticked(seg)
  /\ last_legacy_target' = IF legacy_seg'.active THEN last_legacy_target ELSE seg.q1

\* The immediate target: forget it when it is gone, finish the segment under
\* way, begin one when it changed, else repeat it.
RtTarget ==
  /\ pc = "target"
  /\ \/ /\ target_q = None
        /\ legacy_seg' = [legacy_seg EXCEPT !.active = FALSE]
        /\ last_legacy_target' = None
        /\ UNCHANGED cmd
     \/ /\ target_q # None /\ legacy_seg.active
        /\ LegacyTick(legacy_seg)
     \/ /\ target_q # None /\ ~legacy_seg.active /\ target_q # last_legacy_target
        /\ LegacyTick(StartSegment(actual, target_q, 1))
     \/ /\ target_q # None /\ ~legacy_seg.active /\ target_q = last_legacy_target
        /\ cmd' = target_q
        /\ UNCHANGED <<legacy_seg, last_legacy_target>>
  /\ pc' = "entry"
  /\ UNCHANGED <<serverVars, stop_requested, attempt, batch_seg, active_batch_commit_seq,
                 last_batch_q1, policy_batch_mode, actual, nrtVars, historyVars>>

-----------------------------------------------------------------------------
Client == ClientBatch \/ ClientTarget

Command == NrtPolicy \/ NrtStop
NrtStep == NrtStopClearBatch \/ NrtStopClearTarget

RtStep ==
  \/ RtStart \/ RtStop \/ RtStopClearBatch \/ RtStopClearTarget
  \/ RtTick \/ RtPop \/ RtLook \/ RtReadSeq
  \/ RtBegin \/ RtReject \/ RtSkip \/ RtNoKeyframe \/ RtTarget

Next == Client \/ Command \/ NrtStep \/ RtStep

Spec == Init /\ [][Next]_vars

\* The real-time thread is periodic and a command that has begun runs on; no
\* client and no operator is obliged to do anything.
FairSpec == Spec /\ WF_vars(RtStep) /\ WF_vars(NrtStep)
-----------------------------------------------------------------------------
(* Properties *)

TypeOK ==
  /\ target_q_batch \in Seq(Keyframe)
  /\ batch_commit_seq \in Nat
  /\ target_q \in Pos \cup {None}
  /\ stop_requested \in BOOLEAN
  /\ pc \in {"off", "entry", "stopBatch", "stopTarget", "pop", "seq", "peek",
             "skip", "target"}
  /\ attempt \in 0..MaxSkips
  /\ batch_seg \in Segment /\ legacy_seg \in Segment
  /\ last_legacy_target \in Int \cup {None}
  /\ active_batch_commit_seq \in Nat
  /\ last_batch_q1 \in Int \cup {None}
  /\ policy_batch_mode \in BOOLEAN
  /\ actual \in Int /\ cmd \in Int
  /\ nrt \in {"ready", "clearBatch", "clearTarget"}
  /\ waiting \in 0..MaxWaiting
  /\ held \in Keyframe \cup {NoKeyframe}
  /\ begun \in Keyframe \cup {NoKeyframe}
  /\ lost \in SUBSET Keyframe

\* The keyframe begun last has not been popped yet.
Executing == batch_seg.active \/ pc = "pop"

\* As long as nothing replaced or cleared the queue, the keyframe in execution
\* is the one at its front: "remaining" counts it, so GET_POLICY_STATUS cannot
\* report idle before the arm got there.
ExecutingIsFront ==
  Executing /\ begun.seq = batch_commit_seq =>
    target_q_batch # <<>> /\ Head(target_q_batch) = begun

\* The pops that follow a peek can take the wrong keyframe only when a new
\* batch came in between, and then only the first keyframe of that batch: all
\* the others are compared with the threshold, and begun or skipped.
LostOnlyFirst == \A keyframe \in lost : keyframe.row = 1

\* A segment begins at the position the arm was last commanded to, or at the
\* position it really has: last_batch_q1, kept across cycles and batches, is
\* never a position the command has moved away from.
NoJumpAtBegin == [][RtBegin => cmd' \in {cmd, actual}]_vars

\* Once a keyframe has been begun, the plan never goes back to target_q_: each
\* command lies on the segment of a keyframe.
NoFallback ==
  [][policy_batch_mode' /\ cmd' # cmd => cmd' \in Span(batch_seg'.q0, batch_seg'.q1)]_vars

\* The order in which the arm follows keyframes is the one RecedingHorizon asks
\* for: of the newest batch only, by row, never the same keyframe twice, also
\* across stops and restarts of the plan.
Horizon == INSTANCE RecedingHorizon
             WITH plan <- batch_commit_seq, followed <- begun.seq, row <- begun.row,
                  moving <- batch_seg.active

FollowsNewestPlan == Horizon!Spec

\* A stop request ends the running plan.
StopEndsPlan == nrt = "clearBatch" /\ pc # "off" ~> pc = "off"

\* A running plan works off the queue: "remaining" comes down to 0, which is
\* what wait_policy_idle polls for.
QueueDrains == pc # "off" /\ target_q_batch # <<>> ~> pc = "off" \/ target_q_batch = <<>>

(* The inductive invariant the proofs use: each part says what the other     *)
(* threads cannot disturb between two steps of the real-time thread.        *)

\* The queue is a run of consecutive rows of the newest commit.
QueueIsRun ==
  \A i \in 1..Len(target_q_batch) :
    /\ target_q_batch[i].seq = batch_commit_seq
    /\ target_q_batch[i].row = target_q_batch[1].row + i - 1

\* Where the real-time thread can be while a segment is active, and how far a
\* cycle may skip.
Phase ==
  /\ batch_seg.active => pc = "entry" /\ last_batch_q1 = batch_seg.q1
  /\ Executing => held = begun
  /\ last_batch_q1 # None => policy_batch_mode
  /\ pc = "target" => ~policy_batch_mode
  /\ pc = "skip" => attempt < MaxSkips

\* A keyframe that was peeked and not popped yet is at the front, unless its
\* commit is over; then no row of the newer one has been popped.
PeekedIsFront ==
  Executing \/ pc = "skip" =>
    /\ held.seq <= batch_commit_seq
    /\ held.seq = batch_commit_seq => target_q_batch # <<>> /\ target_q_batch[1] = held
    /\ held.seq # batch_commit_seq /\ target_q_batch # <<>> => target_q_batch[1].row = 1

\* What is left of the batch being followed comes after the keyframe begun last.
RestComesLater ==
  /\ begun.seq <= batch_commit_seq
  /\ begun.seq = batch_commit_seq /\ ~Executing /\ pc # "stopBatch" =>
       \A i \in 1..Len(target_q_batch) : begun.row < target_q_batch[i].row

\* Between segments the command stands where the last segment ended.
CommandAtLastGoal == last_batch_q1 # None /\ ~batch_seg.active => cmd = last_batch_q1

Inv ==
  /\ TypeOK /\ QueueIsRun /\ Phase /\ PeekedIsFront /\ RestComesLater
  /\ CommandAtLastGoal /\ LostOnlyFirst

(* What a comment of the code claims and TLC refutes. *)

\* a10_policy_tcp_plan.hpp:14: exceeding the threshold is the only way for a
\* keyframe to be dropped from the front of the queue.
NoKeyframeLost == lost = {}
=============================================================================
