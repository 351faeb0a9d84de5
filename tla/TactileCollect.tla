--------------------------- MODULE TactileCollect ---------------------------
(***************************************************************************)
(* The plan m_tdc (TactileCollectReal, tactile_collect_real.cpp): it moves  *)
(* one arm to a series of sample poses, has a collector on another computer *)
(* save tactile frames at each, writes a row of the CSV file and goes back  *)
(* to the baseline pose before the next sample.                             *)
(*                                                                          *)
(* One action below is one call of executeRT in one stage.  The arm, the    *)
(* force sensor and the collector answer as they like: a pose read is at    *)
(* the target, near it (within the tolerance of the soft acceptance) or     *)
(* away; a force is 0 none, 1 light, 2 enough to hold, 3 dangerous (and 0   *)
(* when the sensor cannot be read).  The offsets of preapproach and contact *)
(* are zero in the code: both have the target of the sample.                *)
(***************************************************************************)
EXTENDS Integers, Sequences

CONSTANTS
  Samples,          \* the number of samples
  RotSamples,       \* those that turn the arm
  BaselineCount,    \* baseline_sample_count
  HardMax,          \* hard_max_stage_wait_count
  NoProgress,       \* no_progress_limit_count
  SettleCount,      \* settle_count
  RotHold,          \* rot_post_retreat_stabilize_count
  AckTimeout,       \* tcp_collect_timeout_count
  MaxCloses,        \* bound: connections the collector closes
  MaxSlips          \* bound: failed baseline readings, and baselines lost again

ASSUME CollectAssumption ==
  /\ {Samples, BaselineCount, HardMax, NoProgress, SettleCount, RotHold} \subseteq Nat \ {0}
  /\ AckTimeout \in Nat \ {0, 1}
  /\ RotSamples \subseteq 0..(Samples - 1)
  /\ {MaxCloses, MaxSlips} \subseteq Nat

VARIABLES
  result,                   \* "running"; "zero" or "error" is what executeRT returned last
  stage, baseline_count, sample_index,
  stage_wait_count, no_progress_count,    \* the wait monitor
  settle_counter, rot_counter,
  current_target,           \* a sample, Hold or Baseline
  current_contact_flag,
  pose,                     \* the last pose read: "at", "near" or "away" from the target
  held,                     \* history: how many readings in a row were at the baseline
  total_record_count,
  row,                      \* history: the last row of the CSV file
  connected, request_active, request_wait, active_sample,
  rx,                       \* lines received and not read
  torn,                     \* the last line sent is incomplete
  requests,                 \* lines the collector has not read
  saving,                   \* what the collector is saving
  peer_open, closes, slips

counters == <<stage_wait_count, no_progress_count>>
arm == <<current_target, pose, held>>
rows == <<total_record_count, row>>
request == <<request_active, request_wait, active_sample>>
link == <<connected, rx, torn, requests, saving, peer_open>>
tcp == <<request, link>>
bounds == <<closes, slips>>
vars == <<result, stage, baseline_count, sample_index, counters, settle_counter, rot_counter,
          arm, current_contact_flag, rows, tcp, bounds>>

Hold == -1
Baseline == -2
NoSaving == [sample |-> -1, record |-> -1, posed |-> FALSE]
NoRow == [sample |-> -1, ok |-> FALSE, posed |-> FALSE]
Forces == 0..3
Most(a, b) == IF a < b THEN b ELSE a

\* prepareNrt has connected to the collector.
Init ==
  /\ result = "running" /\ stage = "INIT" /\ baseline_count = 0 /\ sample_index = 0
  /\ stage_wait_count = 0 /\ no_progress_count = 0 /\ settle_counter = 0 /\ rot_counter = 0
  /\ current_target = Baseline /\ pose = "at" /\ held = 0 /\ current_contact_flag = 0
  /\ total_record_count = 0 /\ row = NoRow
  /\ connected = TRUE /\ request_active = FALSE /\ request_wait = 0 /\ active_sample = -1
  /\ rx = <<>> /\ torn = FALSE /\ requests = <<>> /\ saving = NoSaving /\ peer_open = TRUE
  /\ closes = 0 /\ slips = 0

-----------------------------------------------------------------------------
(* What the stages have in common. *)

\* return max_total_count - count(): 0, the end of the plan, when the count is
\* reached, which may be in any cycle.
Continue == result' \in {"running", "zero"}

ResetWait == stage_wait_count' = 0 /\ no_progress_count' = 0

\* Mutant of Enter: the wait monitor is not reset.
EnterWaiting(s) == stage' = s /\ UNCHANGED counters

Enter(s) == stage' = s /\ ResetWait

\* updateWaitMonitor: a stage is given up after too many cycles, or too many
\* without progress.  What is measured first is better than nothing.
Improved == IF stage_wait_count = 0 THEN {TRUE} ELSE BOOLEAN
Stuck(improved) == IF improved THEN 0 ELSE no_progress_count + 1

GivesUp(improved) == stage_wait_count + 1 >= HardMax \/ Stuck(improved) >= NoProgress

Waits(improved) ==
  /\ ~GivesUp(improved)
  /\ stage_wait_count' = stage_wait_count + 1 /\ no_progress_count' = Stuck(improved)
  /\ UNCHANGED stage

\* Wait on, or go to s.
StillAway(s) == \E i \in Improved : Waits(i) \/ (GivesUp(i) /\ Enter(s))

\* The target is computed in the first cycle of a stage.
Aim(target) ==
  current_target' = IF stage_wait_count = 0 THEN target ELSE current_target

ReadPose ==
  /\ pose' \in {"at", "near", "away"}
  /\ held' = IF current_target' = Baseline /\ pose' = "at"
               THEN IF held < RotHold THEN held + 1 ELSE RotHold
               ELSE 0

ReadForce(f) == current_contact_flag' = Most(current_contact_flag, f)

\* Frames are taken at the pose of sample s.
AtSample(s) == stage = "COLLECT" /\ sample_index = s /\ current_target \in {s, Hold}

\* writeOneRecord; what it says of the frames of a sample and what is true of them
Write(ok, posed) ==
  /\ total_record_count' = total_record_count + 1
  /\ row' = [sample |-> sample_index, ok |-> ok, posed |-> posed]

Collecting == UNCHANGED <<baseline_count, sample_index, rot_counter, bounds>>
Moving == Collecting /\ UNCHANGED <<settle_counter, tcp>>

gotoNextSample ==
  /\ sample_index' = sample_index + 1
  /\ Enter(IF sample_index + 1 >= Samples THEN "FINISH" ELSE "PREAPPROACH")
  /\ settle_counter' = 0 /\ rot_counter' = 0 /\ current_contact_flag' = 0
  /\ request_active' = FALSE /\ request_wait' = 0 /\ active_sample' = -1
  /\ UNCHANGED <<baseline_count, rows, link>>

-----------------------------------------------------------------------------
(* The stages: baseline, approach, settling. *)

\* One reading of the force sensor, which may fail.
InitBaseline ==
  /\ stage = "INIT"
  /\ \/ /\ slips < MaxSlips /\ slips' = slips + 1
        /\ UNCHANGED <<stage, baseline_count, counters>>
     \/ /\ baseline_count' = baseline_count + 1
        /\ IF baseline_count' >= BaselineCount
             THEN Enter("PREAPPROACH") ELSE UNCHANGED <<stage, counters>>
        /\ UNCHANGED slips
  /\ Continue
  /\ UNCHANGED <<sample_index, settle_counter, rot_counter, arm, current_contact_flag, rows, tcp,
                 closes>>

\* saMoveSmooth fails: the sample is given up without a row.
ApproachFails ==
  /\ stage \in {"PREAPPROACH", "CONTACT"}
  /\ Aim(sample_index)
  /\ Enter("RETREAT")
  /\ Continue
  /\ Moving /\ UNCHANGED <<pose, held, current_contact_flag, rows>>

\* recordDangerAndRetreat, in each stage before the frames are asked for
Danger ==
  /\ stage \in {"PREAPPROACH", "CONTACT", "SETTLE"}
  /\ IF stage = "SETTLE" THEN UNCHANGED current_target ELSE Aim(sample_index)
  /\ ReadPose /\ ReadForce(3)
  /\ Write(FALSE, FALSE)
  /\ Enter("RETREAT")
  /\ Continue
  /\ Moving

MoveToPreapproach ==
  /\ stage = "PREAPPROACH"
  /\ Aim(sample_index)
  /\ ReadPose /\ \E f \in 0..2 : ReadForce(f)
  /\ IF pose' = "at" THEN Enter("CONTACT") ELSE StillAway("RETREAT")
  /\ Continue
  /\ Moving /\ UNCHANGED rows

\* holdCurrentPoseAndCollect: the pose reached becomes the target.
HoldContact ==
  /\ stage = "CONTACT"
  /\ current_target' = Hold /\ pose' = "at" /\ held' = 0
  /\ ReadForce(2)
  /\ Enter("SETTLE") /\ settle_counter' = 0
  /\ Continue
  /\ Collecting /\ UNCHANGED <<rows, tcp>>

MoveToContact ==
  /\ stage = "CONTACT"
  /\ Aim(sample_index)
  /\ ReadPose /\ \E f \in 0..1 : ReadForce(f)
  /\ IF pose' = "at"
       THEN Enter("SETTLE") /\ settle_counter' = 0
       ELSE StillAway("RETREAT") /\ UNCHANGED settle_counter
  /\ Continue
  /\ Collecting /\ UNCHANGED <<rows, tcp>>

Settle ==
  /\ stage = "SETTLE"
  /\ UNCHANGED current_target
  /\ ReadPose /\ \E f \in 0..2 : ReadForce(f)
  /\ settle_counter' = settle_counter + 1
  /\ IF settle_counter' >= SettleCount
       THEN /\ stage' = "COLLECT"
            /\ request_active' = FALSE /\ request_wait' = 0 /\ active_sample' = -1
       ELSE UNCHANGED <<stage, request>>
  /\ Continue
  /\ Collecting /\ UNCHANGED <<counters, rows, link>>

-----------------------------------------------------------------------------
(* Stage COLLECT: a request to the collector, and its acknowledgement.  The  *)
(* sample pose is commanded and the force read in every cycle; no force is   *)
(* too large here.                                                           *)

\* closeTcp; lines on the way are lost.
Close ==
  /\ connected' = FALSE /\ rx' = <<>> /\ torn' = FALSE
  /\ requests' = <<>> /\ saving' = NoSaving /\ peer_open' = FALSE

\* connectTcp
Connect ==
  /\ connected' = TRUE /\ rx' = <<>> /\ saving' = NoSaving /\ peer_open' = TRUE

CollectCycle ==
  /\ stage = "COLLECT"
  /\ UNCHANGED current_target
  /\ ReadPose /\ \E f \in Forces : ReadForce(f)
  /\ Continue
  /\ Collecting /\ UNCHANGED settle_counter

\* The row is written and the sample left.
Leave(ok, posed) ==
  /\ Write(ok, posed)
  /\ Enter("RETREAT")

\* saMoveSmooth fails.
CollectHoldFails ==
  /\ CollectCycle
  /\ Leave(FALSE, FALSE)
  /\ request_active' = FALSE /\ request_wait' = 0
  /\ UNCHANGED <<active_sample, link>>

Line(garbled) == [sample |-> sample_index, record |-> total_record_count, garbled |-> garbled]

\* drainTcpLines, then sendTcpLine, over a new connection if there is none.
\* The wait for the answer begins in the same cycle.
CollectSend ==
  /\ CollectCycle /\ ~request_active
  /\ IF connected /\ peer_open
       THEN /\ requests' = Append(requests, Line(torn))
            /\ rx' = <<>> /\ torn' = FALSE
            /\ UNCHANGED <<connected, saving, peer_open>>
       ELSE /\ requests' = <<Line(FALSE)>>
            /\ Connect /\ torn' = FALSE
  /\ request_active' = TRUE /\ request_wait' = 1 /\ active_sample' = sample_index
  /\ UNCHANGED <<stage, counters, rows>>

\* No connection is to be had, it breaks, or it takes no more: then the line
\* may have been sent in part.
CollectSendFails ==
  /\ CollectCycle /\ ~request_active
  /\ Leave(FALSE, FALSE)
  /\ \/ Close
     \/ /\ connected /\ peer_open
        /\ torn' \in {torn, TRUE} /\ rx' = <<>>
        /\ UNCHANGED <<connected, requests, saving, peer_open>>
     \/ /\ ~(connected /\ peer_open)
        /\ Connect /\ requests' = <<>> /\ torn' \in BOOLEAN
  /\ request_active' = FALSE
  /\ UNCHANGED <<request_wait, active_sample>>

\* Mutant of AckComes: an acknowledgement of any sample will do.
AckOfAny ==
  /\ CollectCycle /\ request_active /\ rx # <<>>
  /\ rx' = Tail(rx)
  /\ Leave(Head(rx).ok, Head(rx).posed /\ Head(rx).sample = sample_index
                        /\ Head(rx).record = total_record_count)
  /\ request_active' = FALSE /\ request_wait' = 0
  /\ UNCHANGED <<active_sample, connected, torn, requests, saving, peer_open>>

\* Mutant of AckComes: a sample that was refused is asked for again.
AckRetried ==
  /\ CollectCycle /\ request_active /\ rx # <<>>
  /\ rx' = Tail(rx)
  /\ IF Head(rx).sample = active_sample
       THEN /\ IF Head(rx).ok THEN Leave(TRUE, Head(rx).posed)
                              ELSE Write(FALSE, FALSE) /\ UNCHANGED <<stage, counters>>
            /\ request_active' = FALSE /\ request_wait' = 0
       ELSE UNCHANGED <<stage, counters, rows, request_active, request_wait>>
  /\ UNCHANGED <<active_sample, connected, torn, requests, saving, peer_open>>

\* pollTcpLine finds a line: it is ignored unless it is of the sample asked for.
AckComes ==
  /\ CollectCycle /\ request_active /\ rx # <<>>
  /\ rx' = Tail(rx)
  /\ IF Head(rx).sample = active_sample
       THEN /\ Leave(Head(rx).ok, Head(rx).posed /\ Head(rx).record = total_record_count)
            /\ request_active' = FALSE /\ request_wait' = 0
       ELSE UNCHANGED <<stage, counters, rows, request_active, request_wait>>
  /\ UNCHANGED <<active_sample, connected, torn, requests, saving, peer_open>>

\* Mutant of AckMissing: the wait has no end.
AckMissingForever ==
  /\ CollectCycle /\ request_active /\ rx = <<>>
  /\ IF peer_open THEN UNCHANGED link /\ UNCHANGED request_active
                  ELSE Close /\ request_active' = FALSE
  /\ UNCHANGED <<request_wait, active_sample, stage, counters, rows>>

\* It finds none, or the connection closed: then the request is sent anew in
\* the next cycle.
AckMissing ==
  /\ CollectCycle /\ request_active /\ rx = <<>>
  /\ IF peer_open THEN UNCHANGED link ELSE Close
  /\ IF request_wait + 1 >= AckTimeout
       THEN Leave(FALSE, FALSE) /\ request_active' = FALSE /\ request_wait' = 0
       ELSE /\ request_wait' = request_wait + 1 /\ request_active' = peer_open
            /\ UNCHANGED <<stage, counters, rows>>
  /\ UNCHANGED active_sample

-----------------------------------------------------------------------------
(* The way back to the baseline. *)

Returning == UNCHANGED <<baseline_count, closes>>
SameSample == UNCHANGED <<sample_index, settle_counter, current_contact_flag, rows, tcp>>

\* At the baseline: a turned arm stays there for a while.
BaselineReached ==
  IF sample_index \in RotSamples
    THEN Enter("ROT_STABILIZE") /\ rot_counter' = 0 /\ SameSample
    ELSE gotoNextSample

Retreat ==
  /\ stage = "RETREAT"
  /\ Aim(Baseline) /\ ReadPose
  /\ IF pose' = "at" THEN BaselineReached
                     ELSE StillAway("RECOVER") /\ SameSample /\ UNCHANGED rot_counter
  /\ Continue
  /\ Returning /\ UNCHANGED slips

ReturnFails ==
  /\ stage \in {"RETREAT", "ROT_STABILIZE"}
  /\ IF stage = "RETREAT" THEN Aim(Baseline) ELSE current_target' = Baseline
  /\ Enter("RECOVER")
  /\ Continue
  /\ slips' = IF stage = "RETREAT" THEN slips ELSE slips + 1
  /\ slips' <= MaxSlips
  /\ Returning /\ SameSample /\ UNCHANGED <<pose, held, rot_counter>>

\* Mutant of RotStabilize: the count goes on after the baseline was lost.
RotStabilizeOnAndOff ==
  /\ stage = "ROT_STABILIZE"
  /\ current_target' = Baseline /\ ReadPose
  /\ IF pose' = "at"
       THEN /\ IF rot_counter + 1 >= RotHold
                 THEN gotoNextSample
                 ELSE rot_counter' = rot_counter + 1 /\ SameSample /\ UNCHANGED <<stage, counters>>
            /\ UNCHANGED slips
       ELSE /\ slips < MaxSlips /\ slips' = slips + 1
            /\ UNCHANGED rot_counter /\ StillAway("RECOVER") /\ SameSample
  /\ Continue
  /\ Returning

RotStabilize ==
  /\ stage = "ROT_STABILIZE"
  /\ current_target' = Baseline /\ ReadPose
  /\ IF pose' = "at"
       THEN /\ IF rot_counter + 1 >= RotHold
                 THEN gotoNextSample
                 ELSE rot_counter' = rot_counter + 1 /\ SameSample /\ UNCHANGED <<stage, counters>>
            /\ UNCHANGED slips
       ELSE /\ slips < MaxSlips /\ slips' = slips + 1
            /\ rot_counter' = 0 /\ StillAway("RECOVER") /\ SameSample
  /\ Continue
  /\ Returning

\* Given up, a pose near the baseline is taken for it (soft acceptance), and any
\* other ends the plan.
Recover ==
  /\ stage = "RECOVER"
  /\ Aim(Baseline) /\ ReadPose
  /\ IF pose' = "at"
       THEN BaselineReached /\ Continue
       ELSE \E i \in Improved :
              \/ Waits(i) /\ SameSample /\ UNCHANGED rot_counter /\ Continue
              \/ GivesUp(i) /\ pose' = "near" /\ gotoNextSample /\ Continue
              \/ /\ GivesUp(i) /\ pose' = "away" /\ result' = "error"
                 /\ SameSample /\ UNCHANGED <<stage, counters, rot_counter>>
  /\ Returning /\ UNCHANGED slips

RecoverFails ==
  /\ stage = "RECOVER"
  /\ Aim(Baseline)
  /\ result' = "error"
  /\ Returning /\ SameSample /\ UNCHANGED <<stage, counters, rot_counter, pose, held, slips>>

Finish ==
  /\ stage = "FINISH"
  /\ result' = "zero"
  /\ Returning /\ SameSample
  /\ UNCHANGED <<stage, counters, rot_counter, arm, slips>>

-----------------------------------------------------------------------------
(* The collector: a program on another computer, not part of the repository. *)
(* It serves the requests of a connection in order, and may close it.        *)

collectorOnly ==
  UNCHANGED <<result, stage, baseline_count, sample_index, counters, settle_counter, rot_counter,
              arm, current_contact_flag, rows, request, connected, torn, slips>>

\* It begins to save frames, or drops a line it cannot parse, or answers that.
CollectorReads ==
  /\ peer_open /\ requests # <<>> /\ saving = NoSaving
  /\ requests' = Tail(requests)
  /\ LET line == Head(requests)
     IN  IF line.garbled
           THEN /\ rx' \in {rx, Append(rx, [sample |-> -1, record |-> -1, ok |-> FALSE, posed |-> FALSE])}
                /\ UNCHANGED saving
           ELSE /\ saving' = [sample |-> line.sample, record |-> line.record,
                              posed |-> AtSample(line.sample)]
                /\ UNCHANGED rx
  /\ UNCHANGED <<peer_open, closes>> /\ collectorOnly

\* posed: the arm was at the sample from the first frame to the last
CollectorAnswers ==
  /\ peer_open /\ saving # NoSaving
  /\ \E ok \in BOOLEAN :
       rx' = Append(rx, [sample |-> saving.sample, record |-> saving.record, ok |-> ok,
                         posed |-> saving.posed /\ AtSample(saving.sample)])
  /\ saving' = NoSaving
  /\ UNCHANGED <<requests, peer_open, closes>> /\ collectorOnly

CollectorCloses ==
  /\ peer_open /\ closes < MaxCloses
  /\ peer_open' = FALSE /\ requests' = <<>> /\ saving' = NoSaving /\ closes' = closes + 1
  /\ UNCHANGED rx /\ collectorOnly

-----------------------------------------------------------------------------
Approach == ApproachFails \/ Danger \/ MoveToPreapproach \/ HoldContact \/ MoveToContact \/ Settle
Collect == CollectHoldFails \/ CollectSend \/ CollectSendFails \/ AckComes \/ AckMissing
GoBack == Retreat \/ ReturnFails \/ RotStabilize \/ Recover \/ RecoverFails
executeRT == result = "running" /\ (InitBaseline \/ Approach \/ Collect \/ GoBack \/ Finish)
Collector == result = "running" /\ (CollectorReads \/ CollectorAnswers \/ CollectorCloses)

Next == executeRT \/ Collector
Spec == Init /\ [][Next]_vars

\* executeRT is called in every cycle of the real-time thread.
FairSpec == Spec /\ WF_vars(executeRT)
-----------------------------------------------------------------------------
(* Properties *)

TypeOK ==
  /\ result \in {"running", "zero", "error"}
  /\ stage \in {"INIT", "PREAPPROACH", "CONTACT", "SETTLE", "COLLECT", "RETREAT",
                "ROT_STABILIZE", "RECOVER", "FINISH"}
  /\ sample_index \in 0..Samples
  /\ stage_wait_count \in 0..(HardMax - 1) /\ no_progress_count \in 0..(NoProgress - 1)
  /\ settle_counter \in 0..SettleCount /\ rot_counter \in 0..(RotHold - 1)
  /\ current_target \in 0..(Samples - 1) \cup {Hold, Baseline}
  /\ request_wait \in 0..(AckTimeout - 1)
  /\ request_active => connected /\ stage = "COLLECT" /\ active_sample = sample_index

\* The file is a data set: its rows belong to different samples, in order, though
\* requests are repeated, answers come late and samples are given up anywhere.
OneRowPerSample ==
  [][total_record_count' # total_record_count => row'.sample > row.sample]_vars

\* A row marked good belongs to frames of its own sample, saved under its own
\* record number while the arm stood at that sample's pose.
GoodRowsHaveFrames == row.ok => row.posed

\* "The program must never continue to the next sample from an unverified baseline"
\* (tactile_collect_real.cpp:1823): the arm was read to be there, to the tolerance
\* of the soft acceptance, and the target was the baseline.
NextFromBaseline ==
  [][sample_index' # sample_index => current_target' = Baseline /\ pose' # "away"]_vars

\* After a turned sample the arm has been at the baseline for RotHold readings
\* running, however often it was lost, unless it was accepted softly.
StabilizedOrSoft ==
  [][sample_index' # sample_index /\ sample_index \in RotSamples
       => held' >= RotHold \/ stage = "RECOVER"]_vars

\* The plan ends, though the collector may never answer.
Ends == <>(result # "running")

(* What a comment of the code claims and TLC refutes. *)

\* tactile_collect_real.cpp:686: a dangerous force makes the arm retreat.
DangerRetreats ==
  current_contact_flag = 3 => stage \notin {"PREAPPROACH", "CONTACT", "SETTLE", "COLLECT"}
=============================================================================
