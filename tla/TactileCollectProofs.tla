------------------------ MODULE TactileCollectProofs ------------------------
(***************************************************************************)
(* What holds of m_tdc for any number of samples and any limits, whatever   *)
(* the arm, the force sensor and the collector do: the file is in the order *)
(* of the samples, a good row has frames of its own sample, and the next    *)
(* sample begins at the baseline.                                           *)
(***************************************************************************)
EXTENDS TactileCollect, TLAPS

Lines == [sample : 0..(Samples - 1), record : Nat, garbled : BOOLEAN]
Answers == [sample : (0..(Samples - 1)) \cup {-1}, record : Int, ok : BOOLEAN, posed : BOOLEAN]
Savings == {NoSaving} \cup [sample : 0..(Samples - 1), record : Nat, posed : BOOLEAN]

\* Types, and that FINISH comes after the last sample.
Counted ==
  /\ result \in {"running", "zero", "error"}
  /\ stage \in {"INIT", "PREAPPROACH", "CONTACT", "SETTLE", "COLLECT", "RETREAT", "ROT_STABILIZE", "RECOVER", "FINISH"}
  /\ sample_index \in 0..Samples /\ (stage # "FINISH" => sample_index < Samples)
  /\ stage_wait_count \in 0..(HardMax - 1) /\ no_progress_count \in 0..(NoProgress - 1)
  /\ settle_counter \in 0..SettleCount /\ (stage = "SETTLE" => settle_counter < SettleCount)
  /\ rot_counter \in 0..(RotHold - 1) /\ held \in 0..RotHold
  /\ current_target \in (0..(Samples - 1)) \cup {Hold, Baseline}
  /\ request_wait \in 0..(AckTimeout - 1) /\ total_record_count \in Nat

Stored ==
  /\ row.sample \in Int /\ torn \in BOOLEAN
  /\ requests \in Seq(Lines) /\ rx \in Seq(Answers) /\ saving \in Savings

\* A request is under way in COLLECT only, on a connection, for the present sample.
Asked ==
  /\ request_active \in BOOLEAN /\ connected \in BOOLEAN /\ peer_open \in BOOLEAN
  /\ request_active => connected /\ stage = "COLLECT" /\ active_sample = sample_index

\* The target computed in the first cycle of a stage is the one of the later cycles.
Targets ==
  /\ stage \in {"PREAPPROACH", "CONTACT"} /\ stage_wait_count # 0 => current_target = sample_index
  /\ stage \in {"RETREAT", "RECOVER"} /\ stage_wait_count # 0 => current_target = Baseline
  /\ stage \in {"SETTLE", "COLLECT"} => current_target \in {sample_index, Hold}

Way == {"INIT", "PREAPPROACH", "CONTACT", "SETTLE"}
Back == {"RETREAT", "ROT_STABILIZE", "RECOVER"}

\* The row of a sample is written when it is left.
RowsBehind == row.sample < sample_index \/ (stage \in Back /\ row.sample = sample_index)

\* The count of the stabilization is one of readings at the baseline.
Steady == stage = "ROT_STABILIZE" => rot_counter <= held

\* What a line, the frames being saved and an answer of the present sample say:
\* they are of the one time it is collected.
OfSample(s, record) ==
  s <= sample_index /\ (s = sample_index => stage \notin Way /\ (stage = "COLLECT" => record = total_record_count))
Posed(s, posed) == s = sample_index /\ stage = "COLLECT" => posed

\* The same of the state after a step.
OfSampleAfter(s, record) ==
  s <= sample_index' /\ (s = sample_index' => stage' \notin Way /\ (stage' = "COLLECT" => record = total_record_count'))
PosedAfter(s, posed) == s = sample_index' /\ stage' = "COLLECT" => posed

Frames ==
  /\ \A i \in 1..Len(requests) : OfSample(requests[i].sample, requests[i].record)
  /\ OfSample(saving.sample, saving.record) /\ Posed(saving.sample, saving.posed)
  /\ \A i \in 1..Len(rx) : OfSample(rx[i].sample, rx[i].record) /\ Posed(rx[i].sample, rx[i].posed)

CInv ==
  /\ Counted /\ Stored /\ Asked
  /\ Targets /\ RowsBehind /\ Steady /\ Frames /\ GoodRowsHaveFrames
-----------------------------------------------------------------------------
LEMMA Limits ==
  /\ Samples \in Nat \ {0} /\ BaselineCount \in Nat \ {0} /\ HardMax \in Nat \ {0} /\ NoProgress \in Nat \ {0}
  /\ SettleCount \in Nat \ {0} /\ RotHold \in Nat \ {0} /\ AckTimeout \in Nat \ {0, 1}
BY CollectAssumption

LEMMA InitCInv == Init => CInv
<1> SUFFICES ASSUME Init PROVE CInv
  OBVIOUS
<1>1. Counted
  BY Limits DEF Init, Counted
<1>2. Stored
  <2>1. torn \in BOOLEAN
    BY DEF Init
  <2>2. row.sample \in Int /\ requests \in Seq(Lines) /\ rx \in Seq(Answers) /\ saving \in Savings
    BY DEF Init, NoRow, Savings
  <2> QED BY <2>1, <2>2 DEF Stored
<1>3. Asked
  BY DEF Init, Asked
<1>4. Targets /\ RowsBehind /\ Steady /\ GoodRowsHaveFrames
  BY DEF Init, Targets, RowsBehind, NoRow, Steady, GoodRowsHaveFrames
<1>5. Frames
  BY DEF Init, Frames, OfSample, Posed, NoSaving
<1> QED BY <1>1, <1>2, <1>3, <1>4, <1>5 DEF CInv

-----------------------------------------------------------------------------
(* Types *)

LEMMA WaitsType ==
  ASSUME Counted, NEW s, StillAway(s) \/ (\E i \in Improved : Waits(i))
  PROVE  /\ stage' \in {stage, s}
         /\ stage_wait_count' \in 0..(HardMax - 1) /\ no_progress_count' \in 0..(NoProgress - 1)
         /\ stage' = stage \/ stage_wait_count' = 0
<1>1. PICK i \in BOOLEAN : Waits(i) \/ Enter(s)
  BY DEF StillAway, Improved
<1> QED BY <1>1, Limits DEF Waits, GivesUp, Stuck, Enter, ResetWait, Counted

LEMMA EnterType ==
  ASSUME NEW s, Enter(s)
  PROVE  /\ stage' = s
         /\ stage_wait_count' \in 0..(HardMax - 1) /\ no_progress_count' \in 0..(NoProgress - 1)
BY Limits DEF Enter, ResetWait

LEMMA ReadingType == ASSUME Counted, ReadPose PROVE held' \in 0..RotHold /\ pose' \in {"at", "near", "away"}
BY Limits DEF ReadPose, Counted

LEMMA AimType ==
  ASSUME Counted, NEW target \in (0..(Samples - 1)) \cup {Hold, Baseline}, Aim(target)
  PROVE  current_target' \in (0..(Samples - 1)) \cup {Hold, Baseline}
BY DEF Aim, Counted

\* The real-time thread before it asks for frames.
LEMMA CountedApproach == Counted /\ (InitBaseline \/ Approach) => Counted'
<1> SUFFICES ASSUME Counted, InitBaseline \/ Approach PROVE Counted'
  OBVIOUS
<1>0. stage \in Way
  BY DEF Way, InitBaseline, Approach, ApproachFails, Danger, MoveToPreapproach, HoldContact, MoveToContact, Settle
<1>1. sample_index \in 0..(Samples - 1)
  BY <1>0, Limits DEF Counted, Way
<1>2. result' \in {"running", "zero"} /\ UNCHANGED <<sample_index, rot_counter>>
  BY DEF InitBaseline, Approach, ApproachFails, Danger, MoveToPreapproach, HoldContact, MoveToContact, Settle,
         Continue, Moving, Collecting
<1>3. request_wait' \in {request_wait, 0}
  BY DEF InitBaseline, Approach, ApproachFails, Danger, MoveToPreapproach, HoldContact, MoveToContact, Settle,
         Moving, tcp, request
<1>4. total_record_count' \in {total_record_count, total_record_count + 1}
  BY DEF InitBaseline, Approach, ApproachFails, Danger, MoveToPreapproach, HoldContact, MoveToContact, Settle,
         rows, Write
<1>5. CASE InitBaseline
  <2>1. UNCHANGED <<settle_counter, current_target, held>>
    BY <1>5 DEF InitBaseline, arm
  <2>2. Enter("PREAPPROACH") \/ UNCHANGED <<stage, stage_wait_count, no_progress_count>>
    BY <1>5 DEF InitBaseline, counters
  <2> QED BY <1>1, <1>2, <1>3, <1>4, <1>5, <2>1, <2>2, EnterType, Limits DEF InitBaseline, Counted
<1>6. CASE ApproachFails \/ Danger
  <2>1. current_target' \in (0..(Samples - 1)) \cup {Hold, Baseline}
    BY <1>1, <1>6, AimType DEF ApproachFails, Danger, Counted
  <2>2. held' \in 0..RotHold
    BY <1>6, ReadingType DEF ApproachFails, Danger, Counted
  <2>3. UNCHANGED settle_counter /\ Enter("RETREAT")
    BY <1>6 DEF ApproachFails, Danger, Moving
  <2> QED BY <1>1, <1>2, <1>3, <1>4, <2>1, <2>2, <2>3, EnterType, Limits DEF Counted
<1>7. CASE MoveToPreapproach
  <2>1. current_target' \in (0..(Samples - 1)) \cup {Hold, Baseline} /\ held' \in 0..RotHold
    BY <1>1, <1>7, AimType, ReadingType DEF MoveToPreapproach
  <2>2. UNCHANGED settle_counter /\ stage = "PREAPPROACH" /\ (Enter("CONTACT") \/ StillAway("RETREAT"))
    BY <1>7 DEF MoveToPreapproach, Moving
  <2>3. /\ stage' \in {"PREAPPROACH", "CONTACT", "RETREAT"}
        /\ stage_wait_count' \in 0..(HardMax - 1) /\ no_progress_count' \in 0..(NoProgress - 1)
    BY <2>2, EnterType, WaitsType
  <2> QED BY <1>1, <1>2, <1>3, <1>4, <2>1, <2>2, <2>3, Limits DEF Counted
<1>8. CASE HoldContact \/ MoveToContact
  <2>1. current_target' \in (0..(Samples - 1)) \cup {Hold, Baseline} /\ held' \in 0..RotHold
    BY <1>1, <1>8, AimType, ReadingType, Limits DEF HoldContact, MoveToContact
  <2>2. stage = "CONTACT" /\ ((Enter("SETTLE") /\ settle_counter' = 0) \/ (StillAway("RETREAT") /\ UNCHANGED settle_counter))
    BY <1>8 DEF HoldContact, MoveToContact
  <2>3. /\ stage' \in {"CONTACT", "SETTLE", "RETREAT"}
        /\ stage_wait_count' \in 0..(HardMax - 1) /\ no_progress_count' \in 0..(NoProgress - 1)
        /\ settle_counter' \in 0..SettleCount /\ (stage' = "SETTLE" => settle_counter' < SettleCount)
    <3>1. CASE Enter("SETTLE") /\ settle_counter' = 0
      BY <3>1, EnterType, Limits
    <3>2. CASE StillAway("RETREAT") /\ UNCHANGED settle_counter
      BY <2>2, <3>2, WaitsType DEF Counted
    <3> QED BY <2>2, <3>1, <3>2
  <2> QED BY <1>1, <1>2, <1>3, <1>4, <2>1, <2>3, Limits DEF Counted
<1>9. CASE Settle
  <2>1. UNCHANGED <<current_target, stage_wait_count, no_progress_count>> /\ held' \in 0..RotHold /\ stage = "SETTLE"
    BY <1>9, ReadingType DEF Settle, counters
  <2>2. settle_counter' = settle_counter + 1
        /\ ((settle_counter' >= SettleCount /\ stage' = "COLLECT") \/ (settle_counter' < SettleCount /\ stage' = stage))
    BY <1>9, Limits DEF Settle, Counted
  <2> QED BY <1>1, <1>2, <1>3, <1>4, <2>1, <2>2, Limits DEF Counted
<1> QED BY <1>5, <1>6, <1>7, <1>8, <1>9 DEF Approach

LEMMA CountedCollect == Counted /\ Collect => Counted'
<1> SUFFICES ASSUME Counted, Collect PROVE Counted'
  OBVIOUS
<1>1. CollectCycle /\ stage = "COLLECT"
  BY DEF Collect, CollectHoldFails, CollectSend, CollectSendFails, AckComes, AckMissing, CollectCycle
<1>2. /\ result' \in {"running", "zero"} /\ UNCHANGED <<sample_index, rot_counter, settle_counter, current_target>>
      /\ held' \in 0..RotHold
  BY <1>1, ReadingType DEF CollectCycle, Continue, Collecting
<1>3. /\ Enter("RETREAT") \/ UNCHANGED <<stage, stage_wait_count, no_progress_count>>
      /\ total_record_count' \in {total_record_count, total_record_count + 1}
  BY DEF Collect, CollectHoldFails, CollectSend, CollectSendFails, AckComes, AckMissing, Leave, Write, counters, rows
<1>4. request_wait' \in 0..(AckTimeout - 1)
  <2>1. CASE CollectHoldFails \/ CollectSend \/ CollectSendFails \/ AckComes
    <3>1. request_wait' \in {0, 1, request_wait}
      BY <2>1 DEF CollectHoldFails, CollectSend, CollectSendFails, AckComes
    <3> QED BY <3>1, Limits DEF Counted
  <2>2. CASE AckMissing
    <3>1. request_wait' = 0 \/ (request_wait' = request_wait + 1 /\ ~(request_wait + 1 >= AckTimeout))
      BY <2>2 DEF AckMissing
    <3> QED BY <3>1, Limits DEF Counted
  <2> QED BY <2>1, <2>2 DEF Collect
<1>5. /\ stage' \in {"COLLECT", "RETREAT"}
      /\ stage_wait_count' \in 0..(HardMax - 1) /\ no_progress_count' \in 0..(NoProgress - 1)
  BY <1>1, <1>3, EnterType DEF Counted
<1>6. sample_index \in 0..(Samples - 1)
  BY <1>1, Limits DEF Counted
<1> QED BY <1>2, <1>3, <1>4, <1>5, <1>6, Limits DEF Counted

LEMMA NextSampleType ==
  ASSUME Counted, stage # "FINISH", gotoNextSample
  PROVE  /\ stage' \in {"FINISH", "PREAPPROACH"} /\ sample_index' \in 0..Samples
         /\ (stage' # "FINISH" => sample_index' < Samples)
         /\ stage_wait_count' \in 0..(HardMax - 1) /\ no_progress_count' \in 0..(NoProgress - 1)
         /\ settle_counter' \in 0..SettleCount /\ rot_counter' \in 0..(RotHold - 1)
         /\ request_wait' \in 0..(AckTimeout - 1) /\ UNCHANGED total_record_count
BY Limits DEF gotoNextSample, Enter, ResetWait, Counted, rows

\* The stages of the way back either keep the sample or go to the next one.
LEMMA GoBackCases ==
  ASSUME GoBack
  PROVE  /\ stage \in Back
         /\ gotoNextSample \/ (SameSample /\ \/ Enter("ROT_STABILIZE") /\ rot_counter' = 0
                                             \/ Enter("RECOVER") \/ StillAway("RECOVER") \/ (\E i \in Improved : Waits(i))
                                             \/ UNCHANGED <<stage, stage_wait_count, no_progress_count>>)
<1>1. CASE Retreat
  BY <1>1 DEF Retreat, Back, BaselineReached
<1>2. CASE ReturnFails
  BY <1>2 DEF ReturnFails, Back
<1>3. CASE RotStabilize
  BY <1>3 DEF RotStabilize, Back, counters
<1>4. CASE Recover
  BY <1>4 DEF Recover, Back, BaselineReached, counters
<1>5. CASE RecoverFails
  BY <1>5 DEF RecoverFails, Back, counters
<1> QED BY <1>1, <1>2, <1>3, <1>4, <1>5 DEF GoBack

LEMMA CountedGoBack == Counted /\ (GoBack \/ Finish) => Counted'
<1> SUFFICES ASSUME Counted, GoBack \/ Finish PROVE Counted'
  OBVIOUS
<1>1. CASE Finish
  BY <1>1 DEF Finish, SameSample, rows, tcp, request, arm, counters, Counted
<1>2. CASE GoBack
  <2>1. current_target' \in (0..(Samples - 1)) \cup {Hold, Baseline} /\ held' \in 0..RotHold
        /\ result' \in {"running", "zero", "error"}
    BY <1>2, AimType, ReadingType DEF GoBack, Retreat, ReturnFails, RotStabilize, Recover, RecoverFails,
                                      Counted, Continue
  <2>2. stage # "FINISH" /\ stage # "SETTLE"
    BY <1>2, GoBackCases DEF Back
  <2>3. CASE gotoNextSample
    BY <2>1, <2>2, <2>3, NextSampleType DEF Counted
  <2>4. CASE ~gotoNextSample
    <3>1. UNCHANGED <<sample_index, settle_counter, total_record_count, request_wait>>
      BY <1>2, <2>4, GoBackCases DEF SameSample, rows, tcp, request
    <3>2. /\ stage' \in {"ROT_STABILIZE", "RECOVER", stage}
          /\ stage_wait_count' \in 0..(HardMax - 1) /\ no_progress_count' \in 0..(NoProgress - 1)
      BY <1>2, <2>4, GoBackCases, EnterType, WaitsType DEF Counted
    <3>3. rot_counter' \in 0..(RotHold - 1)
      BY <1>2, <2>4, Limits DEF GoBack, Retreat, ReturnFails, RotStabilize, Recover, RecoverFails,
                                BaselineReached, Counted
    <3>4. stage' # "FINISH" /\ stage' # "SETTLE" /\ stage' \in {"ROT_STABILIZE", "RECOVER", "RETREAT"}
      BY <1>2, <2>2, <3>2, GoBackCases DEF Back
    <3> QED BY <2>1, <2>2, <3>1, <3>2, <3>3, <3>4 DEF Counted
  <2> QED BY <2>3, <2>4
<1> QED BY <1>1, <1>2

LEMMA CollectorQuiet ==
  ASSUME Collector
  PROVE  /\ UNCHANGED <<result, stage, baseline_count, sample_index, stage_wait_count, no_progress_count, settle_counter,
                        rot_counter, current_target, pose, held, current_contact_flag, total_record_count, row>>
         /\ UNCHANGED <<request_active, request_wait, active_sample, connected, torn>>
BY DEF Collector, CollectorReads, CollectorAnswers, CollectorCloses, collectorOnly, counters, arm, rows, request

LEMMA CountedStep == Counted /\ [Next]_vars => Counted'
<1> SUFFICES ASSUME Counted, [Next]_vars PROVE Counted'
  OBVIOUS
<1>1. CASE Collector
  BY <1>1, CollectorQuiet DEF Counted
<1>2. CASE UNCHANGED vars
  BY <1>2 DEF vars, counters, arm, rows, tcp, request, Counted
<1> QED BY <1>1, <1>2, CountedApproach, CountedCollect, CountedGoBack DEF Next, executeRT

-----------------------------------------------------------------------------
(* The order of the rows and the way back *)

LEMMA AskedStep == Asked /\ [Next]_vars => Asked'
<1> SUFFICES ASSUME Asked, [Next]_vars PROVE Asked'
  OBVIOUS
<1>1. CASE InitBaseline \/ Approach
  <2>1. stage # "COLLECT" /\ UNCHANGED <<connected, peer_open>>
    BY <1>1 DEF InitBaseline, Approach, ApproachFails, Danger, MoveToPreapproach, HoldContact, MoveToContact, Settle,
                Moving, Collecting, tcp, link
  <2>2. request_active' = request_active \/ request_active' = FALSE
    BY <1>1 DEF InitBaseline, Approach, ApproachFails, Danger, MoveToPreapproach, HoldContact, MoveToContact, Settle,
                Moving, tcp, request
  <2>3. ~request_active
    BY <2>1 DEF Asked
  <2>4. ~request_active'
    BY <2>2, <2>3
  <2>5. request_active' \in BOOLEAN
    BY <2>2 DEF Asked
  <2> QED BY <2>1, <2>4, <2>5 DEF Asked
<1>2. CASE CollectHoldFails \/ CollectSendFails
  <2>1. request_active' = FALSE
    BY <1>2 DEF CollectHoldFails, CollectSendFails
  <2>2. connected' \in BOOLEAN /\ peer_open' \in BOOLEAN
    BY <1>2 DEF CollectHoldFails, CollectSendFails, link, Close, Connect, Asked
  <2> QED BY <2>1, <2>2 DEF Asked
<1>3. CASE CollectSend
  <2>1. stage' = "COLLECT" /\ active_sample' = sample_index' /\ request_active' = TRUE
    BY <1>3 DEF CollectSend, CollectCycle, Collecting
  <2>2. connected' = TRUE /\ peer_open' = TRUE
    BY <1>3 DEF CollectSend, Connect, Asked
  <2> QED BY <2>1, <2>2 DEF Asked
<1>4. CASE AckComes
  <2>1. /\ UNCHANGED <<connected, peer_open, active_sample, sample_index>>
        /\ request_active' = FALSE \/ UNCHANGED <<request_active, stage>>
    BY <1>4 DEF AckComes, CollectCycle, Collecting
  <2>2. CASE request_active' = FALSE
    BY <2>1, <2>2 DEF Asked
  <2>3. CASE UNCHANGED <<request_active, stage>>
    BY <2>1, <2>3 DEF Asked
  <2> QED BY <2>1, <2>2, <2>3
<1>5. CASE AckMissing
  <2>1. /\ UNCHANGED <<active_sample, sample_index>> /\ request_active
        /\ \/ peer_open /\ UNCHANGED <<connected, peer_open>>
           \/ ~peer_open /\ connected' = FALSE /\ peer_open' = FALSE
        /\ request_active' = FALSE \/ (UNCHANGED stage /\ request_active' = peer_open)
    BY <1>5 DEF AckMissing, CollectCycle, Collecting, link, Close
  <2>2. stage = "COLLECT" /\ connected /\ active_sample = sample_index
    BY <2>1 DEF Asked
  <2>3. CASE peer_open /\ UNCHANGED <<connected, peer_open>>
    <3>1. request_active' = FALSE \/ (stage' = "COLLECT" /\ request_active' = TRUE)
      BY <2>1, <2>2, <2>3 DEF Asked
    <3> QED BY <2>1, <2>2, <2>3, <3>1 DEF Asked
  <2>4. CASE ~peer_open /\ connected' = FALSE /\ peer_open' = FALSE
    <3>1. request_active' = FALSE
      BY <2>1, <2>4 DEF Asked
    <3> QED BY <2>4, <3>1 DEF Asked
  <2> QED BY <2>1, <2>3, <2>4
<1>6. CASE GoBack
  <2>1. stage # "COLLECT"
    BY <1>6, GoBackCases DEF Back
  <2>2. ~request_active
    BY <2>1 DEF Asked
  <2>3. request_active' = FALSE \/ UNCHANGED request_active
    BY <1>6, GoBackCases DEF gotoNextSample, SameSample, tcp, request
  <2>4. UNCHANGED <<connected, peer_open>>
    BY <1>6, GoBackCases DEF gotoNextSample, SameSample, tcp, link
  <2>5. ~request_active'
    BY <2>2, <2>3
  <2>6. request_active' \in BOOLEAN
    BY <2>3 DEF Asked
  <2> QED BY <2>4, <2>5, <2>6 DEF Asked
<1>7. CASE Finish \/ UNCHANGED vars
  <2>1. UNCHANGED <<request_active, connected, peer_open, stage, active_sample, sample_index>>
    BY <1>7 DEF Finish, SameSample, vars, tcp, request, link
  <2> QED BY <2>1 DEF Asked
<1>8. CASE Collector
  <2>1. peer_open' \in BOOLEAN
    BY <1>8 DEF Collector, CollectorReads, CollectorAnswers, CollectorCloses, Asked
  <2> QED BY <1>8, <2>1, CollectorQuiet DEF Asked
<1> QED BY <1>1, <1>2, <1>3, <1>4, <1>5, <1>6, <1>7, <1>8 DEF Next, executeRT, Collect

\* In the stages of the way back the target is the baseline from the first cycle on.
LEMMA TowardBaseline ==
  ASSUME Targets, GoBack
  PROVE  current_target' = Baseline
BY DEF Targets, GoBack, Retreat, ReturnFails, RotStabilize, Recover, RecoverFails, Aim

LEMMA TargetsStep == Counted /\ Targets /\ [Next]_vars => Targets'
<1> SUFFICES ASSUME Counted, Targets, [Next]_vars PROVE Targets'
  OBVIOUS
<1>1. CASE InitBaseline
  BY <1>1 DEF InitBaseline, Enter, ResetWait, counters, Targets
<1>2. CASE ApproachFails \/ Danger
  BY <1>2 DEF ApproachFails, Danger, Enter, ResetWait, Targets
<1>3. CASE MoveToPreapproach \/ MoveToContact
  <2>1. /\ stage \in {"PREAPPROACH", "CONTACT"} /\ UNCHANGED sample_index /\ current_target' = sample_index
    BY <1>3 DEF MoveToPreapproach, MoveToContact, Moving, Collecting, Aim, Targets
  <2>2. (\E s \in {"CONTACT", "SETTLE"} : Enter(s)) \/ StillAway("RETREAT")
    BY <1>3 DEF MoveToPreapproach, MoveToContact
  <2>3. CASE \E s \in {"CONTACT", "SETTLE"} : Enter(s)
    BY <2>1, <2>3 DEF Enter, ResetWait, Targets
  <2>4. CASE StillAway("RETREAT")
    BY <2>1, <2>4, WaitsType DEF Targets
  <2> QED BY <2>2, <2>3, <2>4
<1>4. CASE HoldContact
  BY <1>4 DEF HoldContact, Enter, ResetWait, Collecting, Targets
<1>5. CASE Settle
  <2>1. UNCHANGED <<current_target, sample_index>> /\ stage = "SETTLE" /\ stage' \in {"SETTLE", "COLLECT"}
    BY <1>5 DEF Settle, Collecting, request
  <2> QED BY <2>1 DEF Targets
<1>6. CASE Collect
  <2>1. stage = "COLLECT" /\ UNCHANGED <<current_target, sample_index>>
    BY <1>6 DEF Collect, CollectHoldFails, CollectSend, CollectSendFails, AckComes, AckMissing, CollectCycle, Collecting
  <2>2. Enter("RETREAT") \/ UNCHANGED stage
    BY <1>6 DEF Collect, CollectHoldFails, CollectSend, CollectSendFails, AckComes, AckMissing, Leave
  <2> QED BY <2>1, <2>2 DEF Targets, Enter, ResetWait
<1>7. CASE GoBack
  <2>1. current_target' = Baseline /\ stage \in Back
    BY <1>7, TowardBaseline, GoBackCases
  <2>2. CASE gotoNextSample
    BY <2>2 DEF gotoNextSample, Enter, ResetWait, Targets
  <2>3. CASE ~gotoNextSample
    <3>1. stage' \in Back
      BY <1>7, <2>1, <2>3, GoBackCases, WaitsType DEF Enter, Back
    <3> QED BY <2>1, <3>1 DEF Targets, Back
  <2> QED BY <2>2, <2>3
<1>8. CASE Finish
  BY <1>8 DEF Finish, SameSample, counters, arm, Targets
<1>9. CASE Collector
  BY <1>9, CollectorQuiet DEF Targets
<1>10. CASE UNCHANGED vars
  BY <1>10 DEF vars, counters, arm, Targets
<1> QED BY <1>1, <1>2, <1>3, <1>4, <1>5, <1>6, <1>7, <1>8, <1>9, <1>10 DEF Next, executeRT, Approach

\* A row is written by a step that leaves the sample for the way back.
LEMMA RowWritten ==
  ASSUME Counted, [Next]_vars
  PROVE  \/ UNCHANGED rows
         \/ /\ stage \notin Back /\ stage' = "RETREAT" /\ UNCHANGED sample_index
            /\ row'.sample = sample_index /\ total_record_count' = total_record_count + 1
<1>1. CASE Danger \/ CollectHoldFails \/ CollectSendFails
  <2>1. stage \notin Back /\ UNCHANGED sample_index
    BY <1>1 DEF Danger, CollectHoldFails, CollectSendFails, CollectCycle, Moving, Collecting, Back
  <2>2. Write(FALSE, FALSE) /\ Enter("RETREAT")
    BY <1>1 DEF Danger, CollectHoldFails, CollectSendFails, Leave
  <2> QED BY <2>1, <2>2 DEF Write, Enter
<1>2. CASE AckComes
  <2>1. stage = "COLLECT" /\ UNCHANGED sample_index
    BY <1>2 DEF AckComes, CollectCycle, Collecting
  <2>2. UNCHANGED rows \/ \E ok, posed : Leave(ok, posed)
    BY <1>2 DEF AckComes, rows
  <2> QED BY <2>1, <2>2 DEF Leave, Write, Enter, Back
<1>3. CASE AckMissing
  BY <1>3 DEF AckMissing, CollectCycle, Collecting, Leave, Write, Enter, rows, Back
<1>4. CASE InitBaseline \/ (Approach /\ ~Danger) \/ CollectSend \/ Finish
  BY <1>4 DEF InitBaseline, Approach, ApproachFails, MoveToPreapproach, HoldContact, MoveToContact, Settle,
              CollectSend, Finish, SameSample, rows
<1>5. CASE GoBack
  BY <1>5, GoBackCases DEF gotoNextSample, SameSample, rows
<1>6. CASE Collector
  BY <1>6, CollectorQuiet DEF rows
<1>7. CASE UNCHANGED vars
  BY <1>7 DEF vars, rows
<1> QED BY <1>1, <1>2, <1>3, <1>4, <1>5, <1>6, <1>7 DEF Next, executeRT, Collect

\* Only gotoNextSample changes the sample, and it ends the way back; nothing
\* else does but the way back itself begins.
LEMMA SampleKept ==
  ASSUME Counted, [Next]_vars
  PROVE  \/ GoBack /\ gotoNextSample
         \/ UNCHANGED sample_index /\ (stage \in Back => stage' \in Back)
<1>1. CASE InitBaseline \/ Approach \/ Collect
  <2>1. UNCHANGED sample_index
    BY <1>1 DEF InitBaseline, Approach, ApproachFails, Danger, MoveToPreapproach, HoldContact, MoveToContact, Settle,
                Collect, CollectHoldFails, CollectSend, CollectSendFails, AckComes, AckMissing, CollectCycle, Moving,
                Collecting
  <2>2. stage \notin Back
    BY <1>1 DEF InitBaseline, Approach, ApproachFails, Danger, MoveToPreapproach, HoldContact, MoveToContact, Settle,
                Collect, CollectHoldFails, CollectSend, CollectSendFails, AckComes, AckMissing, CollectCycle, Back
  <2> QED BY <2>1, <2>2
<1>2. CASE GoBack /\ ~gotoNextSample
  <2>1. UNCHANGED sample_index
    BY <1>2, GoBackCases DEF SameSample
  <2>2. stage' \in Back
    BY <1>2, GoBackCases, WaitsType DEF Enter, Back
  <2> QED BY <2>1, <2>2
<1>3. CASE Finish
  BY <1>3 DEF Finish, SameSample, Back
<1>4. CASE Collector
  BY <1>4, CollectorQuiet
<1>5. CASE UNCHANGED vars
  BY <1>5 DEF vars
<1> QED BY <1>1, <1>2, <1>3, <1>4, <1>5 DEF Next, executeRT

LEMMA RowsBehindStep == Counted /\ Stored /\ RowsBehind /\ [Next]_vars => RowsBehind'
<1> SUFFICES ASSUME Counted, Stored, RowsBehind, [Next]_vars PROVE RowsBehind'
  OBVIOUS
<1>1. CASE UNCHANGED rows
  <2>1. CASE GoBack /\ gotoNextSample
    <3>1. sample_index' = sample_index + 1 /\ sample_index \in Int /\ row.sample \in Int
      BY <2>1 DEF gotoNextSample, Counted, Stored
    <3> QED BY <1>1, <3>1 DEF RowsBehind, rows
  <2>2. CASE UNCHANGED sample_index /\ (stage \in Back => stage' \in Back)
    BY <1>1, <2>2 DEF RowsBehind, rows
  <2> QED BY <2>1, <2>2, SampleKept
<1>2. CASE ~UNCHANGED rows
  BY <1>2, RowWritten DEF RowsBehind, Back
<1> QED BY <1>1, <1>2

LEMMA SteadyStep == Counted /\ Targets /\ Steady /\ [Next]_vars => Steady'
<1> SUFFICES ASSUME Counted, Targets, Steady, [Next]_vars PROVE Steady'
  OBVIOUS
<1>1. CASE InitBaseline \/ Approach \/ Collect
  <2>1. stage' # "ROT_STABILIZE"
    <3>1. CASE InitBaseline \/ ApproachFails \/ Danger \/ HoldContact \/ Settle
      BY <3>1 DEF InitBaseline, ApproachFails, Danger, HoldContact, Settle, Enter, ResetWait
    <3>2. CASE MoveToPreapproach \/ MoveToContact
      BY <3>2, WaitsType DEF MoveToPreapproach, MoveToContact, Enter
    <3>3. CASE Collect
      BY <3>3 DEF Collect, CollectHoldFails, CollectSend, CollectSendFails, AckComes, AckMissing, CollectCycle, Leave,
                  Enter
    <3> QED BY <1>1, <3>1, <3>2, <3>3 DEF Approach
  <2> QED BY <2>1 DEF Steady
<1>2. CASE GoBack
  <2>1. current_target' = Baseline
    BY <1>2, TowardBaseline
  <2>2. CASE RotStabilize /\ pose' = "at"
    <3>1. held' = (IF held < RotHold THEN held + 1 ELSE RotHold) /\ stage = "ROT_STABILIZE" /\ rot_counter <= held
      BY <2>1, <2>2 DEF RotStabilize, ReadPose, Steady
    <3>2. CASE gotoNextSample
      BY <3>2 DEF gotoNextSample, Enter, Steady
    <3>3. CASE rot_counter' = rot_counter + 1 /\ rot_counter + 1 < RotHold
      BY <3>1, <3>3, Limits DEF Counted, Steady
    <3> QED BY <2>2, <3>2, <3>3, Limits DEF RotStabilize, Counted
  <2>3. CASE ~(RotStabilize /\ pose' = "at")
    <3>1. stage' = "ROT_STABILIZE" => rot_counter' = 0
      <4>1. CASE Retreat
        BY <4>1, WaitsType DEF Retreat, BaselineReached, gotoNextSample, Enter
      <4>2. CASE ReturnFails
        BY <4>2 DEF ReturnFails, Enter
      <4>3. CASE RotStabilize
        BY <2>3, <4>3 DEF RotStabilize
      <4>4. CASE Recover
        BY <4>4 DEF Recover, BaselineReached, gotoNextSample, Enter, Waits
      <4>5. CASE RecoverFails
        BY <4>5 DEF RecoverFails
      <4> QED BY <1>2, <4>1, <4>2, <4>3, <4>4, <4>5 DEF GoBack
    <3>2. held' >= 0 /\ held' \in Nat
      BY CountedStep, Limits DEF Counted
    <3> QED BY <3>1, <3>2 DEF Steady
  <2> QED BY <2>2, <2>3
<1>3. CASE Finish
  BY <1>3 DEF Finish, Steady
<1>4. CASE Collector
  BY <1>4, CollectorQuiet DEF Steady
<1>5. CASE UNCHANGED vars
  BY <1>5 DEF vars, arm, Steady
<1> QED BY <1>1, <1>2, <1>3, <1>4, <1>5 DEF Next, executeRT

-----------------------------------------------------------------------------
(* Lines, frames and answers *)

\* Taking a line from the front of a queue, and adding one at its end.
LEMMA QueueTail ==
  ASSUME NEW S, NEW q \in Seq(S), q # <<>>
  PROVE  /\ Tail(q) \in Seq(S) /\ Head(q) = q[1] /\ Head(q) \in S /\ 1 \in 1..Len(q)
         /\ \A i \in 1..Len(Tail(q)) : i + 1 \in 1..Len(q) /\ Tail(q)[i] = q[i + 1]
OBVIOUS

LEMMA QueueAppend ==
  ASSUME NEW S, NEW q \in Seq(S), NEW e \in S
  PROVE  /\ Append(q, e) \in Seq(S)
         /\ \A i \in 1..Len(Append(q, e)) : (i \in 1..Len(q) /\ Append(q, e)[i] = q[i]) \/ Append(q, e)[i] = e
OBVIOUS

\* How a step changes what is under way between the plan and the collector.
LEMMA RequestsAfter ==
  ASSUME Counted, Stored, [Next]_vars
  PROVE  \/ requests' \in {requests, <<>>}
         \/ requests # <<>> /\ requests' = Tail(requests)
         \/ /\ stage = "COLLECT" /\ UNCHANGED <<stage, sample_index, total_record_count>>
            /\ \E line \in Lines : /\ line.sample = sample_index /\ line.record = total_record_count
                                   /\ requests' = Append(requests, line) \/ requests' = Append(<<>>, line)
<1>1. CASE CollectSend
  <2>1. stage = "COLLECT" /\ UNCHANGED <<stage, sample_index, total_record_count>>
    BY <1>1 DEF CollectSend, CollectCycle, Collecting, rows
  <2>2. PICK garbled \in BOOLEAN : requests' = Append(requests, Line(garbled)) \/ requests' = <<Line(garbled)>>
    BY <1>1 DEF CollectSend, Stored
  <2>3. Line(garbled) \in Lines /\ Line(garbled).sample = sample_index /\ Line(garbled).record = total_record_count
    BY <2>1, Limits DEF Counted, Lines, Line
  <2> QED BY <2>1, <2>2, <2>3
<1>2. CASE CollectHoldFails \/ CollectSendFails \/ AckComes \/ AckMissing
  BY <1>2 DEF CollectHoldFails, CollectSendFails, AckComes, AckMissing, link, Close
<1>3. CASE InitBaseline \/ Approach
  BY <1>3 DEF InitBaseline, Approach, ApproachFails, Danger, MoveToPreapproach, HoldContact, MoveToContact,
              Settle, Moving,
              tcp, link
<1>4. CASE GoBack
  BY <1>4, GoBackCases DEF gotoNextSample, SameSample, tcp, link
<1>5. CASE Finish \/ UNCHANGED vars
  BY <1>5 DEF Finish, SameSample, vars, tcp, link
<1>6. CASE Collector
  BY <1>6 DEF Collector, CollectorReads, CollectorAnswers, CollectorCloses
<1> QED BY <1>1, <1>2, <1>3, <1>4, <1>5, <1>6 DEF Next, executeRT, Collect

LEMMA SavingAfter ==
  ASSUME Counted, Stored, [Next]_vars
  PROVE  \/ saving' \in {saving, NoSaving}
         \/ /\ Collector /\ requests # <<>>
            /\ saving' = [sample |-> Head(requests).sample, record |-> Head(requests).record,
                          posed |-> AtSample(Head(requests).sample)]
<1>1. CASE Collect
  BY <1>1 DEF Collect, CollectHoldFails, CollectSend, CollectSendFails, AckComes, AckMissing, link, Close, Connect
<1>2. CASE InitBaseline \/ Approach
  BY <1>2 DEF InitBaseline, Approach, ApproachFails, Danger, MoveToPreapproach, HoldContact, MoveToContact,
              Settle, Moving,
              tcp, link
<1>3. CASE GoBack
  BY <1>3, GoBackCases DEF gotoNextSample, SameSample, tcp, link
<1>4. CASE Finish \/ UNCHANGED vars
  BY <1>4 DEF Finish, SameSample, vars, tcp, link
<1>5. CASE Collector
  BY <1>5 DEF Collector, CollectorReads, CollectorAnswers, CollectorCloses
<1> QED BY <1>1, <1>2, <1>3, <1>4, <1>5 DEF Next, executeRT

Answered(answer) ==
  \/ answer.sample = -1
  \/ /\ saving # NoSaving /\ answer.sample = saving.sample /\ answer.record = saving.record
     /\ answer.posed = (saving.posed /\ AtSample(saving.sample))

LEMMA AnswersAfter ==
  ASSUME Counted, Stored, [Next]_vars
  PROVE  \/ rx' \in {rx, <<>>}
         \/ rx # <<>> /\ rx' = Tail(rx)
         \/ Collector /\ \E answer \in Answers : Answered(answer) /\ rx' = Append(rx, answer)
<1>1. CASE Collect
  BY <1>1 DEF Collect, CollectHoldFails, CollectSend, CollectSendFails, AckComes, AckMissing, link, Close, Connect
<1>2. CASE InitBaseline \/ Approach
  BY <1>2 DEF InitBaseline, Approach, ApproachFails, Danger, MoveToPreapproach, HoldContact, MoveToContact,
              Settle, Moving,
              tcp, link
<1>3. CASE GoBack
  BY <1>3, GoBackCases DEF gotoNextSample, SameSample, tcp, link
<1>4. CASE Finish \/ UNCHANGED vars
  BY <1>4 DEF Finish, SameSample, vars, tcp, link
<1>5. CASE Collector /\ CollectorReads
  <2>1. [sample |-> -1, record |-> -1, ok |-> FALSE, posed |-> FALSE] \in Answers
    BY DEF Answers
  <2>2. Answered([sample |-> -1, record |-> -1, ok |-> FALSE, posed |-> FALSE])
    BY DEF Answered
  <2> QED BY <1>5, <2>1, <2>2 DEF CollectorReads
<1>6. CASE Collector /\ CollectorAnswers
  <2>1. PICK ok \in BOOLEAN :
          rx' = Append(rx, [sample |-> saving.sample, record |-> saving.record, ok |-> ok,
                            posed |-> saving.posed /\ AtSample(saving.sample)])
    BY <1>6 DEF CollectorAnswers
  <2>2. saving \in [sample : 0..(Samples - 1), record : Nat, posed : BOOLEAN]
    BY <1>6 DEF CollectorAnswers, Stored, Savings
  <2>3. [sample |-> saving.sample, record |-> saving.record, ok |-> ok, posed |-> saving.posed /\ AtSample(saving.sample)]
          \in Answers
    BY <2>2 DEF Answers
  <2>4. Answered([sample |-> saving.sample, record |-> saving.record, ok |-> ok,
                  posed |-> saving.posed /\ AtSample(saving.sample)])
    BY <1>6 DEF CollectorAnswers, Answered
  <2> QED BY <1>6, <2>1, <2>3, <2>4
<1>7. CASE CollectorCloses
  BY <1>7 DEF CollectorCloses
<1> QED BY <1>1, <1>2, <1>3, <1>4, <1>5, <1>6, <1>7 DEF Next, executeRT, Collector

LEMMA StoredStep == Counted /\ Stored /\ [Next]_vars => Stored'
<1> SUFFICES ASSUME Counted, Stored, [Next]_vars PROVE Stored'
  OBVIOUS
<1>1. row'.sample \in Int
  BY RowWritten DEF Stored, Counted, rows
<1>2. torn' \in BOOLEAN
  <2>1. CASE Collect
    BY <2>1 DEF Collect, CollectHoldFails, CollectSend, CollectSendFails, AckComes, AckMissing, link, Close, Stored
  <2>2. CASE InitBaseline \/ Approach
    BY <2>2 DEF InitBaseline, Approach, ApproachFails, Danger, MoveToPreapproach, HoldContact, MoveToContact, Settle,
                Moving, tcp, link, Stored
  <2>3. CASE GoBack
    BY <2>3, GoBackCases DEF gotoNextSample, SameSample, tcp, link, Stored
  <2>4. CASE Finish \/ UNCHANGED vars
    BY <2>4 DEF Finish, SameSample, vars, tcp, link, Stored
  <2>5. CASE Collector
    BY <2>5, CollectorQuiet DEF Stored
  <2> QED BY <2>1, <2>2, <2>3, <2>4, <2>5 DEF Next, executeRT
<1>3. requests' \in Seq(Lines)
  <2>0. requests \in Seq(Lines) /\ <<>> \in Seq(Lines)
    BY DEF Stored
  <2>1. CASE requests # <<>> /\ requests' = Tail(requests)
    BY <2>0, <2>1, QueueTail
  <2>2. ASSUME NEW line \in Lines, requests' = Append(requests, line) \/ requests' = Append(<<>>, line)
        PROVE  requests' \in Seq(Lines)
    BY <2>0, <2>2, QueueAppend
  <2> QED BY <2>0, <2>1, <2>2, RequestsAfter
<1>4. saving' \in Savings
  <2>1. CASE requests # <<>> /\ saving' = [sample |-> Head(requests).sample, record |-> Head(requests).record,
                                          posed |-> AtSample(Head(requests).sample)]
    <3>1. Head(requests) \in Lines
      BY <2>1, QueueTail DEF Stored
    <3>2. AtSample(Head(requests).sample) \in BOOLEAN
      BY DEF AtSample
    <3> QED BY <2>1, <3>1, <3>2 DEF Lines, Savings
  <2> QED BY <2>1, SavingAfter DEF Stored, Savings
<1>5. rx' \in Seq(Answers)
  <2>0. rx \in Seq(Answers) /\ <<>> \in Seq(Answers)
    BY DEF Stored
  <2>1. CASE rx # <<>> /\ rx' = Tail(rx)
    BY <2>0, <2>1, QueueTail
  <2>2. ASSUME NEW answer \in Answers, rx' = Append(rx, answer)
        PROVE  rx' \in Seq(Answers)
    BY <2>0, <2>2, QueueAppend
  <2> QED BY <2>0, <2>1, <2>2, AnswersAfter
<1> QED BY <1>1, <1>2, <1>3, <1>4, <1>5 DEF Stored

\* A sample is collected once: nothing comes back to COLLECT, nor counts a row and
\* stays there.
LEMMA CollectedOnce ==
  ASSUME Counted, [Next]_vars, UNCHANGED sample_index, stage \notin Way
  PROVE  stage' \notin Way /\ (stage' = "COLLECT" => stage = "COLLECT" /\ UNCHANGED total_record_count)
<1>1. CASE Collect
  <2>1. stage = "COLLECT" /\ ((stage' = "COLLECT" /\ UNCHANGED rows) \/ stage' = "RETREAT")
    BY <1>1 DEF Collect, CollectHoldFails, CollectSend, CollectSendFails, AckComes, AckMissing, CollectCycle,
                Leave, Enter
  <2> QED BY <2>1 DEF Way, rows
<1>2. CASE GoBack
  <2>1. ~gotoNextSample
    BY <1>2 DEF gotoNextSample, Counted
  <2>2. stage' \in Back
    BY <1>2, <2>1, GoBackCases, WaitsType DEF Enter, Back
  <2> QED BY <2>2 DEF Back, Way
<1>3. CASE Finish
  BY <1>3 DEF Finish, SameSample, rows, Way
<1>4. CASE Collector
  BY <1>4, CollectorQuiet
<1>5. CASE UNCHANGED vars
  BY <1>5 DEF vars, rows
<1>6. ~InitBaseline /\ ~Approach
  BY DEF InitBaseline, Approach, ApproachFails, Danger, MoveToPreapproach, HoldContact, MoveToContact, Settle, Way
<1> QED BY <1>1, <1>2, <1>3, <1>4, <1>5, <1>6 DEF Next, executeRT

\* So what is said of a line, of frames or of an answer stays true.
LEMMA StillOfSample ==
  ASSUME Counted, [Next]_vars
  PROVE  \A s \in Int : \A record : OfSample(s, record) =>
           /\ OfSampleAfter(s, record)
           /\ \A posed : Posed(s, posed) => PosedAfter(s, posed)
<1> SUFFICES ASSUME NEW s \in Int, NEW record, OfSample(s, record)
             PROVE  OfSampleAfter(s, record) /\ \A posed : Posed(s, posed) => PosedAfter(s, posed)
  OBVIOUS
<1>1. sample_index \in Int
  BY DEF Counted
<1>2. CASE gotoNextSample
  <2>1. sample_index' = sample_index + 1
    BY <1>2 DEF gotoNextSample
  <2> QED BY <1>1, <2>1 DEF OfSample, Posed, OfSampleAfter, PosedAfter
<1>3. CASE UNCHANGED sample_index
  BY <1>3, CollectedOnce DEF OfSample, Posed, OfSampleAfter, PosedAfter
<1> QED BY <1>2, <1>3, SampleKept

LEMMA FramesStep == Counted /\ Stored /\ Targets /\ Frames /\ [Next]_vars => Frames'
<1> SUFFICES ASSUME Counted, Stored, Targets, Frames, [Next]_vars PROVE Frames'
  OBVIOUS
<1>0. /\ \A line \in Lines : line.sample \in Int
      /\ \A answer \in Answers : answer.sample \in Int
      /\ saving.sample \in Int
  BY Limits DEF Lines, Answers, Stored, Savings, NoSaving
<1>1. /\ requests \in Seq(Lines) /\ rx \in Seq(Answers) /\ saving \in Savings
      /\ \A i \in 1..Len(requests) : requests[i] \in Lines
      /\ \A i \in 1..Len(rx) : rx[i] \in Answers
  BY DEF Stored
<1>2. ASSUME NEW i \in 1..Len(requests')
      PROVE  OfSampleAfter(requests'[i].sample, requests'[i].record)
  <2>1. CASE \E j \in 1..Len(requests) : requests'[i] = requests[j]
    <3>1. PICK j \in 1..Len(requests) : requests'[i] = requests[j]
      BY <2>1
    <3>2. OfSample(requests[j].sample, requests[j].record) /\ requests[j].sample \in Int
      BY <1>0, <1>1 DEF Frames
    <3>3. PICK s, record : s \in Int /\ s = requests[j].sample /\ record = requests[j].record
      BY <3>2
    <3>4. OfSampleAfter(s, record)
      BY <3>2, <3>3, StillOfSample
    <3> QED BY <3>1, <3>3, <3>4 DEF OfSample, OfSampleAfter
  <2>2. CASE /\ stage = "COLLECT" /\ UNCHANGED <<stage, sample_index, total_record_count>>
             /\ requests'[i].sample = sample_index /\ requests'[i].record = total_record_count
    BY <2>2 DEF OfSampleAfter, Way, Counted
  <2>3. requests' \in {requests, <<>>} => \E j \in 1..Len(requests) : requests'[i] = requests[j]
    OBVIOUS
  <2>4. requests # <<>> /\ requests' = Tail(requests) => \E j \in 1..Len(requests) : requests'[i] = requests[j]
    BY <1>1, QueueTail
  <2>5. ASSUME NEW line \in Lines, requests' = Append(requests, line) \/ requests' = Append(<<>>, line)
        PROVE  requests'[i] = line \/ \E j \in 1..Len(requests) : requests'[i] = requests[j]
    <3>1. CASE requests' = Append(requests, line)
      BY <1>1, <3>1, QueueAppend
    <3>2. CASE requests' = Append(<<>>, line)
      <4>1. requests' = <<line>> /\ i = 1
        BY <3>2
      <4> QED BY <4>1
    <3> QED BY <2>5, <3>1, <3>2
  <2> QED BY <2>1, <2>2, <2>3, <2>4, <2>5, RequestsAfter
<1>3. OfSampleAfter(saving'.sample, saving'.record) /\ PosedAfter(saving'.sample, saving'.posed)
  <2>1. CASE UNCHANGED saving
    <3>1. OfSample(saving.sample, saving.record) /\ Posed(saving.sample, saving.posed)
      BY DEF Frames
    <3>2. PICK s, record, posed : s \in Int /\ s = saving.sample /\ record = saving.record /\ posed = saving.posed
      BY <1>0
    <3>3. OfSampleAfter(s, record) /\ PosedAfter(s, posed)
      BY <3>1, <3>2, StillOfSample
    <3> QED BY <2>1, <3>2, <3>3 DEF OfSample, Posed, OfSampleAfter, PosedAfter
  <2>2. CASE saving' = NoSaving
    <3>1. saving'.sample = -1 /\ sample_index' \in Nat
      BY <2>2, CountedStep DEF NoSaving, Counted
    <3> QED BY <3>1 DEF OfSample, Posed, OfSampleAfter, PosedAfter
  <2>3. CASE /\ Collector /\ requests # <<>>
             /\ saving' = [sample |-> Head(requests).sample, record |-> Head(requests).record,
                           posed |-> AtSample(Head(requests).sample)]
    <3>1. OfSample(Head(requests).sample, Head(requests).record)
      BY <1>1, <2>3, QueueTail DEF Frames
    <3>2. UNCHANGED <<stage, sample_index, total_record_count>>
      BY <2>3, CollectorQuiet
    <3>3. /\ saving'.sample = Head(requests).sample /\ saving'.record = Head(requests).record
          /\ saving'.posed = AtSample(Head(requests).sample)
      BY <2>3
    <3>4. Head(requests).sample = sample_index /\ stage = "COLLECT" => AtSample(Head(requests).sample)
      BY DEF AtSample, Targets
    <3> QED BY <3>1, <3>2, <3>3, <3>4 DEF OfSample, Posed, OfSampleAfter, PosedAfter
  <2> QED BY <2>1, <2>2, <2>3, SavingAfter
<1>4. ASSUME NEW i \in 1..Len(rx')
      PROVE  OfSampleAfter(rx'[i].sample, rx'[i].record) /\ PosedAfter(rx'[i].sample, rx'[i].posed)
  <2>1. CASE \E j \in 1..Len(rx) : rx'[i] = rx[j]
    <3>1. PICK j \in 1..Len(rx) : rx'[i] = rx[j]
      BY <2>1
    <3>2. OfSample(rx[j].sample, rx[j].record) /\ Posed(rx[j].sample, rx[j].posed) /\ rx[j].sample \in Int
      BY <1>0, <1>1 DEF Frames
    <3>3. PICK s, record, posed : s \in Int /\ s = rx[j].sample /\ record = rx[j].record /\ posed = rx[j].posed
      BY <3>2
    <3>4. OfSampleAfter(s, record) /\ PosedAfter(s, posed)
      BY <3>2, <3>3, StillOfSample
    <3> QED BY <3>1, <3>3, <3>4 DEF OfSample, Posed, OfSampleAfter, PosedAfter
  <2>2. ASSUME NEW answer \in Answers, Collector, Answered(answer), rx'[i] = answer
        PROVE  OfSampleAfter(rx'[i].sample, rx'[i].record) /\ PosedAfter(rx'[i].sample, rx'[i].posed)
    <3>1. UNCHANGED <<stage, sample_index, total_record_count>> /\ sample_index \in Nat
      BY <2>2, CollectorQuiet DEF Counted
    <3>2. CASE answer.sample = -1
      BY <2>2, <3>1, <3>2 DEF OfSample, Posed, OfSampleAfter, PosedAfter
    <3>3. CASE /\ answer.sample = saving.sample /\ answer.record = saving.record
               /\ answer.posed = (saving.posed /\ AtSample(saving.sample))
      <4>1. OfSample(saving.sample, saving.record) /\ Posed(saving.sample, saving.posed)
        BY DEF Frames
      <4>2. saving.sample = sample_index /\ stage = "COLLECT" => AtSample(saving.sample)
        BY DEF AtSample, Targets
      <4>3. answer.sample = sample_index /\ stage = "COLLECT" => answer.posed
        BY <3>3, <4>1, <4>2 DEF Posed
      <4> QED BY <2>2, <3>1, <3>3, <4>1, <4>3 DEF OfSample, Posed, OfSampleAfter, PosedAfter
    <3> QED BY <2>2, <3>2, <3>3 DEF Answered
  <2>3. rx' \in {rx, <<>>} => \E j \in 1..Len(rx) : rx'[i] = rx[j]
    OBVIOUS
  <2>4. rx # <<>> /\ rx' = Tail(rx) => \E j \in 1..Len(rx) : rx'[i] = rx[j]
    BY <1>1, QueueTail
  <2>5. ASSUME NEW answer \in Answers, rx' = Append(rx, answer)
        PROVE  rx'[i] = answer \/ \E j \in 1..Len(rx) : rx'[i] = rx[j]
    BY <1>1, <2>5, QueueAppend
  <2> QED BY <2>1, <2>2, <2>3, <2>4, <2>5, AnswersAfter
<1> QED BY <1>2, <1>3, <1>4 DEF Frames, OfSample, Posed, OfSampleAfter, PosedAfter

LEMMA GoodRowsStep ==
  Counted /\ Stored /\ Asked /\ Frames /\ GoodRowsHaveFrames /\ [Next]_vars => GoodRowsHaveFrames'
<1> SUFFICES ASSUME Counted, Stored, Asked, Frames, GoodRowsHaveFrames, [Next]_vars, ~UNCHANGED rows
             PROVE  GoodRowsHaveFrames'
  BY DEF GoodRowsHaveFrames, rows
<1>1. CASE Danger \/ CollectHoldFails \/ CollectSendFails \/ AckMissing
  <2>1. Write(FALSE, FALSE)
    BY <1>1 DEF Danger, CollectHoldFails, CollectSendFails, AckMissing, Leave, rows
  <2>2. row'.ok = FALSE
    BY <2>1 DEF Write
  <2> QED BY <2>2 DEF GoodRowsHaveFrames
<1>2. CASE AckComes
  <2>1. /\ stage = "COLLECT" /\ rx # <<>> /\ Head(rx).sample = sample_index
        /\ Write(Head(rx).ok, Head(rx).posed /\ Head(rx).record = total_record_count)
    <3>1. request_active /\ Head(rx).sample = active_sample /\ rx # <<>> /\ stage = "COLLECT"
          /\ Write(Head(rx).ok, Head(rx).posed /\ Head(rx).record = total_record_count)
      BY <1>2 DEF AckComes, CollectCycle, Leave, rows
    <3> QED BY <3>1 DEF Asked
  <2>2. OfSample(Head(rx).sample, Head(rx).record) /\ Posed(Head(rx).sample, Head(rx).posed)
    BY <2>1, QueueTail DEF Frames, Stored
  <2>3. Head(rx).posed /\ Head(rx).record = total_record_count
    BY <2>1, <2>2 DEF OfSample, Posed
  <2>4. row'.posed = (Head(rx).posed /\ Head(rx).record = total_record_count)
    BY <2>1 DEF Write
  <2> QED BY <2>3, <2>4 DEF GoodRowsHaveFrames
<1>3. ~(InitBaseline \/ (Approach /\ ~Danger) \/ CollectSend \/ Finish)
  BY DEF InitBaseline, Approach, ApproachFails, MoveToPreapproach, HoldContact, MoveToContact, Settle,
         CollectSend, Finish,
         SameSample
<1>4. ~GoBack
  BY GoBackCases DEF gotoNextSample, SameSample
<1>5. ~Collector /\ ~UNCHANGED vars
  BY CollectorQuiet DEF rows, vars
<1> QED BY <1>1, <1>2, <1>3, <1>4, <1>5 DEF Next, executeRT, Collect

THEOREM CollectInvariance == Spec => []CInv
<1>1. CInv /\ [Next]_vars => CInv'
  BY CountedStep, StoredStep, AskedStep, TargetsStep, RowsBehindStep, SteadyStep, FramesStep, GoodRowsStep DEF CInv
<1> QED BY <1>1, InitCInv, PTL DEF Spec

-----------------------------------------------------------------------------
(* What follows from it *)

\* A row marked good has frames of its own sample, taken at its pose under its
\* own record number: answers that come late or of other samples are never used.
THEOREM GoodRows == Spec => []GoodRowsHaveFrames
<1>1. CInv => GoodRowsHaveFrames
  BY DEF CInv
<1> QED BY <1>1, CollectInvariance, PTL

\* One row a sample, in the order of the samples.
THEOREM RowsInOrder == Spec => OneRowPerSample
<1>1. CInv /\ [Next]_vars => (total_record_count' # total_record_count => row'.sample > row.sample)
  <2> SUFFICES ASSUME CInv, [Next]_vars, total_record_count' # total_record_count
               PROVE  row'.sample > row.sample
    OBVIOUS
  <2>1. stage \notin Back /\ row'.sample = sample_index
    BY RowWritten DEF CInv, rows
  <2> QED BY <2>1 DEF CInv, RowsBehind, Counted, Stored
<1> QED BY <1>1, CollectInvariance, PTL DEF Spec, OneRowPerSample

\* The next sample begins at the baseline, or near it after the soft acceptance.
THEOREM FromBaseline == Spec => NextFromBaseline
<1>1. CInv /\ [Next]_vars => (sample_index' # sample_index => current_target' = Baseline /\ pose' # "away")
  <2> SUFFICES ASSUME CInv, [Next]_vars, sample_index' # sample_index
               PROVE  current_target' = Baseline /\ pose' # "away"
    OBVIOUS
  <2>1. GoBack /\ gotoNextSample
    BY SampleKept DEF CInv
  <2>2. current_target' = Baseline
    BY <2>1, TowardBaseline DEF CInv
  <2>3. pose' # "away"
    BY <2>1 DEF GoBack, Retreat, ReturnFails, RotStabilize, Recover, RecoverFails, SameSample
  <2> QED BY <2>2, <2>3
<1> QED BY <1>1, CollectInvariance, PTL DEF Spec, NextFromBaseline

\* A turned arm has been at the baseline for the whole stabilization, or was
\* accepted softly.
THEOREM Stabilized == Spec => StabilizedOrSoft
<1>1. CInv /\ [Next]_vars =>
        (sample_index' # sample_index /\ sample_index \in RotSamples => held' >= RotHold \/ stage = "RECOVER")
  <2> SUFFICES ASSUME CInv, [Next]_vars, sample_index' # sample_index, sample_index \in RotSamples, stage # "RECOVER"
               PROVE  held' >= RotHold
    OBVIOUS
  <2>1. GoBack /\ gotoNextSample
    BY SampleKept DEF CInv
  <2>2. RotStabilize /\ pose' = "at" /\ rot_counter + 1 >= RotHold
    BY <2>1, Limits DEF GoBack, Retreat, ReturnFails, RotStabilize, Recover, RecoverFails, SameSample,
                        BaselineReached, CInv,
                Counted
  <2>3. held' = (IF held < RotHold THEN held + 1 ELSE RotHold) /\ rot_counter <= held
    BY <2>2 DEF RotStabilize, ReadPose, CInv, Steady
  <2> QED BY <2>2, <2>3, Limits DEF CInv, Counted
<1> QED BY <1>1, CollectInvariance, PTL DEF Spec, StabilizedOrSoft
=============================================================================
