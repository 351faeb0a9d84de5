---------------------------- MODULE A10VrTeleop ----------------------------
(***************************************************************************)
(* VR teleoperation: the plans "vr" (A10VrDriver) and "vr_vel"              *)
(* (A10VrVelDriver) add the pose increments of SET_EE_DELTA packets to the  *)
(* target the arm follows, and pass the joystick on to the gripper thread.  *)
(* "stop_teleop" ends them, and so does "stop", which ends policy plans too.*)
(*                                                                          *)
(* A packet overwrites target_ee_delta_ under a mutex; ee_delta_seq_, an    *)
(* atomic outside the mutex, tells the plan that there is a new one.  The   *)
(* pose is left out: a packet is its number, whether its increment passes   *)
(* the dead zone, and the joystick.                                         *)
(***************************************************************************)
EXTENDS Integers, FiniteSets

CONSTANTS
  Readers,        \* reader threads, one per connection
  None,           \* an empty target_ee_delta_, and no plan
  Sticks,         \* joystick values a packet may carry, 1 being full speed
  Timeout,        \* timeout_s in cycles: silence after which vr_vel coasts
  MaxPackets,     \* bound: packets received
  MaxCommands,    \* bound: commands entered
  OperatorWaits   \* the operator starts a plan only when none runs

ASSUME TeleopAssumption ==
  /\ None \notin Int /\ Timeout \in Nat /\ MaxPackets \in Nat /\ MaxCommands \in Nat
  /\ Sticks \subseteq Int /\ OperatorWaits \in BOOLEAN /\ IsFiniteSet(Readers)

VARIABLES
  target_ee_delta,    \* the packet to apply, or None
  ee_delta_seq,       \* counts packets since the last clear
  reader,             \* per reader: the packet stored and not counted yet, or None
  policy_stop,        \* g_a10_policy_tcp_stop_requested
  vr_stop,            \* g_a10_vr_stop_requested
  vr_grip_cmd,        \* g_vr_grip_cmd
  nrt,                \* where the command-line thread is in prepareNrt
  waiting,            \* the kind of plan prepared and not started, or None
  kind,               \* the kind of plan that runs
  pc,                 \* where the real-time thread is in executeRT
  inited, consumed, idle_coast,
  since,              \* count() - last_packet_count_, up to Timeout + 1
  seen,               \* the ee_delta_seq_ loaded by fetch_ee_delta_if_updated
  packets,            \* history: packets received
  commands,           \* history: commands entered
  applied,            \* history: packets the running plan has taken
  last_applied,       \* history: number of the packet it took last, or 0
  before,             \* history: packets received when the plan started
  quiet,              \* history: cycles since the plan took a packet that moves
                      \* the target, or its first pose, up to Timeout + 1
  asked               \* history: a stop was entered since a plan was prepared last

serverVars == <<target_ee_delta, ee_delta_seq, reader, packets>>
flagVars == <<policy_stop, vr_stop>>
nrtVars == <<nrt, waiting, commands, asked>>
planVars == <<kind, inited, consumed, idle_coast, since, seen, applied, last_applied, before, quiet>>
vars == <<serverVars, flagVars, vr_grip_cmd, nrtVars, planVars, pc>>

Kinds == {"vr", "vr_vel"}
Packet == [number : 1..MaxPackets, moves : BOOLEAN, grip : Sticks]

ASSUME PacketAssumption == None \notin Packet /\ None \notin Kinds

Init ==
  /\ target_ee_delta = None /\ ee_delta_seq = 0
  /\ reader = [r \in Readers |-> None]
  /\ policy_stop = FALSE /\ vr_stop = FALSE /\ vr_grip_cmd = 0
  /\ nrt = "ready" /\ waiting = None
  /\ kind \in Kinds /\ pc = "off"
  /\ inited = FALSE /\ consumed = 0 /\ idle_coast = FALSE /\ since = 0 /\ seen = 0
  /\ packets = 0 /\ commands = 0 /\ applied = 0 /\ last_applied = 0
  /\ before = 0 /\ quiet = 0 /\ asked = FALSE

-----------------------------------------------------------------------------
(* Reader threads: SET_EE_DELTA, which is not answered. *)

StoreDelta(r) ==
  /\ reader[r] = None /\ packets < MaxPackets
  /\ packets' = packets + 1
  /\ \E packet \in Packet :
       /\ packet.number = packets'
       /\ target_ee_delta' = packet
       /\ reader' = [reader EXCEPT ![r] = packet]
  /\ UNCHANGED <<ee_delta_seq, flagVars, vr_grip_cmd, nrtVars, planVars, pc>>

CountDelta(r) ==
  /\ reader[r] # None
  /\ ee_delta_seq' = ee_delta_seq + 1
  /\ reader' = [reader EXCEPT ![r] = None]
  /\ UNCHANGED <<target_ee_delta, packets, flagVars, vr_grip_cmd, nrtVars, planVars, pc>>

\* Mutants of StoreDelta and CountDelta: counted first, stored afterwards.
CountFirst(r) ==
  /\ reader[r] = None /\ packets < MaxPackets
  /\ packets' = packets + 1
  /\ \E packet \in Packet :
       packet.number = packets' /\ reader' = [reader EXCEPT ![r] = packet]
  /\ ee_delta_seq' = ee_delta_seq + 1
  /\ UNCHANGED <<target_ee_delta, flagVars, vr_grip_cmd, nrtVars, planVars, pc>>

StoreLast(r) ==
  /\ reader[r] # None
  /\ target_ee_delta' = reader[r]
  /\ reader' = [reader EXCEPT ![r] = None]
  /\ UNCHANGED <<ee_delta_seq, packets, flagVars, vr_grip_cmd, nrtVars, planVars, pc>>

SwappedSetEeDelta(r) == CountFirst(r) \/ StoreLast(r)

SetEeDelta(r) == StoreDelta(r) \/ CountDelta(r)

-----------------------------------------------------------------------------
(* The command-line thread: prepareNrt of "vr" and "vr_vel", of "stop_teleop"*)
(* and of "stop" (which also clears the buffers of the policy plan).         *)

Enter == nrt = "ready" /\ commands < MaxCommands /\ commands' = commands + 1

Busy == pc # "off" \/ waiting # None

NrtVr ==
  /\ Enter /\ waiting = None
  /\ OperatorWaits => ~Busy
  /\ vr_stop' = FALSE
  /\ nrt' \in Kinds
  /\ asked' = FALSE
  /\ UNCHANGED <<serverVars, policy_stop, vr_grip_cmd, waiting, planVars, pc>>

NrtVrReady ==
  /\ nrt \in Kinds
  /\ vr_grip_cmd' = 0
  /\ waiting' = nrt /\ nrt' = "ready"
  /\ UNCHANGED <<serverVars, flagVars, commands, asked, planVars, pc>>

NrtStop ==
  /\ Enter
  /\ policy_stop' = TRUE
  /\ nrt' = "stop" /\ asked' = TRUE
  /\ UNCHANGED <<serverVars, vr_stop, vr_grip_cmd, waiting, planVars, pc>>

NrtStopTeleop ==
  /\ Enter
  /\ vr_stop' = TRUE
  /\ nrt' = "clearGrip" /\ asked' = TRUE
  /\ UNCHANGED <<serverVars, policy_stop, vr_grip_cmd, waiting, planVars, pc>>

\* request_vr_teleop_stop, called by "stop" after its own flag
NrtRequestStop ==
  /\ nrt = "stop"
  /\ vr_stop' = TRUE
  /\ nrt' = "clearGrip"
  /\ UNCHANGED <<serverVars, policy_stop, vr_grip_cmd, waiting, commands, asked, planVars, pc>>

NrtClearGrip ==
  /\ nrt = "clearGrip"
  /\ vr_grip_cmd' = 0
  /\ nrt' = "clearDelta"
  /\ UNCHANGED <<serverVars, flagVars, waiting, commands, asked, planVars, pc>>

NrtClearDelta ==
  /\ nrt = "clearDelta"
  /\ target_ee_delta' = None
  /\ nrt' = "clearSeq"
  /\ UNCHANGED <<ee_delta_seq, reader, packets, flagVars, vr_grip_cmd, waiting, commands,
                 asked, planVars, pc>>

\* "stop" clears the delta a second time after the policy plan's buffers.
NrtClearSeq ==
  /\ nrt = "clearSeq"
  /\ ee_delta_seq' = 0
  /\ nrt' \in {"ready", "clearDelta"}
  /\ UNCHANGED <<target_ee_delta, reader, packets, flagVars, vr_grip_cmd, waiting, commands,
                 asked, planVars, pc>>

-----------------------------------------------------------------------------
(* The real-time thread. *)

RtStart ==
  /\ pc = "off" /\ waiting # None
  /\ pc' = "entry" /\ kind' = waiting /\ waiting' = None
  /\ inited' = FALSE /\ consumed' = 0 /\ idle_coast' = FALSE /\ since' = 0
  /\ applied' = 0 /\ last_applied' = 0 /\ before' = packets /\ quiet' = 0
  /\ UNCHANGED <<serverVars, flagVars, vr_grip_cmd, nrt, commands, asked, seen>>

\* The policy plan's stop flag is exchanged for false, the teleop flag only read.
RtPolicyFlag ==
  /\ pc = "entry"
  /\ policy_stop' = FALSE
  /\ pc' = IF policy_stop THEN "ending" ELSE "vrFlag"
  /\ UNCHANGED <<serverVars, vr_stop, vr_grip_cmd, nrtVars, planVars>>

\* Mutant of RtVrFlag: the flag is exchanged too, and looked at only when inited.
RtVrFlagInited ==
  /\ pc = "vrFlag"
  /\ vr_stop' = FALSE
  /\ pc' = IF vr_stop /\ inited THEN "ending" ELSE "cycle"
  /\ UNCHANGED <<serverVars, policy_stop, vr_grip_cmd, nrtVars, planVars>>

RtVrFlag ==
  /\ pc = "vrFlag"
  /\ pc' = IF vr_stop THEN "ending" ELSE "cycle"
  /\ UNCHANGED <<serverVars, flagVars, vr_grip_cmd, nrtVars, planVars>>

\* Mutant of RtEnd: the joystick is not released.
RtEndGripping ==
  /\ pc = "ending"
  /\ vr_stop' = FALSE
  /\ inited' = FALSE
  /\ pc' = "off"
  /\ UNCHANGED <<serverVars, policy_stop, vr_grip_cmd, nrtVars, kind, consumed, idle_coast,
                 since, seen, applied, last_applied, before, quiet>>

\* Either flag ends the plan, dropping the teleop flag and releasing the joystick.
RtEnd ==
  /\ pc = "ending"
  /\ vr_stop' = FALSE
  /\ inited' = FALSE
  /\ vr_grip_cmd' = 0
  /\ pc' = "off"
  /\ UNCHANGED <<serverVars, policy_stop, nrtVars, kind, consumed, idle_coast,
                 since, seen, applied, last_applied, before, quiet>>

\* A count of cycles one cycle later.
Later(n) == IF n <= Timeout THEN n + 1 ELSE n

\* Forward kinematics may fail: the cycle ends at once.
RtNoKinematics ==
  /\ pc = "cycle"
  /\ since' = Later(since) /\ quiet' = Later(quiet)
  /\ pc' = "entry"
  /\ UNCHANGED <<serverVars, flagVars, vr_grip_cmd, nrtVars, kind, inited, consumed,
                 idle_coast, seen, applied, last_applied, before>>

\* The first cycle with kinematics takes the arm's pose as the target.
RtInit ==
  /\ pc = "cycle" /\ ~inited
  /\ inited' = TRUE
  /\ since' = 0 /\ quiet' = 0
  /\ pc' = "entry"
  /\ UNCHANGED <<serverVars, flagVars, vr_grip_cmd, nrtVars, kind, consumed, idle_coast,
                 seen, applied, last_applied, before>>

Fresh == ee_delta_seq # 0 /\ ee_delta_seq # consumed

\* vr_vel lets its target return to the arm after a silence; vr does not.
Coast == IF kind = "vr_vel" /\ Later(since) > Timeout THEN TRUE ELSE idle_coast

\* fetch_ee_delta_if_updated: the counter first ...
RtNoDelta ==
  /\ pc = "cycle" /\ inited /\ ~Fresh
  /\ seen' = ee_delta_seq
  /\ since' = Later(since) /\ quiet' = Later(quiet) /\ idle_coast' = Coast
  /\ pc' = "entry"
  /\ UNCHANGED <<serverVars, flagVars, vr_grip_cmd, nrtVars, kind, inited, consumed,
                 applied, last_applied, before>>

RtNewDelta ==
  /\ pc = "cycle" /\ inited /\ Fresh
  /\ seen' = ee_delta_seq
  /\ pc' = "fetch"
  /\ UNCHANGED <<serverVars, flagVars, vr_grip_cmd, nrtVars, kind, inited, consumed,
                 idle_coast, since, applied, last_applied, before, quiet>>

\* ... then, under the mutex, whatever packet is there, unless it was cleared.
RtDeltaGone ==
  /\ pc = "fetch" /\ target_ee_delta = None
  /\ since' = Later(since) /\ quiet' = Later(quiet) /\ idle_coast' = Coast
  /\ pc' = "entry"
  /\ UNCHANGED <<serverVars, flagVars, vr_grip_cmd, nrtVars, kind, inited, consumed, seen,
                 applied, last_applied, before>>

\* set_vr_grip_cmd clamps what the client sends.
GripCmd(stick) == IF stick > 1 THEN 1 ELSE IF stick < -1 THEN -1 ELSE stick

\* The silence that counts for the target: one in which nothing moves it.
Quiet == IF target_ee_delta.moves THEN 0 ELSE Later(quiet)

\* Mutants of RtApply: an increment in the dead zone is not marked as consumed,
RtApplyMoving ==
  /\ pc = "fetch" /\ target_ee_delta # None
  /\ consumed' = IF target_ee_delta.moves THEN seen ELSE consumed
  /\ since' = 0 /\ quiet' = Quiet
  /\ idle_coast' = idle_coast
  /\ vr_grip_cmd' = GripCmd(target_ee_delta.grip)
  /\ applied' = applied + 1 /\ last_applied' = target_ee_delta.number
  /\ pc' = "entry"
  /\ UNCHANGED <<serverVars, flagVars, nrtVars, kind, inited, seen, before>>

\* ... or does not let the target return.
RtApplyLingers ==
  /\ pc = "fetch" /\ target_ee_delta # None
  /\ consumed' = seen
  /\ since' = 0 /\ quiet' = Quiet
  /\ idle_coast' = (idle_coast /\ ~target_ee_delta.moves)
  /\ vr_grip_cmd' = GripCmd(target_ee_delta.grip)
  /\ applied' = applied + 1 /\ last_applied' = target_ee_delta.number
  /\ pc' = "entry"
  /\ UNCHANGED <<serverVars, flagVars, nrtVars, kind, inited, seen, before>>

RtApply ==
  /\ pc = "fetch" /\ target_ee_delta # None
  /\ consumed' = seen
  /\ since' = 0 /\ quiet' = Quiet
  /\ idle_coast' = (kind = "vr_vel" /\ ~target_ee_delta.moves)
  /\ vr_grip_cmd' = GripCmd(target_ee_delta.grip)
  /\ applied' = applied + 1 /\ last_applied' = target_ee_delta.number
  /\ pc' = "entry"
  /\ UNCHANGED <<serverVars, flagVars, nrtVars, kind, inited, seen, before>>

-----------------------------------------------------------------------------
Command == NrtVr \/ NrtStop \/ NrtStopTeleop
NrtStep ==
  NrtVrReady \/ NrtRequestStop \/ NrtClearGrip \/ NrtClearDelta \/ NrtClearSeq
RtStep ==
  \/ RtStart \/ RtPolicyFlag \/ RtVrFlag \/ RtEnd \/ RtNoKinematics \/ RtInit
  \/ RtNoDelta \/ RtNewDelta \/ RtDeltaGone \/ RtApply

Next == (\E r \in Readers : SetEeDelta(r)) \/ Command \/ NrtStep \/ RtStep

Spec == Init /\ [][Next]_vars

\* The real-time thread runs on and so do a reader between its two steps and a
\* command; kinematics does not fail for ever.
FairSpec ==
  /\ Spec
  /\ WF_vars(RtStep) /\ WF_vars(NrtStep) /\ \A r \in Readers : WF_vars(reader[r] # None /\ SetEeDelta(r))
  /\ SF_vars(RtInit) /\ SF_vars(RtNewDelta)
-----------------------------------------------------------------------------
(* Properties *)

FlagsOK ==
  /\ policy_stop \in BOOLEAN /\ vr_stop \in BOOLEAN
  /\ inited \in BOOLEAN /\ idle_coast \in BOOLEAN /\ asked \in BOOLEAN

TypeOK ==
  /\ FlagsOK
  /\ target_ee_delta \in Packet \cup {None} /\ ee_delta_seq \in Nat
  /\ reader \in [Readers -> Packet \cup {None}]
  /\ vr_grip_cmd \in -1..1
  /\ nrt \in {"ready", "stop", "clearGrip", "clearDelta", "clearSeq"} \cup Kinds
  /\ waiting \in Kinds \cup {None} /\ kind \in Kinds
  /\ pc \in {"off", "entry", "vrFlag", "ending", "cycle", "fetch"}
  /\ consumed \in Nat /\ seen \in Nat /\ applied \in Nat
  /\ since \in 0..(Timeout + 1) /\ quiet \in 0..(Timeout + 1)
  /\ packets \in 0..MaxPackets /\ commands \in 0..MaxCommands
  /\ last_applied \in 0..MaxPackets /\ before \in 0..MaxPackets

\* Whatever packets, stops and restarts interleave, the gripper is at rest once
\* the plan has ended: no joystick value outlives it.
GripReleased == pc = "off" => vr_grip_cmd = 0

\* A plan adds no more increments to the target than packets have come in:
\* a packet taken early may be taken again, but only in place of another.
MotionBounded == applied <= packets

\* The target of vr_vel stays where packets have moved it only while they go on
\* moving it: once none has for more than Timeout cycles, whether none came, they
\* were cleared, or all that came lay in the dead zone, it returns to the arm.
CoastsWhenSilent ==
  [][kind = "vr_vel" /\ (RtNoDelta \/ RtDeltaGone \/ RtApply) =>
       idle_coast' \/ quiet' <= Timeout]_vars

\* A packet that came while the plan runs reaches the arm unless a newer one
\* replaces it: none is stuck behind a counter that was reset, or that was read
\* before the packet was stored.
NewestApplied ==
  pc # "off" /\ inited /\ target_ee_delta # None /\ target_ee_delta.number > before
    ~> pc = "off" \/ target_ee_delta = None \/ last_applied = target_ee_delta.number

\* stop_teleop and stop end the running plan.
StopEndsTeleop == nrt = "clearGrip" /\ pc # "off" ~> pc = "off"

(* What a comment of the code claims and TLC refutes. *)

\* a10_vr_vel_plan.hpp:11: SET_EE_DELTA is added to the target, so no packet is
\* added twice.
AddedOnce == [][RtApply => target_ee_delta.number # last_applied]_vars

\* a10_policy_tcp_plan.hpp:32: stop ends the plan that runs.  So a plan that has
\* not reached the end of its work is ended only by a stop entered after it was
\* prepared, not by one that was there before.
EndsOnlyWhenAsked == pc = "ending" => asked
=============================================================================
