--------------------------- MODULE GripperBridge ---------------------------
(***************************************************************************)
(* The gripper thread (run_gripper_service_loop, a10_gripper_bridge.cpp):   *)
(* it integrates the joystick value the VR plans leave in g_vr_grip_cmd     *)
(* into a target opening, sends the target to the servo when it has moved   *)
(* by at least k_send_mm_eps, and reads the servo back after a pause.  All  *)
(* openings are whole numbers of one small unit of length.                  *)
(***************************************************************************)
EXTENDS Integers

CONSTANTS
  Opening,        \* k_gripper_mm_max; the gripper is closed at 0
  Step,           \* travel of the target in one iteration at full joystick
  ServoStep,      \* travel of the servo in one iteration, at least
  Eps,            \* k_send_mm_eps
  IdleReads,      \* k_idle_read_interval
  MaxFaults       \* bound: reads of the servo that fail

ASSUME GripperAssumption ==
  /\ {Opening, Step, ServoStep, Eps, IdleReads} \subseteq Nat \ {0}
  /\ MaxFaults \in Nat

VARIABLES
  vr_grip_cmd,        \* g_vr_grip_cmd: -1 closes, +1 opens
  vr_grip_target,     \* g_vr_grip_target_mm
  vr_grip_actual,     \* g_vr_grip_actual_mm
  sync,               \* a VR plan starts: the opening it has read, or -1
  target_mm, last_sent_mm, idle_ticks,
  loop,               \* where the iteration is
  cmd,                \* the joystick value it uses
  goal, servo,        \* where the servo was told to go, and where it is
  object,             \* the opening below which the servo meets resistance
  faults,             \* reads that failed so far
  misread             \* history: the opening last sent or read is of a read that
                      \* failed, or that found the servo on its way

sharedVars == <<vr_grip_cmd, vr_grip_target, vr_grip_actual, sync>>
loopVars == <<target_mm, last_sent_mm, idle_ticks, loop, cmd>>
motorVars == <<goal, servo, object>>
gripVars == <<sharedVars, loopVars, motorVars, faults, misread>>

Openings == 0..Opening

Clamp(mm) == IF mm < 0 THEN 0 ELSE IF mm > Opening THEN Opening ELSE mm
Apart(a, b) == IF a < b THEN b - a ELSE a - b
Least(a, b) == IF a < b THEN a ELSE b
Most(a, b) == IF a < b THEN b ELSE a

\* Where the servo told to go to mm comes to rest: there, or at the object.
StopFor(mm) == Most(mm, object)

\* The thread begins by reading the servo and copying the opening.  (A failure
\* of that first read has the effect of one of ReadBack.)
GripInit ==
  /\ servo \in Openings /\ object \in 0..servo
  /\ goal = servo /\ target_mm = servo /\ last_sent_mm = servo
  /\ vr_grip_cmd = 0 /\ vr_grip_target = servo /\ vr_grip_actual = servo /\ sync = -1
  /\ idle_ticks = 0 /\ loop = "sleep" /\ cmd = 0 /\ faults = 0 /\ misread = FALSE

-----------------------------------------------------------------------------
(* The VR plans: joystick values, and sync_vr_grip_target_from_actual. *)

SetGripCmd ==
  /\ vr_grip_cmd' \in {-1, 0, 1} \ {vr_grip_cmd}
  /\ UNCHANGED <<vr_grip_target, vr_grip_actual, sync, loopVars, motorVars, faults, misread>>

SyncRead ==
  /\ sync = -1
  /\ sync' = Clamp(vr_grip_actual)
  /\ UNCHANGED <<vr_grip_cmd, vr_grip_target, vr_grip_actual, loopVars, motorVars, faults, misread>>

SyncStore ==
  /\ sync # -1
  /\ vr_grip_target' = sync /\ vr_grip_actual' = sync
  /\ sync' = -1
  /\ UNCHANGED <<vr_grip_cmd, loopVars, motorVars, faults, misread>>

-----------------------------------------------------------------------------
(* One iteration of the loop. *)

\* During the sleep the servo comes closer to its goal, or to the object.
ServoMoves ==
  LET stop == StopFor(goal)
  IN  servo' = CASE Apart(servo, stop) <= ServoStep -> stop
                 [] servo < stop - ServoStep -> servo + ServoStep
                 [] OTHER -> servo - ServoStep

\* Mutant of Integrate: starts from the shared target instead of its own.
IntegrateShared ==
  /\ loop = "sleep"
  /\ ServoMoves
  /\ cmd' = vr_grip_cmd
  /\ target_mm' = Clamp(vr_grip_target + vr_grip_cmd * Step)
  /\ vr_grip_target' = target_mm'
  /\ loop' = IF cmd' = 0 THEN "idle" ELSE "moving"
  /\ UNCHANGED <<vr_grip_cmd, vr_grip_actual, sync, last_sent_mm, idle_ticks, goal, object,
                 faults, misread>>

\* The joystick moves the target.
Integrate ==
  /\ loop = "sleep"
  /\ ServoMoves
  /\ cmd' = vr_grip_cmd
  /\ target_mm' = Clamp(target_mm + vr_grip_cmd * Step)
  /\ vr_grip_target' = target_mm'
  /\ loop' = IF cmd' = 0 THEN "idle" ELSE "moving"
  /\ UNCHANGED <<vr_grip_cmd, vr_grip_actual, sync, last_sent_mm, idle_ticks, goal, object,
                 faults, misread>>

\* Mutant of Moving: every target counts as sent.
MovingForgetful ==
  /\ loop = "moving"
  /\ goal' = IF Apart(target_mm, last_sent_mm) >= Eps THEN target_mm ELSE goal
  /\ last_sent_mm' = target_mm /\ misread' = FALSE
  /\ idle_ticks' = 0
  /\ vr_grip_actual' = target_mm
  /\ loop' = "sleep"
  /\ UNCHANGED <<vr_grip_cmd, vr_grip_target, sync, target_mm, cmd, servo, object, faults>>

\* The joystick is pressed: send the target once it has moved far enough, and
\* publish it as the actual opening.
Moving ==
  /\ loop = "moving"
  /\ IF Apart(target_mm, last_sent_mm) >= Eps
       THEN goal' = target_mm /\ last_sent_mm' = target_mm /\ misread' = FALSE
       ELSE UNCHANGED <<goal, last_sent_mm, misread>>
  /\ idle_ticks' = 0
  /\ vr_grip_actual' = target_mm
  /\ loop' = "sleep"
  /\ UNCHANGED <<vr_grip_cmd, vr_grip_target, sync, target_mm, cmd, servo, object, faults>>

\* The joystick is released: count the iteration.
Idle ==
  /\ loop = "idle"
  /\ idle_ticks' = IF idle_ticks + 1 >= IdleReads THEN 0 ELSE idle_ticks + 1
  /\ loop' = IF idle_ticks + 1 >= IdleReads THEN "read" ELSE "sleep"
  /\ UNCHANGED <<sharedVars, target_mm, last_sent_mm, cmd, motorVars, faults, misread>>

\* Mutant of ReadBack: what is read becomes the target but is not published.
ReadBackUnpublished ==
  /\ loop = "read"
  /\ target_mm' = servo /\ last_sent_mm' = servo /\ vr_grip_target' = servo
  /\ misread' = (servo # StopFor(goal))
  /\ loop' = "sleep"
  /\ UNCHANGED <<vr_grip_cmd, vr_grip_actual, sync, idle_ticks, cmd, motorVars, faults>>

\* get_position_mm: the opening, or 0 when the servo does not answer.  It
\* becomes the target.
ReadBack ==
  /\ loop = "read"
  /\ \/ target_mm' = servo /\ UNCHANGED faults
     \/ target_mm' = 0 /\ faults < MaxFaults /\ faults' = faults + 1
  /\ last_sent_mm' = target_mm' /\ misread' = (target_mm' # StopFor(goal))
  /\ vr_grip_actual' = target_mm' /\ vr_grip_target' = target_mm'
  /\ loop' = "sleep"
  /\ UNCHANGED <<vr_grip_cmd, sync, idle_ticks, cmd, motorVars>>

-----------------------------------------------------------------------------
LoopStep == Integrate \/ Moving \/ Idle \/ ReadBack
GripNext == SetGripCmd \/ SyncRead \/ SyncStore \/ LoopStep
GripSpec == GripInit /\ [][GripNext]_gripVars

\* The thread never ends, and a plan that starts gets on.
FairGripSpec == GripSpec /\ WF_gripVars(LoopStep) /\ WF_gripVars(SyncStore)
-----------------------------------------------------------------------------
(* Properties *)

TypeOK ==
  /\ {vr_grip_target, vr_grip_actual, target_mm, last_sent_mm, goal, servo, object}
       \subseteq Openings
  /\ sync \in Openings \cup {-1}
  /\ {vr_grip_cmd, cmd} \subseteq {-1, 0, 1}
  /\ idle_ticks \in 0..(IdleReads - 1)
  /\ loop \in {"sleep", "moving", "idle", "read"}
  /\ faults \in 0..MaxFaults /\ misread \in BOOLEAN

\* What is sent to the servo while the joystick is pushed one way lies that way of
\* the opening last sent or read; and it never lies the other way of both where the
\* servo is and where it is going, unless that opening was misread.
SentPushedWay ==
  goal' # goal =>
    /\ cmd = 1 => goal' > last_sent_mm /\ (misread \/ goal' >= Least(goal, servo))
    /\ cmd = -1 => goal' < last_sent_mm /\ (misread \/ goal' <= Most(goal, servo))

\* The joystick moves the gripper the way it is pushed, however slow the servo, and
\* although the target is rebased in between on openings read or published.  (After a
\* read that failed, or that found the servo still on its way, the first sending may
\* turn it back: nothing in the code waits for the servo to arrive.)
PushedWay == [][SentPushedWay]_gripVars

\* The opening clients read in GET_FOLLOWER_STATE becomes the true one once the
\* joystick is at rest, although a starting plan may put back an older one.
ActualCatchesUp ==
  <>[](vr_grip_cmd = 0 /\ sync = -1) => <>[](vr_grip_actual = servo)

\* However slow grip_vel is, small travels add up: a joystick held down closes
\* the gripper, but for what is too little to be sent.  (After a misread opening it
\* need not: what was read counts as sent, although the servo goes elsewhere.)
ClosesFully == <>[](vr_grip_cmd = -1 /\ ~misread) => <>[](goal < Eps)
=============================================================================
