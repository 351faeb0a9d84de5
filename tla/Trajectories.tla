---------------------------- MODULE Trajectories ----------------------------
(***************************************************************************)
(* The plans whose command is a function of the count of cycles: a segment  *)
(* of the policy plan (a10_policy_tcp_plan.cpp), JointTrajCli, PoseTrajCli, *)
(* ModelForward and PressDown (robot.cpp) with the curve of curve.cpp.      *)
(*                                                                          *)
(* A command is a sequence of axes.  Fractions of a unit are cut off, where *)
(* the code keeps a double; a plan has its own unit.                        *)
(***************************************************************************)
EXTENDS Integers, Sequences, Samples

CONSTANTS
  CyclesPerSeg,   \* kCyclesPerSeg
  Segments,       \* the ways q1 - q0 a segment of the policy plan has, by axis
  ArmStep, GripStep,  \* max_arm_vel * k_dt, max_grip_vel * k_dt
  MinSteps,       \* min_steps: 2 for a keyframe, 1 for a single target
  Poses           \* where the arm may be when a plan starts: start_pe

Largest(a, b) == IF a < b THEN b ELSE a
CeilDiv(a, b) == (a + b - 1) \div b

ASSUME TrajectoryAssumption ==
  /\ CyclesPerSeg \in Nat \ {0} /\ ArmStep \in Nat \ {0} /\ GripStep \in Nat \ {0}
  /\ Segments \subseteq Int \X Int /\ MinSteps \subseteq Nat /\ Poses \subseteq [1..6 -> Int]

-----------------------------------------------------------------------------
(* A segment of the policy plan, in 0.00001 rad: an arm joint and the gripper.*)

StepLimit(axis) == IF axis = 1 THEN ArmStep ELSE GripStep

\* Mutant of blend_steps_seven: a cycle that is begun is not counted.
BlendStepsDown(way) == Largest(1, Largest(Abs(way[1]) \div ArmStep, Abs(way[2]) \div GripStep))

blend_steps_seven(way) ==
  Largest(1, Largest(CeilDiv(Abs(way[1]), ArmStep), CeilDiv(Abs(way[2]), GripStep)))

\* segment_lerp_alpha times the way of an axis, and lerp_q
Alpha(way, k, n) == IF n <= 1 THEN way ELSE (way * k) \div (n - 1)
lerp_q(way, k, n) == [axis \in 1..2 |-> Alpha(way[axis], k, n)]

-----------------------------------------------------------------------------
(* JointTrajCli and PoseTrajCli: smoothstep from point to point, in degrees.  *)

JointTraj ==
  << << <<-26, -31, 139, -77, -66, -13>>, <<-33, -16, 135, -83, -67, -16>>,
        <<-24, 1, 140, -108, -74, -10>>, <<-22, 17, 135, -126, -74, -8>> >>,
     << <<0, 0, 0, 0, 0, 0>>, <<-15, 25, -20, 10, -15, 5>>,
        <<-5, 10, -35, -10, 10, -5>>, <<0, 0, 0, 0, 0, 0>> >>,
     << <<0, 0, 0, 0, 0, 0>>, <<8, 8, 8, 0, 0, 0>>, <<-8, -8, -8, 0, 0, 0>>,
        <<8, -8, 8, 0, 0, 0>>, <<0, 0, 0, 0, 0, 0>> >> >>

\* Twenty-five trajectories of one point, in millimetres and degrees.
PoseTraj ==
  << <<604, -121, 248, 359, -49, 181>>, <<634, -32, 216, 349, -55, 186>>,
     <<559, 14, 230, 359, -47, 181>>, <<587, 88, 252, 348, -48, 187>>,
     <<527, 132, 231, 347, -53, 188>>, <<577, 130, 241, 347, -51, 198>>,
     <<566, 217, 222, 348, -47, 196>>, <<688, 206, 241, 355, -47, 196>>,
     <<760, 161, 252, 354, -40, 194>>, <<702, 111, 252, 353, -40, 188>>,
     <<762, 65, 252, 360, -37, 188>>, <<677, 22, 252, 351, -45, 189>>,
     <<752, -9, 237, 344, -45, 189>>, <<696, -49, 225, 338, -48, 191>>,
     <<822, -64, 234, 335, -47, 187>>, <<819, -9, 271, 352, -46, 181>>,
     <<842, 56, 289, 356, -33, 180>>, <<859, 105, 302, 356, -27, 180>>,
     <<846, 138, 298, 359, -29, 194>>, <<850, 208, 287, 358, -28, 197>>,
     <<876, 208, 256, 359, -46, 196>>, <<893, 147, 256, 363, -46, 188>>,
     <<893, 64, 277, 363, -41, 188>>, <<918, 9, 285, 350, -36, 187>>,
     <<936, -16, 271, 344, -40, 175>> >>

\* u * u * (3 - 2 u) of a way, u = k / CyclesPerSeg
Smooth(way, k) ==
  (way * k * k * (3 * CyclesPerSeg - 2 * k)) \div (CyclesPerSeg * CyclesPerSeg * CyclesPerSeg)

\* Mutant of InSegment: u starts at 0.
InSegmentLate(c) == (c - 1) % CyclesPerSeg

\* The cycle within its segment, counted from 1.
InSegment(c) == ((c - 1) % CyclesPerSeg) + 1
SegmentOf(c) == ((c - 1) \div CyclesPerSeg) + 1

\* The points a plan goes through, and the command in a cycle
AlongPoints(points, c) ==
  LET a == points[SegmentOf(c)]
      b == points[SegmentOf(c) + 1]
  IN  [axis \in 1..6 |-> a[axis] + Smooth(b[axis] - a[axis], InSegment(c))]
TotalCycles(points) == (Len(points) - 1) * CyclesPerSeg

-----------------------------------------------------------------------------
(* ModelForward: TCurve2 with a = 1, v = 3, p = 20, in millionths; a third of *)
(* a millisecond is the unit of time.                                         *)

CurveEnd == 20000000
Accelerated == 9000     \* ta_
Whole == 29000          \* tc_
getTCurve(count) ==
  LET t == 3 * (count + 1)
  IN  IF t >= Whole + 3 THEN CurveEnd
      ELSE IF t < Accelerated + 3 THEN (t * t) \div 18
      ELSE IF t < Whole - Accelerated + 3 THEN 4500000 + 1000 * (t - Accelerated)
      ELSE CurveEnd - ((Whole - t) * (Whole - t)) \div 18
FastestTStep == 3000
ForwardCycles == 10000

-----------------------------------------------------------------------------
(* PressDown, in 0.00001 m. *)

MaxDown == 2000
TimeLimit == 5000       \* cycles in t_limit
TooStrong(moved) == 600 * moved > 10 * 100000

-----------------------------------------------------------------------------
VARIABLES
  path,       \* the plan that runs, or ran last: its kind and what it goes through
  count,
  command,        \* the command of the last cycle; before the first where the arm is
  stage       \* "off", "runs", "done", "cut" (a limit, or kinematics)

pathVars == <<path, count, command, stage>>

NoPath == [kind |-> "none"]
PathInit == path = NoPath /\ count = 0 /\ command = <<>> /\ stage = "off"

\* The first cycle reads where the arm is; JointTrajCli does not.
StartPath ==
  /\ stage = "off"
  /\ \/ \E way \in Segments, least \in MinSteps :
          /\ path' = [kind |-> "segment", way |-> way, n |-> Largest(least, blend_steps_seven(way))]
          /\ command' = <<0, 0>>
     \/ \E i \in DOMAIN JointTraj, at \in Poses :
          path' = [kind |-> "joints", points |-> JointTraj[i]] /\ command' = at
     \/ \E i \in DOMAIN PoseTraj, at \in Poses :
          path' = [kind |-> "poses", points |-> <<at, PoseTraj[i]>>] /\ command' = at
     \/ path' = [kind |-> "forward"] /\ command' = <<0>>
     \/ path' = [kind |-> "press"] /\ command' = <<0>>
  /\ count' = 0 /\ stage' = "runs"

\* A parameter that names no trajectory or no arm: nothing is commanded.
Refused ==
  /\ stage = "off"
  /\ stage' = "cut" /\ UNCHANGED <<path, count, command>>

Cycle(kind) == stage = "runs" /\ path.kind = kind /\ count' = count + 1 /\ UNCHANGED path

SegmentCycle ==
  /\ Cycle("segment")
  /\ command' = lerp_q(path.way, count, path.n)
  /\ stage' = IF count' = path.n THEN "done" ELSE "runs"

\* total_cycles - count() is 0 in the last cycle.
PointsCycle(kind) ==
  /\ Cycle(kind)
  /\ command' = AlongPoints(path.points, count')
  /\ stage' = IF count' = TotalCycles(path.points) THEN "done" ELSE "runs"
JointTrajCycle == PointsCycle("joints")
PoseTrajCycle == PointsCycle("poses")

ForwardCycle ==
  /\ Cycle("forward")
  /\ command' = << getTCurve(count') >>
  /\ stage' = IF count' = ForwardCycles THEN "done" ELSE "runs"

\* The time, the depth and the simulated force are looked at before a step.
PressCycle ==
  /\ Cycle("press")
  /\ IF count' >= TimeLimit THEN stage' = "cut" /\ UNCHANGED command
     ELSE IF command[1] >= MaxDown \/ TooStrong(command[1])
            THEN stage' = "done" /\ UNCHANGED command
     ELSE /\ command' = << command[1] + 1 >>
          /\ UNCHANGED stage

\* A pose the arm cannot take; JointTrajCli and a segment ask for none.
Unsolved ==
  /\ stage = "runs" /\ path.kind \in {"poses", "forward", "press"}
  /\ stage' = "cut" /\ UNCHANGED <<path, count, command>>

PathNext ==
  \/ StartPath \/ Refused \/ SegmentCycle \/ JointTrajCycle \/ PoseTrajCycle
  \/ ForwardCycle \/ PressCycle \/ Unsolved

PathSpec == PathInit /\ [][PathNext]_pathVars
-----------------------------------------------------------------------------
(* Properties *)

\* The largest step an axis may make: a segment of n cycles has n - 1 steps, so
\* its speed exceeds the limit by n to n - 1; smoothstep is half again as fast as
\* the mean.
LargestStep(axis) ==
  CASE path.kind = "segment" -> IF path.n = 1 THEN StepLimit(axis)
                                ELSE CeilDiv(StepLimit(axis) * path.n, path.n - 1)
    [] path.kind \in {"joints", "poses"} ->
         LET s == SegmentOf(count + 1)
         IN  CeilDiv(3 * Abs(path.points[s + 1][axis] - path.points[s][axis]), 2 * CyclesPerSeg)
    [] path.kind = "forward" -> FastestTStep
    [] path.kind = "press" -> 1

\* Motors are not checked against steps while these plans run (CHECK_NONE), so the
\* commands themselves must not leap: from one cycle to the next, across the
\* points of a trajectory and the parts of a curve, and from where the arm is to
\* the first one.  JointTrajCli alone leaps, to its first point.
NoLeap ==
  [][stage = "runs" /\ (path.kind = "joints" => count > 0) =>
       \A axis \in DOMAIN command :
         Abs(command'[axis] - command[axis]) <= LargestStep(axis)]_pathVars

\* A plan that ends by itself has commanded its target, to the unit: the cycles a
\* plan counts, and the values it interpolates by, end together.  PressDown ends at
\* the first depth at which the force is too strong.
EndsOnTarget ==
  stage = "done" =>
    CASE path.kind = "segment" -> command = path.way
      [] path.kind \in {"joints", "poses"} -> command = path.points[Len(path.points)]
      [] path.kind = "forward" -> command = << CurveEnd >>
      [] path.kind = "press" ->
           command[1] <= MaxDown /\ TooStrong(command[1]) /\ ~TooStrong(command[1] - 1)
=============================================================================
