---------------------------- MODULE HandGuiding ----------------------------
(***************************************************************************)
(* The plans that turn a measured force into motion in every cycle, without *)
(* phases: ForceDrag, ForceKeep and ForceAlign (robot.cpp), MasterSlave     *)
(* (master_slave.cpp).  A plan takes the zero of its sensor, waits until    *)
(* something is felt, and then moves as it is pushed.                       *)
(*                                                                          *)
(* One axis stands for six, which are treated alike; a force is in tenths of*)
(* a newton, after the plan's gain.  The equations of motion become a lag:  *)
(* the response `out' (a speed, or for ForceKeep's spring an offset) goes to*)
(* what balances the force, a Lag-th of the way in a cycle, in units in     *)
(* which a force balances as many.                                          *)
(***************************************************************************)
EXTENDS Integers, Sequences, Samples

CONSTANTS
  Plans,        \* the records below, by plan and arm
  Pushes,       \* forces on the axis; those of at most Noise are none
  StartPushes,  \* bound: those when a plan takes its zero
  Offsets,      \* what the sensor reads in the air: weight that is not compensated
  Noise,
  FilterLength, \* samples in the filter
  Learning,     \* cycles in which ForceDrag learns its bias
  Lag,
  Settled,      \* cycles after which the response to a steady force is complete
  MaxRuns       \* bound: plans started

Clamp(n, size) == IF n > size THEN size ELSE IF n < -size THEN -size ELSE n

ASSUME GuidingAssumption ==
  /\ Pushes \subseteq Int /\ StartPushes \subseteq Pushes /\ Offsets \subseteq Int
  /\ Noise \in Nat /\ FilterLength \in Nat \ {0} /\ Learning \in Nat /\ Lag \in Nat \ {0}
  /\ Settled \in Nat /\ MaxRuns \in Nat

-----------------------------------------------------------------------------
(* The plans.  start: from where the arm is, or after a motion to the start   *)
(* pose; await: what is waited for; contact: the force felt then; absolute:   *)
(* the zero is added back to the reading while waiting, or at work; filter:   *)
(* the dead zone comes before or after the filter, there is none, or nothing  *)
(* is put into it; cap, top, floor: limits of force and response, the least   *)
(* response; steps: a step is sent to the motors, always, never, or unless the*)
(* kinematics of velocities fails; quits: where a force that is no number ends*)
(* it; arm: the model parameter names one of the arms; starts: the least push *)
(* that moves it from rest, with noise in its zero and its bias.              *)

Guided ==
  [start |-> "joint", await |-> "any", contact |-> 30, absolute |-> {}, filter |-> "after",
   learns |-> FALSE, dead |-> 5, cap |-> 100, top |-> 10000, floor |-> 0, goal |-> 0,
   sign |-> 1, steps |-> "always", quits |-> {}, arm |-> TRUE, starts |-> 7]

\* The gain of 1.8 is in the numbers.  A speed below 0.001 m/s is set to 0: from
\* rest only 6.5 N and more get over it in one cycle, with M = 13 and a dead zone
\* of 3.5 N; the floor has the same place with a Lag of 2.
ForceDrag2 ==
  [Guided EXCEPT !.start = "once", !.contact = 54, !.absolute = {"await"}, !.filter = "before",
                 !.learns = TRUE, !.dead = 35, !.cap = 300, !.top = 225, !.floor = 33,
                 !.steps = "unless", !.quits = {"await", "work"}, !.starts = 67]

\* The first arm computes velocities and sends nothing.
ForceDrag1 ==
  [Guided EXCEPT !.start = "once", !.absolute = {"await"}, !.dead = 2, !.cap = 50,
                 !.steps = "never", !.quits = {"await"}]
ForceDragNoArm == [ForceDrag1 EXCEPT !.filter = "unfilled"]

\* A spring to the start pose.  The second arm's filter is never filled.
ForceKeep1 == [Guided EXCEPT !.absolute = {"work"}, !.cap = 150]
ForceKeep2 == [Guided EXCEPT !.filter = "unfilled", !.cap = 150]
ForceKeepNoArm == [Guided EXCEPT !.arm = FALSE]

\* Waits for no contact; filters, but moves by what is not filtered.
MasterSlave == [Guided EXCEPT !.await = "none", !.filter = "none"]

\* Goes down until it touches, then holds a force of -5 N.
ForceAlign ==
  [Guided EXCEPT !.await = "approach", !.contact = 20, !.filter = "none", !.goal = -50, !.sign = -1]
ForceAlignNoArm == [ForceAlign EXCEPT !.arm = FALSE]

\* What the plans have in common: limits are sizes, and the least response is one
\* that is allowed; what is learnt is learnt of the filtered force less the zero.
ASSUME PlansAssumption ==
  \A p \in DOMAIN Plans : LET it == Plans[p] IN
    /\ it.dead \in Nat /\ it.cap \in Nat /\ it.top \in Nat /\ it.floor \in 0 .. it.top
    /\ it.goal \in Int /\ it.sign \in {1, -1} /\ it.learns \in BOOLEAN
    /\ it.filter \in {"before", "after", "none", "unfilled"}
    /\ it.steps \in {"always", "never", "unless"}
    /\ it.learns => it.filter = "before" /\ "work" \notin it.absolute

\* The force on the axis is one of a hand, or noise.  The dead zones are for the
\* noise, also with a zero, and with a bias, that were taken of it.
Pushed(f) == Abs(f) > Noise
ASSUME NoiseAssumption ==
  /\ \A f, g \in Pushes : ~Pushed(f) /\ ~Pushed(g) => Abs(f - g) <= Noise
  /\ \A p \in DOMAIN Plans : LET it == Plans[p] IN
       Noise < it.dead /\ (it.learns => 2 * Noise < it.dead)

-----------------------------------------------------------------------------
VARIABLES
  guide,        \* the plan that runs, or ran last
  guideStage,   \* "start", "await", "work", or "over" when none runs
  weight,
  push,         \* the force in this cycle
  zero,         \* arm_init_force
  buffer,       \* force_buffer, oldest first
  out,          \* v_c
  step,         \* the step sent to the motors in this cycle
  bias, learnt, \* static: kept from one start to the next
  steady,       \* history: cycles of work since push or bias changed, up to Settled
  zeroPushed,   \* history: pushed when the zero was taken
  biasPushed,   \* history: pushed when the bias was learnt, or when its zero was taken
  runs

guideVars == <<guide, guideStage, weight, push, zero, buffer, out, step, bias, learnt,
               steady, zeroPushed, biasPushed, runs>>

Mine == Plans[guide]
Unfilled == [i \in 1..FilterLength |-> 0]

GuideInit ==
  /\ guide \in DOMAIN Plans /\ guideStage = "over" /\ weight \in Offsets
  /\ push = 0 /\ zero = 0 /\ buffer = Unfilled /\ out = 0 /\ step = 0
  /\ bias = 0 /\ learnt = 0 /\ steady = 0 /\ zeroPushed = FALSE /\ biasPushed = FALSE
  /\ runs = 0

-----------------------------------------------------------------------------
(* Forces. *)

\* Mutant of getForceData: the zero is added back everywhere.
getForceDataRaw(when, f) == f + weight

\* The reading without the zero taken at the start, or with it added back.
getForceData(when, f) ==
  IF when \in Mine.absolute THEN f + weight ELSE f + weight - zero

\* The dead zone and the cap.
Limited(f) ==
  IF Abs(f) < Mine.dead THEN 0 ELSE Clamp(f, Mine.cap)

forceFilter(f) == Append(Tail(buffer), f)
Mean(samples) == Total(samples) \div FilterLength

\* The bias moves toward the force.
Learns == Mine.learns /\ learnt < Learning
Bias(f) == IF Learns THEN (bias + f) \div 2 ELSE bias

\* What acts on the arm: f is the force, filled the filter with it.
Acting(f, filled) ==
  CASE Mine.filter = "before"   -> Limited(Mean(filled) - (IF Mine.learns THEN Bias(Mean(filled)) ELSE 0))
    [] Mine.filter = "after"    -> Mean(filled)
    [] Mine.filter = "none"     -> Limited(f)
    [] Mine.filter = "unfilled" -> 0

Balance(acting) == Mine.goal + Mine.sign * acting

-----------------------------------------------------------------------------
(* Motion. *)

\* What a cycle leaves of a distance: it goes one Lag-th of the way, at least one unit.
Left(d) == d - (d + Lag - 1) \div Lag
Toward(a, b) == IF a <= b THEN b - Left(b - a) ELSE b + Left(a - b)

Topped(v) == Clamp(v, Mine.top)
Floored(v) == IF Abs(v) < Mine.floor THEN 0 ELSE v
Response(v, acting) == Floored(Topped(Toward(v, Balance(acting))))

\* What n cycles leave of it.
Remaining(d, n) ==
  LET left[i \in 0 .. n] == IF i = 0 THEN d ELSE Left(left[i - 1])
  IN  left[n]

\* Settled cycles fill the filter and end every response of a plan: from one cap
\* to the other, about its goal.
ASSUME SettledAssumption ==
  /\ FilterLength <= Settled
  /\ \A p \in DOMAIN Plans :
       Remaining(2 * (Abs(Plans[p].goal) + Plans[p].cap), Settled - FilterLength) = 0

\* A push that starts a plan's motion is beyond its dead zone, and one cycle of it
\* beyond its floor, with noise in its reading.
ASSUME StartsAssumption ==
  \A p \in DOMAIN Plans : LET it == Plans[p] IN
    /\ it.starts \in Nat /\ it.starts >= it.dead + 2 * Noise
    /\ it.floor # 0 => /\ it.goal = 0 /\ it.starts <= it.cap
                       /\ (it.starts - 2 * Noise + Lag - 1) \div Lag >= it.floor

-----------------------------------------------------------------------------
(* The plan. *)

\* The command makes a new plan.
Start ==
  /\ guideStage = "over" /\ runs < MaxRuns
  /\ guide' \in DOMAIN Plans
  /\ guideStage' = "start" /\ runs' = runs + 1
  /\ UNCHANGED <<weight, push, zero, buffer, out, step, bias, learnt, steady,
                 zeroPushed, biasPushed>>

\* The first cycle, or the one in which the start pose is reached.
TakeZero ==
  /\ guideStage = "start"
  /\ push' \in StartPushes
  /\ zero' = push' + weight /\ zeroPushed' = Pushed(push')
  /\ guideStage' = IF Mine.await = "none" THEN "work" ELSE "await"
  /\ UNCHANGED <<guide, weight, buffer, out, step, bias, learnt, steady, biasPushed, runs>>

\* Any of twelve components may be what is felt.
AwaitContact ==
  /\ guideStage = "await" /\ Mine.await = "any"
  /\ push' \in StartPushes
  /\ \E elsewhere \in BOOLEAN :
       guideStage' = IF elsewhere \/ Abs(getForceData("await", push')) > Mine.contact
                  THEN "work" ELSE "await"
  /\ UNCHANGED <<guide, weight, zero, buffer, out, step, bias, learnt, steady,
                 zeroPushed, biasPushed, runs>>

AlignStep ==
  /\ guideStage = "await" /\ Mine.await = "approach" /\ Mine.arm
  /\ push' \in StartPushes
  /\ IF Abs(Limited(getForceData("await", push'))) > Mine.contact
       THEN guideStage' = "work" /\ step' = 0
       ELSE guideStage' = "await" /\ step' = -1
  /\ UNCHANGED <<guide, weight, zero, buffer, out, bias, learnt, steady,
                 zeroPushed, biasPushed, runs>>

\* Steps sent for a response
Sent(v) ==
  CASE Mine.steps = "always" -> {v}
    [] Mine.steps = "never"  -> {0}
    [] Mine.steps = "unless" -> {v, 0}

\* Mutant of Work: the filter's place is not moved on.
WorkStuck ==
  /\ guideStage = "work" /\ Mine.arm
  /\ push' \in Pushes
  /\ LET f == getForceData("work", push')
         filled == [buffer EXCEPT ![1] = IF Mine.filter = "after" THEN Limited(f) ELSE f]
     IN  /\ buffer' = filled
         /\ bias' = Bias(Mean(filled))
         /\ out' = Response(out, Acting(f, filled))
  /\ learnt' = IF Learns THEN learnt + 1 ELSE learnt
  /\ biasPushed' = (biasPushed \/ (Learns /\ (zeroPushed \/ Pushed(push'))))
  /\ step' \in Sent(out')
  /\ steady' = IF push' # push \/ Learns THEN 0 ELSE IF steady < Settled THEN steady + 1 ELSE steady
  /\ UNCHANGED <<guide, guideStage, weight, zero, zeroPushed, runs>>

Work ==
  /\ guideStage = "work" /\ Mine.arm
  /\ push' \in Pushes
  /\ LET f == getForceData("work", push')
         filled == forceFilter(IF Mine.filter = "after" THEN Limited(f) ELSE f)
     IN  /\ buffer' = filled
         /\ bias' = Bias(Mean(filled))
         /\ out' = Response(out, Acting(f, filled))
  /\ learnt' = IF Learns THEN learnt + 1 ELSE learnt
  /\ biasPushed' = (biasPushed \/ (Learns /\ (zeroPushed \/ Pushed(push'))))
  /\ step' \in Sent(out')
  /\ steady' = IF push' # push \/ Learns THEN 0 ELSE IF steady < Settled THEN steady + 1 ELSE steady
  /\ UNCHANGED <<guide, guideStage, weight, zero, zeroPushed, runs>>

\* The plan is gone; what is static stays.
GuideEnds ==
  /\ guideStage' = "over"
  /\ push' = 0 /\ zero' = 0 /\ zeroPushed' = FALSE
  /\ buffer' = Unfilled /\ out' = 0 /\ step' = 0 /\ steady' = 0
  /\ UNCHANGED <<guide, weight, bias, learnt, biasPushed, runs>>

\* A model that is neither arm's, where the code looks at it
NoGuideArm ==
  /\ ~Mine.arm
  /\ \/ guideStage = "work"
     \/ guideStage = "await" /\ Mine.await = "approach"
  /\ GuideEnds

\* A force that is no number; a pose the arm cannot take, which throws.
Broken == guideStage \in Mine.quits /\ GuideEnds
Unreachable ==
  /\ \/ guideStage = "start" /\ Mine.start = "joint"
     \/ guideStage = "await" /\ Mine.await = "approach"
     \/ guideStage = "work" /\ Mine.steps # "never"
  /\ GuideEnds

\* The count of cycles runs out.
GuideCut == guideStage # "over" /\ GuideEnds

-----------------------------------------------------------------------------
GuideStep ==
  \/ TakeZero \/ AwaitContact \/ AlignStep \/ Work
  \/ NoGuideArm \/ Broken \/ Unreachable \/ GuideCut
GuideNext == Start \/ GuideStep
GuideSpec == GuideInit /\ [][GuideNext]_guideVars
-----------------------------------------------------------------------------
(* Properties *)

\* ForceDrag1 sends no steps, and nothing gets into the filters of ForceDragNoArm and
\* ForceKeep2: they do not move, whoever pushes.
MovesArm == Mine.steps # "never" /\ Mine.filter # "unfilled"

\* The zero was not taken of a push, nor the bias of a plan that learns one; a plan
\* that adds the zero back reads no weight.
Unbiased ==
  /\ ~zeroPushed /\ (Mine.learns => ~biasPushed)
  /\ "work" \in Mine.absolute => weight = 0

\* Zero, filter, bias, dead zone, caps, floor and lag act on a push one after another
\* (robot.cpp:3661-3854).  An arm pushed steadily, and hard enough to start it, is in
\* the end sent steps that are as large as the push, on its side, but for caps and
\* noise; ForceDrag stands in a cycle in which the kinematics of velocities fails.
MovesAsPushed ==
  guideStage = "work" /\ steady = Settled /\ MovesArm /\ Unbiased /\ Abs(push) >= Mine.starts =>
    \/ Abs(step - Clamp(Mine.goal + Mine.sign * Clamp(push, Mine.cap), Mine.top)) <= 2 * Noise
    \/ step = 0 /\ Mine.steps = "unless"

\* An arm nobody holds rests, if nobody held it when its zero and its bias were taken.
RestsWhenReleased ==
  guideStage = "work" /\ steady = Settled /\ ~Pushed(push) /\ Unbiased /\ Mine.goal = 0 => out = 0
=============================================================================
