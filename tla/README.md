# A10 dual-arm controller: TLA+ models, TLC checks and TLAPS proofs

The repository is the control program of a two-armed robot. A real-time control
server (the external *aris* and *kaanhbot* libraries) runs one *plan* at a time,
calling its `executeRT` every 2 ms; plans are started by commands entered on a
console. Around it run a TCP server that takes targets from a learned policy or
from a VR client, a thread that drives a gripper over a serial line, a thread that
publishes the joints, and, on another computer, a Python program that connects the
robot to a policy inference server.

The modules here model the parts whose correctness depends on the order of events:
threads that share buffers, clients that time out, counters that say what has been
consumed, and stages a plan goes through while outside parties misbehave.

## 1. Inventory

| Component | State it keeps | Operations | Interacts with |
|---|---|---|---|
| **TCP server** `a10_tcp_server.cpp` | `target_q_`, `target_q_batch_`, `batch_commit_seq_`, `target_ee_delta_`, `ee_delta_seq_`, `robot_q_`, each under its own mutex or atomic | one reader thread per client: SET_TARGET, SET_POLICY_BATCH, SET_EE_DELTA, GET_FOLLOWER_STATE, GET_POLICY_STATUS | plans peek, pop, fetch and clear; state thread publishes |
| **Plan `policy`, command `stop`** `a10_policy_tcp_plan.cpp` | segment in execution, `last_batch_q1_`, commit number followed, mode; a global stop flag | prepareNrt (command thread), executeRT (real-time thread) | server's batch queue, motors |
| **Plans `vr`, `vr_vel`, command `stop_teleop`** `a10_vr_plan.cpp`, `a10_vr_vel_plan.cpp` | target pose, packet number consumed, cycles since the last packet; a global stop flag | the same two | server's increment, gripper joystick |
| **Gripper thread** `a10_gripper_bridge.cpp` | target, last sent, idle count; four atomics shared with the plans | one loop of 33 ms | BusServo; VR plans |
| **BusServo, SerialPort** `gripper.cpp` | input buffer, calibration tables | request and reply with time-outs, interpolation | the servo |
| **State thread** `main.cpp` | - | publishes the joints every 33 ms unless keyframes are queued | server |
| **Python bridge** `client/bridge.py`, `client/robot_tcp_client.py` | socket, time-outs | observe, infer, send a batch, wait until idle, repeat | server over TCP, inference server |
| **Tactile collection `m_tdc`** `tactile_collect_real.cpp` | stage, sample, wait monitor, contact flag, rows written, request in flight | executeRT, a TCP client inside it | a collector program on another computer, CSV file |
| **Riveting plans** `rivetcomd.cpp` | phase flags, force filter and zero, hits and onset of the checks, sums, segment of a search | executeRT, one `if` per phase | motors, force sensors |
| **Assembly plans** `assemcomd.cpp` | the same | the same; Insert | motors, force sensors |
| **Data collection plans** `datacomd.cpp` | the same, and a log | the same | motors, force sensors, log |
| **Phase plans of `robot.cpp`** | the same (ModelInit, ModelComP, Demo, PegOutHole, Search, Arm2PegInHole, PlateAllign*) | executeRT | motors, force sensors |
| **Hand guiding** `robot.cpp` (ForceDrag, ForceKeep, ForceAlign), `master_slave.cpp` | zero of the sensor, filter of ten samples, velocity commanded; ForceDrag's bias is `static` | executeRT: take the zero, wait for a touch, turn force into motion | motors, force sensors |
| **Trajectories** `robot.cpp` (JointTraj, PoseTraj, ModelForward, PressDown), `curve.cpp` | what was read in the first cycle | executeRT: a command that is a function of the count | motors |
| **Zero gravity** `test.cpp` | position and velocity of every cycle, kept in arrays; target in the buffer zone | executeRT: safe zone, buffer, fence | motors, force sensor |
| **Numeric helpers** `gravcomp`, `searchDir`, `movel` | - | real arithmetic | plans |
| **Cameras, inference client** `client/usb_camera.py`, `openpi_ws_client.py` | - | I/O | Python bridge |

What is hard here, and what makes each part correct:

* **Server and policy plan.** Reader threads replace the queue while the real-time
  thread is between its peek and its pop; the commit number and the queue are read
  separately; `stop` clears what another thread fills. Correct means: the arm follows
  keyframes of the newest batch, in order, none twice; a keyframe being executed is
  still counted as remaining; a command never jumps; a stop is obeyed.
* **Bridge loop.** Polling, an observation that is frozen during execution, time-outs
  of both kinds, and reconnection while the old connection is still being served.
  Correct means: answers are matched with requests, idle means executed, an observation
  is newer than the last command, the loop goes on.
* **Teleoperation.** A packet and its number are written in separate steps, cleared by
  the command line, and taken at most once per cycle. Correct means: increments are
  not multiplied, the newest one is applied, a silent client stops the arm, a joystick
  does not outlive its plan, stops concern the running plan.
* **Gripper.** The target is rebased on what is read while the joystick moves it.
  Correct means: what the servo is sent lies the way the joystick is pushed, clients see
  the true opening, slow speeds still add up.
* **Serial line.** Replies carry no number. Correct means: a reading is the answer to
  its request; how wrong can it be if not.
* **Tactile collection.** Refusals, late acknowledgements, stuck motions and lost
  baselines at any stage. Correct means: a row of the data set belongs to its sample and
  its frames; the next sample starts from the baseline; the plan ends.
* **Force plans.** Phases share a filter, a zero, counters and sums, and every phase has
  its own limit. Correct means: the arm does not push on for longer than the filter is
  long, whatever follows what; a zero is a force in the air; a success is about one
  unbroken stretch of one check; a mean is of as many samples as it is divided by.
* **Hand guiding.** Zero, bias, dead zone, filter, caps and a floor act one after
  another, and a bias outlives its plan. Correct means: an arm pushed steadily is sent steps
  as large as the push and on its side, and rests when nobody holds it.
* **Trajectories and zero gravity.** Commands are not checked against steps while they
  run. Correct means: no leap between cycles, the target is commanded in the last one, the
  fence an axis is pushed to holds it.

The line-by-line list is `hazards` in `PROJECT.json`.

## 2. Modules

| Module | Models | Extends / composes |
|---|---|---|
| `RecedingHorizon` | what following a policy means: an abstract specification of three actions | - |
| `A10TcpServer` | the server's buffers and the operations on them | - |
| `A10PolicyTcp` | `policy`, `stop` and their three kinds of thread | extends `A10TcpServer`; implements `RecedingHorizon` |
| `PolicyBridge` | Python bridge, connections, readers, state thread | extends `A10PolicyTcp` |
| `A10VrTeleop` | `vr`, `vr_vel`, both stop commands, the increment buffer, the joystick | - |
| `GripperBridge` | the gripper thread with a servo and an object in its way | - |
| `ServoCalibration` | the calibration tables and both conversions, as functions | - |
| `BusServo` | the serial line | extends `ServoCalibration` |
| `TactileCollect` | `m_tdc` and its connection to the collector | - |
| `ForcePlan` | one cycle of each kind of phase of the force plans | - |
| `RivetPlans`, `AssemPlans`, `DataPlans`, `RobotPlans` | the phases of 21 plans and their numbers, as tables | read by `MCPlans` |
| `HandGuiding` | one axis of ForceDrag, ForceKeep, ForceAlign and MasterSlave, as records of one chain | - |
| `Samples` | the sum of the samples in a filter, the absolute value | read by `ForcePlan`, `HandGuiding`, `Trajectories` |
| `Trajectories` | a segment of `policy` in two joints, JointTraj, PoseTraj, ModelForward, PressDown | - |
| `ZeroG` | two axes of ZeroG with its zones | - |
| `MCPolicy`, `MCBridge`, `MCVrTeleop`, `MCGripper`, `MCTactile`, `MCPlans` | instances for TLC | the modules above; `MCGripper` runs `GripperBridge` or `BusServo`, `MCPlans` runs `ForcePlan`, `Trajectories`, `ZeroG` or `HandGuiding` |
| `A10PolicyTcpProofs`, `PolicyBridgeProofs`, `BusServoProofs`, `TactileCollectProofs`, `ForcePlanProofs` | theorems | the module each is named after (`TactileCollectProofs` after `TactileCollect`, and so on), TLAPS |
| `MotionProofs` | theorems | `Trajectories`, `ZeroG`, `GripperBridge` |
| `TeleopProofs` | theorems | `A10VrTeleop`, `HandGuiding` |
| `NatLemmas` | lemmas on natural numbers: least elements, induction as a fact about sets, quotients, sums of samples, a function applied n times | read by `BusServoProofs`, `MotionProofs`, `ForcePlanProofs`, `TeleopProofs` |

How code becomes actions:

* **A step ends where the code takes a lock or touches an atomic another thread uses.**
  What it then does to its own data belongs to that step. So `executeRT` of `policy` is
  a chain `RtTick`, `RtPop`, `RtLook`, `RtReadSeq`, `RtBegin`/`RtReject`, ... with `pc`
  as its place, and reader threads, `stop` and `policy` come in between; `executeRT` of
  `m_tdc`, which shares nothing with another thread, is one action per stage.
* **Joint vectors are one integer.** The code treats all axes alike and takes the largest
  difference; speed, threshold and interpolation keep their meaning on a line. A motor
  goes anywhere between where it is and its target. The fraction of a blend is left open
  except for its first and last cycle.
* **A phase is a record.** The force plans repeat the same cycles with different numbers:
  `joint` (approach in joint space, no look at the force), `init` (begin where the arm is),
  `contact` (until the sensor feels a threshold), `hold` and `search` (force control until
  a check succeeds; a search can run out of segments), `until`, `sweep` and `pull` (until
  a position, the end of a path or the limit of cycles), `collect` (average a force) and
  `retreat`. `ForcePlan` has one action per kind, the tables one record per phase with its
  limit (`brake`), zero, threshold, hits (`ticks`), window and period. A force is its
  largest component; a count n of the code is `Cycles(n) = n * Tick / 50`, all alike, so
  that ratios and orders of durations are kept; the filter of 10 samples has `Window`. A
  reference pose that is refreshed makes a check valid once more, and validity is open in
  every cycle anyway. The limit on cycles is `CutShort`, in any phase. The motor is where
  it was told to be in the cycle before.
* **A law of motion is a lag.** `HandGuiding` keeps what a cycle does to a force in its
  order (zero, filter or dead zone, bias, cap, floor) with the code's numbers in tenths of
  a newton; the damped mass behind it moves its response a `Lag`-th of the way to what
  balances the force, and at least one unit.
* **A trajectory is its formula.** `Trajectories` has the formulas of the code with
  fractions of a unit cut off; `ZeroG` has positions relative to the start, and the arrays
  the code fills in the safe zone as `x`, `v` and `fresh`.
* **Clients, operators, the servo, the arm and the collector are not obliged to anything.**
* **History variables** (`held`, `begun`, `lost`, ages of samples, `late`, `row`, `held`
  of the collector, `quiet` and `asked` of teleoperation, `misread` of the gripper) are
  written and never read by the actions.
* **Definitions named `...` in a comment "Mutant of X"** are X with a plausible bug;
  each property is checked to fail when one of them takes the place of X.

Where the real code differs in parameters, the constants of a module name them
(`MaxSkips` is `k_max_batch_skips_per_tick`, `HardMax` is `hard_max_stage_wait_count`);
bounds that only keep the state space finite are marked `bound:` at their declaration.

## 3. Runs

| Run | Module, bounds | Shows |
|---|---|---|
| `policy` | 2 commits of up to 2 keyframes before a stop, a target sent at any time, restarts, skips limited to 1 | `ExecutingIsFront`: what is executed is counted in `remaining`; `LostOnlyFirst`: a batch that replaces another can lose its first keyframe and no other; `NoJumpAtBegin`; `FollowsNewestPlan`: `A10PolicyTcp` implements `RecedingHorizon`; `NoFallback`: once keyframes are followed, `target_q_` never gets hold of the arm; `StopEndsPlan`, `QueueDrains` |
| `bridge` | batches of one keyframe, 2 sent; a time-out or a stop at any point, not both; 2 connections | `AnswerMatches`; `IdleMeansDone`; `FreshObservation`, with samples aged in cycles; `RoundCompletes` |
| `vr` | 2 readers, 2 packets, 3 commands of both kinds | `GripReleased`, `MotionBounded`; `CoastsWhenSilent`: the target of `vr_vel` returns to the arm when nothing has moved it for the time-out, also when packets come that all lie in the dead zone; `NewestApplied`, `StopEndsTeleop` |
| `gripper` | the thread: opening of 5 units, steps of 2, sending from 3, a servo half as fast as the target (so that a read may find it on its way), one read that fails | `PushedWay`, `ActualCatchesUp`, `ClosesFully` |
| | the line: every servo count and every 0.025 mm, beyond both ends; 4 requests, 2 time-outs, data that looks like a header | `OnTheCurve`, `HoldsStill`: exhaustive for positions; `StaleByFailures`, `LateRepliesOnly` |
| `collect` | 3 samples, 2 of them turning; a closed connection, a lost baseline | `OneRowPerSample`, `GoodRowsHaveFrames`, `NextFromBaseline`, `StabilizedOrSoft`, `Ends` |
| `plans` | force plans: all 21; 50 cycles last 2, a filter of 2 samples, forces in the air, of a touch and beyond every limit, distances around steps and tolerances | `NoBlindPush`, `ZeroedInTheAir`, `SettledLongEnough`, `OwnHits`; `FullSample`, of all plans but `Demo` |
| | paths and `ZeroG`: 45 ways of a segment, around one step and around several; all built-in trajectories from two poses; the whole curve; a safe zone of 5 units and a fence of 10, speeds up to 3, a snap within 3 | `NoLeap`, `EndsOnTarget`, `StopsAtTheFence` |
| | hand guiding: 9 plans and arms; pushes none, within the dead zones, hard enough to start any arm, and beyond every cap, also while zero and bias are taken; an uncompensated weight of 4 N, with one start, and none, with 2 starts; 12 steady cycles: 2 fill the filter, 10 halve the way between the largest caps to nothing | `MovesAsPushed`, about the step sent to the motors; `RestsWhenReleased` |

A behaviour of `gripper` is of the thread or of the serial line, one of `plans` of a force
plan, of a path, of `ZeroG` or of hand guiding, as the variable `model` of `MCGripper` and
`MCPlans` says: these modules share no variable, and what is not running does not change.

Two commits are enough for a batch to replace another at every point of a cycle, and two
rows for a first and a last keyframe, also of batches whose keyframes are too far away;
three samples for an acknowledgement to come one and two samples late; two time-outs for
a backlog to grow; three commands for a start, a stop and a restart; two cycles a period
for a hit to come in one and not in the other; 12 cycles for a response to settle whose
lag is 2; two starts for a bias to outlive its plan. More of the same adds no new order
of events, and the proofs of section 5 have no bounds. In `policy`, `bridge` and `vr`
the operator starts a plan only when none runs, which `StopEndsPlan` and
`StopEndsTeleop` need (run `stop_erased` is without it); of the theorems of section 5
only `ObservesAtRest` assumes it.

Six runs show a difference between the code and what its comments say, each listed
under `findings` with the quotation:

| Run | What the code does |
|---|---|
| `keyframe_lost` | with every keyframe within reach: a batch that arrives during a segment loses its first keyframe unseen, popped at the segment's end (`a10_policy_tcp_plan.cpp:281`) |
| `stop_erased` | `policy` entered right after `stop`, before the running plan's next cycle, erases the request, and the first plan runs on (line 433) |
| `batch_late` | a batch the client gave up on, still in an old connection, replaces the one it sent next, and `remaining = 0` is of the wrong batch (`a10_tcp_server.cpp:132`) |
| `delta_twice` | one VR packet can be added twice, and the one before it never (line 482) |
| `stop_kept` | a `stop` entered while nothing runs ends the `vr` or `vr_vel` started next (`a10_vr_vel_plan.cpp:379`) |
| `danger_held` | a dangerous force while frames are awaited is only logged (`tactile_collect_real.cpp:1616`) |

Other differences met while reading, which the models contain and no run is about:

* The same unconditional pop after a keyframe that is skipped (`a10_policy_tcp_plan.cpp:327`)
  may take the first keyframe of a batch that has come in between; `LostOnlyFirst` covers
  both places, `keyframe_lost` is about the other.
* Within a batch the distance that makes a keyframe be skipped is measured from the end
  of the last segment, not from the arm (`a10_policy_tcp_plan.cpp:306`, against
  `a10_policy_tcp_plan.hpp:14`); a batch committed between the read of the commit number
  and the peek has one segment that begins at the arm's position instead.
* A state requested before the first publication is read past the end of a vector
  (`a10_tcp_server.cpp:407`).
* A late reply of the servo is taken for the answer to the next request
  (`StaleByFailures` says how old it can be).
* A new `vr` plan starts with consumed sequence 0, so a packet that came before it was
  started is applied in its second cycle (`a10_vr_plan.cpp:226`).
* A segment of n cycles takes n - 1 steps (`a10_policy_tcp_plan.cpp:126`), so it exceeds
  the speed limit it is computed from by n/(n - 1).
* One failed read of the servo makes 0 the target (`gripper.cpp:415`), so that "open" then
  closes. A read that finds a slow servo still on its way (`a10_gripper_bridge.cpp:87`; at
  60 mm/s for `grip_vel` it need not be very slow) makes the opening of that moment the
  target, and a push in the same direction may then turn it back. Of both kinds, `misread`
  in `GripperBridge`, `PushedWay` says only that what is sent lies the pushed way of what was
  read, and a joystick held down need not close the gripper fully (the premise of
  `ClosesFully`).
* `Demo` divides by 30.0 (`robot.cpp:4671`) a sum of 20 samples (line 4643), so that its mean
  is two thirds of the force; `HoleInPeg`, with the same cap, divides by 20.0
  (`assemcomd.cpp:978`). `Demo` is the one member of `Misdivided`, which `FullSample` excepts.
* Joint motions take steps from target positions and judge arrival by actual ones
  (`rivetcomd.cpp:1698`, 1714). Most plans have step and tolerance equal, so that the least
  following error of a motor could leave a distance that is neither; the model's motors have
  none, and no property is about it.
* `velDeadZone` takes the velocity by value, so it limits nothing (`rivetcomd.cpp:1917`).
* Phases of `HoleInPeg` whose check stands behind a condition (`assemcomd.cpp:1610`, 1821)
  can succeed on a stretch with holes, and a contact felt before the zero is due leaves
  the zero of the phase before in force (`assemcomd.cpp:1067`).
* Phases 4 and 5 of `Insert` and phase 5 of `PlateAllignTest` are behind a `return 0`
  (`assemcomd.cpp:3816`, `robot.cpp:8653`) and are not in the tables.
* Plans return `N - count()`, so the limit of cycles ends a plan as if it had succeeded,
  in whatever phase it is. `ModelComP` has two limits (`robot.cpp:1524`): a stop that
  includes cycle 80000 ends it there, or with an error if it begins later; one that
  includes cycle 100000 lets it run past its limit.
* `ForceDrag`'s bias is `static` and learnt in the first 200 cycles after the first contact,
  whoever holds the arm then (`robot.cpp:3729`); later starts keep it. Learnt with a hand on
  the arm it drives an arm that is let go, which the line that makes small velocities zero
  against drifting (line 3796) does not prevent. `RestsWhenReleased` is of a bias learnt with
  nobody at the arm. The floor (line 3796) takes away what a single cycle adds: from rest, only 6.5 N
  and more start a motion (after the gain), not the 3.5 N of the dead zone; pushes between
  the two do nothing (`MovesAsPushed` begins at `starts`, 6.7 N, which allows for noise). The first arm's velocities are computed and never commanded.
* `ForceKeep` adds the zero back for the first arm, so a weight that is not compensated
  offsets it; the filter of its second arm is never filled (`robot.cpp:2944-2980`), so that
  it does not move, whoever pushes.
* `MasterSlave` moves by the force before filter and transformation
  (`master_slave.cpp:289`, against lines 270 and 278).
* `JointTraj` begins at the first point of its trajectory, wherever the arm is
  (`robot.cpp:8967`; `NoLeap` leaves that cycle out). `PoseTraj` interpolates Euler angles
  as they are read, so that a turn from -1 to 359 degrees goes the long way.
* `PressDown` stops at the simulated force of 10 N after 1/60 m and never gets to its depth
  of 2 cm.
* `ZeroG` stops an axis at the fence it is pushed to (`StopsAtTheFence`). One that
  was pushed backward turns round in the buffer, where the sign of its speed is applied
  twice (`test.cpp:548-578`), and passes the opposite fence if another axis is in its
  buffer then, because `isSave` looks there first (`test.cpp:176`). A return from the
  buffer reads elements of the arrays that were never written and commands the base of the
  arm (`test.cpp:132`). The snap to the fence (`test.cpp:564`) is a step of up to 1 mm in one
  cycle, twenty times the fastest one allowed before it.
* `MoveLL` reads parameters its command does not declare (`movel.cpp:192`) and throws.
* `m_tdc` accepts a return to the baseline softly after a turned sample without the
  stabilization (`tactile_collect_real.cpp:1881`, against line 69), and leaves samples
  without an acknowledgement (lines 1629, 1659 and 1710, against line 1613); a plan that
  runs out of cycles ends like one that finished (line 1407).

## 4. Fairness

* `WF(RtStep)`, `WF(executeRT)`: the real-time thread calls the running plan every 2 ms,
  and locks are held for a few instructions, so a cycle that has begun goes on.
* `WF(NrtStep)`: a command that has begun its `prepareNrt` finishes it.
* `PolicyBridge`: readers, the state thread and the client's own loop run on; the
  operator, time-outs and faults are not fair.
* `GripperBridge`: the loop is `while (true)` in a detached thread; the joystick is free.
* `A10VrTeleop`: besides these, a reader between its two steps goes on, and (strong
  fairness) kinematics does not fail for ever.
* `BusServo`, `ForcePlan`, `HandGuiding`, `Trajectories`, `ZeroG`: none; they have safety properties only.
* Nothing is assumed of clients, of the operator and of the tactile collector.

## 5. Proofs

`A10PolicyTcpProofs` proves, for every value of the constants that satisfies the
assumptions of `A10TcpServer` and `A10PolicyTcp` (positive stride, integer positions,
natural bounds), with no bound on threads' interleavings:

* `TypeCorrect`, `ExecutingFront`, `OnlyFirstLost`, `SmoothBegin`, `Committed`: the
  properties `TypeOK`, `ExecutingIsFront`, `LostOnlyFirst`, `NoJumpAtBegin`,
  `NoFallback` of the runs;
* `Refinement`: `Spec => FollowsNewestPlan`, i.e. the plan implements
  `RecedingHorizon`.

`ExecutingIsFront` is not inductive: whether the front is the keyframe in execution
depends on what was peeked in an earlier step and on which commit it belonged to. The
invariant `Inv` adds four parts. `QueueIsRun`: the queue is a run of consecutive rows of
the newest commit. `Phase`: which places of a cycle are compatible with a segment under
way. `PeekedIsFront`: a keyframe peeked and not popped is the front, or its commit is
over and no row of the newer commit has been popped (so the stray pop takes row 1 and
nothing else). `RestComesLater`: what is left of the batch followed lies behind the
keyframe begun last. `CommandAtLastGoal`, between segments, gives `SmoothBegin`. The
proof that a step keeps `Inv` goes through the actions one by one; actions of other
threads are handled together (`OthersInv`), since each only replaces, empties or
leaves the queue (`NewQueue`).

`PolicyBridgeProofs` begins with the lemma `LoopImplementsPlan`, `BridgeSpec => Spec`: it is
there to carry the plan's theorems over to the loop (`LoopExecutingFront`,
`LoopFollowsNewestPlan`) and says nothing of the bridge itself, whose steps are made of the
plan's. The one thing to show is that a batch on its way in a connection is one the plan's
specification allows a client to send (`RequestsOK`). Three theorems are about the client, for any
number of connections, batches, time-outs and stops:

* `AnswersMatch`: `AnswerMatches`. The invariant `Exchange` says that the client's own
  connection holds a request or an answer, not both, of the kind the client waits for, and
  that connections not opened yet hold nothing; a time-out moves to a new one, and readers
  of old ones answer into those.
* `IdleIsDone`: `IdleMeansDone`. The invariant `Calm`, needed only while nothing has been
  disturbed, says that one connection is in use, that the keyframe in hand is of the newest
  commit (so a pop loses nothing), that the robot is at rest unless a batch is out, and what
  each place of the client knows of it (`Acknowledged`). It builds on `Inv` and `Exchange`.
* `ObservesAtRest`: `FreshObservation`, for an operator who enters `policy` only when no plan
  runs (`OperatorWaits`), and as long as nothing is late. It is about three copies of the
  joints, each as old as what it was copied from: in the state thread's hand, in the server,
  at the client. The invariant `Fresh` says that no command will move while no batch is out
  (`Still`), that a segment of an older batch is to be stopped (`Superseded`), and that while
  the client rests the published copy is fresh, or will be before the rest is over
  (`Ripening`): a sample taken before the arm came to rest is in the thread's hand for at
  most one of its periods. That is why `TimesAssumption` has the rest longer than the period
  (50 ms against 33 ms by default), and `IdleMeansDone` is where the rest begins. Without
  `OperatorWaits` TLC refutes it: `policy` entered right after `stop` drops the stop request
  (`a10_policy_tcp_plan.cpp:433`), so the segment under way goes on with an empty queue, which
  the client takes for the end of its motion.

`TeleopProofs`, for any readers, packets, commands and time-out:

* `GripAtRest`: `GripReleased`, inductive together with the types of flags and joystick;
* `Coasting`: `CoastsWhenSilent`. The invariant `Counted` says that, while the target is not
  returning, the plan's own count of silent cycles is that of the cycles in which nothing has
  moved the target (`quiet`); they part at the packets in the dead zone, which reset the one
  and not the other;
* `MotionIsBounded`: `MotionBounded`. What is inductive is a count (`Covered`): increments
  applied, those the present counter would still let the plan take, and packets stored but
  not counted are together no more than the packets that came in, at each place of a cycle.

and for any pushes, zeros, offsets, window and lag, and any plans with the record fields and
limits of `PlansAssumption`:

* `FollowsThePush`: `MovesAsPushed`. Since the force, or the bias, last changed, each cycle
  puts the same sample into the filter (`Filled`); once it is full, its mean is that sample
  whatever it is rounded to, so what acts on the arm is what the chain makes of it
  (`ActingIs`). From then on the response is behind by no more than `Remaining` says, a way
  of which every cycle leaves what `Left` leaves (`Following`). That alone is not inductive:
  on its way through 0 a response may fall below the floor and be set to 0, which costs a
  cycle. It happens once, when the response turns round: it is 0 then, on the side of what it
  should become, where it is only set to 0 again if the push is too weak to start it from rest
  (`ResponseNears`, by `TowardOrder`). So `Behind` has three cases: one cycle ahead of that
  way; on its side of 0 and level with it; held back at 0. `SettledAssumption` says that the
  history variable `steady` counts as far as the longest way, from one cap to the other, lasts.
  That is about the chain; the property is about the push and the step sent. A zero and a bias
  that were not taken of a push are off by noise, so what is felt is the push but for twice the
  noise (`Untouched`, `FeltNear`), and caps bring it no further away (`ClampNear`); the case
  held back at 0 is excluded, because a push that starts the plan is carried over the floor by
  the first cycle from rest (`FirstCycle`, `GotGoing`, by `StartsAssumption`); and the step is
  the response (`Commanded`), or 0 where the kinematics of velocities fails. Plans that send no
  step, or whose filter is never filled (`MovesArm`), are outside it: `ForceDrag1`,
  `ForceDragNoArm` and `ForceKeep2` do not move.
* `RestsUntouched`: `RestsWhenReleased`. `Untouched` says that a zero taken while nobody pushed
  is off by noise, that so is the bias, and, while it is still being learnt, every sample that
  goes into it; `NoiseAssumption` says that noise is below the dead zones, and twice the noise
  below that of a plan that learns. What is felt is then 0, and the response nears it.

TLC evaluates these assumptions for the nine plans of run `plans`.

`BusServoProofs`, for any number of requests, bytes, time-outs and late replies:

* `LateOnly`: `LateRepliesOnly`; while a reply is awaited, every byte that has come or will
  come belongs to this request or to one whose reply had not come when it was sent
  (`Pending`);
* `FailuresBoundAge`: `StaleByFailures`. The invariant `Queue` says that what is on the line
  and what the servo has yet to answer are in the order of requests, and that each byte is
  younger than the failures so far allow.

The conversions between openings and positions, for every opening the run may ask for, on
both tables of the code. The lemmas need of a table only that its openings grow, its positions
fall, and fall by at most half a count per unit of opening (`Calibration`;
`CalibratedTables` checks it of the two):

* `CurveKept`: `OnTheCurve`. `PointsInOrder` carries the order of neighbours to all points, by
  induction; `ChordFacts` and `ChordEnds` bound a stretch and show that stretches meet;
* `StandsStill`: `HoldsStill`. Every position between the ends lies in a stretch (`Covered`);
  it is read to within half a count of an opening, and a stretch is flat enough for the way
  back to end where it began (`ThereAndBack`). Beyond both ends positions are held
  (`BeyondTheEnds`).

`TactileCollectProofs`, for any samples, limits and time-outs: `GoodRows`, `RowsInOrder`,
`FromBaseline`, `Stabilized`, the four safety properties of run `collect`. `CInv` adds to the
types that a request is only out in COLLECT and for the present sample (`Asked`), that the
target of a stage is fixed in its first cycle (`Targets`, which needs the reset of the wait
monitor), that the row of a sample is written when it is left (`RowsBehind`), that the
stabilization counts readings at the baseline only (`Steady`), and that lines, frames and
answers under way are of past samples or of the one time the present one is collected
(`Frames`).

`ForcePlanProofs`, for every table that satisfies `TableAssumption` (checks are named, a
first phase does not average, a window is as long as its samples need) and
`DivisorAssumption` (a sum is divided by the number of samples asked for, but in the plans
named in `Misdivided`), any tick and any forces: `HitsAreOwn` (`OwnHits`), `SettledUnbroken` (`SettledLongEnough`) and
`SampleIsFull` (`FullSample`). `Stretch` relates hits, the onset of a check and the cycles
for which it was valid without a break; `Sampling` relates the samples taken to the place in
the window. With `LimitAssumption` (limits below what an overloaded sensor reads, also after
the filter and less a zero taken in the air; a zero due no earlier than the filter is full)
also `NeverBlind` (`NoBlindPush`) and `ZeroOfAir` (`ZeroedInTheAir`). Both follow from
`Filtering` (`FilterInvariance`): in an approach every sample of the filter but the newest was
felt in the air, a zero is at most such a sum, and the newest samples are those of the cycles
in which the arm was moved against an overloaded sensor (`BlindTail`), so that as many of them
as the filter has room for exceed every limit. TLC evaluates the assumptions for the 21 tables.

`MotionProofs`:

* `EndsAtTheTarget` (`EndsOnTarget`) and `NeverLeaps` (`NoLeap`), for any way, speed limit and
  number of cycles of a segment, any poses and any length of a smoothstep. The invariant
  `PathInv` has one part per kind of plan (`SegmentAt`, `PointsAt`, `ForwardAt`, `PressAt`): the
  command is what the interpolation gave in the last cycle. What is left is arithmetic. A
  cycle of a segment adds the way divided by its steps (`SegmentSteps`); one of a smoothstep
  at most half again the mean, because 3C^2 minus twice what it adds is 3(C-2j-1)^2 + 1
  (`BlendGrows`); the curve of `ModelForward` bends by differences of squares, and its four
  joints are computed one by one (`CurveNear`). `QuotientsNear` carries each over to numbers
  rounded down.
* `FenceHolds` (`StopsAtTheFence`), for zones of any size and any forces, if a cycle's way at
  the limit of the speed is shorter than the snap and both fit in the buffer (`ZoneAssumption`;
  0.05 mm, 1 mm and 50 mm in the code). `Course` says that until a return from the buffer the
  last command is the last position computed, that the target is the fence on the side each
  axis moves to, and that only the cycle that ends the plan is faster than the limit. An axis
  is then either near its target and put on it, or so far that a step cannot reach it.
* `MovedAsPushed` (`PushedWay`), for any opening, step, threshold and object and a servo of any
  speed. The invariant is where the last opening sent lies unless it was misread (`Reckoned`):
  where the servo goes, or where it rests; and that what is not sent is too little to be, or
  lies the pushed way (`Unsent`), also when the joystick has been turned round in between.

Only model-checked:

* liveness (`StopEndsPlan`, `QueueDrains`, `RoundCompletes`, `NewestApplied`,
  `StopEndsTeleop`, `ActualCatchesUp`, `ClosesFully`, `Ends`): the provers at hand do not treat
  fairness and ENABLED.

Facts that need induction are stated of sets (`ByInduction`: a set that holds 0, and with n
also n + 1, holds every natural number), not with the library's theorems, whose parameter is an
operator. The sum of a filter (`Samples`) and `Remaining` are recursive functions for that reason.

## 6. Not modelled

* The aris and kaanhbot libraries: plans start in the order they were submitted, one at
  a time, a negative return value is an error, 0 ends a plan, a positive one continues.
* Parsing: a line is a request with its fields; a line with too few numbers is `None`.
* Kinematics, gravity compensation (`gravcomp`), search directions (`searchDir`), the VR pose
  filter: real arithmetic without control of its own. Damped masses are the lag of
  `HandGuiding`.
* `ModelGet`, `ModelSetPos`, `ModelTest` (read or set a model once), `CmdFtUnitTest` (prints
  the sensor), `MoveLL` (throws, see section 3).
* The pose mapping of `MasterSlave`, axes beyond the one or two modelled where all are
  treated alike, and coupling between them.
* `A10TcpServer::stop`, cameras, inference, examples, configuration.
* Memory-model effects weaker than the acquire and release pairs the code uses.

## 7. Plan

Done: 1 server and policy plan with proofs, 2 the loop with the Python bridge with stops
and its client's proofs, 3 teleoperation with proofs, 4 gripper, calibration and serial line
with proofs, 5 tactile collection with proofs, 6 the phase machines of the force plans with
proofs for every table, 7 hand guiding and master-slave with proofs, 8 trajectories, curve and segment
blend, zero gravity, with proofs.

What is left:

1. `PlanLifecycle`: submission, preparation, execution and the `N - count()` convention all
   plans share, as an abstract specification the phase machines implement.
2. A following error of the motors in `ForcePlan`, if a bound for it can be had: with one,
   arrival (`rivetcomd.cpp:161`) becomes a property worth stating.
3. The second limit of `ModelComP`.
