----------------------------- MODULE RobotPlans -----------------------------
(***************************************************************************)
(* The force plans of robot.cpp as tables for ForcePlan; the fields are    *)
(* explained in RivetPlans.                                                *)
(***************************************************************************)
EXTENDS Integers, Sequences

RobotArm == [move |-> 50, tolerance |-> 50, filtered |-> TRUE, forceEvery |-> 50]

\* ModelInit: to a preset; arrived when no joint has a whole step to go.
ModelInitArm == [RobotArm EXCEPT !.move = 100, !.tolerance = 100]
ModelInit1 == [kind |-> "joint", first |-> TRUE, points |-> FALSE]
ModelInit == [arm |-> ModelInitArm, phases |-> <<ModelInit1>>]

\* ModelComP: five poses, the mean force of ten samples in each, then back and
\* the compensation is computed.
ModelComPArm == [RobotArm EXCEPT !.move = 80, !.tolerance = 100, !.filtered = FALSE]
ModelComPMove == [kind |-> "joint", first |-> TRUE, points |-> FALSE]
ModelComPStop ==
  [kind |-> "collect", window |-> 2199, every |-> 200, cap |-> 10, divisor |-> 10, mayFail |-> FALSE]
ModelComP ==
  [arm |-> ModelComPArm,
   phases |-> <<ModelComPMove, ModelComPMove, ModelComPStop, ModelComPMove, ModelComPStop,
                ModelComPMove, ModelComPStop, ModelComPMove, ModelComPStop,
                ModelComPMove, ModelComPStop, ModelComPMove>>]

\* Demo: from where the arm is, contact, the force there, back, contact again.  The sum
\* of twenty samples is divided by thirty.
DemoArm == RobotArm
DemoInit == [kind |-> "init"]
Demo1 == [kind |-> "contact", threshold |-> 5, zeroAfter |-> 2000]
Demo2 == [kind |-> "hold", brake |-> 25, zeroed |-> TRUE, check |-> "pos", ticks |-> 8, gate |-> "none"]
Demo3 == [kind |-> "collect", window |-> 1050, every |-> 50, cap |-> 20, divisor |-> 30, mayFail |-> FALSE]
Demo4 == [kind |-> "retreat", brake |-> 10, zeroed |-> TRUE, cycles |-> 1000, pose |-> TRUE]
Demo5 == [kind |-> "contact", threshold |-> 5, zeroAfter |-> 200]
Demo == [arm |-> DemoArm, phases |-> <<DemoInit, Demo1, Demo2, Demo3, Demo4, Demo5>>]

\* PegOutHole: one arm straight out until the count of cycles ends it.
PegOutHoleArm == [RobotArm EXCEPT !.filtered = FALSE]
PegOutHole1 == [kind |-> "pull", points |-> TRUE, brake |-> 30, zeroed |-> FALSE]
PegOutHole == [arm |-> PegOutHoleArm, phases |-> <<PegOutHole1>>]

\* Search: along twenty segments, without a goal.
SearchArm == RobotArm
SearchInit == [kind |-> "joint", first |-> TRUE, points |-> FALSE]
Search1 == [kind |-> "sweep", brake |-> 15, zeroed |-> FALSE]
Search == [arm |-> SearchArm, phases |-> <<SearchInit, Search1>>]

\* Arm2PegInHole: contact, hold, alignment, hold.
Arm2PegInHoleArm == RobotArm
Arm2PegInHoleInit == [kind |-> "joint", first |-> TRUE, points |-> FALSE]
Arm2PegInHole1 == [kind |-> "joint", first |-> FALSE, points |-> FALSE]
Arm2PegInHole2 == [kind |-> "contact", threshold |-> 5, zeroAfter |-> 2000]
Arm2PegInHole3 == [kind |-> "hold", brake |-> 15, zeroed |-> TRUE, check |-> "pos", ticks |-> 10, gate |-> "none"]
Arm2PegInHole4 == [kind |-> "hold", brake |-> 20, zeroed |-> TRUE, check |-> "force", ticks |-> 5, gate |-> "before"]
Arm2PegInHole5 == [kind |-> "hold", brake |-> 20, zeroed |-> TRUE, check |-> "pos", ticks |-> 10, gate |-> "none"]
Arm2PegInHole6 == [kind |-> "hold", brake |-> 25, zeroed |-> TRUE, check |-> "pos", ticks |-> 10, gate |-> "before"]
Arm2PegInHole ==
  [arm |-> Arm2PegInHoleArm,
   phases |-> <<Arm2PegInHoleInit, Arm2PegInHole1, Arm2PegInHole2, Arm2PegInHole3,
                Arm2PegInHole4, Arm2PegInHole5, Arm2PegInHole6>>]

\* PlateAllignData: contact of two plates, the mean force of 30 samples, back.
PlateAllignDataArm == RobotArm
PlateAllignDataInit == [kind |-> "joint", first |-> TRUE, points |-> FALSE]
PlateAllignData1 == [kind |-> "joint", first |-> FALSE, points |-> FALSE]
PlateAllignData2 == [kind |-> "contact", threshold |-> 5, zeroAfter |-> 2000]
PlateAllignData3 == [kind |-> "hold", brake |-> 20, zeroed |-> TRUE, check |-> "pos", ticks |-> 10, gate |-> "none"]
PlateAllignData4 == [kind |-> "collect", window |-> 1550, every |-> 50, cap |-> 30, divisor |-> 30, mayFail |-> FALSE]
PlateAllignData5 == [kind |-> "retreat", brake |-> 20, zeroed |-> FALSE, cycles |-> 4000, pose |-> FALSE]
PlateAllignData ==
  [arm |-> PlateAllignDataArm,
   phases |-> <<PlateAllignDataInit, PlateAllignData1, PlateAllignData2, PlateAllignData3,
                PlateAllignData4, PlateAllignData5>>]

\* PlateAllignTest: contact and two holds; a fifth phase is never reached.
PlateAllignTestArm == RobotArm
PlateAllignTestInit == [kind |-> "joint", first |-> TRUE, points |-> FALSE]
PlateAllignTest1 == [kind |-> "joint", first |-> FALSE, points |-> FALSE]
PlateAllignTest2 == [kind |-> "contact", threshold |-> 5, zeroAfter |-> 2000]
PlateAllignTest3 == [kind |-> "hold", brake |-> 20, zeroed |-> TRUE, check |-> "pos", ticks |-> 10, gate |-> "none"]
PlateAllignTest4 == [kind |-> "hold", brake |-> 25, zeroed |-> TRUE, check |-> "pos", ticks |-> 10, gate |-> "none"]
PlateAllignTest ==
  [arm |-> PlateAllignTestArm,
   phases |-> <<PlateAllignTestInit, PlateAllignTest1, PlateAllignTest2, PlateAllignTest3, PlateAllignTest4>>]
=============================================================================
