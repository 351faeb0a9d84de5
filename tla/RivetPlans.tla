----------------------------- MODULE RivetPlans -----------------------------
(***************************************************************************)
(* The plans of rivetcomd.cpp as tables for ForcePlan: for each plan the   *)
(* arm it uses, its phases in order, each with its own numbers.            *)
(*                                                                         *)
(*   arm    move, tolerance   step and tolerance of joint motions (urad)   *)
(*          filtered          forceFilter is called                        *)
(*          forceEvery        cycles between two hits of forceCheck        *)
(*   joint  first             before forces are compensated and filtered   *)
(*          points            a parameter chooses among points             *)
(*   contact threshold (0.1 N), zeroAfter (cycles; 0 for never)            *)
(*   hold, search             brake (N); zeroed: it looks at final_force;  *)
(*                            check, ticks, gate                           *)
(*   retreat cycles, pose     then a joint motion to the hole              *)
(*   collect window, every, cap, divisor                                   *)
(***************************************************************************)
EXTENDS Integers, Sequences

RivetArm == [move |-> 50, tolerance |-> 50, filtered |-> TRUE, forceEvery |-> 50]

\* RivetInit: both arms to their places, 7e-5 a cycle.
RivetInitArm == [RivetArm EXCEPT !.move = 70, !.tolerance = 70]
RivetInit1 == [kind |-> "joint", first |-> TRUE, points |-> FALSE]
RivetInit == [arm |-> RivetInitArm, phases |-> <<RivetInit1>>]

\* RivetStart: to the start of the work, zero, then to the rivet.
RivetStartArm == [RivetArm EXCEPT !.tolerance = 70]
RivetStartInit == [kind |-> "joint", first |-> TRUE, points |-> FALSE]
RivetStart1 == [kind |-> "joint", first |-> FALSE, points |-> FALSE]
RivetStart == [arm |-> RivetStartArm, phases |-> <<RivetStartInit, RivetStart1>>]

\* Arm2Init: to one of three places.
Arm2InitArm == RivetArm
Arm2Init1 == [kind |-> "joint", first |-> TRUE, points |-> TRUE]
Arm2Init == [arm |-> Arm2InitArm, phases |-> <<Arm2Init1>>]

\* RivetOut: straight out until the count of cycles ends it.
RivetOutArm == [RivetArm EXCEPT !.filtered = FALSE]
RivetOut1 == [kind |-> "pull", points |-> FALSE, brake |-> 30, zeroed |-> FALSE]
RivetOut == [arm |-> RivetOutArm, phases |-> <<RivetOut1>>]

\* RivetSearch: contact beside the bolt, then a search for its edge.
RivetSearchArm == RivetArm
RivetSearchInit == [kind |-> "joint", first |-> TRUE, points |-> FALSE]
RivetSearch1 == [kind |-> "joint", first |-> FALSE, points |-> TRUE]
RivetSearch2 == [kind |-> "contact", threshold |-> 5, zeroAfter |-> 2000]
RivetSearch3 == [kind |-> "hold", brake |-> 15, zeroed |-> TRUE, check |-> "pos", ticks |-> 5, gate |-> "none"]
RivetSearch4 == [kind |-> "search", brake |-> 15, zeroed |-> TRUE, check |-> "jam", ticks |-> 15, gate |-> "none"]
RivetSearch5 == [kind |-> "hold", brake |-> 25, zeroed |-> TRUE, check |-> "pos", ticks |-> 10, gate |-> "none"]
RivetSearch6 == [kind |-> "retreat", brake |-> 20, zeroed |-> FALSE, cycles |-> 5000, pose |-> FALSE]
RivetSearch ==
  [arm |-> RivetSearchArm,
   phases |-> <<RivetSearchInit, RivetSearch1, RivetSearch2, RivetSearch3, RivetSearch4, RivetSearch5, RivetSearch6>>]

\* RivetHoleDection: the same for a hole, at a point read from a file.
RivetHoleDectionArm == RivetArm
RivetHoleDectionInit == [kind |-> "joint", first |-> TRUE, points |-> FALSE]
RivetHoleDection1 == [kind |-> "joint", first |-> FALSE, points |-> TRUE]
RivetHoleDection2 == [kind |-> "contact", threshold |-> 5, zeroAfter |-> 2000]
RivetHoleDection3 == [kind |-> "hold", brake |-> 25, zeroed |-> TRUE, check |-> "pos", ticks |-> 5, gate |-> "none"]
RivetHoleDection4 == [kind |-> "search", brake |-> 25, zeroed |-> TRUE, check |-> "jam", ticks |-> 8, gate |-> "none"]
RivetHoleDection5 == [kind |-> "hold", brake |-> 25, zeroed |-> TRUE, check |-> "pos", ticks |-> 5, gate |-> "none"]
RivetHoleDection6 == [kind |-> "retreat", brake |-> 20, zeroed |-> FALSE, cycles |-> 3000, pose |-> FALSE]
RivetHoleDection ==
  [arm |-> RivetHoleDectionArm,
   phases |-> <<RivetHoleDectionInit, RivetHoleDection1, RivetHoleDection2, RivetHoleDection3,
                RivetHoleDection4, RivetHoleDection5, RivetHoleDection6>>]

\* RivetCalib: contact at the place of calibration.
RivetCalibArm == RivetArm
RivetCalibInit == [kind |-> "joint", first |-> TRUE, points |-> FALSE]
RivetCalib1 == [kind |-> "joint", first |-> FALSE, points |-> FALSE]
RivetCalib2 == [kind |-> "contact", threshold |-> 5, zeroAfter |-> 2000]
RivetCalib3 == [kind |-> "hold", brake |-> 25, zeroed |-> TRUE, check |-> "pos", ticks |-> 5, gate |-> "none"]
RivetCalib4 == [kind |-> "retreat", brake |-> 20, zeroed |-> FALSE, cycles |-> 3000, pose |-> FALSE]
RivetCalib ==
  [arm |-> RivetCalibArm,
   phases |-> <<RivetCalibInit, RivetCalib1, RivetCalib2, RivetCalib3, RivetCalib4>>]
=============================================================================
