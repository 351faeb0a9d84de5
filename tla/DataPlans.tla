------------------------------ MODULE DataPlans ------------------------------
(***************************************************************************)
(* The plans of datacomd.cpp as tables for ForcePlan; the fields are       *)
(* explained in RivetPlans.                                                *)
(***************************************************************************)
EXTENDS Integers, Sequences

DataArm == [move |-> 50, tolerance |-> 50, filtered |-> TRUE, forceEvery |-> 50]

\* HoleMove: a search for the hole, alignment, contact, and back out.
HoleMoveArm == DataArm
HoleMoveInit == [kind |-> "joint", first |-> TRUE, points |-> FALSE]
HoleMove1 == [kind |-> "joint", first |-> FALSE, points |-> TRUE]
HoleMove2 == [kind |-> "contact", threshold |-> 5, zeroAfter |-> 2000]
HoleMove3 == [kind |-> "hold", brake |-> 18, zeroed |-> TRUE, check |-> "pos", ticks |-> 5, gate |-> "none"]
HoleMove4 == [kind |-> "search", brake |-> 15, zeroed |-> TRUE, check |-> "force", ticks |-> 6, gate |-> "after"]
HoleMove5 == [kind |-> "hold", brake |-> 20, zeroed |-> TRUE, check |-> "pos", ticks |-> 10, gate |-> "none"]
HoleMove6 == [kind |-> "hold", brake |-> 20, zeroed |-> TRUE, check |-> "force", ticks |-> 10, gate |-> "before"]
HoleMove7 == [kind |-> "until", brake |-> 20, zeroed |-> TRUE]
HoleMove8 == [kind |-> "hold", brake |-> 25, zeroed |-> TRUE, check |-> "pos", ticks |-> 10, gate |-> "before"]
HoleMove9 == [kind |-> "retreat", brake |-> 20, zeroed |-> FALSE, cycles |-> 8000, pose |-> FALSE]
HoleMove ==
  [arm |-> HoleMoveArm,
   phases |-> <<HoleMoveInit, HoleMove1, HoleMove2, HoleMove3, HoleMove4, HoleMove5,
                HoleMove6, HoleMove7, HoleMove8, HoleMove9>>]

\* GetData: contact at one of ten points, the mean force of 30 samples, back.
\* The zero is taken off transform_force in place, so that every later phase
\* looks at a zeroed force.
GetDataArm == DataArm
GetDataInit == [kind |-> "joint", first |-> TRUE, points |-> FALSE]
GetData1 == [kind |-> "joint", first |-> FALSE, points |-> TRUE]
GetData2 == [kind |-> "contact", threshold |-> 5, zeroAfter |-> 2000]
GetData3 == [kind |-> "hold", brake |-> 18, zeroed |-> TRUE, check |-> "pos", ticks |-> 8, gate |-> "none"]
GetData4 == [kind |-> "collect", window |-> 1550, every |-> 50, cap |-> 30, divisor |-> 30, mayFail |-> FALSE]
GetData5 == [kind |-> "retreat", brake |-> 15, zeroed |-> TRUE, cycles |-> 4000, pose |-> FALSE]
GetData ==
  [arm |-> GetDataArm,
   phases |-> <<GetDataInit, GetData1, GetData2, GetData3, GetData4, GetData5>>]

\* GetHdData: the same for hole detection, at one of twenty points.
GetHdDataArm == DataArm
GetHdDataInit == [kind |-> "joint", first |-> TRUE, points |-> FALSE]
GetHdData1 == [kind |-> "joint", first |-> FALSE, points |-> TRUE]
GetHdData2 == [kind |-> "contact", threshold |-> 5, zeroAfter |-> 2000]
GetHdData3 == [kind |-> "hold", brake |-> 25, zeroed |-> TRUE, check |-> "pos", ticks |-> 10, gate |-> "none"]
GetHdData4 == [kind |-> "collect", window |-> 1550, every |-> 50, cap |-> 30, divisor |-> 30, mayFail |-> FALSE]
GetHdData5 == [kind |-> "retreat", brake |-> 25, zeroed |-> TRUE, cycles |-> 4000, pose |-> FALSE]
GetHdData ==
  [arm |-> GetHdDataArm,
   phases |-> <<GetHdDataInit, GetHdData1, GetHdData2, GetHdData3, GetHdData4, GetHdData5>>]
=============================================================================
