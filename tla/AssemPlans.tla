----------------------------- MODULE AssemPlans -----------------------------
(***************************************************************************)
(* The plans of assemcomd.cpp as tables for ForcePlan; the fields are      *)
(* explained in RivetPlans.                                                *)
(***************************************************************************)
EXTENDS Integers, Sequences

AssemArm == [move |-> 50, tolerance |-> 50, filtered |-> TRUE, forceEvery |-> 50]

\* HoleInPeg: arm 2 finds the hole, first roughly from a contact beside it,
\* then by a search, aligns and comes out of the force.
HoleInPegArm == AssemArm
HoleInPegInit == [kind |-> "joint", first |-> TRUE, points |-> FALSE]
HoleInPeg1 == [kind |-> "joint", first |-> FALSE, points |-> TRUE]
HoleInPeg2 == [kind |-> "contact", threshold |-> 5, zeroAfter |-> 2000]
HoleInPeg3 == [kind |-> "hold", brake |-> 18, zeroed |-> TRUE, check |-> "pos", ticks |-> 8, gate |-> "none"]
HoleInPeg4 == [kind |-> "collect", window |-> 1050, every |-> 50, cap |-> 20, divisor |-> 20, mayFail |-> FALSE]
HoleInPeg5 == [kind |-> "retreat", brake |-> 10, zeroed |-> TRUE, cycles |-> 2500, pose |-> TRUE]
HoleInPeg6 == [kind |-> "contact", threshold |-> 5, zeroAfter |-> 500]
HoleInPeg7 == [kind |-> "hold", brake |-> 18, zeroed |-> TRUE, check |-> "pos", ticks |-> 8, gate |-> "none"]
HoleInPeg8 == [kind |-> "collect", window |-> 1050, every |-> 50, cap |-> 20, divisor |-> 20, mayFail |-> TRUE]
HoleInPeg9 == [kind |-> "search", brake |-> 15, zeroed |-> TRUE, check |-> "force", ticks |-> 6, gate |-> "after"]
HoleInPeg10 == [kind |-> "hold", brake |-> 15, zeroed |-> TRUE, check |-> "pos", ticks |-> 10, gate |-> "none"]
HoleInPeg11 == [kind |-> "hold", brake |-> 20, zeroed |-> TRUE, check |-> "force", ticks |-> 3, gate |-> "before"]
HoleInPeg12 == [kind |-> "until", brake |-> 20, zeroed |-> TRUE]
HoleInPeg13 == [kind |-> "hold", brake |-> 25, zeroed |-> TRUE, check |-> "pos", ticks |-> 10, gate |-> "before"]
HoleInPeg ==
  [arm |-> HoleInPegArm,
   phases |-> <<HoleInPegInit, HoleInPeg1, HoleInPeg2, HoleInPeg3, HoleInPeg4, HoleInPeg5, HoleInPeg6,
                HoleInPeg7, HoleInPeg8, HoleInPeg9, HoleInPeg10, HoleInPeg11, HoleInPeg12, HoleInPeg13>>]

\* PegInHole: arm 1 inserts; its force is never set to zero again, and
\* forceCheck counts every 30 cycles.
PegInHoleArm == [AssemArm EXCEPT !.forceEvery = 30]
PegInHoleInit == [kind |-> "joint", first |-> TRUE, points |-> FALSE]
PegInHole1 == [kind |-> "joint", first |-> FALSE, points |-> FALSE]
PegInHole2 == [kind |-> "contact", threshold |-> 11, zeroAfter |-> 0]
PegInHole3 == [kind |-> "hold", brake |-> 30, zeroed |-> FALSE, check |-> "pos", ticks |-> 10, gate |-> "none"]
PegInHole4 == [kind |-> "hold", brake |-> 30, zeroed |-> FALSE, check |-> "force", ticks |-> 5, gate |-> "none"]
PegInHole5 == [kind |-> "until", brake |-> 15, zeroed |-> FALSE]
PegInHole6 == [kind |-> "hold", brake |-> 5, zeroed |-> FALSE, check |-> "force", ticks |-> 3, gate |-> "none"]
PegInHole7 == [kind |-> "hold", brake |-> 10, zeroed |-> FALSE, check |-> "pos", ticks |-> 10, gate |-> "none"]
PegInHole8 == [kind |-> "hold", brake |-> 10, zeroed |-> FALSE, check |-> "pos", ticks |-> 10, gate |-> "before"]
PegInHole ==
  [arm |-> PegInHoleArm,
   phases |-> <<PegInHoleInit, PegInHole1, PegInHole2, PegInHole3, PegInHole4, PegInHole5,
                PegInHole6, PegInHole7, PegInHole8>>]

\* Insert: the end of PegInHole alone.  Its third phase returns 0, so that the
\* two written after it are never reached.
InsertArm == [AssemArm EXCEPT !.forceEvery = 30]
InsertInit == [kind |-> "joint", first |-> TRUE, points |-> FALSE]
Insert1 == [kind |-> "joint", first |-> FALSE, points |-> FALSE]
Insert2 == [kind |-> "until", brake |-> 5, zeroed |-> FALSE]
Insert3 == [kind |-> "hold", brake |-> 5, zeroed |-> FALSE, check |-> "force", ticks |-> 3, gate |-> "none"]
Insert == [arm |-> InsertArm, phases |-> <<InsertInit, Insert1, Insert2, Insert3>>]
=============================================================================
