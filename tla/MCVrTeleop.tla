----------------------------- MODULE MCVrTeleop -----------------------------
(* Small instances of A10VrTeleop. *)
EXTENDS A10VrTeleop

CONSTANTS r1, r2
MCOneReader == {r1}
MCReaders == {r1, r2}
\* The stick pushed, beyond its range; at rest it is 0 until a packet comes.
MCSticks == {2}
=============================================================================
