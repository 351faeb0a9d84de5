------------------------------ MODULE MCBridge ------------------------------
(* Small instances of PolicyBridge. *)
EXTENDS PolicyBridge

\* A keyframe where the arm may already be, and one a segment away.
MCPos == {0, 2}
MCOneChunk == {<<2>>}
MCNoTargets == {}
=============================================================================
