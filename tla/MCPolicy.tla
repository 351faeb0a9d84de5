------------------------------ MODULE MCPolicy ------------------------------
(* Small instances of A10PolicyTcp. *)
EXTENDS A10PolicyTcp

\* With Stride 1 and MaxDelta 2 a keyframe may be where the arm is, need a
\* segment of two cycles or of more, or be too far away.
MCPos == {0, 2, 4}

\* One keyframe; one in reach and one that is only from the first; one too far
\* and one in reach; two too far; a chunk none of whose rows could be used.
MCChunks == {<<2>>, <<2, 4>>, <<4, 2>>, <<4, 4>>, <<>>}

MCNoTargets == {}
MCTargets == {2, None}
=============================================================================
