--------------------------- MODULE RecedingHorizon ---------------------------
(***************************************************************************)
(* What the arm promises to a client that sends it action chunks, without   *)
(* queues, threads or segments.  Accepting a chunk or clearing the queue    *)
(* starts a new plan and forgets the rest of the old one; the arm follows   *)
(* the keyframes of the newest plan in their order, each at most once, and  *)
(* may leave some out.                                                      *)
(***************************************************************************)
EXTENDS Naturals

VARIABLES
  plan,        \* how many plans there have been
  followed,    \* the plan of the keyframe followed last, 0 before the first
  row,         \* its place in that plan
  moving       \* the arm is on its way to that keyframe

vars == <<plan, followed, row, moving>>

Init == plan = 0 /\ followed = 0 /\ row = 0 /\ moving = FALSE

Replan ==
  /\ plan' = plan + 1
  /\ UNCHANGED <<followed, row, moving>>

\* A keyframe of the newest plan, after every keyframe followed before.
Follow ==
  /\ ~moving /\ moving' = TRUE
  /\ followed' = plan
  /\ row' \in Nat \ {0}
  /\ followed = plan => row < row'
  /\ UNCHANGED plan

\* The arm is there, or was told to stop on the way.
Halt ==
  /\ moving /\ moving' = FALSE
  /\ UNCHANGED <<plan, followed, row>>

Next == Replan \/ Follow \/ Halt

Spec == Init /\ [][Next]_vars
=============================================================================
