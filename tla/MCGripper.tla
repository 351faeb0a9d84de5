----------------------------- MODULE MCGripper -----------------------------
(***************************************************************************)
(* Small instances of GripperBridge and BusServo.  A behaviour is of one of *)
(* the two, as model says: they share no variable, and the other one's do   *)
(* not change.  The constants that are numbers are given in the cfg.        *)
(***************************************************************************)
EXTENDS GripperBridge, BusServo

VARIABLE model

\* Every position from below 0 to above 4096, and every opening of either table.
MCTurns == -10..4110
MCProbes == {2048}

MCInit ==
  /\ model \in {"thread", "line"}
  /\ GripInit /\ (model = "line" => servo = 0)
  /\ Init /\ (model = "thread" => table = Table100 /\ x \in MCProbes)

ThreadStep == model = "thread" /\ LoopStep /\ UNCHANGED <<vars, model>>
PlanStarts == model = "thread" /\ SyncStore /\ UNCHANGED <<vars, model>>
ThreadNext == model = "thread" /\ GripNext /\ UNCHANGED <<vars, model>>
LineNext == model = "line" /\ Next /\ UNCHANGED <<gripVars, model>>

mcVars == <<gripVars, vars, model>>

\* The bounds let the line fall silent; the thread may never stop.
Silent == model = "line" /\ UNCHANGED mcVars

\* The fairness is that of FairGripSpec.
MCSpec ==
  /\ MCInit /\ [][ThreadNext \/ LineNext \/ Silent]_mcVars
  /\ WF_mcVars(ThreadStep) /\ WF_mcVars(PlanStarts)
=============================================================================
