------------------------------ MODULE MCPlans ------------------------------
(***************************************************************************)
(* All force plans of the repository, with forces in the air, of a light    *)
(* contact and beyond every limit, and distances around the plans' steps;   *)
(* the plans of Trajectories and ZeroG; and those of HandGuiding, with      *)
(* pushes within and beyond the dead zones, too weak to start an arm, and   *)
(* beyond the caps.  A behaviour is of one of the four, as model says: they *)
(* share no variable, and the others' do not change.                        *)
(***************************************************************************)
EXTENDS ForcePlan, RivetPlans, AssemPlans, DataPlans, RobotPlans,
        Trajectories, ZeroG, HandGuiding

VARIABLE model

MCTable ==
  [RivetInit |-> RivetInit, RivetStart |-> RivetStart, Arm2Init |-> Arm2Init, RivetOut |-> RivetOut,
   RivetSearch |-> RivetSearch, RivetHoleDection |-> RivetHoleDection, RivetCalib |-> RivetCalib,
   HoleInPeg |-> HoleInPeg, PegInHole |-> PegInHole, Insert |-> Insert,
   HoleMove |-> HoleMove, GetData |-> GetData, GetHdData |-> GetHdData,
   ModelInit |-> ModelInit, ModelComP |-> ModelComP, Demo |-> Demo, PegOutHole |-> PegOutHole,
   Search |-> Search, Arm2PegInHole |-> Arm2PegInHole, PlateAllignData |-> PlateAllignData,
   PlateAllignTest |-> PlateAllignTest]
MCMisdivided == {"Demo"}
MCForces == {0, 40, 800}
MCGaps == {0, 49, 50, 95, 220}

MCSegments == { <<arm, grip>> : arm \in {-45, -11, -10, 0, 1, 19, 20, 21, 45}, grip \in {-95, 0, 29, 60, 61} }
MCPoses == { <<600, 0, 250, -1, -50, 180>>, <<700, 100, 250, 355, -40, 190>> }
MCAccelerations == {-1, 0, 1}
MCBase == -50

MCGuides ==
  [ForceDrag1 |-> ForceDrag1, ForceDrag2 |-> ForceDrag2, ForceDragNoArm |-> ForceDragNoArm,
   ForceKeep1 |-> ForceKeep1, ForceKeep2 |-> ForceKeep2, ForceKeepNoArm |-> ForceKeepNoArm,
   MasterSlave |-> MasterSlave, ForceAlign |-> ForceAlign, ForceAlignNoArm |-> ForceAlignNoArm]
MCPushes == {0, 1, 70, -400}
MCStartPushes == {1, 70}
MCOffsets == {0, 40}

MCInit ==
  /\ model \in {"force", "path", "gravity", "guide"}
  /\ Init /\ (model # "force" => plan = "RivetInit" /\ indexed /\ gap = 0)
  /\ PathInit /\ GInit
  /\ GuideInit /\ (model # "guide" => guide = "ForceDrag1" /\ weight = 0)

planVars == <<vars, pathVars, gravityVars, guideVars, model>>

\* Bound: with a weight on the sensor a plan is started once.  (Its zero takes the
\* weight away again, but for ForceKeep's.)
GuideOnce == weight # 0 => runs' < 2

\* A path or a hand-guided motion may have come to its end; a force plan may not
\* stop before it has ended.
Finished == model # "force" /\ UNCHANGED planVars

MCNext ==
  \/ model = "force" /\ Next /\ UNCHANGED <<pathVars, gravityVars, guideVars, model>>
  \/ model = "path" /\ PathNext /\ UNCHANGED <<vars, gravityVars, guideVars, model>>
  \/ model = "gravity" /\ GNext /\ UNCHANGED <<vars, pathVars, guideVars, model>>
  \/ model = "guide" /\ GuideNext /\ GuideOnce
       /\ UNCHANGED <<vars, pathVars, gravityVars, model>>
  \/ Finished

MCSpec == MCInit /\ [][MCNext]_planVars
=============================================================================
