---------------------------- MODULE TeleopProofs ----------------------------
(***************************************************************************)
(* Proofs about the two ways a person moves an arm.  VR teleoperation: any  *)
(* number of connections, packets, commands and joystick values, and any    *)
(* time-out.  Hand guiding: any pushes, zeros and offsets, noise, window,   *)
(* lag and plans whose constants are as HandGuiding assumes.                *)
(***************************************************************************)
EXTENDS A10VrTeleop, HandGuiding, NatLemmas, TLAPS, FiniteSetTheorems

-----------------------------------------------------------------------------
(* VR teleoperation: types *)

LEMMA FlagsInit == Init => FlagsOK
BY DEF Init, FlagsOK

LEMMA CoastType == FlagsOK => Coast \in BOOLEAN
BY DEF FlagsOK, Coast

LEMMA FlagsStep == FlagsOK /\ [Next]_vars => FlagsOK'
<1> SUFFICES ASSUME FlagsOK, [Next]_vars PROVE FlagsOK'
  OBVIOUS
<1> USE DEF FlagsOK
<1>1. ASSUME NEW r \in Readers, SetEeDelta(r) PROVE FlagsOK'
  BY <1>1, Zenon DEF SetEeDelta, StoreDelta, CountDelta, flagVars, nrtVars, planVars
<1>2. CASE Command
  BY <1>2, Zenon DEF Command, NrtVr, NrtStop, NrtStopTeleop, planVars
<1>3. CASE NrtStep
  BY <1>3, Zenon DEF NrtStep, NrtVrReady, NrtRequestStop, NrtClearGrip, NrtClearDelta,
                     NrtClearSeq, flagVars, planVars
<1>4. CASE RtStart \/ RtPolicyFlag \/ RtVrFlag \/ RtEnd \/ RtNoKinematics \/ RtInit \/ RtNewDelta
  BY <1>4, Zenon DEF RtStart, RtPolicyFlag, RtVrFlag, RtEnd, RtNoKinematics, RtInit, RtNewDelta,
                     flagVars, nrtVars, planVars
<1>5. CASE RtNoDelta \/ RtDeltaGone
  BY <1>5, CoastType, Zenon DEF RtNoDelta, RtDeltaGone, flagVars, nrtVars
<1>6. CASE RtApply
  BY <1>6, Zenon DEF RtApply, flagVars, nrtVars
<1>7. CASE UNCHANGED vars
  BY <1>7, Zenon DEF vars, flagVars, nrtVars, planVars
<1> QED BY <1>1, <1>2, <1>3, <1>4, <1>5, <1>6, <1>7 DEF Next, RtStep

LEMMA TypeInit == Init => TypeOK
BY FlagsInit, TeleopAssumption DEF Init, TypeOK, Kinds

LEMMA GripCmdType ==
  ASSUME NEW stick \in Int
  PROVE  GripCmd(stick) \in -1..1
BY DEF GripCmd

\* Reader threads.
LEMMA TypeReader ==
  ASSUME TypeOK, NEW r \in Readers, SetEeDelta(r), FlagsOK'
  PROVE  TypeOK'
<1> USE TeleopAssumption
<1>1. CASE StoreDelta(r)
  <2>1. PICK packet \in Packet : target_ee_delta' = packet /\ reader' = [reader EXCEPT ![r] = packet]
    BY <1>1 DEF StoreDelta
  <2>2. packets' \in 0..MaxPackets
    BY <1>1 DEF StoreDelta, TypeOK
  <2> QED BY <1>1, <2>1, <2>2 DEF StoreDelta, TypeOK, nrtVars, planVars
<1>2. CASE CountDelta(r)
  BY <1>2 DEF CountDelta, TypeOK, nrtVars, planVars
<1> QED BY <1>1, <1>2 DEF SetEeDelta

\* The command-line thread.
LEMMA TypeCommand ==
  ASSUME TypeOK, Command \/ NrtStep, FlagsOK'
  PROVE  TypeOK'
<1> USE TeleopAssumption
<1>1. CASE NrtVr
  BY <1>1 DEF NrtVr, Enter, TypeOK, Kinds, serverVars, planVars
<1>2. CASE NrtStop \/ NrtStopTeleop
  BY <1>2 DEF NrtStop, NrtStopTeleop, Enter, TypeOK, serverVars, planVars
<1>3. CASE NrtVrReady
  BY <1>3 DEF NrtVrReady, TypeOK, serverVars, planVars
<1>4. CASE NrtRequestStop \/ NrtClearGrip \/ NrtClearDelta \/ NrtClearSeq
  BY <1>4 DEF NrtRequestStop, NrtClearGrip, NrtClearDelta, NrtClearSeq, TypeOK,
              serverVars, planVars
<1> QED BY <1>1, <1>2, <1>3, <1>4 DEF Command, NrtStep

LEMMA LaterType ==
  ASSUME NEW n \in 0..(Timeout + 1)
  PROVE  Later(n) \in 0..(Timeout + 1)
BY TeleopAssumption DEF Later

LEMMA CountsLater == TypeOK => Later(since) \in 0..(Timeout + 1) /\ Later(quiet) \in 0..(Timeout + 1)
BY LaterType DEF TypeOK

\* The real-time thread.
LEMMA TypeRt ==
  ASSUME TypeOK, RtStep, FlagsOK'
  PROVE  TypeOK'
<1> USE TeleopAssumption, CountsLater
<1>1. CASE RtStart
  <2>1. kind' \in Kinds
    BY <1>1 DEF RtStart, TypeOK
  <2>2. before' \in 0..MaxPackets
    BY <1>1 DEF RtStart, TypeOK
  <2> QED BY <1>1, <2>1, <2>2 DEF RtStart, TypeOK, serverVars
<1>2. CASE RtPolicyFlag \/ RtVrFlag \/ RtEnd
  BY <1>2 DEF RtPolicyFlag, RtVrFlag, RtEnd, TypeOK, serverVars, nrtVars, planVars
<1>3. CASE RtNoKinematics \/ RtInit \/ RtNewDelta
  BY <1>3 DEF RtNoKinematics, RtInit, RtNewDelta, TypeOK, serverVars, nrtVars
<1>4. CASE RtNoDelta \/ RtDeltaGone
  BY <1>4 DEF RtNoDelta, RtDeltaGone, TypeOK, serverVars, nrtVars
<1>5. CASE RtApply
  <2>1. target_ee_delta \in Packet
    BY <1>5 DEF RtApply, TypeOK
  <2>2. vr_grip_cmd' \in -1..1
    BY <1>5, <2>1, GripCmdType DEF RtApply, Packet
  <2>3. last_applied' \in 0..MaxPackets
    BY <1>5, <2>1 DEF RtApply, Packet
  <2>4. consumed' \in Nat /\ applied' \in Nat /\ since' \in 0..(Timeout + 1)
    BY <1>5 DEF RtApply, TypeOK
  <2>5. quiet' \in 0..(Timeout + 1)
    BY <1>5 DEF RtApply, Quiet
  <2> QED BY <1>5, <2>1, <2>2, <2>3, <2>4, <2>5 DEF RtApply, TypeOK, serverVars, nrtVars
<1> QED BY <1>1, <1>2, <1>3, <1>4, <1>5 DEF RtStep

LEMMA TypeStep == TypeOK /\ [Next]_vars => TypeOK'
<1> SUFFICES ASSUME TypeOK, [Next]_vars PROVE TypeOK'
  OBVIOUS
<1>1. FlagsOK'
  BY FlagsStep DEF TypeOK
<1>2. CASE UNCHANGED vars
  BY <1>1, <1>2 DEF TypeOK, vars, serverVars, nrtVars, planVars
<1> QED BY <1>1, <1>2, TypeReader, TypeCommand, TypeRt DEF Next

\* Types of all variables: the joystick value the gripper thread reads is always
\* within its range, whatever a client sends.
THEOREM TypeCorrect == Spec => []TypeOK
BY TypeInit, TypeStep, PTL DEF Spec

-----------------------------------------------------------------------------
(* VR teleoperation: the joystick *)

LEMMA GripStep == TypeOK /\ GripReleased /\ [Next]_vars => GripReleased'
<1> SUFFICES ASSUME TypeOK, GripReleased, [Next]_vars PROVE GripReleased'
  OBVIOUS
<1>1. ASSUME NEW r \in Readers, SetEeDelta(r) PROVE GripReleased'
  BY <1>1 DEF SetEeDelta, StoreDelta, CountDelta, GripReleased
<1>2. CASE Command \/ NrtStep
  BY <1>2 DEF Command, NrtStep, NrtVr, NrtStop, NrtStopTeleop, NrtVrReady, NrtRequestStop,
              NrtClearGrip, NrtClearDelta, NrtClearSeq, GripReleased
<1>3. CASE RtStep
  BY <1>3 DEF RtStep, RtStart, RtPolicyFlag, RtVrFlag, RtEnd, RtNoKinematics, RtInit, RtNoDelta,
              RtNewDelta, RtDeltaGone, RtApply, GripReleased
<1>4. CASE UNCHANGED vars
  BY <1>4 DEF vars, GripReleased
<1> QED BY <1>1, <1>2, <1>3, <1>4 DEF Next

\* The gripper rests once the plan has ended.
THEOREM GripAtRest == Spec => []GripReleased
<1>1. Init => GripReleased
  BY DEF Init, GripReleased
<1> QED BY <1>1, GripStep, TypeCorrect, PTL DEF Spec

(* VR teleoperation: coasting *)

\* While the target of vr_vel stays where packets moved it, the last packet moved it:
\* the silence the code measures is the one in which nothing does.
Counted == kind = "vr_vel" /\ ~idle_coast => quiet = since

LEMMA CountedStep == TypeOK /\ Counted /\ [Next]_vars => Counted'
<1> SUFFICES ASSUME TypeOK, Counted, [Next]_vars PROVE Counted'
  OBVIOUS
<1>1. CASE RtStart
  BY <1>1 DEF RtStart, Counted
<1>2. CASE RtNoKinematics \/ RtInit
  BY <1>2 DEF RtNoKinematics, RtInit, Counted
<1>3. CASE RtNoDelta \/ RtDeltaGone
  <2>1. /\ kind' = kind /\ idle_coast' = Coast
        /\ since' = Later(since) /\ quiet' = Later(quiet)
    BY <1>3 DEF RtNoDelta, RtDeltaGone
  <2>2. ~Coast /\ kind = "vr_vel" => ~idle_coast
    BY DEF Coast, TypeOK, FlagsOK
  <2> QED BY <2>1, <2>2 DEF Counted
<1>4. CASE RtApply
  <2>1. target_ee_delta \in Packet
    BY <1>4 DEF RtApply, TypeOK
  <2>2. kind' = kind /\ kind = "vr_vel" /\ ~idle_coast' => target_ee_delta.moves
    BY <1>4, <2>1 DEF RtApply, Packet
  <2> QED BY <1>4, <2>2 DEF RtApply, Quiet, Counted
<1>5. CASE UNCHANGED <<kind, idle_coast, since, quiet>>
  BY <1>5 DEF Counted
<1>6. \/ RtStart \/ RtNoKinematics \/ RtInit \/ RtNoDelta \/ RtDeltaGone \/ RtApply
      \/ UNCHANGED <<kind, idle_coast, since, quiet>>
  BY DEF Next, SetEeDelta, StoreDelta, CountDelta, Command, NrtStep, NrtVr, NrtStop, NrtStopTeleop,
         NrtVrReady, NrtRequestStop, NrtClearGrip, NrtClearDelta, NrtClearSeq, RtStep, RtPolicyFlag,
         RtVrFlag, RtEnd, RtNewDelta, vars, planVars
<1> QED BY <1>1, <1>2, <1>3, <1>4, <1>5, <1>6

\* The target of vr_vel returns to the arm once no packet has moved it for more
\* than Timeout cycles, whatever came meanwhile.
THEOREM Coasting == Spec => CoastsWhenSilent
<1>1. Init => Counted
  BY DEF Init, Counted
<1>2. TypeOK /\ Counted /\ Counted' /\ [Next]_vars =>
        [kind = "vr_vel" /\ (RtNoDelta \/ RtDeltaGone \/ RtApply) => idle_coast' \/ quiet' <= Timeout]_vars
  <2> SUFFICES ASSUME TypeOK, Counted, Counted', kind = "vr_vel",
                      RtNoDelta \/ RtDeltaGone \/ RtApply, ~idle_coast'
               PROVE  quiet' <= Timeout
    OBVIOUS
  <2>1. quiet' = since'
    BY DEF Counted, RtNoDelta, RtDeltaGone, RtApply
  <2>2. CASE RtNoDelta \/ RtDeltaGone
    <3>1. since' = Later(since) /\ idle_coast' = Coast
      BY <2>2 DEF RtNoDelta, RtDeltaGone
    <3>2. ~(Later(since) > Timeout)
      BY <3>1 DEF Coast
    <3> QED BY <2>1, <3>1, <3>2, CountsLater, TeleopAssumption
  <2>3. CASE RtApply
    BY <2>1, <2>3, TeleopAssumption DEF RtApply
  <2> QED BY <2>2, <2>3
<1> QED BY <1>1, <1>2, CountedStep, TypeCorrect, PTL DEF Spec, CoastsWhenSilent

-----------------------------------------------------------------------------
(* VR teleoperation: increments *)

\* Packets stored and not counted yet.
Pending == {r \in Readers : reader[r] # None}

\* The counter has a value the plan would take for a new packet, when it has taken
\* the packet of value c.
Ahead(c) == ee_delta_seq # 0 /\ ee_delta_seq # c

\* Packets taken, and those the plan is about to take, are covered by packets that
\* have been counted: between two cycles that see a new counter it was counted up,
\* whatever was cleared meanwhile.
Covered ==
  /\ ee_delta_seq + Cardinality(Pending) <= packets
  /\ pc # "fetch" => /\ applied + Cardinality(Pending) <= packets
                     /\ Ahead(consumed) => applied + 1 + Cardinality(Pending) <= packets
  /\ pc = "fetch" => /\ applied + 1 + Cardinality(Pending) <= packets
                     /\ Ahead(seen) => applied + 2 + Cardinality(Pending) <= packets

LEMMA PendingType == IsFiniteSet(Pending) /\ Cardinality(Pending) \in Nat
<1>1. Pending \subseteq Readers
  BY DEF Pending
<1> QED BY <1>1, FS_Subset, FS_CardinalityType, TeleopAssumption

\* A packet that is stored waits to be counted.
LEMMA PendingStored ==
  ASSUME TypeOK, NEW r \in Readers, StoreDelta(r)
  PROVE  Cardinality(Pending)' = Cardinality(Pending) + 1
<1>1. PICK packet \in Packet : reader' = [reader EXCEPT ![r] = packet]
  BY DEF StoreDelta
<1>2. packet # None
  BY PacketAssumption
<1>3. Pending' = Pending \cup {r} /\ r \notin Pending
  BY <1>1, <1>2 DEF Pending, StoreDelta, TypeOK
<1>4. Cardinality(Pending \cup {r}) = Cardinality(Pending) + 1
  BY <1>3, PendingType, FS_AddElement
<1> QED BY <1>3, <1>4

LEMMA PendingCounted ==
  ASSUME TypeOK, NEW r \in Readers, CountDelta(r)
  PROVE  Cardinality(Pending)' = Cardinality(Pending) - 1
<1>1. Pending' = Pending \ {r} /\ r \in Pending
  BY DEF Pending, CountDelta, TypeOK
<1>2. Cardinality(Pending \ {r}) = Cardinality(Pending) - 1
  BY <1>1, PendingType, FS_RemoveElement
<1> QED BY <1>1, <1>2

LEMMA CoveredInit == Init => Covered
<1> SUFFICES ASSUME Init PROVE Covered
  OBVIOUS
<1>1. Pending = {}
  BY DEF Init, Pending
<1>2. Cardinality(Pending) = 0
  BY <1>1, FS_EmptySet
<1> QED BY <1>2 DEF Init, Covered, Ahead

LEMMA CoveredStep == TypeOK /\ TypeOK' /\ Covered /\ [Next]_vars => Covered'
<1> SUFFICES ASSUME TypeOK, TypeOK', Covered, [Next]_vars PROVE Covered'
  OBVIOUS
<1> DEFINE P == Cardinality(Pending)
<1>0. P \in Nat /\ P' \in Nat
  <2>1. Pending' \subseteq Readers
    BY DEF Pending
  <2>2. Cardinality(Pending') \in Nat
    BY <2>1, FS_Subset, FS_CardinalityType, TeleopAssumption
  <2> QED BY <2>2, PendingType
<1>a. /\ ee_delta_seq \in Nat /\ applied \in Nat /\ packets \in Nat
      /\ consumed \in Nat /\ seen \in Nat
  BY DEF TypeOK
<1>b. reader' = reader => P' = P
  BY DEF Pending
<1> HIDE DEF P
<1>c. Covered <=> /\ ee_delta_seq + P <= packets
                  /\ pc # "fetch" => /\ applied + P <= packets
                                     /\ Ahead(consumed) => applied + 1 + P <= packets
                  /\ pc = "fetch" => /\ applied + 1 + P <= packets
                                     /\ Ahead(seen) => applied + 2 + P <= packets
  BY DEF Covered, P
<1>d. Covered' <=> /\ ee_delta_seq' + P' <= packets'
                   /\ pc' # "fetch" => /\ applied' + P' <= packets'
                                       /\ Ahead(consumed)' => applied' + 1 + P' <= packets'
                   /\ pc' = "fetch" => /\ applied' + 1 + P' <= packets'
                                       /\ Ahead(seen)' => applied' + 2 + P' <= packets'
  BY DEF Covered, P
<1>1. ASSUME NEW r \in Readers, StoreDelta(r) PROVE Covered'
  <2>1. P' = P + 1
    BY <1>1, PendingStored DEF P
  <2>2. /\ packets' = packets + 1
        /\ UNCHANGED <<ee_delta_seq, pc, applied, consumed, seen>>
    BY <1>1 DEF StoreDelta, planVars
  <2> QED BY <1>0, <1>a, <1>c, <1>d, <2>1, <2>2 DEF Ahead
<1>2. ASSUME NEW r \in Readers, CountDelta(r) PROVE Covered'
  <2>1. P' = P - 1
    BY <1>2, PendingCounted DEF P
  <2>2. /\ ee_delta_seq' = ee_delta_seq + 1
        /\ UNCHANGED <<packets, pc, applied, consumed, seen>>
    BY <1>2 DEF CountDelta, planVars
  <2> QED BY <1>0, <1>a, <1>c, <1>d, <2>1, <2>2 DEF Ahead
<1>3. CASE Command \/ NrtStep
  <2>1. /\ ee_delta_seq' = ee_delta_seq \/ ee_delta_seq' = 0
        /\ UNCHANGED <<reader, packets, pc, applied, consumed, seen>>
    BY <1>3 DEF Command, NrtStep, NrtVr, NrtStop, NrtStopTeleop, NrtVrReady, NrtRequestStop,
                NrtClearGrip, NrtClearDelta, NrtClearSeq, serverVars, planVars
  <2> QED BY <1>0, <1>a, <1>b, <1>c, <1>d, <2>1 DEF Ahead
<1>4. CASE RtStart
  BY <1>0, <1>a, <1>b, <1>c, <1>d, <1>4 DEF RtStart, serverVars, Ahead
<1>5. CASE RtPolicyFlag \/ RtVrFlag \/ RtEnd \/ RtNoKinematics \/ RtInit \/ RtNoDelta \/ RtDeltaGone
  <2>1. pc' # "fetch" /\ UNCHANGED <<ee_delta_seq, reader, packets, applied, consumed>>
    BY <1>5 DEF RtPolicyFlag, RtVrFlag, RtEnd, RtNoKinematics, RtInit, RtNoDelta, RtDeltaGone,
                serverVars, planVars
  <2>2. (pc = "fetch" /\ RtDeltaGone) \/ pc # "fetch"
    BY <1>5 DEF RtPolicyFlag, RtVrFlag, RtEnd, RtNoKinematics, RtInit, RtNoDelta
  <2> QED BY <1>0, <1>a, <1>b, <1>c, <1>d, <2>1, <2>2 DEF Ahead
<1>6. CASE RtNewDelta
  BY <1>0, <1>a, <1>b, <1>c, <1>d, <1>6 DEF RtNewDelta, Fresh, serverVars, Ahead
<1>7. CASE RtApply
  BY <1>0, <1>a, <1>b, <1>c, <1>d, <1>7 DEF RtApply, serverVars, Ahead
<1>8. CASE UNCHANGED vars
  BY <1>0, <1>b, <1>c, <1>d, <1>8 DEF vars, serverVars, planVars, Ahead
<1> QED BY <1>1, <1>2, <1>3, <1>4, <1>5, <1>6, <1>7, <1>8 DEF Next, SetEeDelta, RtStep

\* A plan adds no more increments than packets came in, over any number of readers
\* and whenever the counter is cleared.
THEOREM MotionIsBounded == Spec => []MotionBounded
<1>1. TypeOK /\ Covered => MotionBounded
  <2> SUFFICES ASSUME TypeOK, Covered PROVE applied <= packets
    BY DEF MotionBounded
  <2>1. Cardinality(Pending) \in Nat /\ applied \in Nat /\ packets \in Nat
    BY PendingType DEF TypeOK
  <2> QED BY <2>1 DEF Covered
<1> QED BY <1>1, CoveredInit, CoveredStep, TypeCorrect, PTL DEF Spec
-----------------------------------------------------------------------------
(* Hand guiding: the way a cycle leaves *)

Within(f, n) == -n <= f /\ f <= n

LEMMA LeftFacts ==
  ASSUME NEW d \in Nat
  PROVE  Left(d) \in 0 .. d /\ (d = 0 => Left(d) = 0)
<1> DEFINE q == (d + Lag - 1) \div Lag
<1>0. Lag \in Nat \ {0}
  BY GuidingAssumption
<1>1. q \in Int /\ Lag * q <= d + Lag - 1 /\ d + Lag - 1 < Lag * q + Lag
  BY <1>0, QuotientFacts
<1>2. Left(d) = d - q
  BY DEF Left
<1> HIDE DEF q
<1>3. q >= 0
  <2> SUFFICES ASSUME q <= -1 PROVE FALSE
    BY <1>1
  <2>1. Lag * q <= Lag * (-1) /\ Lag * (-1) = -Lag
    BY <1>0, <1>1, ProductGrows
  <2> QED BY <1>0, <1>1, <2>1
<1>4. q <= d
  <2> SUFFICES ASSUME d + 1 <= q PROVE FALSE
    BY <1>1
  <2>1. Lag * (d + 1) <= Lag * q /\ Lag * (d + 1) = Lag * d + Lag
    BY <1>0, <1>1, ProductGrows
  <2>2. d * 1 <= d * Lag /\ d * Lag = Lag * d /\ Lag * d \in Int /\ Lag * q \in Int
    BY <1>0, <1>1, ProductGrows
  <2> QED BY <1>0, <1>1, <2>1, <2>2
<1> QED BY <1>1, <1>2, <1>3, <1>4

\* The longer way stays the longer one, and gets shorter by at least as much.
LEMMA LeftOrder ==
  ASSUME NEW d \in Nat, NEW e \in Nat, d <= e
  PROVE  Left(d) <= Left(e) /\ Left(e) - Left(d) <= e - d
<1> DEFINE q == (d + Lag - 1) \div Lag
           r == (e + Lag - 1) \div Lag
<1>0. Lag \in Nat \ {0}
  BY GuidingAssumption
<1>1. q \in Int /\ Lag * q <= d + Lag - 1 /\ d + Lag - 1 < Lag * q + Lag
  BY <1>0, QuotientFacts
<1>2. r \in Int /\ Lag * r <= e + Lag - 1 /\ e + Lag - 1 < Lag * r + Lag
  BY <1>0, QuotientFacts
<1>3. Left(d) = d - q /\ Left(e) = e - r
  BY DEF Left
<1> HIDE DEF q, r
<1>4. r - q <= e - d
  <2> SUFFICES ASSUME q + (e - d) + 1 <= r PROVE FALSE
    BY <1>1, <1>2
  <2>1. Lag * (q + (e - d) + 1) <= Lag * r
    BY <1>0, <1>1, <1>2, ProductGrows
  <2>2. Lag * (q + (e - d) + 1) = Lag * q + Lag * (e - d) + Lag
    BY <1>0, <1>1
  <2>3. (e - d) * 1 <= (e - d) * Lag /\ (e - d) * Lag = Lag * (e - d)
    BY <1>0, ProductGrows
  <2>4. Lag * q \in Int /\ Lag * r \in Int /\ Lag * (e - d) \in Int
    BY <1>0, <1>1, <1>2
  <2> QED BY <1>0, <1>1, <1>2, <2>1, <2>2, <2>3, <2>4
<1>5. q <= r
  <2> SUFFICES ASSUME r + 1 <= q PROVE FALSE
    BY <1>1, <1>2
  <2>1. Lag * (r + 1) <= Lag * q /\ Lag * (r + 1) = Lag * r + Lag
    BY <1>0, <1>1, <1>2, ProductGrows
  <2>2. Lag * q \in Int /\ Lag * r \in Int
    BY <1>0, <1>1, <1>2
  <2> QED BY <1>0, <1>1, <1>2, <2>1, <2>2
<1> QED BY <1>1, <1>2, <1>3, <1>4, <1>5

\* Remaining is Left, n times.
LEMMA RemainingIs ==
  ASSUME NEW d \in Nat, NEW n \in Nat
  PROVE  \E g : Iterates(g, [e \in Nat |-> Left(e)], d, n) /\ Remaining(d, n) = g[n]
<1> DEFINE F == [e \in Nat |-> Left(e)]
           Sequel(g) == g = [i \in 0 .. n |-> IF i = 0 THEN d ELSE Left(g[i - 1])]
<1>1. F \in [Nat -> Nat] /\ \A e \in Nat : F[e] = Left(e) /\ Left(e) \in Nat
  BY LeftFacts
<1> HIDE DEF F
<1>2. ASSUME NEW g, Iterates(g, F, d, n) PROVE Sequel(g)
  <2>1. \A i \in 0 .. n : g[i] \in Nat
    <3>1. n <= n
      OBVIOUS
    <3> HIDE DEF Sequel
    <3> QED BY <1>1, <1>2, <3>1, IteratesAgree, Zenon
  <2>2. \A i \in 0 .. n : i # 0 => i - 1 \in 0 .. n
    OBVIOUS
  <2>3. \A i \in 0 .. n : (IF i = 0 THEN d ELSE F[g[i - 1]]) = (IF i = 0 THEN d ELSE Left(g[i - 1]))
    BY <1>1, <2>1, <2>2
  <2>4. g = [i \in 0 .. n |-> IF i = 0 THEN d ELSE F[g[i - 1]]]
    BY <1>2 DEF Iterates
  <2> QED BY <2>3, <2>4
<1>3. ASSUME NEW g, Sequel(g) PROVE Iterates(g, F, d, n)
  <2>0. \A i \in 0 .. n : g[i] = IF i = 0 THEN d ELSE Left(g[i - 1])
    BY <1>3
  <2> DEFINE Whole == {i \in Nat : i <= n => g[i] \in Nat}
  <2>1. 0 \in Whole
    BY <2>0
  <2>2. ASSUME NEW i \in Nat, i \in Whole PROVE i + 1 \in Whole
    <3> SUFFICES ASSUME i + 1 <= n PROVE g[i + 1] \in Nat
      OBVIOUS
    <3>1. i + 1 \in 0 .. n /\ i + 1 # 0 /\ (i + 1) - 1 = i /\ g[i] \in Nat
      BY <2>2
    <3>2. g[i + 1] = Left(g[i])
      BY <2>0, <3>1
    <3> QED BY <1>1, <3>1, <3>2
  <2> HIDE DEF Whole
  <2>3. Nat \subseteq Whole
    BY <2>1, <2>2, ByInduction
  <2>4. \A i \in 0 .. n : g[i] \in Nat
    BY <2>3 DEF Whole
  <2>5. \A i \in 0 .. n : i # 0 => i - 1 \in 0 .. n
    OBVIOUS
  <2>6. \A i \in 0 .. n : (IF i = 0 THEN d ELSE F[g[i - 1]]) = (IF i = 0 THEN d ELSE Left(g[i - 1]))
    BY <1>1, <2>4, <2>5
  <2>7. g = [i \in 0 .. n |-> IF i = 0 THEN d ELSE F[g[i - 1]]]
    BY <1>3, <2>6
  <2> QED BY <2>7 DEF Iterates
<1>4. PICK h : Iterates(h, F, d, n)
  BY <1>1, IteratesExist
<1> DEFINE left == CHOOSE g : Sequel(g)
<1>5. Sequel(left)
  BY <1>2, <1>4
<1>6. Remaining(d, n) = left[n]
  BY DEF Remaining
<1> HIDE DEF left
<1>7. Iterates(left, F, d, n)
  BY <1>3, <1>5
<1> QED BY <1>6, <1>7 DEF F

LEMMA RemainingFacts ==
  ASSUME NEW d \in Nat, NEW n \in Nat
  PROVE  /\ Remaining(d, 0) = d /\ Remaining(d, n) \in Nat
         /\ Remaining(d, n + 1) = Left(Remaining(d, n))
<1> DEFINE F == [e \in Nat |-> Left(e)]
<1>1. F \in [Nat -> Nat] /\ \A e \in Nat : F[e] = Left(e)
  BY LeftFacts
<1>2. PICK f : Iterates(f, F, d, 0) /\ Remaining(d, 0) = f[0]
  BY RemainingIs
<1>3. PICK g : Iterates(g, F, d, n) /\ Remaining(d, n) = g[n]
  BY RemainingIs
<1>4. PICK h : Iterates(h, F, d, n + 1) /\ Remaining(d, n + 1) = h[n + 1]
  <2>1. n + 1 \in Nat
    OBVIOUS
  <2> HIDE DEF F
  <2> QED BY <2>1, RemainingIs DEF F
<1> HIDE DEF F
<1>5. f[0] = d
  <2>1. 0 \in 0 .. 0
    OBVIOUS
  <2> QED BY <1>2, <2>1 DEF Iterates
<1>6. g[n] = h[n] /\ g[n] \in Nat
  <2>1. \A i \in 0 .. n : g[i] = h[i] /\ g[i] \in Nat
    <3>1. n <= n + 1 /\ n + 1 \in Nat
      OBVIOUS
    <3> QED BY <1>1, <1>3, <1>4, <3>1, IteratesAgree, Zenon
  <2> QED BY <2>1
<1>7. h[n + 1] = F[h[n]]
  <2>1. n + 1 \in 0 .. n + 1 /\ n + 1 # 0 /\ (n + 1) - 1 = n
    OBVIOUS
  <2> QED BY <1>4, <2>1 DEF Iterates
<1> QED BY <1>1, <1>2, <1>3, <1>4, <1>5, <1>6, <1>7

-----------------------------------------------------------------------------
(* Hand guiding: one cycle of a response *)

LEMMA TowardFacts ==
  ASSUME NEW v \in Int, NEW b \in Int
  PROVE  /\ Toward(v, b) \in Int
         /\ v <= b => v <= Toward(v, b) /\ Toward(v, b) <= b /\ Toward(v, b) = b - Left(b - v)
         /\ b <= v => b <= Toward(v, b) /\ Toward(v, b) <= v /\ Toward(v, b) = b + Left(v - b)
<1>1. CASE v <= b
  <2>1. b - v \in Nat /\ Left(b - v) \in 0 .. (b - v) /\ (b - v = 0 => Left(b - v) = 0)
    BY <1>1, LeftFacts
  <2>2. Toward(v, b) = b - Left(b - v)
    BY <1>1 DEF Toward
  <2>3. v = b => v - b = b - v
    OBVIOUS
  <2> QED BY <1>1, <2>1, <2>2, <2>3
<1>2. CASE b < v
  <2>1. v - b \in Nat /\ Left(v - b) \in 0 .. (v - b)
    BY <1>2, LeftFacts
  <2>2. Toward(v, b) = b + Left(v - b)
    BY <1>2 DEF Toward
  <2> QED BY <1>2, <2>1, <2>2
<1> QED BY <1>1, <1>2

LEMMA TowardOrder ==
  ASSUME NEW v \in Int, NEW w \in Int, NEW b \in Int, v <= w
  PROVE  Toward(v, b) <= Toward(w, b)
<1>0. Toward(v, b) \in Int /\ Toward(w, b) \in Int
  BY TowardFacts
<1>1. CASE w <= b
  <2>1. b - w \in Nat /\ b - v \in Nat /\ b - w <= b - v
    BY <1>1
  <2>2. Left(b - w) <= Left(b - v) /\ Left(b - w) \in Int /\ Left(b - v) \in Int
    BY <2>1, LeftOrder, LeftFacts
  <2>3. Toward(v, b) = b - Left(b - v) /\ Toward(w, b) = b - Left(b - w)
    BY <1>1, TowardFacts
  <2> QED BY <2>2, <2>3
<1>2. CASE v <= b /\ b < w
  <2>1. Toward(v, b) <= b /\ b <= Toward(w, b)
    BY <1>2, TowardFacts
  <2> QED BY <1>0, <2>1
<1>3. CASE b < v
  <2>1. v - b \in Nat /\ w - b \in Nat /\ v - b <= w - b
    BY <1>3
  <2>2. Left(v - b) <= Left(w - b) /\ Left(v - b) \in Int /\ Left(w - b) \in Int
    BY <2>1, LeftOrder, LeftFacts
  <2>3. Toward(v, b) = b + Left(v - b) /\ Toward(w, b) = b + Left(w - b)
    BY <1>3, TowardFacts
  <2> QED BY <2>2, <2>3
<1> QED BY <1>1, <1>2, <1>3

\* On the way from 0 to what balances the force
SameSide(v, b) == (b > 0 /\ v >= 0) \/ (b < 0 /\ v <= 0)

\* A response held back: the first step from 0 is less than the least response.
TooWeak(b) == Within(Toward(0, b), Mine.floor - 1)

\* What one cycle makes of a response v: it is held back at 0, or nearer to what
\* it should be, or set to 0 while it turns round, which happens once.
Nears(v, b, r) ==
  \/ r = 0 /\ TooWeak(b)
  \/ /\ \A n \in Nat : Within(Topped(b) - v, n) => Within(Topped(b) - r, Left(n))
     /\ SameSide(v, b) => SameSide(r, b)
  \/ /\ ~SameSide(v, b) /\ r = 0 /\ SameSide(0, b)
     /\ \A n \in Nat : Within(Topped(b) - v, n) => Within(Topped(b), n)

Limits == Mine.top \in Nat /\ Mine.floor \in 0 .. Mine.top

LEMMA NearsUp ==
  ASSUME Limits, NEW v \in Int, NEW b \in Nat, Within(v, Mine.top)
  PROVE  Nears(v, b, Floored(Topped(Toward(v, b))))
<1> DEFINE w == Toward(v, b)
           u == Topped(w)
           t == Topped(b)
           r == Floored(u)
           top == Mine.top
           floor == Mine.floor
<1>1. /\ w \in Int
      /\ v <= b => v <= w /\ w <= b /\ w = b - Left(b - v)
      /\ b <= v => b <= w /\ w <= v /\ w = b + Left(v - b)
  <2>1. b \in Int
    OBVIOUS
  <2> QED BY <2>1, TowardFacts, Zenon
<1>2. top \in Nat /\ floor \in Nat /\ floor <= top /\ -top <= v /\ v <= top
  BY DEF Limits, Within
<1>3. t = IF b > top THEN top ELSE b
  BY <1>2 DEF Topped, Clamp
<1>a. -top <= w
  BY <1>1, <1>2
<1>4. u = IF w > top THEN top ELSE w
  BY <1>1, <1>2, <1>a DEF Topped, Clamp
<1>b. u \in Int
  BY <1>1, <1>2, <1>4
<1>5. r = IF u < floor /\ -u < floor THEN 0 ELSE u
  BY <1>2, <1>b DEF Floored, Abs
<1> HIDE DEF w, u, t, r, top, floor
<1>6. ASSUME NEW n \in Nat, Within(t - v, n) PROVE Within(t - u, Left(n))
  <2>0. -n <= t - v /\ t - v <= n
    BY <1>6 DEF Within
  <2>1. CASE v <= b
    <3>1. t - v \in Nat /\ b - v \in Nat /\ t - v <= b - v /\ t - v <= n
      BY <1>2, <1>3, <2>0, <2>1
    <3>2. Left(b - v) - Left(t - v) <= (b - v) - (t - v) /\ Left(t - v) <= Left(n)
      BY <3>1, LeftOrder
    <3>3. Left(b - v) \in Int /\ Left(t - v) \in Int /\ 0 <= Left(t - v) /\ Left(n) \in Int
      BY <3>1, LeftFacts
    <3>4. w = b - Left(b - v) /\ v <= w /\ w <= b
      BY <1>1, <2>1
    <3>5. t - u <= Left(t - v) /\ 0 <= t - u
      <4> DEFINE x == Left(b - v)
                 y == Left(t - v)
      <4>1. x \in Int /\ y \in Int /\ 0 <= y /\ x - y <= (b - v) - (t - v) /\ w = b - x
        BY <3>2, <3>3, <3>4
      <4> HIDE DEF x, y
      <4>2. t - u <= y /\ 0 <= t - u
        BY <1>1, <1>2, <1>3, <1>4, <3>4, <4>1
      <4> QED BY <4>2 DEF y
    <3>6. t \in Int
      BY <1>2, <1>3
    <3> QED BY <1>b, <3>2, <3>3, <3>5, <3>6 DEF Within
  <2>2. CASE b < v
    <3>1. t = b /\ v - b \in Nat /\ v - b <= n
      BY <1>2, <1>3, <2>0, <2>2
    <3>2. Left(v - b) <= Left(n) /\ Left(v - b) \in Nat /\ Left(n) \in Int
      BY <3>1, LeftOrder, LeftFacts
    <3>3. w = b + Left(v - b) /\ w <= v
      BY <1>1, <2>2
    <3>4. u = w
      BY <1>1, <1>2, <1>4, <3>3
    <3> QED BY <1>b, <3>1, <3>2, <3>3, <3>4 DEF Within
  <2> QED BY <2>1, <2>2
<1>7. CASE r = u
  <2>1. SameSide(v, b) => SameSide(u, b)
    BY <1>1, <1>2, <1>4 DEF SameSide
  <2>2. (\A n \in Nat : Within(t - v, n) => Within(t - r, Left(n))) /\ (SameSide(v, b) => SameSide(r, b))
    BY <1>6, <1>7, <2>1
  <2> QED BY <2>2 DEF Nears, r, t, u, w
<1>8. CASE r # u
  <2>1. r = 0 /\ u < floor /\ -u < floor
    BY <1>5, <1>8
  <2>a. w = u
    BY <1>1, <1>2, <1>4, <2>1
  <2>2. Toward(0, b) \in Int /\ 0 <= Toward(0, b) /\ Toward(0, b) <= b
    <3>1. 0 \in Int /\ b \in Int /\ 0 <= b
      OBVIOUS
    <3> QED BY <3>1, TowardFacts, Zenon
  <2>3. CASE Toward(0, b) <= floor - 1
    <3>1. Within(Toward(0, b), floor - 1)
      BY <1>2, <2>2, <2>3 DEF Within
    <3>2. TooWeak(b)
      BY <3>1 DEF TooWeak, floor
    <3> QED BY <2>1, <3>2 DEF Nears, r, u, w
  <2>4. CASE ~(Toward(0, b) <= floor - 1)
    <3>1. v < 0
      <4> SUFFICES ASSUME 0 <= v PROVE FALSE
        OBVIOUS
      <4>1. Toward(0, b) <= w
        BY TowardOrder DEF w
      <4> QED BY <1>1, <1>2, <2>1, <2>a, <2>2, <2>4, <4>1
    <3>2. b > 0
      <4> SUFFICES ASSUME b = 0 PROVE FALSE
        OBVIOUS
      <4>1. Toward(0, b) = 0
        BY <2>2
      <4> QED BY <1>2, <1>b, <2>1, <2>4, <4>1
    <3>3. ~SameSide(v, b) /\ SameSide(0, b)
      BY <3>1, <3>2 DEF SameSide
    <3>4. \A n \in Nat : Within(t - v, n) => Within(t, n)
      BY <1>2, <1>3, <3>1 DEF Within
    <3>5. ~SameSide(v, b) /\ r = 0 /\ SameSide(0, b) /\ \A n \in Nat : Within(t - v, n) => Within(t, n)
      BY <2>1, <3>3, <3>4
    <3> QED BY <3>5 DEF Nears, r, t, u, w
  <2> QED BY <2>3, <2>4
<1> QED BY <1>7, <1>8 DEF r, u, w

\* What holds of a push holds of the opposite one.
LEMMA OppositeLimits ==
  ASSUME Limits, NEW v \in Int, NEW x \in Int, x + v = 0
  PROVE  /\ Topped(x) \in Int /\ Topped(v) \in Int /\ Topped(x) + Topped(v) = 0
         /\ Floored(x) \in Int /\ Floored(v) \in Int /\ Floored(x) + Floored(v) = 0
<1>0. Mine.top \in Nat /\ Mine.floor \in Nat
  BY DEF Limits
<1>1. Topped(x) \in Int /\ Topped(v) \in Int /\ Topped(x) + Topped(v) = 0
  BY <1>0 DEF Topped, Clamp
<1>2. Floored(x) \in Int /\ Floored(v) \in Int /\ Floored(x) + Floored(v) = 0
  BY <1>0 DEF Floored, Abs
<1> QED BY <1>1, <1>2

LEMMA Opposite ==
  ASSUME NEW v \in Int, NEW b \in Int, NEW x \in Int, NEW a \in Int, x + v = 0, a + b = 0
  PROVE  Toward(x, a) + Toward(v, b) = 0
<1>1. CASE v <= b
  <2>1. a <= x /\ x - a = b - v
    BY <1>1
  <2>2. Toward(x, a) = a + Left(x - a) /\ Toward(v, b) = b - Left(b - v)
    BY <1>1, <2>1, TowardFacts, Zenon
  <2>3. Left(b - v) \in Int
    BY <1>1, LeftFacts
  <2> QED BY <2>1, <2>2, <2>3
<1>2. CASE b < v
  <2>1. x <= a /\ a - x = v - b /\ b <= v
    BY <1>2
  <2>2. Toward(x, a) = a - Left(a - x) /\ Toward(v, b) = b + Left(v - b)
    BY <2>1, TowardFacts, Zenon
  <2>3. Left(v - b) \in Int
    BY <1>2, LeftFacts
  <2> QED BY <2>1, <2>2, <2>3
<1> QED BY <1>1, <1>2

LEMMA ResponseNears ==
  ASSUME Limits, NEW v \in Int, NEW b \in Int, Within(v, Mine.top)
  PROVE  Nears(v, b, Floored(Topped(Toward(v, b)))) /\ Floored(Topped(Toward(v, b))) \in Int
<1> DEFINE w == Toward(v, b)
           r == Floored(Topped(w))
<1>a. w \in Int /\ Topped(w) \in Int /\ r \in Int
  <2>1. w \in Int
    BY TowardFacts
  <2>2. \A e \in Int : 0 - e \in Int /\ (0 - e) + e = 0
    OBVIOUS
  <2> HIDE DEF w
  <2>3. Topped(w) \in Int
    BY <2>1, <2>2, OppositeLimits
  <2>4. Floored(Topped(w)) \in Int
    BY <2>2, <2>3, OppositeLimits
  <2> QED BY <2>1, <2>3, <2>4
<1>1. CASE b >= 0
  BY <1>1, <1>a, NearsUp
<1>2. CASE b < 0
  <2> DEFINE x == 0 - v
             a == 0 - b
             y == Toward(x, a)
             s == Floored(Topped(y))
  <2>1. x \in Int /\ a \in Nat /\ Within(x, Mine.top) /\ x + v = 0 /\ a + b = 0
    BY <1>2 DEF Limits, Within
  <2> HIDE DEF x, a
  <2>0. a \in Int /\ 0 \in Int /\ 0 + 0 = 0
    BY <2>1
  <2>2. y \in Int /\ y + w = 0 /\ Toward(0, a) \in Int /\ Toward(0, b) \in Int
    <3>1. y \in Int /\ Toward(0, a) \in Int /\ Toward(0, b) \in Int
      BY <2>0, <2>1, TowardFacts, Zenon
    <3>2. y + w = 0
      BY <2>0, <2>1, Opposite, Zenon
    <3> QED BY <3>1, <3>2
  <2> HIDE DEF y, w
  <2>3. Topped(y) \in Int /\ Topped(w) \in Int /\ Topped(y) + Topped(w) = 0
    BY <1>a, <2>2, OppositeLimits
  <2>4. s \in Int /\ r \in Int /\ s + r = 0
    BY <2>3, OppositeLimits
  <2>5. Nears(x, a, s)
    BY <2>1, NearsUp DEF y
  <2>6. Topped(a) + Topped(b) = 0 /\ Topped(a) \in Int /\ Topped(b) \in Int
    BY <2>0, <2>1, OppositeLimits
  <2>7. SameSide(x, a) <=> SameSide(v, b)
    BY <2>1 DEF SameSide
  <2> HIDE DEF r, s
  <2>8. SameSide(s, a) <=> SameSide(r, b)
    BY <2>1, <2>4 DEF SameSide
  <2>9. SameSide(0, a) <=> SameSide(0, b)
    BY <2>1 DEF SameSide
  <2>10. Toward(0, a) + Toward(0, b) = 0
    BY <2>0, <2>1, Opposite, Zenon
  <2>11. TooWeak(a) => TooWeak(b)
    <3>1. Mine.floor \in Int
      BY DEF Limits
    <3> QED BY <2>2, <2>10, <3>1 DEF TooWeak, Within
  <2>12. \A n \in Int : Within(Topped(b) - v, n) => Within(Topped(a) - x, n)
    BY <2>1, <2>6 DEF Within
  <2>13. \A n \in Int : Within(Topped(a) - s, n) => Within(Topped(b) - r, n)
    BY <2>4, <2>6 DEF Within
  <2>14. \A n \in Int : Within(Topped(a), n) => Within(Topped(b), n)
    BY <2>6 DEF Within
  <2>15. s = 0 => r = 0
    BY <2>4
  <2>16. \A n \in Nat : Left(n) \in Int /\ n \in Int
    BY LeftFacts
  <2>17. Nears(v, b, r)
    <3>1. CASE s = 0 /\ TooWeak(a)
      BY <2>11, <2>15, <3>1 DEF Nears
    <3>2. CASE /\ \A n \in Nat : Within(Topped(a) - x, n) => Within(Topped(a) - s, Left(n))
               /\ SameSide(x, a) => SameSide(s, a)
      <4>1. \A n \in Nat : Within(Topped(b) - v, n) => Within(Topped(b) - r, Left(n))
        BY <2>12, <2>13, <2>16, <3>2
      <4> QED BY <2>7, <2>8, <3>2, <4>1 DEF Nears
    <3>3. CASE /\ ~SameSide(x, a) /\ s = 0 /\ SameSide(0, a)
               /\ \A n \in Nat : Within(Topped(a) - x, n) => Within(Topped(a), n)
      <4>1. \A n \in Nat : Within(Topped(b) - v, n) => Within(Topped(b), n)
        BY <2>12, <2>14, <2>16, <3>3
      <4> QED BY <2>7, <2>9, <2>15, <3>3, <4>1 DEF Nears
    <3> QED BY <2>5, <3>1, <3>2, <3>3 DEF Nears
  <2> QED BY <1>a, <2>17 DEF r, w
<1> QED BY <1>1, <1>2

\* A response stays within what bounds it and its aim, and within its limit.
LEMMA ResponseWithin ==
  ASSUME Limits, NEW v \in Int, NEW b \in Int, NEW c \in Nat, Within(v, c), Within(b, c)
  PROVE  /\ Within(Floored(Topped(Toward(v, b))), c)
         /\ Within(Floored(Topped(Toward(v, b))), Mine.top)
         /\ Topped(b) \in Int /\ Within(Topped(b), c)
<1> DEFINE w == Toward(v, b)
<1>0. Mine.top \in Nat /\ Mine.floor \in Nat
  BY DEF Limits
<1>1. w \in Int /\ Within(w, c)
  <2>1. w \in Int /\ (v <= b => v <= w /\ w <= b) /\ (b <= v => b <= w /\ w <= v)
    BY TowardFacts
  <2> HIDE DEF w
  <2> QED BY <2>1 DEF Within
<1> HIDE DEF w
<1>2. \A e \in Int : Within(e, c) => Topped(e) \in Int /\ Within(Topped(e), c) /\ Within(Topped(e), Mine.top)
  BY <1>0 DEF Topped, Clamp, Within
<1>3. \A e, n \in Int : Within(e, n) /\ 0 <= n => Within(Floored(e), n)
  BY <1>0 DEF Floored, Abs, Within
<1>4. Within(Floored(Topped(w)), c) /\ Within(Floored(Topped(w)), Mine.top)
  BY <1>0, <1>1, <1>2, <1>3
<1> QED BY <1>2, <1>4 DEF w

\* A response that is held back stays 0.
LEMMA StaysHeld ==
  ASSUME Limits, NEW b \in Int, TooWeak(b)
  PROVE  Floored(Topped(Toward(0, b))) = 0
<1> DEFINE w == Toward(0, b)
<1>1. w \in Int
  BY TowardFacts
<1>2. -(Mine.floor - 1) <= w /\ w <= Mine.floor - 1
  BY DEF TooWeak, Within
<1> HIDE DEF w
<1>3. Mine.top \in Nat /\ Mine.floor \in Nat /\ Mine.floor <= Mine.top
  BY DEF Limits
<1>4. Topped(w) = w
  BY <1>1, <1>2, <1>3 DEF Topped, Clamp
<1>5. Floored(w) = 0
  BY <1>1, <1>2, <1>3 DEF Floored, Abs
<1> QED BY <1>4, <1>5 DEF w

\* How far a response v is behind what it should be.  It may turn round, and lose
\* a cycle, only before it is on the way to it.
Behind(v, b, left) ==
  \/ Within(Topped(b) - v, Left(left))
  \/ SameSide(v, b) /\ Within(Topped(b) - v, left)
  \/ v = 0 /\ TooWeak(b)

LEMMA BehindBegins ==
  ASSUME Limits, NEW v \in Int, NEW b \in Int, NEW n \in Nat,
         Within(v, Mine.top), Within(Topped(b) - v, n)
  PROVE  Behind(Floored(Topped(Toward(v, b))), b, n)
<1> DEFINE r == Floored(Topped(Toward(v, b)))
<1>1. Nears(v, b, r) /\ r \in Int
  BY ResponseNears
<1> HIDE DEF r
<1>2. r = 0 => Topped(b) - r = Topped(b)
  <2>1. Topped(b) \in Int
    BY DEF Limits, Topped, Clamp
  <2> QED BY <2>1
<1>3. Behind(r, b, n)
  BY <1>1, <1>2 DEF Nears, Behind
<1> QED BY <1>3 DEF r

LEMMA BehindLess ==
  ASSUME Limits, NEW v \in Int, NEW b \in Int, NEW n \in Nat,
         Within(v, Mine.top), Behind(v, b, n)
  PROVE  Behind(Floored(Topped(Toward(v, b))), b, Left(n))
<1> DEFINE r == Floored(Topped(Toward(v, b)))
<1>1. Nears(v, b, r) /\ r \in Int
  BY ResponseNears
<1>2. v = 0 /\ TooWeak(b) => r = 0
  BY StaysHeld
<1> HIDE DEF r
<1>3. r = 0 => Topped(b) - r = Topped(b)
  <2>1. Topped(b) \in Int
    BY DEF Limits, Topped, Clamp
  <2> QED BY <2>1
<1>4. Left(n) \in Nat
  BY LeftFacts
<1>5. Behind(r, b, Left(n))
  BY <1>1, <1>2, <1>3, <1>4 DEF Nears, Behind
<1> QED BY <1>5 DEF r

\* In the end it is there.
LEMMA BehindEnds ==
  ASSUME Limits, NEW v \in Int, NEW b \in Int, Behind(v, b, 0)
  PROVE  v = Topped(b) \/ (v = 0 /\ Abs(Toward(0, b)) < Mine.floor)
<1>1. Topped(b) \in Int /\ Mine.floor \in Nat
  BY DEF Limits, Topped, Clamp
<1>2. Toward(0, b) \in Int
  BY TowardFacts
<1>3. Left(0) = 0
  BY LeftFacts
<1>4. Within(Topped(b) - v, 0) => v = Topped(b)
  BY <1>1 DEF Within
<1>5. TooWeak(b) => Abs(Toward(0, b)) < Mine.floor
  BY <1>1, <1>2 DEF TooWeak, Within, Abs
<1> QED BY <1>3, <1>4, <1>5 DEF Behind
-----------------------------------------------------------------------------
(* Hand guiding: the filter, and what acts on the arm *)

LEMMA PlanFacts ==
  ASSUME guide \in DOMAIN Plans
  PROVE  /\ Limits /\ Mine.dead \in Nat /\ Mine.cap \in Nat /\ Mine.goal \in Int
         /\ Mine.sign \in {1, -1} /\ Mine.learns \in BOOLEAN
         /\ Mine.filter \in {"before", "after", "none", "unfilled"}
         /\ Mine.learns => Mine.filter = "before" /\ "work" \notin Mine.absolute
         /\ Noise < Mine.dead /\ (Mine.learns => 2 * Noise < Mine.dead)
         /\ Mine.steps \in {"always", "never", "unless"}
<1>1. \A p \in DOMAIN Plans : LET it == Plans[p] IN
         /\ it.dead \in Nat /\ it.cap \in Nat /\ it.top \in Nat /\ it.floor \in 0 .. it.top
         /\ it.goal \in Int /\ it.sign \in {1, -1} /\ it.learns \in BOOLEAN
         /\ it.filter \in {"before", "after", "none", "unfilled"}
         /\ it.learns => it.filter = "before" /\ "work" \notin it.absolute
         /\ it.steps \in {"always", "never", "unless"}
  BY PlansAssumption, Zenon
<1>2. Noise < Plans[guide].dead /\ (Plans[guide].learns => 2 * Noise < Plans[guide].dead)
  BY NoiseAssumption
<1> QED BY <1>1, <1>2 DEF Mine, Limits

LEMMA LimitedFacts ==
  ASSUME guide \in DOMAIN Plans, NEW f \in Int
  PROVE  Limited(f) \in Int /\ Within(Limited(f), Mine.cap)
<1>1. Mine.dead \in Nat /\ Mine.cap \in Nat
  BY PlanFacts
<1> QED BY <1>1 DEF Limited, Clamp, Abs, Within

\* A full filter: its mean is between its samples.
LEMMA MeanFacts ==
  ASSUME NEW s \in Seq(Int), Len(s) = FilterLength, NEW c \in Int
  PROVE  /\ Mean(s) \in Int
         /\ (\A i \in 1 .. FilterLength : s[i] <= c) => Mean(s) <= c
         /\ (\A i \in 1 .. FilterLength : c <= s[i]) => c <= Mean(s)
<1>0. FilterLength \in Nat \ {0}
  BY GuidingAssumption
<1> DEFINE t == Total(s)
           q == t \div FilterLength
<1>1. t \in Int /\ ((\A i \in 1 .. FilterLength : s[i] >= c) => t >= FilterLength * c)
  <2>1. Len(s) > 0
    BY <1>0
  <2>2. Total(s) \in Int /\ ((\A i \in 1 .. Len(s) : s[i] >= c) => Total(s) >= Len(s) * c)
    BY <2>1, TotalBounds, Zenon
  <2> QED BY <2>2
<1>2. (\A i \in 1 .. FilterLength : s[i] <= c) => t <= FilterLength * c
  BY TotalAtMost
<1> HIDE DEF t
<1>3. q \in Int /\ FilterLength * q <= t /\ t < FilterLength * q + FilterLength
  BY <1>0, <1>1, QuotientFacts
<1> HIDE DEF q
<1>4. ASSUME t <= FilterLength * c PROVE q <= c
  <2> SUFFICES ASSUME c + 1 <= q PROVE FALSE
    BY <1>3
  <2>1. FilterLength * (c + 1) <= FilterLength * q /\ FilterLength * (c + 1) = FilterLength * c + FilterLength
    BY <1>0, <1>3, ProductGrows
  <2>2. FilterLength * c \in Int /\ FilterLength * q \in Int
    BY <1>0, <1>3
  <2> QED BY <1>0, <1>1, <1>3, <1>4, <2>1, <2>2
<1>5. ASSUME t >= FilterLength * c PROVE c <= q
  <2> SUFFICES ASSUME q + 1 <= c PROVE FALSE
    BY <1>3
  <2>1. FilterLength * (q + 1) <= FilterLength * c /\ FilterLength * (q + 1) = FilterLength * q + FilterLength
    BY <1>0, <1>3, ProductGrows
  <2>2. FilterLength * c \in Int /\ FilterLength * q \in Int
    BY <1>0, <1>3
  <2> QED BY <1>0, <1>1, <1>3, <1>5, <2>1, <2>2
<1>6. Mean(s) = q
  BY DEF Mean, q, t
<1>7. (\A i \in 1 .. FilterLength : c <= s[i]) => t >= FilterLength * c
  <2>1. (\A i \in 1 .. FilterLength : c <= s[i]) => \A i \in 1 .. FilterLength : s[i] >= c
    BY <1>0
  <2> QED BY <1>1, <2>1
<1> QED BY <1>2, <1>3, <1>4, <1>5, <1>6, <1>7

\* A sample enters, the oldest leaves.
LEMMA FilterFacts ==
  ASSUME buffer \in Seq(Int), Len(buffer) = FilterLength, NEW f \in Int
  PROVE  /\ forceFilter(f) \in Seq(Int) /\ Len(forceFilter(f)) = FilterLength
         /\ forceFilter(f)[FilterLength] = f
         /\ \A i \in 1 .. FilterLength : i # FilterLength => i + 1 \in 1 .. FilterLength /\ forceFilter(f)[i] = buffer[i + 1]
<1>0. FilterLength \in Nat \ {0}
  BY GuidingAssumption
<1>1. Tail(buffer) \in Seq(Int) /\ Len(Tail(buffer)) = FilterLength - 1
  BY <1>0
<1>2. \A i \in 1 .. FilterLength - 1 : Tail(buffer)[i] = buffer[i + 1]
  BY <1>0
<1>3. forceFilter(f) \in Seq(Int) /\ Len(forceFilter(f)) = FilterLength /\ forceFilter(f)[FilterLength] = f
  BY <1>0, <1>1 DEF forceFilter
<1>4. \A i \in 1 .. FilterLength - 1 : forceFilter(f)[i] = Tail(buffer)[i]
  BY <1>0, <1>1 DEF forceFilter
<1> QED BY <1>0, <1>2, <1>3, <1>4

\* How far from 0 what acts on a plan can take its response.
Reach == Abs(Mine.goal) + Mine.cap

LEMMA BalanceFacts ==
  ASSUME guide \in DOMAIN Plans, NEW a \in Int
  PROVE  /\ Balance(a) \in Int /\ Reach \in Nat
         /\ Within(a, Mine.cap) => Within(Balance(a), Reach)
<1>1. Mine.cap \in Nat /\ Mine.goal \in Int /\ Mine.sign \in {1, -1}
  BY PlanFacts
<1>2. Mine.sign * a = a \/ Mine.sign * a = 0 - a
  BY <1>1
<1> DEFINE x == Mine.sign * a
<1>3. x \in Int /\ (x = a \/ x = 0 - a)
  BY <1>2
<1> HIDE DEF x
<1>4. Mine.goal + x \in Int /\ Reach \in Nat /\ (Within(a, Mine.cap) => Within(Mine.goal + x, Reach))
  BY <1>1, <1>3 DEF Reach, Abs, Within
<1> QED BY <1>4 DEF Balance, x
-----------------------------------------------------------------------------
(* Hand guiding: types *)

GuideType ==
  /\ guide \in DOMAIN Plans /\ guideStage \in {"start", "await", "work", "over"}
  /\ weight \in Int /\ push \in Int /\ zero \in Int
  /\ buffer \in Seq(Int) /\ Len(buffer) = FilterLength
  /\ out \in Int /\ step \in Int /\ bias \in Int /\ learnt \in Nat
  /\ steady \in 0 .. Settled /\ zeroPushed \in BOOLEAN /\ biasPushed \in BOOLEAN
  /\ runs \in Nat

LEMMA ReadingFacts ==
  ASSUME GuideType, NEW when, NEW f \in Int
  PROVE  getForceData(when, f) \in Int
BY DEF GuideType, getForceData

\* What one cycle of work makes of a force: the sample, the filter, the bias, what
\* acts on the arm.
SampleOf(f) == IF Mine.filter = "after" THEN Limited(f) ELSE f

LEMMA CycleFacts ==
  ASSUME GuideType, NEW f \in Int
  PROVE  LET filled == forceFilter(SampleOf(f)) IN
         /\ SampleOf(f) \in Int
         /\ filled \in Seq(Int) /\ Len(filled) = FilterLength
         /\ Mean(filled) \in Int /\ Bias(Mean(filled)) \in Int
         /\ Acting(f, filled) \in Int /\ Balance(Acting(f, filled)) \in Int
<1>1. guide \in DOMAIN Plans /\ buffer \in Seq(Int) /\ Len(buffer) = FilterLength /\ bias \in Int
  BY DEF GuideType
<1>2. SampleOf(f) \in Int
  BY <1>1, LimitedFacts DEF SampleOf
<1> DEFINE filled == forceFilter(SampleOf(f))
<1>3. filled \in Seq(Int) /\ Len(filled) = FilterLength
  BY <1>1, <1>2, FilterFacts
<1> HIDE DEF filled
<1>4. Mean(filled) \in Int
  BY <1>3, MeanFacts
<1>5. Bias(Mean(filled)) \in Int
  BY <1>1, <1>4 DEF Bias
<1>6. Acting(f, filled) \in Int
  <2>1. Mine.filter \in {"before", "after", "none", "unfilled"}
    BY <1>1, PlanFacts
  <2> DEFINE e == Mean(filled) - (IF Mine.learns THEN Bias(Mean(filled)) ELSE 0)
  <2>2. e \in Int
    BY <1>4, <1>5
  <2> HIDE DEF e
  <2>3. Limited(e) \in Int /\ Limited(f) \in Int
    BY <1>1, <2>2, LimitedFacts
  <2>4. Acting(f, filled) = CASE Mine.filter = "before" -> Limited(e)
                              [] Mine.filter = "after" -> Mean(filled)
                              [] Mine.filter = "none" -> Limited(f)
                              [] Mine.filter = "unfilled" -> 0
    BY DEF Acting, e
  <2> QED BY <1>4, <2>1, <2>3, <2>4
<1>7. Balance(Acting(f, filled)) \in Int
  BY <1>1, <1>6, BalanceFacts
<1> QED BY <1>2, <1>3, <1>4, <1>5, <1>6, <1>7 DEF filled

\* What Work does, with its sample named.
LEMMA WorkIs ==
  ASSUME GuideType, Work
  PROVE  LET f == getForceData("work", push')
             filled == forceFilter(SampleOf(f))
         IN  /\ guideStage = "work" /\ push' \in Pushes /\ push' \in Int /\ f \in Int
             /\ buffer' = filled /\ bias' = Bias(Mean(filled))
             /\ out' = Response(out, Acting(f, filled))
<1>1. push' \in Int
  BY GuidingAssumption DEF Work
<1>2. getForceData("work", push') \in Int
  BY <1>1, ReadingFacts
<1> QED BY <1>1, <1>2 DEF Work, SampleOf

LEMMA UnfilledFacts ==
  Unfilled \in Seq(Int) /\ Len(Unfilled) = FilterLength /\ \A i \in 1 .. FilterLength : Unfilled[i] = 0
BY GuidingAssumption DEF Unfilled

LEMMA GuideTypeInit == GuideInit => GuideType
<1> SUFFICES ASSUME GuideInit PROVE GuideType
  OBVIOUS
<1>1. buffer \in Seq(Int) /\ Len(buffer) = FilterLength
  BY UnfilledFacts DEF GuideInit
<1>2. steady \in 0 .. Settled /\ weight \in Int
  BY GuidingAssumption DEF GuideInit
<1>3. guide \in DOMAIN Plans /\ guideStage \in {"start", "await", "work", "over"}
      /\ push \in Int /\ zero \in Int /\ out \in Int /\ step \in Int /\ bias \in Int
      /\ learnt \in Nat /\ runs \in Nat
  BY DEF GuideInit
<1>4. zeroPushed \in BOOLEAN /\ biasPushed \in BOOLEAN
  BY DEF GuideInit
<1> QED BY <1>1, <1>2, <1>3, <1>4 DEF GuideType

LEMMA GuideTypeStep == GuideType /\ [GuideNext]_guideVars => GuideType'
<1> SUFFICES ASSUME GuideType, [GuideNext]_guideVars PROVE GuideType'
  OBVIOUS
<1> USE GuidingAssumption
<1>1. CASE Start
  BY <1>1 DEF Start, GuideType
<1>2. CASE TakeZero
  BY <1>2 DEF TakeZero, GuideType, Pushed
<1>3. CASE AwaitContact
  BY <1>3 DEF AwaitContact, GuideType
<1>4. CASE AlignStep
  BY <1>4 DEF AlignStep, GuideType
<1>5. CASE Work
  <2> DEFINE f == getForceData("work", push')
             filled == forceFilter(SampleOf(f))
             b == Balance(Acting(f, filled))
  <2>1. push' \in Int /\ f \in Int
    BY <1>5, WorkIs
  <2>2. buffer' = filled /\ bias' = Bias(Mean(filled)) /\ out' = Response(out, Acting(f, filled))
    BY <1>5, WorkIs
  <2>3. filled \in Seq(Int) /\ Len(filled) = FilterLength /\ Bias(Mean(filled)) \in Int /\ b \in Int
    BY <2>1, CycleFacts
  <2>4. out' = Floored(Topped(Toward(out, b)))
    BY <2>2 DEF Response
  <2> HIDE DEF f, filled, b
  <2>5. out' \in Int
    <3>1. Toward(out, b) \in Int
      BY <2>3, TowardFacts DEF GuideType
    <3>2. Limits
      BY PlanFacts DEF GuideType
    <3>3. \A e \in Int : 0 - e \in Int /\ (0 - e) + e = 0
      OBVIOUS
    <3>4. Topped(Toward(out, b)) \in Int
      BY <3>1, <3>2, <3>3, OppositeLimits
    <3> QED BY <2>4, <3>2, <3>3, <3>4, OppositeLimits
  <2>6. step' \in Int
    <3>1. step' \in Sent(out')
      BY <1>5 DEF Work
    <3>2. Mine.steps \in {"always", "never", "unless"}
      BY PlansAssumption DEF Mine, GuideType
    <3> QED BY <2>5, <3>1, <3>2 DEF Sent
  <2>7. learnt' \in Nat /\ steady' \in 0 .. Settled /\ biasPushed' \in BOOLEAN
    BY <1>5 DEF Work, GuideType, Pushed
  <2>8. UNCHANGED <<guide, guideStage, weight, zero, zeroPushed, runs>>
    BY <1>5 DEF Work
  <2> QED BY <2>1, <2>2, <2>3, <2>5, <2>6, <2>7, <2>8 DEF GuideType
<1>6. CASE NoGuideArm \/ Broken \/ Unreachable \/ GuideCut
  <2>1. GuideEnds
    BY <1>6 DEF NoGuideArm, Broken, Unreachable, GuideCut
  <2>2. buffer' \in Seq(Int) /\ Len(buffer') = FilterLength
    BY <2>1, UnfilledFacts DEF GuideEnds
  <2>3. guideStage' \in {"start", "await", "work", "over"} /\ push' \in Int /\ zero' \in Int
        /\ out' \in Int /\ step' \in Int /\ steady' \in 0 .. Settled
    BY <2>1 DEF GuideEnds
  <2>4. zeroPushed' \in BOOLEAN
    BY <2>1 DEF GuideEnds
  <2>5. UNCHANGED <<guide, weight, bias, learnt, biasPushed, runs>>
    BY <2>1 DEF GuideEnds
  <2> QED BY <2>2, <2>3, <2>4, <2>5 DEF GuideType
<1>7. CASE UNCHANGED guideVars
  BY <1>7 DEF guideVars, GuideType
<1> QED BY <1>1, <1>2, <1>3, <1>4, <1>5, <1>6, <1>7 DEF GuideNext, GuideStep

\* Every response, sample and bias is a number, and the count of steady cycles ends.
THEOREM GuideTypes == GuideSpec => []GuideType
<1> QED BY GuideTypeInit, GuideTypeStep, PTL DEF GuideSpec

-----------------------------------------------------------------------------
(* Hand guiding: the filter *)

\* The force read, and the response that balances it.
Felt == getForceData("work", push)
Expected ==
  Balance(IF Mine.filter = "unfilled" THEN 0 ELSE Limited(Felt - (IF Mine.learns THEN bias ELSE 0)))

\* At rest the filter is empty; at work it holds what the plan lets through, and
\* the samples since the force changed are all the same.
Filled ==
  /\ guideStage # "work" => steady = 0 /\ out = 0 /\ buffer = Unfilled
  /\ Mine.filter = "after" => \A i \in 1 .. FilterLength : Within(buffer[i], Mine.cap)
  /\ \A i \in 1 .. FilterLength : i > FilterLength - steady => buffer[i] = SampleOf(Felt)

\* What Work leaves of the force and of the plan.
LEMMA WorkKeeps ==
  ASSUME GuideType, Work
  PROVE  LET f == getForceData("work", push') IN
         /\ guide' = guide /\ Mine' = Mine
         /\ SampleOf(Felt)' = SampleOf(f) /\ Felt' = f
         /\ steady' # 0 => SampleOf(f) = SampleOf(Felt) /\ f = Felt /\ ~Learns /\ steady' <= steady + 1
<1>1. guide' = guide /\ zero' = zero /\ weight' = weight
  BY DEF Work
<1>2. Mine' = Mine
  BY <1>1 DEF Mine
<1>3. Felt' = getForceData("work", push')
  BY <1>1, <1>2 DEF Felt, getForceData
<1>4. SampleOf(Felt)' = SampleOf(getForceData("work", push'))
  BY <1>2, <1>3 DEF SampleOf, Limited, Clamp
<1>5. ASSUME steady' # 0 PROVE push' = push /\ ~Learns /\ steady' <= steady + 1
  <2>1. steady' = IF push' # push \/ Learns THEN 0 ELSE IF steady < Settled THEN steady + 1 ELSE steady
    BY DEF Work
  <2>2. steady \in Int
    BY GuidingAssumption DEF GuideType
  <2> QED BY <1>5, <2>1, <2>2
<1>6. push' = push => getForceData("work", push') = Felt
  BY DEF Felt
<1> QED BY <1>1, <1>2, <1>3, <1>4, <1>5, <1>6

\* Every step but a cycle of work finds, or leaves, the plan at rest.
LEMMA OtherSteps ==
  ASSUME Filled, GuideNext, ~Work
  PROVE  steady' = 0 /\ out' = 0 /\ buffer' = Unfilled
<1>1. CASE Start
  BY <1>1 DEF Start, Filled
<1>2. CASE TakeZero
  BY <1>2 DEF TakeZero, Filled
<1>3. CASE AwaitContact
  BY <1>3 DEF AwaitContact, Filled
<1>4. CASE AlignStep
  BY <1>4 DEF AlignStep, Filled
<1>5. CASE NoGuideArm \/ Broken \/ Unreachable \/ GuideCut
  BY <1>5 DEF NoGuideArm, Broken, Unreachable, GuideCut, GuideEnds
<1> QED BY <1>1, <1>2, <1>3, <1>4, <1>5 DEF GuideNext, GuideStep

\* A plan at rest has an empty filter.
LEMMA FilledAtRest ==
  ASSUME guide' \in DOMAIN Plans, steady' = 0, out' = 0, buffer' = Unfilled
  PROVE  Filled'
<1>1. Mine'.cap \in Nat
  BY PlansAssumption DEF Mine
<1>2. \A i \in 1 .. FilterLength : Within(Unfilled[i], Mine'.cap)
  BY <1>1, UnfilledFacts DEF Within
<1>3. \A i \in 1 .. FilterLength : ~(i > FilterLength - 0)
  BY GuidingAssumption
<1> QED BY <1>2, <1>3 DEF Filled, Within

LEMMA FilledInit == GuideInit => Filled
<1> SUFFICES ASSUME GuideInit PROVE Filled
  OBVIOUS
<1>1. Mine.cap \in Nat
  BY PlanFacts DEF GuideInit
<1>2. \A i \in 1 .. FilterLength : Within(Unfilled[i], Mine.cap)
  BY <1>1, UnfilledFacts DEF Within
<1>3. \A i \in 1 .. FilterLength : ~(i > FilterLength - 0)
  BY GuidingAssumption
<1>4. steady = 0 /\ out = 0 /\ buffer = Unfilled
  BY DEF GuideInit
<1> QED BY <1>2, <1>3, <1>4 DEF Filled

LEMMA FilledStep == GuideType /\ GuideType' /\ Filled /\ [GuideNext]_guideVars => Filled'
<1> SUFFICES ASSUME GuideType, GuideType', Filled, [GuideNext]_guideVars PROVE Filled'
  OBVIOUS
<1>1. CASE Work
  <2> DEFINE f == getForceData("work", push')
             x == SampleOf(f)
  <2>1. f \in Int /\ buffer' = forceFilter(x)
    BY <1>1, WorkIs
  <2>2. Mine' = Mine /\ SampleOf(Felt)' = x
    BY <1>1, WorkKeeps
  <2>3. steady' # 0 => x = SampleOf(Felt) /\ steady' <= steady + 1
    BY <1>1, WorkKeeps
  <2>4. x \in Int /\ (Mine.filter = "after" => Within(x, Mine.cap))
    BY <2>1, CycleFacts, LimitedFacts DEF SampleOf, GuideType
  <2> HIDE DEF f, x
  <2>5. /\ buffer'[FilterLength] = x
        /\ \A i \in 1 .. FilterLength : i # FilterLength => i + 1 \in 1 .. FilterLength /\ buffer'[i] = buffer[i + 1]
    BY <2>1, <2>4, FilterFacts DEF GuideType
  <2>6. FilterLength \in Nat \ {0} /\ steady \in Nat /\ steady' \in Nat
    BY GuidingAssumption DEF GuideType
  <2>7. ASSUME Mine.filter = "after", NEW i \in 1 .. FilterLength PROVE Within(buffer'[i], Mine.cap)
    <3>1. \A j \in 1 .. FilterLength : Within(buffer[j], Mine.cap)
      BY <2>7 DEF Filled
    <3> QED BY <2>4, <2>5, <2>7, <3>1
  <2>8. ASSUME NEW n \in Nat, n # 0 => x = SampleOf(Felt) /\ n <= steady + 1,
               NEW i \in 1 .. FilterLength, i > FilterLength - n
        PROVE  buffer'[i] = x
    <3>1. CASE i = FilterLength
      BY <2>5, <3>1
    <3>2. CASE i # FilterLength
      <4>1. i + 1 \in 1 .. FilterLength /\ buffer'[i] = buffer[i + 1]
        BY <2>5, <3>2
      <4>2. n # 0
        BY <2>6, <2>8
      <4>3. x = SampleOf(Felt) /\ n <= steady + 1
        BY <2>8, <4>2
      <4>4. i + 1 > FilterLength - steady
        BY <2>6, <2>8, <4>3
      <4> QED BY <4>1, <4>3, <4>4 DEF Filled
    <3> QED BY <3>1, <3>2
  <2>a. \A i \in 1 .. FilterLength : i > FilterLength - steady' => buffer'[i] = x
    BY <2>3, <2>6, <2>8, Zenon
  <2>9. guideStage' = "work"
    BY <1>1 DEF Work
  <2> QED BY <2>2, <2>7, <2>9, <2>a DEF Filled, Within
<1>2. CASE GuideNext /\ ~Work
  <2>1. steady' = 0 /\ out' = 0 /\ buffer' = Unfilled
    BY <1>2, OtherSteps
  <2>2. guide' \in DOMAIN Plans
    BY DEF GuideType
  <2> QED BY <2>1, <2>2, FilledAtRest
<1>3. CASE UNCHANGED guideVars
  BY <1>3 DEF guideVars, Filled, Mine, SampleOf, Felt, getForceData, Limited, Clamp, Within
<1> QED BY <1>1, <1>2, <1>3

-----------------------------------------------------------------------------
(* Hand guiding: a steady push *)

\* The response stays within its bounds; since the filter is full of the steady
\* force, it is behind by no more than a way it has so many cycles less to go.
Following ==
  /\ Within(out, Reach) /\ Within(out, Mine.top)
  /\ steady >= FilterLength => Behind(out, Expected, Remaining(2 * Reach, steady - FilterLength))

\* With a filter full of one sample, what acts on the arm is what it should be.
LEMMA ActingIs ==
  ASSUME GuideType, NEW f \in Int, ~Learns,
         \A i \in 1 .. FilterLength : forceFilter(SampleOf(f))[i] = SampleOf(f)
  PROVE  Acting(f, forceFilter(SampleOf(f)))
           = IF Mine.filter = "unfilled" THEN 0 ELSE Limited(f - (IF Mine.learns THEN bias ELSE 0))
<1> DEFINE filled == forceFilter(SampleOf(f))
<1>1. SampleOf(f) \in Int /\ filled \in Seq(Int) /\ Len(filled) = FilterLength
  BY CycleFacts
<1>2. Mean(filled) = SampleOf(f)
  <2> DEFINE x == SampleOf(f)
  <2>1. x \in Int /\ \A i \in 1 .. FilterLength : filled[i] = x
    BY <1>1
  <2> HIDE DEF x, filled
  <2>2. Mean(filled) \in Int
    BY <1>1, <2>1, MeanFacts
  <2>3. \A i \in 1 .. FilterLength : filled[i] <= x /\ x <= filled[i]
    BY <2>1
  <2>4. Mean(filled) <= x /\ x <= Mean(filled)
    BY <1>1, <2>1, <2>3, MeanFacts
  <2>5. Mean(filled) = x
    BY <2>1, <2>2, <2>4
  <2> QED BY <2>5 DEF x
<1> HIDE DEF filled
<1>3. Bias(Mean(filled)) = bias
  BY DEF Bias
<1>4. /\ Mine.filter \in {"before", "after", "none", "unfilled"}
      /\ Mine.learns \in BOOLEAN /\ (Mine.learns => Mine.filter = "before")
  BY PlanFacts DEF GuideType
<1>5. ~Mine.learns => f - (IF Mine.learns THEN bias ELSE 0) = f
  OBVIOUS
<1>6. CASE Mine.filter = "before"
  BY <1>2, <1>3, <1>6 DEF Acting, SampleOf, filled
<1>7. CASE Mine.filter = "after"
  BY <1>2, <1>4, <1>5, <1>7 DEF Acting, SampleOf, filled
<1>8. CASE Mine.filter = "none"
  BY <1>4, <1>5, <1>8 DEF Acting
<1>9. CASE Mine.filter = "unfilled"
  BY <1>9 DEF Acting
<1> QED BY <1>4, <1>6, <1>7, <1>8, <1>9

LEMMA ExpectedType ==
  ASSUME GuideType
  PROVE  Expected \in Int /\ Within(Expected, Reach) /\ Felt \in Int
<1>1. Felt \in Int
  BY ReadingFacts DEF Felt, GuideType
<1> DEFINE e == Felt - (IF Mine.learns THEN bias ELSE 0)
           a == IF Mine.filter = "unfilled" THEN 0 ELSE Limited(e)
<1>2. e \in Int
  BY <1>1 DEF GuideType
<1>3. guide \in DOMAIN Plans /\ Mine.cap \in Nat
  BY PlanFacts DEF GuideType
<1> HIDE DEF e
<1>4. Limited(e) \in Int /\ Within(Limited(e), Mine.cap)
  BY <1>2, <1>3, LimitedFacts
<1>5. a \in Int /\ Within(a, Mine.cap)
  BY <1>3, <1>4 DEF Within
<1> HIDE DEF a
<1>6. Balance(a) \in Int /\ Within(Balance(a), Reach)
  BY <1>3, <1>5, BalanceFacts
<1> QED BY <1>1, <1>6 DEF Expected, a, e

\* What acts on the arm is within the plan's cap.
LEMMA ActingWithin ==
  ASSUME GuideType, Work, Filled'
  PROVE  LET f == getForceData("work", push') IN Within(Acting(f, buffer'), Mine.cap)
<1> DEFINE f == getForceData("work", push')
<1>1. f \in Int /\ buffer' = forceFilter(SampleOf(f)) /\ Mine' = Mine
  BY WorkIs, WorkKeeps
<1>2. buffer' \in Seq(Int) /\ Len(buffer') = FilterLength /\ Mean(buffer') \in Int /\ Bias(Mean(buffer')) \in Int
  BY <1>1, CycleFacts
<1>3. guide \in DOMAIN Plans /\ Mine.cap \in Nat /\ Mine.filter \in {"before", "after", "none", "unfilled"}
  BY PlanFacts DEF GuideType
<1> DEFINE e == Mean(buffer') - (IF Mine.learns THEN Bias(Mean(buffer')) ELSE 0)
<1>4. e \in Int
  BY <1>2
<1> HIDE DEF e, f
<1>5. Within(Limited(e), Mine.cap) /\ Within(Limited(f), Mine.cap)
  BY <1>1, <1>3, <1>4, LimitedFacts
<1>6. CASE Mine.filter = "before"
  BY <1>5, <1>6 DEF Acting, e
<1>7. CASE Mine.filter = "after"
  <2>1. \A i \in 1 .. FilterLength : Within(buffer'[i], Mine.cap)
    BY <1>1, <1>7 DEF Filled, Within
  <2> DEFINE c == Mine.cap
             d == 0 - c
             s == buffer'
  <2>2. c \in Int /\ d \in Int /\ \A i \in 1 .. FilterLength : s[i] <= c /\ d <= s[i]
    BY <1>3, <2>1 DEF Within
  <2> HIDE DEF c, d, s
  <2>3. s \in Seq(Int) /\ Len(s) = FilterLength /\ Mean(s) \in Int
    BY <1>2 DEF s
  <2>4. Mean(s) <= c /\ d <= Mean(s)
    BY <2>2, <2>3, MeanFacts
  <2>5. Within(Mean(s), c)
    BY <2>2, <2>3, <2>4 DEF Within, d
  <2> QED BY <1>7, <2>5 DEF Acting, s, c
<1>8. CASE Mine.filter = "none"
  BY <1>5, <1>8 DEF Acting, f
<1>9. CASE Mine.filter = "unfilled"
  <2>1. Within(0, Mine.cap)
    BY <1>3 DEF Within
  <2> QED BY <1>9, <2>1 DEF Acting
<1> QED BY <1>3, <1>6, <1>7, <1>8, <1>9

LEMMA RemainingNext ==
  ASSUME guide \in DOMAIN Plans, NEW n \in FilterLength .. Settled, NEW m \in Nat,
         m = IF n < Settled THEN n + 1 ELSE n
  PROVE  Left(Remaining(2 * Reach, n - FilterLength)) = Remaining(2 * Reach, m - FilterLength)
<1>0. FilterLength \in Nat /\ Settled \in Nat /\ 2 * Reach \in Nat
  <2>1. Reach \in Nat
    BY BalanceFacts
  <2> QED BY <2>1, GuidingAssumption
<1>1. CASE n < Settled
  <2>1. n - FilterLength \in Nat /\ m - FilterLength = (n - FilterLength) + 1
    BY <1>0, <1>1
  <2> QED BY <1>0, <2>1, RemainingFacts
<1>2. CASE n = Settled
  <2>1. Remaining(2 * Reach, Settled - FilterLength) = 0
    BY SettledAssumption DEF Reach, Mine
  <2>2. Left(0) = 0
    BY LeftFacts
  <2>3. m = n
    BY <1>0, <1>2
  <2> QED BY <1>2, <2>1, <2>2, <2>3
<1> QED BY <1>0, <1>1, <1>2

LEMMA FollowingInit == GuideInit => Following
<1> SUFFICES ASSUME GuideInit PROVE Following
  OBVIOUS
<1>1. out = 0 /\ steady = 0 /\ guide \in DOMAIN Plans
  BY DEF GuideInit
<1>2. Reach \in Nat /\ Limits
  BY <1>1, BalanceFacts, PlanFacts
<1>3. ~(steady >= FilterLength)
  BY <1>1, GuidingAssumption
<1> QED BY <1>1, <1>2, <1>3 DEF Following, Within, Limits

LEMMA FollowingWork ==
  ASSUME GuideType, Filled, Filled', Following, Work
  PROVE  Following'
<1> DEFINE f == getForceData("work", push')
           filled == forceFilter(SampleOf(f))
           b == Balance(Acting(f, filled))
<1>1. f \in Int /\ buffer' = filled /\ bias' = Bias(Mean(filled)) /\ out' = Response(out, Acting(f, filled))
  BY WorkIs
<1>2. out' = Floored(Topped(Toward(out, b)))
  BY <1>1 DEF Response
<1>3. guide' = guide /\ Mine' = Mine /\ SampleOf(Felt)' = SampleOf(f) /\ Felt' = f
  BY WorkKeeps
<1>4. steady' # 0 => SampleOf(f) = SampleOf(Felt) /\ f = Felt /\ ~Learns /\ steady' <= steady + 1
  BY WorkKeeps
<1>5. guide \in DOMAIN Plans /\ Limits /\ Mine.cap \in Nat
  BY PlanFacts DEF GuideType
<1>6. Acting(f, filled) \in Int
  BY <1>1, CycleFacts
<1>7. b \in Int /\ Reach \in Nat /\ Within(b, Reach)
  <2>1. Within(Acting(f, filled), Mine.cap)
    BY <1>1, ActingWithin
  <2> HIDE DEF f, filled
  <2> QED BY <1>5, <1>6, <2>1, BalanceFacts
<1>8. out \in Int /\ Within(out, Reach) /\ Within(out, Mine.top)
  BY DEF GuideType, Following
<1>9. FilterLength \in Nat \ {0} /\ Settled \in Nat /\ steady \in 0 .. Settled
  BY GuidingAssumption DEF GuideType
<1>10. steady' \in 0 .. Settled /\ (steady' # 0 => steady' = IF steady < Settled THEN steady + 1 ELSE steady)
  BY <1>9 DEF Work
<1>11. ASSUME steady' >= FilterLength PROVE Expected' = b
  <2>1. steady' # 0 /\ ~Learns
    BY <1>4, <1>9, <1>10, <1>11
  <2>2. \A i \in 1 .. FilterLength : filled[i] = SampleOf(f)
    <3>1. \A i \in 1 .. FilterLength : i > FilterLength - steady' => filled[i] = SampleOf(f)
      BY <1>1, <1>3 DEF Filled
    <3>2. \A n \in Nat : n >= FilterLength => \A i \in 1 .. FilterLength : i > FilterLength - n
      BY <1>9
    <3>3. steady' \in Nat
      BY <1>10
    <3> QED BY <1>11, <3>1, <3>2, <3>3, Zenon
  <2>3. Acting(f, filled) = IF Mine.filter = "unfilled" THEN 0 ELSE Limited(f - (IF Mine.learns THEN bias ELSE 0))
    BY <1>1, <2>1, <2>2, ActingIs
  <2>4. bias' = bias
    BY <1>1, <2>1 DEF Bias
  <2> HIDE DEF f, filled
  <2> QED BY <1>3, <2>3, <2>4 DEF Expected, Balance, Limited, Clamp
<1> HIDE DEF f, filled, b
<1>12. Within(out', Reach) /\ Within(out', Mine.top) /\ Topped(b) \in Int /\ Within(Topped(b), Reach)
  BY <1>2, <1>5, <1>7, <1>8, ResponseWithin
<1>13. ASSUME steady' >= FilterLength
       PROVE  Behind(out', b, Remaining(2 * Reach, steady' - FilterLength))
  <2>1. steady' = IF steady < Settled THEN steady + 1 ELSE steady
    BY <1>9, <1>10, <1>13
  <2>2. CASE steady >= FilterLength
    <3>1. Expected = b
      <4>1. f = Felt /\ ~Learns
        BY <1>4, <1>9, <1>10, <1>13
      <4>2. bias' = bias
        BY <1>1, <4>1 DEF Bias
      <4>3. Expected' = Expected
        BY <1>3, <4>1, <4>2 DEF Expected, Balance, Limited, Clamp
      <4> QED BY <1>11, <1>13, <4>3
    <3> DEFINE left == Remaining(2 * Reach, steady - FilterLength)
    <3>2. left \in Nat
      <4>1. 2 * Reach \in Nat /\ steady - FilterLength \in Nat
        BY <1>7, <1>9, <2>2
      <4> QED BY <4>1, RemainingFacts
    <3>3. Behind(out, b, left)
      BY <2>2, <3>1 DEF Following
    <3>4. Left(left) = Remaining(2 * Reach, steady' - FilterLength)
      BY <1>5, <1>9, <1>10, <2>1, <2>2, RemainingNext
    <3> HIDE DEF left
    <3>5. Behind(out', b, Left(left))
      BY <1>2, <1>5, <1>7, <1>8, <3>2, <3>3, BehindLess
    <3> QED BY <3>4, <3>5
  <2>3. CASE steady < FilterLength
    <3>1. steady' - FilterLength = 0
      BY <1>9, <1>13, <2>1, <2>3
    <3>2. 2 * Reach \in Nat /\ Within(Topped(b) - out, 2 * Reach)
      BY <1>7, <1>8, <1>12 DEF Within
    <3>3. Remaining(2 * Reach, steady' - FilterLength) = 2 * Reach
      BY <3>1, <3>2, RemainingFacts
    <3>4. Behind(out', b, 2 * Reach)
      BY <1>2, <1>5, <1>7, <1>8, <3>2, BehindBegins
    <3> QED BY <3>3, <3>4
  <2> QED BY <1>9, <2>2, <2>3
<1>14. Reach' = Reach
  BY <1>3 DEF Reach
<1>15. ASSUME steady' >= FilterLength PROVE Behind(out, Expected, Remaining(2 * Reach, steady - FilterLength))'
  <2>1. Behind(out', Expected', Remaining(2 * Reach, steady' - FilterLength))
    BY <1>11, <1>13, <1>15
  <2> QED BY <1>3, <1>14, <2>1 DEF Behind, TooWeak, Topped, Clamp
<1>16. Within(out, Reach)' /\ Within(out, Mine.top)'
  BY <1>3, <1>12, <1>14 DEF Within
<1> QED BY <1>15, <1>16 DEF Following

LEMMA FollowingStep ==
  GuideType /\ GuideType' /\ Filled /\ Filled' /\ Following /\ [GuideNext]_guideVars => Following'
<1> SUFFICES ASSUME GuideType, GuideType', Filled, Filled', Following, [GuideNext]_guideVars
             PROVE  Following'
  OBVIOUS
<1>1. CASE Work
  BY <1>1, FollowingWork
<1>2. CASE GuideNext /\ ~Work
  <2>1. steady' = 0 /\ out' = 0
    BY <1>2, OtherSteps
  <2>2. Mine'.cap \in Nat /\ Mine'.goal \in Int /\ Mine'.top \in Nat
    BY PlansAssumption DEF Mine, GuideType
  <2>3. ~(steady' >= FilterLength)
    BY <2>1, GuidingAssumption
  <2>4. Within(out, Reach)' /\ Within(out, Mine.top)'
    BY <2>1, <2>2 DEF Within, Reach, Abs
  <2> QED BY <2>3, <2>4 DEF Following
<1>3. CASE UNCHANGED guideVars
  <2>1. out' = out /\ steady' = steady /\ bias' = bias /\ Mine' = Mine
    BY <1>3 DEF guideVars, Mine
  <2>2. Felt' = Felt
    BY <1>3, <2>1 DEF guideVars, Felt, getForceData
  <2>3. Expected' = Expected
    BY <2>1, <2>2 DEF Expected, Balance, Limited, Clamp
  <2>4. Reach' = Reach
    BY <2>1 DEF Reach
  <2> QED BY <2>1, <2>3, <2>4 DEF Following, Within, Behind, TooWeak, Topped, Clamp
<1> QED BY <1>1, <1>2, <1>3

GuideInv == GuideType /\ Filled /\ Following

LEMMA GuideInvInit == GuideInit => GuideInv
BY GuideTypeInit, FilledInit, FollowingInit DEF GuideInv

LEMMA GuideInvStep == GuideInv /\ [GuideNext]_guideVars => GuideInv'
BY GuideTypeStep, FilledStep, FollowingStep DEF GuideInv

\* A steady force ends in the response that balances it, within the limits, or in
\* none when one cycle of it is below the floor.
LEMMA FollowedThrough ==
  ASSUME GuideInv, steady = Settled
  PROVE  out = Topped(Expected) \/ (out = 0 /\ Abs(Toward(0, Expected)) < Mine.floor)
<1>1. guide \in DOMAIN Plans /\ out \in Int /\ GuideType
  BY DEF GuideInv, GuideType
<1>2. Remaining(2 * Reach, Settled - FilterLength) = 0
  BY <1>1, SettledAssumption DEF Reach, Mine
<1>3. Behind(out, Expected, 0)
  <2>1. steady >= FilterLength
    BY GuidingAssumption, SettledAssumption
  <2> QED BY <1>2, <2>1 DEF GuideInv, Following
<1>4. Limits /\ Expected \in Int
  BY <1>1, PlanFacts, ExpectedType
<1> QED BY <1>1, <1>3, <1>4, BehindEnds

-----------------------------------------------------------------------------
(* Hand guiding: an arm nobody holds *)

\* A zero, and a bias, taken while nobody pushed are off by noise at most; so is
\* every sample of a plan that still learns its bias.
Untouched ==
  /\ guideStage \in {"await", "work"} => push \in Pushes
  /\ guideStage \in {"await", "work"} /\ ~zeroPushed =>
       \E f \in Pushes : ~Pushed(f) /\ zero = f + weight
  /\ ~biasPushed => Within(bias, Noise)
  /\ guideStage = "work" /\ Mine.learns /\ learnt < Learning /\ ~biasPushed =>
       \A i \in 1 .. FilterLength : Within(buffer[i], Noise)

\* What such a plan reads when nobody pushes
LEMMA ReadingOff ==
  ASSUME GuideType, NEW f \in Pushes, ~Pushed(f), "work" \notin Mine.absolute,
         \E g \in Pushes : ~Pushed(g) /\ zero = g + weight
  PROVE  Within(getForceData("work", f), Noise)
<1>1. PICK g \in Pushes : ~Pushed(g) /\ zero = g + weight
  OBVIOUS
<1>2. f \in Int /\ g \in Int /\ weight \in Int
  BY GuidingAssumption DEF GuideType
<1>3. getForceData("work", f) = f - g
  BY <1>1, <1>2 DEF getForceData
<1>4. Abs(f - g) <= Noise
  BY <1>1, NoiseAssumption
<1>5. Noise \in Nat
  BY GuidingAssumption
<1> QED BY <1>2, <1>3, <1>4, <1>5 DEF Within, Abs

LEMMA UntouchedInit == GuideInit => Untouched
BY GuidingAssumption DEF GuideInit, Untouched, Within

LEMMA UntouchedWork ==
  ASSUME GuideType, GuideType', Untouched, Work
  PROVE  Untouched'
<1> DEFINE f == getForceData("work", push')
           filled == forceFilter(SampleOf(f))
<1>1. guideStage = "work" /\ push' \in Pushes /\ f \in Int /\ buffer' = filled /\ bias' = Bias(Mean(filled))
  BY WorkIs
<1>2. Mine' = Mine /\ UNCHANGED <<guideStage, weight, zero, zeroPushed>>
  BY WorkKeeps DEF Work
<1>3. /\ biasPushed' = (biasPushed \/ (Learns /\ (zeroPushed \/ Pushed(push'))))
      /\ learnt' = IF Learns THEN learnt + 1 ELSE learnt
  BY DEF Work
<1>4. Noise \in Nat /\ learnt \in Nat /\ Learning \in Nat /\ bias \in Int
  BY GuidingAssumption DEF GuideType
<1>5. ASSUME ~biasPushed', Learns
      PROVE  (\A i \in 1 .. FilterLength : Within(filled[i], Noise)) /\ Within(Bias(Mean(filled)), Noise)
  <2>1. ~biasPushed /\ ~zeroPushed /\ ~Pushed(push')
    BY <1>3, <1>5
  <2>2. Mine.filter = "before" /\ "work" \notin Mine.absolute
    BY <1>5, PlanFacts DEF GuideType, Learns
  <2>3. Within(f, Noise) /\ SampleOf(f) = f
    <3>1. \E g \in Pushes : ~Pushed(g) /\ zero = g + weight
      BY <1>1, <2>1 DEF Untouched
    <3>2. Within(f, Noise)
      BY <1>1, <2>1, <2>2, <3>1, ReadingOff
    <3>3. SampleOf(f) = f
      BY <2>2 DEF SampleOf
    <3> QED BY <3>2, <3>3
  <2>4. \A i \in 1 .. FilterLength : Within(buffer[i], Noise)
    BY <1>1, <1>5, <2>1 DEF Untouched, Learns
  <2>5. filled \in Seq(Int) /\ Len(filled) = FilterLength /\ Mean(filled) \in Int
    BY <1>1, CycleFacts
  <2>6. /\ filled[FilterLength] = f
        /\ \A i \in 1 .. FilterLength : i # FilterLength => i + 1 \in 1 .. FilterLength /\ filled[i] = buffer[i + 1]
    BY <1>1, <2>3, FilterFacts DEF GuideType
  <2> HIDE DEF f, filled
  <2>7. \A i \in 1 .. FilterLength : Within(filled[i], Noise)
    BY <2>3, <2>4, <2>6
  <2> DEFINE d == 0 - Noise
             q == Mean(filled)
  <2>8. d \in Int /\ Noise \in Int /\ \A i \in 1 .. FilterLength : filled[i] <= Noise /\ d <= filled[i]
    BY <1>4, <2>7 DEF Within
  <2>9. d + Noise = 0 /\ q \in Int
    BY <1>4, <2>5
  <2> HIDE DEF d
  <2>10. q <= Noise /\ d <= q
    BY <2>5, <2>8, MeanFacts
  <2>11. Bias(q) = (bias + q) \div 2
    BY <1>5 DEF Bias
  <2>12. Within(bias, Noise)
    BY <2>1 DEF Untouched
  <2> HIDE DEF q
  <2>13. Within(Bias(q), Noise)
    BY <1>4, <2>8, <2>9, <2>10, <2>11, <2>12 DEF Within
  <2> QED BY <2>7, <2>13 DEF q
<1> HIDE DEF f, filled
<1>6. ~biasPushed' => Within(bias', Noise)
  <2>1. ~Learns => bias' = bias
    BY <1>1 DEF Bias
  <2> QED BY <1>1, <1>3, <1>5, <2>1 DEF Untouched
<1>7. Mine.learns /\ learnt' < Learning => Learns
  BY <1>3, <1>4 DEF Learns
<1>8. guideStage' = "work" /\ Mine'.learns /\ learnt' < Learning /\ ~biasPushed' =>
        \A i \in 1 .. FilterLength : Within(buffer'[i], Noise)
  BY <1>1, <1>2, <1>5, <1>7
<1>9. guideStage' \in {"await", "work"} /\ ~zeroPushed' =>
        \E g \in Pushes : ~Pushed(g) /\ zero' = g + weight'
  BY <1>1, <1>2 DEF Untouched
<1> QED BY <1>1, <1>6, <1>8, <1>9 DEF Untouched, Within

LEMMA UntouchedStep ==
  GuideType /\ GuideType' /\ Filled /\ Untouched /\ [GuideNext]_guideVars => Untouched'
<1> SUFFICES ASSUME GuideType, GuideType', Filled, Untouched, [GuideNext]_guideVars
             PROVE  Untouched'
  OBVIOUS
<1>0. StartPushes \subseteq Pushes /\ Noise \in Nat
  BY GuidingAssumption
<1>1. CASE Work
  BY <1>1, UntouchedWork
<1>2. ASSUME GuideNext, ~Work
      PROVE  /\ UNCHANGED <<bias, biasPushed>>
             /\ \A i \in 1 .. FilterLength : Within(buffer'[i], Noise)
             /\ guideStage' \in {"await", "work"} => push' \in Pushes
             /\ guideStage' \in {"await", "work"} /\ ~zeroPushed' =>
                  \E f \in Pushes : ~Pushed(f) /\ zero' = f + weight'
  <2>1. \A i \in 1 .. FilterLength : Within(buffer'[i], Noise)
    BY <1>0, <1>2, OtherSteps, UnfilledFacts DEF Within
  <2>2. CASE Start
    BY <2>1, <2>2 DEF Start
  <2>3. CASE TakeZero
    BY <1>0, <2>1, <2>3 DEF TakeZero
  <2>4. CASE AwaitContact \/ AlignStep
    BY <1>0, <2>1, <2>4 DEF AwaitContact, AlignStep, Untouched
  <2>5. CASE NoGuideArm \/ Broken \/ Unreachable \/ GuideCut
    BY <2>1, <2>5 DEF NoGuideArm, Broken, Unreachable, GuideCut, GuideEnds
  <2> QED BY <1>2, <2>2, <2>3, <2>4, <2>5 DEF GuideNext, GuideStep
<1>3. CASE GuideNext /\ ~Work
  BY <1>2, <1>3 DEF Untouched, Within
<1>4. CASE UNCHANGED guideVars
  BY <1>4 DEF guideVars, Untouched, Within, Mine
<1> QED BY <1>1, <1>3, <1>4

\* What is felt of a push is off by the noise in the zero, less a bias that is off by
\* no more.
LEMMA FeltNear ==
  ASSUME GuideType, Untouched, guideStage = "work", Unbiased
  PROVE  LET e == Felt - (IF Mine.learns THEN bias ELSE 0) IN
         /\ e \in Int /\ push \in Int /\ Noise \in Nat /\ Within(e - push, 2 * Noise)
         /\ ~Pushed(push) => Within(e, 2 * Noise) /\ (~Mine.learns => Within(e, Noise))
<1>1. (Mine.learns => "work" \notin Mine.absolute) /\ Mine.learns \in BOOLEAN
  BY PlanFacts DEF GuideType
<1>2. Noise \in Nat /\ push \in Int /\ push \in Pushes /\ bias \in Int /\ weight \in Int
  BY GuidingAssumption DEF GuideType, Untouched
<1>3. Felt \in Int /\ Within(Felt - push, Noise) /\ (~Pushed(push) => Within(Felt, Noise))
  <2>1. Felt \in Int
    BY ExpectedType
  <2>2. CASE "work" \in Mine.absolute
    <3>1. Felt = push
      BY <1>2, <2>2 DEF Felt, getForceData, Unbiased
    <3> QED BY <1>2, <3>1 DEF Pushed, Abs, Within
  <2>3. CASE "work" \notin Mine.absolute
    <3>1. PICK g \in Pushes : ~Pushed(g) /\ zero = g + weight
      BY DEF Untouched, Unbiased
    <3>2. g \in Int
      BY GuidingAssumption
    <3>3. Felt = push - g
      BY <1>2, <2>3, <3>1, <3>2 DEF Felt, getForceData
    <3>4. Within(Felt - push, Noise)
      BY <1>2, <3>1, <3>2, <3>3 DEF Pushed, Abs, Within
    <3>5. ~Pushed(push) => Within(Felt, Noise)
      BY <1>2, <2>3, <3>1, ReadingOff DEF Felt
    <3> QED BY <2>1, <3>4, <3>5
  <2> QED BY <2>2, <2>3
<1>4. CASE Mine.learns
  <2>1. Within(bias, Noise)
    BY <1>4 DEF Untouched, Unbiased
  <2> QED BY <1>2, <1>3, <1>4, <2>1 DEF Within
<1>5. CASE ~Mine.learns
  BY <1>2, <1>3, <1>5 DEF Within
<1> QED BY <1>1, <1>4, <1>5

\* An arm at rest asks for no motion.
LEMMA NothingFelt ==
  ASSUME GuideType, Untouched, guideStage = "work", ~Pushed(push), Unbiased, Mine.goal = 0
  PROVE  Expected = 0
<1>1. /\ Mine.dead \in Nat /\ Noise < Mine.dead /\ (Mine.learns => 2 * Noise < Mine.dead)
      /\ Mine.sign \in {1, -1} /\ Mine.learns \in BOOLEAN
  BY PlanFacts DEF GuideType
<1> DEFINE e == Felt - (IF Mine.learns THEN bias ELSE 0)
<1>2. e \in Int /\ Noise \in Nat /\ Within(e, 2 * Noise) /\ (~Mine.learns => Within(e, Noise))
  BY FeltNear
<1> HIDE DEF e
<1>3. Abs(e) < Mine.dead
  BY <1>1, <1>2 DEF Within, Abs
<1>4. Limited(e) = 0
  BY <1>3 DEF Limited
<1>5. Expected = Balance(0)
  BY <1>4 DEF Expected, e
<1> QED BY <1>1, <1>5 DEF Balance

LEMMA AtRest == GuideInv /\ Untouched => RestsWhenReleased
<1> SUFFICES ASSUME GuideInv, Untouched, guideStage = "work", steady = Settled, ~Pushed(push), Unbiased,
                    Mine.goal = 0
             PROVE  out = 0
  BY DEF RestsWhenReleased
<1>1. Expected = 0
  BY NothingFelt DEF GuideInv
<1>2. Topped(0) = 0
  BY PlanFacts DEF GuideInv, GuideType, Limits, Topped, Clamp
<1> QED BY <1>1, <1>2, FollowedThrough

\* Drift (robot.cpp:3796): an arm nobody holds comes to rest, if nobody held it when
\* its zero and its bias were taken, for every noise that the dead zones exceed.
THEOREM RestsUntouched == GuideSpec => []RestsWhenReleased
<1> DEFINE Inv == GuideInv /\ Untouched
<1>1. GuideInit => Inv
  BY GuideInvInit, UntouchedInit
<1>2. Inv /\ [GuideNext]_guideVars => Inv'
  BY GuideInvStep, UntouchedStep DEF GuideInv
<1>3. Inv => RestsWhenReleased
  BY AtRest
<1> HIDE DEF Inv
<1> QED BY <1>1, <1>2, <1>3, PTL DEF GuideSpec

-----------------------------------------------------------------------------
(* Hand guiding: an arm that is pushed *)

\* The step of a cycle is one that its response may send.
Commanded ==
  /\ guideStage # "work" => steady = 0
  /\ steady # 0 => step \in Sent(out)

LEMMA CommandedStep == Commanded /\ [GuideNext]_guideVars => Commanded'
<1> SUFFICES ASSUME Commanded, [GuideNext]_guideVars PROVE Commanded'
  OBVIOUS
<1>1. CASE Work
  <2>1. guideStage' = "work" /\ step' \in Sent(out') /\ guide' = guide
    BY <1>1 DEF Work
  <2> QED BY <2>1 DEF Commanded, Sent, Mine
<1>2. CASE Start \/ TakeZero \/ AwaitContact \/ AlignStep
  BY <1>2 DEF Start, TakeZero, AwaitContact, AlignStep, Commanded
<1>3. CASE NoGuideArm \/ Broken \/ Unreachable \/ GuideCut
  BY <1>3 DEF NoGuideArm, Broken, Unreachable, GuideCut, GuideEnds, Commanded
<1>4. CASE UNCHANGED guideVars
  BY <1>4 DEF guideVars, Commanded, Sent, Mine
<1> QED BY <1>1, <1>2, <1>3, <1>4 DEF GuideNext, GuideStep

\* Cutting off at a size brings forces no further apart.
LEMMA ClampNear ==
  ASSUME NEW a \in Int, NEW b \in Int, NEW size \in Nat, NEW d \in Nat, Within(a - b, d)
  PROVE  /\ Clamp(a, size) \in Int /\ Clamp(b, size) \in Int
         /\ Within(Clamp(a, size) - Clamp(b, size), d)
BY DEF Clamp, Within

\* The first cycle from rest goes further the harder the push.
LEMMA FirstCycle ==
  ASSUME NEW b \in Int, NEW m \in Nat, Abs(b) >= m
  PROVE  Abs(Toward(0, b)) >= (m + Lag - 1) \div Lag
<1> DEFINE q == (m + Lag - 1) \div Lag
<1>1. q \in Int /\ Left(m) = m - q
  BY GuidingAssumption, QuotientFacts DEF Left
<1> HIDE DEF q
<1>2. CASE b >= 0
  <2>1. b \in Nat /\ m <= b /\ b - 0 = b
    BY <1>2 DEF Abs
  <2>2. Left(b) - Left(m) <= b - m /\ Left(b) \in Int /\ Left(b) <= b
    <3>1. Left(b) \in 0 .. b
      BY <2>1, LeftFacts, Zenon
    <3>2. Left(b) - Left(m) <= b - m
      BY <2>1, LeftOrder
    <3> QED BY <2>1, <3>1, <3>2
  <2>3. Toward(0, b) = b - Left(b)
    <3>1. 0 \in Int /\ 0 <= b
      BY <1>2
    <3>2. 0 <= b => Toward(0, b) = b - Left(b - 0)
      BY <3>1, TowardFacts, Zenon
    <3> QED BY <2>1, <3>1, <3>2
  <2> QED BY <1>1, <2>1, <2>2, <2>3 DEF Abs, q
<1>3. CASE b < 0
  <2> DEFINE c == 0 - b
  <2>1. c \in Nat /\ m <= c
    BY <1>3 DEF Abs
  <2> HIDE DEF c
  <2>2. Left(c) - Left(m) <= c - m /\ Left(c) \in Int /\ Left(c) <= c
    <3>1. Left(c) \in 0 .. c
      BY <2>1, LeftFacts, Zenon
    <3>2. Left(c) - Left(m) <= c - m
      BY <2>1, LeftOrder
    <3> QED BY <2>1, <3>1, <3>2
  <2>3. Toward(0, b) = b + Left(c)
    <3>1. 0 \in Int /\ b <= 0
      BY <1>3
    <3>2. b <= 0 => Toward(0, b) = b + Left(0 - b)
      BY <3>1, TowardFacts, Zenon
    <3> QED BY <3>1, <3>2, Zenon DEF c
  <2>4. b = 0 - c
    BY DEF c
  <2> QED BY <1>1, <2>1, <2>2, <2>3, <2>4 DEF Abs, q
<1> QED BY <1>2, <1>3

LEMMA StartsFacts ==
  ASSUME guide \in DOMAIN Plans
  PROVE  /\ Mine.starts \in Nat /\ Mine.starts >= Mine.dead + 2 * Noise
         /\ Mine.floor # 0 => /\ Mine.goal = 0 /\ Mine.starts <= Mine.cap
                              /\ (Mine.starts - 2 * Noise + Lag - 1) \div Lag >= Mine.floor
BY StartsAssumption DEF Mine

\* The arm has got going: the response that balances such a push is not held back,
\* and is the push, off by noise.
LEMMA GotGoing ==
  ASSUME GuideType, Untouched, guideStage = "work", Unbiased, MovesArm, Abs(push) >= Mine.starts
  PROVE  /\ ~(Abs(Toward(0, Expected)) < Mine.floor)
         /\ Within(Expected - (Mine.goal + Mine.sign * Clamp(push, Mine.cap)), 2 * Noise)
<1> DEFINE e == Felt - (IF Mine.learns THEN bias ELSE 0)
           c == Clamp(e, Mine.cap)
           p == Clamp(push, Mine.cap)
<1>0. guide \in DOMAIN Plans
  BY DEF GuideType
<1>1. /\ Mine.dead \in Nat /\ Mine.cap \in Nat /\ Mine.goal \in Int /\ Mine.sign \in {1, -1}
      /\ Mine.floor \in Nat
  BY <1>0, PlanFacts DEF Limits
<1>2. Mine.starts \in Nat /\ Mine.starts >= Mine.dead + 2 * Noise
  BY <1>0, StartsFacts
<1>3. e \in Int /\ push \in Int /\ Noise \in Nat /\ Within(e - push, 2 * Noise)
  BY FeltNear
<1> HIDE DEF e
<1>4. Abs(e) >= Mine.starts - 2 * Noise /\ Abs(e) >= Mine.dead
  BY <1>1, <1>2, <1>3 DEF Abs, Within
<1>5. Limited(e) = c
  BY <1>1, <1>3, <1>4 DEF Limited, Abs
<1>6. Expected = Mine.goal + Mine.sign * c
  BY <1>5 DEF Expected, Balance, MovesArm, e
<1>7. c \in Int /\ p \in Int /\ Within(c - p, 2 * Noise)
  <2>1. 2 * Noise \in Nat
    BY <1>3
  <2> QED BY <1>1, <1>3, <2>1, ClampNear
<1>8. Within(Expected - (Mine.goal + Mine.sign * p), 2 * Noise)
  <2> HIDE DEF c, p
  <2>1. CASE Mine.sign = 1
    BY <1>1, <1>3, <1>6, <1>7, <2>1 DEF Within
  <2>2. CASE Mine.sign = -1
    BY <1>1, <1>3, <1>6, <1>7, <2>2 DEF Within
  <2> QED BY <1>1, <2>1, <2>2
<1>9. ~(Abs(Toward(0, Expected)) < Mine.floor)
  <2>0. Expected \in Int /\ Toward(0, Expected) \in Int
    BY ExpectedType, TowardFacts
  <2>1. CASE Mine.floor = 0
    BY <2>0, <2>1 DEF Abs
  <2>2. CASE Mine.floor # 0
    <3> DEFINE m == Mine.starts - 2 * Noise
    <3>1. Mine.goal = 0 /\ Mine.starts <= Mine.cap /\ (m + Lag - 1) \div Lag >= Mine.floor
      BY <1>0, <2>2, StartsFacts
    <3>2. m \in Nat /\ m <= Mine.cap
      BY <1>1, <1>2, <1>3, <3>1
    <3>3. Abs(e) >= m
      BY <1>4
    <3> HIDE DEF m
    <3>4. Abs(c) >= m
      BY <1>1, <1>3, <3>2, <3>3 DEF Abs, Clamp
    <3>5. Abs(Expected) >= m
      <4> HIDE DEF c
      <4> QED BY <1>1, <1>6, <1>7, <3>1, <3>2, <3>4 DEF Abs
    <3> DEFINE q == (m + Lag - 1) \div Lag
    <3>6. q \in Int
      BY <3>2, GuidingAssumption, QuotientFacts
    <3>7. Abs(Toward(0, Expected)) >= q
      BY <2>0, <3>2, <3>5, FirstCycle
    <3>8. Abs(Toward(0, Expected)) \in Int
      BY <2>0 DEF Abs
    <3>9. q >= Mine.floor
      BY <3>1
    <3> HIDE DEF q
    <3> QED BY <1>1, <3>6, <3>7, <3>8, <3>9
  <2> QED BY <2>1, <2>2
<1> QED BY <1>8, <1>9 DEF p

LEMMA PushedOn == GuideInv /\ Untouched /\ Commanded => MovesAsPushed
<1> SUFFICES ASSUME GuideInv, Untouched, Commanded, guideStage = "work", steady = Settled, MovesArm,
                    Unbiased, Abs(push) >= Mine.starts
             PROVE  \/ Abs(step - Clamp(Mine.goal + Mine.sign * Clamp(push, Mine.cap), Mine.top)) <= 2 * Noise
                    \/ step = 0 /\ Mine.steps = "unless"
  BY DEF MovesAsPushed
<1> DEFINE ideal == Mine.goal + Mine.sign * Clamp(push, Mine.cap)
<1>0. GuideType /\ guide \in DOMAIN Plans
  BY DEF GuideInv, GuideType
<1>1. Mine.top \in Nat /\ Mine.cap \in Nat /\ Mine.goal \in Int /\ Mine.sign \in {1, -1}
      /\ Mine.steps \in {"always", "never", "unless"}
  BY <1>0, PlanFacts DEF Limits
<1>2. ~(Abs(Toward(0, Expected)) < Mine.floor) /\ Within(Expected - ideal, 2 * Noise)
  BY <1>0, GotGoing
<1>3. out = Topped(Expected)
  BY <1>2, FollowedThrough
<1>4. ideal \in Int /\ Expected \in Int /\ 2 * Noise \in Nat
  <2>1. Expected \in Int /\ push \in Int /\ Noise \in Nat
    BY <1>0, ExpectedType, GuidingAssumption DEF GuideType
  <2>2. Clamp(push, Mine.cap) \in Int
    BY <1>1, <2>1 DEF Clamp
  <2> DEFINE p == Clamp(push, Mine.cap)
  <2>3. p \in Int
    BY <2>2
  <2> HIDE DEF p
  <2>4. Mine.goal + Mine.sign * p \in Int
    BY <1>1, <2>3
  <2> QED BY <2>1, <2>4 DEF p
<1> HIDE DEF ideal
<1>5. /\ Clamp(Expected, Mine.top) \in Int /\ Clamp(ideal, Mine.top) \in Int
      /\ Within(Clamp(Expected, Mine.top) - Clamp(ideal, Mine.top), 2 * Noise)
  BY <1>1, <1>2, <1>4, ClampNear
<1>6. Abs(out - Clamp(ideal, Mine.top)) <= 2 * Noise
  BY <1>3, <1>4, <1>5 DEF Topped, Within, Abs
<1>7. steady # 0
  BY GuidingAssumption, SettledAssumption
<1>8. step = out \/ (step = 0 /\ Mine.steps = "unless")
  BY <1>1, <1>7 DEF Commanded, Sent, MovesArm
<1> QED BY <1>6, <1>8 DEF ideal

\* Zero, filter, bias, dead zone, caps and lag together (robot.cpp:3661-3854): with
\* any lag, window and limits, an arm that is pushed steadily and hard enough is
\* commanded to move as it is pushed, but for caps and noise.
THEOREM FollowsThePush == GuideSpec => []MovesAsPushed
<1> DEFINE Inv == GuideInv /\ Untouched /\ Commanded
<1>1. GuideInit => Inv
  BY GuideInvInit, UntouchedInit DEF GuideInit, Commanded
<1>2. Inv /\ [GuideNext]_guideVars => Inv'
  BY GuideInvStep, UntouchedStep, CommandedStep DEF GuideInv
<1>3. Inv => MovesAsPushed
  BY PushedOn
<1> HIDE DEF Inv
<1> QED BY <1>1, <1>2, <1>3, PTL DEF GuideSpec
=============================================================================
