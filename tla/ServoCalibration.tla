-------------------------- MODULE ServoCalibration --------------------------
(***************************************************************************)
(* How BusServo (gripper.cpp) converts between the opening of the gripper   *)
(* and the position of its servo: by linear interpolation in a table of     *)
(* calibration points, in both directions.  Openings are in micrometres;    *)
(* the fraction of a micrometre is dropped, where the code keeps a double.  *)
(***************************************************************************)
EXTENDS Integers, Sequences

\* init_calibration_: opening in mm, servo position; the wider the opening the
\* smaller the position.
Table100 ==
  << <<0, 3434>>, <<10, 3060>>, <<20, 2824>>, <<30, 2646>>, <<40, 2490>>, <<50, 2354>>,
     <<60, 2226>>, <<70, 2095>>, <<80, 1965>>, <<90, 1810>>, <<100, 1594>> >>

Table50 ==
  << <<0, 2048>>, <<5, 1900>>, <<10, 1775>>, <<15, 1645>>, <<20, 1530>>, <<25, 1430>>,
     <<30, 1320>>, <<35, 1215>>, <<40, 1085>>, <<45, 960>>, <<50, 798>> >>

Mm(point) == 1000 * point[1]
Pos(point) == point[2]
FirstPoint(table) == table[1]
LastPoint(table) == table[Len(table)]

\* The stretches of the table, each between two calibration points, and the
\* first of some of them.
Stretches(table) == 1..(Len(table) - 1)
FirstOf(S) == CHOOSE i \in S : \A j \in S : i <= j

Distance(a, b) == IF a < b THEN b - a ELSE a - b

\* Mutant of Round: the fraction is cut off.
CutOff(num, den) == num \div den

\* Mutant of Round: rounded up.
RoundUp(num, den) == (num + den - 1) \div den

\* std::lround of num / den, for what is not negative
Round(num, den) == (2 * num + den) \div (2 * den)

\* interpolate_
interpolate(value, table) ==
  IF value <= Mm(FirstPoint(table)) THEN Pos(FirstPoint(table))
  ELSE IF value >= Mm(LastPoint(table)) THEN Pos(LastPoint(table))
  ELSE LET i == FirstOf({j \in Stretches(table) : value \in Mm(table[j])..Mm(table[j + 1])})
           a == table[i]
           b == table[i + 1]
           d == Mm(b) - Mm(a)
       IN  Round(Pos(a) * d + (value - Mm(a)) * (Pos(b) - Pos(a)), d)

\* Beyond the table: the end of it that is nearer.
NearerEnd(servo_pos, table) ==
  IF Distance(servo_pos, Pos(FirstPoint(table))) < Distance(servo_pos, Pos(LastPoint(table)))
    THEN Mm(FirstPoint(table)) ELSE Mm(LastPoint(table))

\* inverse_interpolate_mm_
inverse_interpolate_mm(servo_pos, table) ==
  LET S == {j \in Stretches(table) : servo_pos \in Pos(table[j + 1])..Pos(table[j])}
      a == table[FirstOf(S)]
      b == table[FirstOf(S) + 1]
  IN  IF S = {} THEN NearerEnd(servo_pos, table)
      ELSE Mm(a) + ((Pos(a) - servo_pos) * (Mm(b) - Mm(a))) \div (Pos(a) - Pos(b))

\* set_gripper_position and get_position_mm clamp the servo position.
ClampPos(p) == IF p < 0 THEN 0 ELSE IF p > 4096 THEN 4096 ELSE p
ToServo(mm, table) == ClampPos(interpolate(mm, table))
ToMm(servo_pos, table) == inverse_interpolate_mm(ClampPos(servo_pos), table)

-----------------------------------------------------------------------------
(* Reference definitions. *)

\* Position p lies on the calibration curve at an opening, to half a count:
\* multiplied out, the nearest integer to the chord between two points.
OnCurve(p, opening, table) ==
  \A i \in Stretches(table) :
    LET a == table[i]
        b == table[i + 1]
        d == Mm(b) - Mm(a)
    IN  opening \in Mm(a)..Mm(b) =>
          2 * Distance(d * (p - Pos(a)), (opening - Mm(a)) * (Pos(b) - Pos(a))) <= d

\* The servo position within the table that is nearest.
Within(p, table) ==
  IF p < Pos(LastPoint(table)) THEN Pos(LastPoint(table))
  ELSE IF p > Pos(FirstPoint(table)) THEN Pos(FirstPoint(table)) ELSE p
=============================================================================
