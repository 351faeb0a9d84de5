------------------------------- MODULE ZeroG -------------------------------
(***************************************************************************)
(* ZeroG (test.cpp): the first arm moves as a weightless mass would under   *)
(* the measured force.  Around where it starts lie a safe zone, a buffer and*)
(* a fence: in the safe zone forces accelerate it, in the buffer it goes on *)
(* to the fence at the speed it had, and behind the fence the plan ends.    *)
(*                                                                          *)
(* Two axes of three; positions are relative to the start, speeds in units  *)
(* per cycle.  The code keeps position and speed of every cycle in arrays   *)
(* that are written in the safe zone only and are 0 elsewhere.              *)
(***************************************************************************)
EXTENDS Integers

CONSTANTS
  Inner, Outer,     \* half the sizes of safe zone and fence
  Accelerations,    \* what filtered forces do to the speed in a cycle
  Limit,            \* the speed at which the plan ends
  MaxSpeed,         \* bound: the speed in the direction that is not looked at
  Snap,             \* nearer than this to its target an axis is put on it
  Origin,           \* where the base of the arm is, seen from the start
  Far               \* bound: how far out an axis is followed

ASSUME ZoneAssumption ==
  /\ {Inner, Outer, Limit, Snap, MaxSpeed, Far} \subseteq Nat
  /\ Accelerations \subseteq Int /\ Origin \in Int
  /\ Limit < Snap /\ Inner + Snap <= Outer /\ Inner + MaxSpeed <= Outer

Axes == {1, 2}

VARIABLES
  gstage,       \* "off", "zero" (init not set), "await", "work", "over"
  pos,          \* currentPos, where the last command took the arm
  x, v,         \* what the arrays hold for the last cycle in the safe zone
  fresh,        \* was the cycle before one in the safe zone
  final,        \* finalPos, or <<>>: set in the first cycle in the buffer
  leapt         \* history: a command was computed from array elements never written

gravityVars == <<gstage, pos, x, v, fresh, final, leapt>>

GInit ==
  /\ gstage = "off" /\ pos = [a \in Axes |-> 0] /\ x = pos /\ v = pos
  /\ fresh = TRUE /\ final = <<>> /\ leapt = FALSE

-----------------------------------------------------------------------------
(* The zones; the buffer comes before the fence. *)

Safe == \A a \in Axes : pos[a] \in -Inner..Inner
Buffered(a) == (pos[a] > Inner /\ pos[a] < Outer) \/ (pos[a] < -Inner /\ pos[a] > -Outer)
InBuffer == ~Safe /\ \E a \in Axes : Buffered(a)

\* savetype; a position at a border of two zones is in neither test's range only
\* where the next one takes it.
isSave == IF Safe THEN 0 ELSE IF InBuffer THEN 1 ELSE 2

GStart ==
  /\ gstage = "off"
  /\ gstage' = "zero"
  /\ UNCHANGED <<pos, x, v, fresh, final, leapt>>

\* obtainX, Y, Z: without the cycle before in the arrays they count from 0, which
\* is the base of the arm and no speed.
LastX(a) == IF fresh THEN x[a] ELSE Origin
LastV(a) == IF fresh THEN v[a] ELSE 0

TooFast(w) == \E a \in Axes : w[a] > Limit

\* In the safe zone: the zero, then waiting for a contact with no force, then
\* moving by the force; every cycle writes the arrays and commands the arm.
SafeCycle ==
  /\ gstage \in {"zero", "await", "work"} /\ isSave = 0
  /\ \E acc \in [Axes -> IF gstage = "work" THEN Accelerations ELSE {0}] :
       LET w == [a \in Axes |-> LastV(a) + acc[a]]
           y == [a \in Axes |-> LastX(a) + w[a]]
       IN  /\ \A a \in Axes : w[a] >= -MaxSpeed
           /\ v' = w /\ x' = y /\ fresh' = TRUE
           /\ leapt' = (leapt \/ ~fresh)
           /\ \/ /\ ~TooFast(w)
                 /\ pos' = y
                 /\ \/ gstage = "zero" /\ gstage' = "await"
                    \/ gstage \in {"await", "work"} /\ gstage' = gstage
                    \/ gstage = "await" /\ gstage' = "work"
              \/ gstage' = "over" /\ UNCHANGED pos
  /\ UNCHANGED final

\* Where the arm is going, fixed when it first gets into the buffer.
FinalPos == IF final # <<>> THEN final
            ELSE [a \in Axes |-> IF v[a] < 0 THEN -Outer ELSE Outer]

Near(m, n) == m < n + Snap /\ n < m + Snap

\* Mutant of BufferStep: only an axis exactly on its target stays there.
BufferStepExact(a, f) ==
  IF pos[a] = f[a] THEN f[a]
  ELSE IF pos[a] < f[a] THEN pos[a] + v[a] ELSE pos[a] - v[a]

\* On to the target where it is near, or a cycle further: the speed is added below the
\* target and taken off above it.
BufferStep(a, f) ==
  IF Near(pos[a], f[a]) THEN f[a]
  ELSE IF pos[a] < f[a] THEN pos[a] + v[a] ELSE pos[a] - v[a]

BufferCycle ==
  /\ gstage \in {"zero", "await", "work"} /\ isSave = 1
  /\ \A a \in Axes : pos[a] <= Far
  /\ final' = FinalPos /\ fresh' = FALSE
  /\ \/ pos' = [a \in Axes |-> BufferStep(a, FinalPos)] /\ UNCHANGED gstage
     \/ gstage' = "over" /\ UNCHANGED pos
  /\ UNCHANGED <<x, v, leapt>>

FenceCycle ==
  /\ gstage \in {"zero", "await", "work"} /\ isSave = 2
  /\ gstage' = "over"
  /\ UNCHANGED <<pos, x, v, fresh, final, leapt>>

\* The limit of 8000 cycles.
GTimeIsUp ==
  /\ gstage \in {"zero", "await", "work"}
  /\ gstage' = "over"
  /\ UNCHANGED <<pos, x, v, fresh, final, leapt>>

GNext == GStart \/ SafeCycle \/ BufferCycle \/ FenceCycle \/ GTimeIsUp
GSpec == GInit /\ [][GNext]_gravityVars
-----------------------------------------------------------------------------
(* Properties *)

GTypeOK ==
  /\ gstage \in {"off", "zero", "await", "work", "over"}
  /\ {pos, x, v} \subseteq [Axes -> Int]
  /\ final \in [Axes -> {-Outer, Outer}] \cup {<<>>}
  /\ {fresh, leapt} \subseteq BOOLEAN

\* The fence an axis is pushed to holds it: it may come to stand on the fence and not
\* beyond, neither at the speed the force gave it in the safe zone nor, cycle by cycle,
\* through the buffer and over its last millimetre.  Left out is what the code does not
\* do: an axis pushed backward turns round in the buffer, where the sign of its speed
\* is applied twice, and may go on through the opposite fence while another axis is in
\* its buffer (isSave looks at the buffer first); and a return to the safe zone commands
\* the base of the arm.
StopsAtTheFence ==
  ~leapt => \A a \in Axes : IF v[a] < 0 THEN pos[a] >= -Outer ELSE pos[a] \in -Inner..Outer
=============================================================================
