------------------------------ MODULE ForcePlan ------------------------------
(***************************************************************************)
(* The plans that work with the force sensors (rivetcomd.cpp,              *)
(* assemcomd.cpp, datacomd.cpp, robot.cpp) are phase machines written out  *)
(* one by one: executeRT looks for the first phase that is not complete    *)
(* and does one cycle of it.  The phases are of a few kinds, which the     *)
(* plans repeat with numbers of their own.  This module is one cycle of    *)
(* each kind; which phases a plan has, and their numbers, is its Table.    *)
(*                                                                         *)
(* A force is one number, its largest component, in tenths of a newton;    *)
(* time is counted in cycles, all durations shortened alike (see Cycles).  *)
(* Force control, poses and segments are real arithmetic: whether a pose   *)
(* has settled, a depth is reached or kinematics fails is open.            *)
(***************************************************************************)
EXTENDS Integers, Sequences, Samples

CONSTANTS
  Table,     \* for every plan its arm (see below) and its phases
  Misdivided,  \* the plans that divide a sum by another number than its samples
  Tick,      \* bound: what 50 cycles of the code last in the model
  Window,    \* samples the force filter averages (10 in the code)
  Forces,    \* what the sensor may read, in 0.1 N
  Gaps       \* distances of a joint from its target, in microradians

ASSUME TickAssumption == Tick \in Nat \ {0} /\ Window \in Nat \ {0}
ASSUME DataAssumption ==
  /\ Forces \subseteq Nat /\ 0 \in Forces /\ \E f \in Forces : \A g \in Forces : g <= f
  /\ Gaps \subseteq Nat /\ Gaps # {}

Overload == CHOOSE f \in Forces : \A g \in Forces : g <= f

VARIABLES
  plan,      \* the plan that runs
  indexed,   \* whether its parameter "point" is within the points it has
  phase,     \* the first phase not complete
  outcome,   \* "running", or how executeRT came to return 0 or to throw
  elapsed,   \* count() minus the start_, complete_ or back_count of the phase
  sync,      \* the first cycle of a phase at which count() % tick is 0
  recent,    \* arm*_force_buffer: the last samples
  offset,    \* arm*_start_force, times Window
  hits,      \* pos_success_count, success_count, jammed_check_count
  age,       \* count() minus pos_count, allign_count, jammed_count, modulo the period
  samples,   \* accumulation_count
  gap        \* the largest distance of a joint's target from the phase's goal

\* History: cycles the check of the phase has been called and found valid
\* without a break, samples taken in the phase, cycles in which the arm was
\* moved while the sensor was overloaded without a break.
VARIABLES held, taken, blind

vars == <<plan, indexed, phase, outcome, elapsed, sync, recent, offset, hits, age,
          samples, gap, held, taken, blind>>
history == <<held, taken, blind>>
counters == <<hits, age>>

Checks == {"pos", "force", "jam"}
Unset == -1

-----------------------------------------------------------------------------
(* The plan's own numbers. *)

Phases == Table[plan].phases
Arm == Table[plan].arm
Here == Phases[phase]
Running == outcome = "running"

\* n cycles of the code, in the model's.
Cycles(n) == LET short == (n * Tick) \div 50 IN IF short = 0 THEN 1 ELSE short

\* What the plans' tables have in common: hits and durations are counts, a plan does
\* not begin by averaging, and the samples it averages fit into the window.
ASSUME TableAssumption ==
  \A p \in DOMAIN Table :
    /\ Len(Table[p].phases) \in Nat \ {0} /\ Table[p].arm.forceEvery \in Nat
    /\ Table[p].phases[1].kind # "collect"
    /\ \A i \in 1 .. Len(Table[p].phases) : LET it == Table[p].phases[i] IN
         /\ it.kind \in {"hold", "search"} => it.check \in Checks /\ it.ticks \in Nat
         /\ it.kind = "retreat" => it.cycles \in Nat
         /\ it.kind = "contact" => it.zeroAfter \in Nat
         /\ it.kind = "collect" => /\ it.every \in Nat /\ it.cap \in Nat /\ it.window \in Nat
                                  /\ it.cap * Cycles(it.every) <= Cycles(it.window)

\* Sums are divided by the number of samples they are of, but for the plans named.
ASSUME DivisorAssumption ==
  \A p \in DOMAIN Table \ Misdivided : \A i \in 1 .. Len(Table[p].phases) :
    LET it == Table[p].phases[i] IN it.kind = "collect" => it.divisor = it.cap

\* The force felt in the air, in 0.1 N: contact is felt at no less.
Air == 5

\* The plans' limits: an overloaded sensor reads beyond all of them, also through
\* the filter and less a zero whose newest sample was of a contact; and a zero is
\* taken when the filter holds samples of one approach only.
ASSUME LimitAssumption ==
  \A p \in DOMAIN Table : \A i \in 1 .. Len(Table[p].phases) : LET it == Table[p].phases[i] IN
      /\ it.kind = "contact" =>
           /\ it.threshold \in 0 .. Overload
           /\ it.zeroAfter > 0 => it.threshold <= Air /\ Cycles(it.zeroAfter) >= Window
      /\ it.kind \in {"hold", "search", "until", "sweep", "pull", "retreat"} =>
           /\ it.brake \in Nat /\ 10 * it.brake < Overload
           /\ it.zeroed => it.brake * 10 * Window < (Window - 1) * (Overload - Air)

\* Every how many cycles a check in a row counts.
Period(c) == Cycles(CASE c = "pos" -> 50 [] c = "force" -> Arm.forceEvery [] c = "jam" -> 100)

-----------------------------------------------------------------------------
(* Force. *)

\* Mutant of Filtered: the buffer of this arm is never filled.
FilteredNot(force) == recent

\* forceFilter: the new sample takes the place of the oldest.
Filtered(force) == IF Arm.filtered THEN Append(Tail(recent), force) ELSE recent

\* The force the phase compares with its limit, times Window.
Measured(force) ==
  CASE ~Arm.filtered -> Window * force
    [] Arm.filtered /\ ~Here.zeroed -> Total(Filtered(force))
    [] OTHER -> Total(Filtered(force)) - offset

TooHard(force) == LET m == Measured(force) IN (IF m < 0 THEN -m ELSE m) > Here.brake * 10 * Window

\* The arm is commanded to move, or left where it is, in this cycle.
Moves(force) == blind' = IF force = Overload THEN blind + 1 ELSE 0
Rests == blind' = 0

-----------------------------------------------------------------------------
(* Checks that must hold for some time: posCheck, forceCheck, boltJammedCheck.  *)
(* The count at which the first valid cycle was seen is kept until the check    *)
(* succeeds, also while it fails; an invalid cycle takes back the hits.         *)

Aged == [c \in Checks |-> IF age[c] = Unset THEN Unset ELSE (age[c] + 1) % Period(c)]
Onset(c) == IF age[c] = Unset THEN 0 ELSE Aged[c]

NotChecked == age' = Aged /\ UNCHANGED hits /\ held' = 0

\* Mutant of Invalid: the hits survive an invalid cycle.
InvalidKeepsHits(c) ==
  /\ age' = Aged
  /\ UNCHANGED hits
  /\ held' = 0

Invalid(c) ==
  /\ age' = Aged
  /\ hits' = [hits EXCEPT ![c] = 0]
  /\ held' = 0

Enough(c) == Onset(c) = 0 /\ hits[c] + 1 >= Here.ticks

ValidNotEnough(c) ==
  /\ ~Enough(c)
  /\ age' = [Aged EXCEPT ![c] = Onset(c)]
  /\ hits' = [hits EXCEPT ![c] = @ + (IF Onset(c) = 0 THEN 1 ELSE 0)]
  /\ held' = held + 1

\* Mutant of Succeeds: the onset is kept.
SucceedsKeepingOnset(c) ==
  /\ Enough(c)
  /\ age' = Aged
  /\ hits' = [hits EXCEPT ![c] = 0]
  /\ held' = 0

Succeeds(c) ==
  /\ Enough(c)
  /\ age' = [Aged EXCEPT ![c] = Unset]
  /\ hits' = [hits EXCEPT ![c] = 0]
  /\ held' = 0

-----------------------------------------------------------------------------
(* From phase to phase. *)

\* Counters that are set when phase p becomes the first one not complete.
Enter(p) ==
  /\ elapsed' = 0
  /\ taken' = 0
  /\ sync' \in (IF Phases[p].kind = "collect" THEN 1 .. Cycles(Phases[p].every) ELSE {0})
  /\ gap' \in (IF Phases[p].kind = "joint" THEN Gaps ELSE {0})

\* phase<n> = true.  After the last phase the plan returns 0.
Complete ==
  IF phase < Len(Phases)
  THEN phase' = phase + 1 /\ Enter(phase + 1) /\ UNCHANGED outcome
  ELSE outcome' = "done" /\ UNCHANGED <<phase, elapsed, taken, sync, gap>>

Stay == UNCHANGED <<phase, outcome>>

\* return 0 before the end.
Return(why) ==
  /\ outcome' = why
  /\ Rests /\ NotChecked
  /\ UNCHANGED <<phase, elapsed, sync, offset, samples, gap, taken>>

\* What no cycle changes, and what each cycle that reads the sensor does first.
Sense(force) == recent' = Filtered(force) /\ UNCHANGED <<plan, indexed>>

-----------------------------------------------------------------------------
(* One cycle of each kind of phase. *)

Init ==
  /\ plan \in DOMAIN Table
  /\ indexed \in BOOLEAN
  /\ phase = 1
  /\ outcome = "running"
  /\ elapsed = 0
  /\ sync = 0
  /\ gap \in (IF Here.kind = "joint" THEN Gaps ELSE {0})
  /\ recent = [i \in 1 .. Window |-> 0]
  /\ offset = 0
  /\ hits = [c \in Checks |-> 0]
  /\ age = [c \in Checks |-> Unset]
  /\ samples = 0
  /\ held = 0 /\ taken = 0 /\ blind = 0

\* A joint motion to the goal of the phase, without a look at the force.
JointStep == gap' = IF gap >= Arm.move THEN gap - Arm.move ELSE gap
Arrived == gap < Arm.tolerance

Approach ==
  /\ Running /\ Here.kind = "joint"
  /\ IF Here.first THEN UNCHANGED <<plan, indexed, recent>> ELSE \E force \in Forces : Sense(force)
  /\ IF Here.points /\ ~indexed
     THEN Return("refused")
     ELSE /\ IF Arrived
             THEN Complete
             ELSE JointStep /\ Stay /\ UNCHANGED <<elapsed, sync, taken>>
          /\ NotChecked /\ Rests
          /\ UNCHANGED <<offset, samples>>

\* Demo begins where the arm is.
AtOnce ==
  /\ Running /\ Here.kind = "init"
  /\ Complete
  /\ NotChecked /\ Rests
  /\ UNCHANGED <<plan, indexed, recent, offset, samples>>

\* Mutant of Touches: a contact is looked for only once the zero is taken.
TouchesOnceZeroed(force) == force >= Here.threshold /\ elapsed >= Cycles(Here.zeroAfter)

Touches(force) == force >= Here.threshold

\* The tool goes towards the part until the sensor, not its filtered value,
\* feels it; on the way the force felt in the air becomes the new zero.
Contact ==
  /\ Running /\ Here.kind = "contact"
  /\ LET due == elapsed + 1
         zero == Cycles(Here.zeroAfter)
     IN \E force \in Forces :
          /\ Sense(force)
          /\ offset' = IF Here.zeroAfter > 0 /\ due = zero THEN Total(Filtered(force)) ELSE offset
          /\ IF Touches(force)
             THEN Complete /\ Rests
             ELSE /\ Stay /\ Moves(force)
                  /\ elapsed' = IF due > zero THEN zero + 1 ELSE due
                  /\ UNCHANGED <<sync, gap, taken>>
  /\ NotChecked
  /\ UNCHANGED samples

\* Force control until a check succeeds.  With a gate "before" the check is
\* not called while the gate is closed; with one "after" its success is lost.
Hold ==
  /\ Running /\ Here.kind \in {"hold", "search"}
  /\ \E force \in Forces :
       /\ Sense(force) /\ ~TooHard(force)
       /\ \/ /\ \/ Here.gate = "before" /\ NotChecked
                \/ Invalid(Here.check)
                \/ ValidNotEnough(Here.check)
                \/ Here.gate = "after" /\ Succeeds(Here.check)
             /\ Stay /\ Moves(force)
             /\ UNCHANGED <<elapsed, sync, gap, taken>>
          \/ Succeeds(Here.check) /\ Complete /\ Rests
  /\ UNCHANGED <<offset, samples>>

\* The last segment of a search has been followed without success.
Exhausted ==
  /\ Running /\ Here.kind \in {"search", "sweep"}
  /\ \E force \in Forces : Sense(force) /\ ~TooHard(force)
  /\ Return("exhausted")

\* Motion under force control until a force or a position is reached.
Push ==
  /\ Running /\ Here.kind \in {"until", "sweep", "pull"}
  /\ ~(Here.kind = "pull" /\ Here.points /\ ~indexed)
  /\ \E force \in Forces :
       /\ Sense(force) /\ ~TooHard(force)
       /\ \/ Stay /\ Moves(force) /\ UNCHANGED <<elapsed, sync, gap, taken>>
          \/ Here.kind = "until" /\ Complete /\ Rests
  /\ NotChecked
  /\ UNCHANGED <<offset, samples>>

NoSuchArm ==
  /\ Running /\ Here.kind = "pull" /\ Here.points /\ ~indexed
  /\ Return("refused")
  /\ UNCHANGED <<plan, indexed, recent>>

\* The mean is taken and accumulation_count cleared for the next phase that averages.
\* Mutant of Averaged: it is not cleared.
AveragedOn == UNCHANGED samples
Averaged == samples' = 0

\* Whether this cycle takes a sample.
Sampled ==
  LET due == elapsed + 1
  IN  due >= sync /\ (due - sync) % Cycles(Here.every) = 0 /\ samples < Here.cap
OneIfSampled == IF Sampled THEN 1 ELSE 0

\* The arm rests while a force is averaged.
Collect ==
  /\ Running /\ Here.kind = "collect"
  /\ IF Arm.filtered THEN \E force \in Forces : Sense(force) ELSE UNCHANGED <<plan, indexed, recent>>
  /\ \/ /\ elapsed + 1 <= Cycles(Here.window)
        /\ elapsed' = elapsed + 1
        /\ samples' = samples + OneIfSampled /\ taken' = taken + OneIfSampled
        /\ Stay /\ NotChecked /\ Rests
        /\ UNCHANGED <<sync, gap, offset>>
     \/ /\ elapsed + 1 > Cycles(Here.window)
        /\ \/ Averaged /\ Complete /\ NotChecked /\ Rests /\ UNCHANGED offset
           \/ Here.mayFail /\ Return("no direction")

\* Away from the part for some cycles, then the end or a joint motion to the hole.
Retreat ==
  /\ Running /\ Here.kind = "retreat"
  /\ LET due == elapsed + 1
         back == Cycles(Here.cycles)
     IN \E force \in Forces :
          /\ Sense(force) /\ ~TooHard(force)
          /\ \/ /\ due <= back
                /\ elapsed' = due /\ Stay /\ Moves(force)
                /\ UNCHANGED <<gap, sync, taken>>
             \/ due > back /\ ~Here.pose /\ Complete /\ Rests
             \/ /\ due = back + 1 /\ Here.pose
                /\ elapsed' = due /\ gap' \in Gaps /\ Stay /\ Rests
                /\ UNCHANGED <<sync, taken>>
             \/ /\ due > back + 1
                /\ \/ Arrived /\ Complete
                   \/ ~Arrived /\ JointStep /\ Stay /\ UNCHANGED <<elapsed, sync, taken>>
                /\ Moves(force)
  /\ NotChecked
  /\ UNCHANGED <<offset, samples>>

NoPose ==
  /\ Running /\ Here.kind = "retreat" /\ Here.pose /\ elapsed = Cycles(Here.cycles)
  /\ \E force \in Forces : Sense(force) /\ ~TooHard(force)
  /\ Return("no pose")

\* The filtered force is beyond the limit of the phase.
Brake ==
  /\ Running /\ Here.kind \in {"hold", "search", "until", "sweep", "pull", "retreat"}
  /\ \E force \in Forces : Sense(force) /\ TooHard(force)
  /\ Return("braked")

\* return <limit> - count() is 0, or saMove throws: the plan is not called again.
CutShort ==
  /\ Running
  /\ outcome' = "cut short"
  /\ UNCHANGED <<plan, indexed, phase, elapsed, sync, recent, offset, counters, samples, gap, history>>

Ended == ~Running /\ UNCHANGED vars

executeRT ==
  Approach \/ AtOnce \/ Contact \/ Hold \/ Exhausted \/ Push \/ NoSuchArm
  \/ Collect \/ Retreat \/ NoPose \/ Brake \/ CutShort

Next == executeRT \/ Ended

Spec == Init /\ [][Next]_vars

-----------------------------------------------------------------------------
(* Properties *)

TypeOK ==
  /\ plan \in DOMAIN Table /\ phase \in 1 .. Len(Phases)
  /\ outcome \in {"running", "done", "braked", "refused", "exhausted", "no direction", "no pose", "cut short"}
  /\ elapsed \in Nat /\ sync \in Nat /\ samples \in Nat /\ taken \in Nat /\ held \in Nat /\ blind \in Nat
  /\ hits \in [Checks -> Nat]
  /\ age \in [Checks -> Int]
  /\ \A c \in Checks : age[c] = Unset \/ age[c] \in 0 .. Period(c) - 1

\* Once every sample in the filter is of an overloaded sensor the arm is no
\* longer moved: whatever phase follows which, no limit, zero or filter of a
\* phase leaves a hard contact unseen for longer than the filter is long.
\* (An approach in joint space looks at no force and is not counted.)
NoBlindPush == blind < Window

\* A zero is taken in the air: at most its newest sample is of a contact, also
\* when the arm has just moved against something in the phase before.
ZeroedInTheAir == offset <= Overload + (Window - 1) * Air

\* Success, once reported, is about one unbroken stretch of valid cycles as
\* long as the number of hits asks for.  With a gate before the check it is not.
SettledLongEnough ==
  [][ (phase' # phase \/ outcome' = "done") /\ Here.kind \in {"hold", "search"} /\ Here.gate # "before"
      => held >= (Here.ticks - 1) * Period(Here.check) ]_vars

\* The counters of a check are shared by all phases that use it: what one
\* phase has counted is gone when the next one begins.
OwnHits ==
  \A c \in Checks : hits[c] > 0 \/ age[c] # Unset
                    => Here.kind \in {"hold", "search"} /\ Here.check = c

\* Whenever its window begins, a mean is of as many samples as the sum is divided by.
\* Demo is the exception, which divides twenty samples by thirty: of it as many samples
\* are taken as are to be.
FullSample ==
  [][ phase' # phase /\ Here.kind = "collect"
      => taken = IF plan \in Misdivided THEN Here.cap ELSE Here.divisor ]_vars
=============================================================================
