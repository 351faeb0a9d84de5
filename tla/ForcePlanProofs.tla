-------------------------- MODULE ForcePlanProofs --------------------------
(***************************************************************************)
(* Proofs about the force plans, for every table of phases: what a check    *)
(* that succeeds, and a mean that is taken, can be relied on for.           *)
(***************************************************************************)
EXTENDS ForcePlan, NatLemmas, TLAPS

-----------------------------------------------------------------------------
(* Durations and the table *)

LEMMA CyclesType ==
  ASSUME NEW n \in Nat
  PROVE  Cycles(n) \in Nat \ {0}
<1>1. n * Tick \in Nat
  BY TickAssumption
<1>2. (n * Tick) \div 50 \in Nat
  BY <1>1
<1> QED BY <1>2 DEF Cycles

LEMMA PeriodType ==
  ASSUME plan \in DOMAIN Table, NEW c \in Checks
  PROVE  Period(c) \in Nat \ {0}
<1>1. Arm.forceEvery \in Nat
  BY TableAssumption DEF Arm
<1>2. /\ Cycles(50) \in Nat \ {0} /\ Cycles(100) \in Nat \ {0}
      /\ Cycles(Arm.forceEvery) \in Nat \ {0}
  BY <1>1, CyclesType
<1>3. c = "pos" \/ c = "force" \/ c = "jam"
  BY DEF Checks
<1>4. Period("pos") = Cycles(50) /\ Period("force") = Cycles(Arm.forceEvery) /\ Period("jam") = Cycles(100)
  BY DEF Period
<1> QED BY <1>2, <1>3, <1>4

\* The phase that runs, as the table has it.
LEMMA HereFacts ==
  ASSUME plan \in DOMAIN Table, phase \in 1 .. Len(Phases)
  PROVE  /\ Len(Phases) \in Nat \ {0}
         /\ Here.kind \in {"hold", "search"} => Here.check \in Checks /\ Here.ticks \in Nat
         /\ Here.kind = "retreat" => Here.cycles \in Nat
         /\ Here.kind = "contact" => Here.zeroAfter \in Nat
         /\ Here.kind = "collect" => /\ Here.every \in Nat /\ Here.cap \in Nat /\ Here.window \in Nat
                                     /\ Here.cap * Cycles(Here.every) <= Cycles(Here.window)
BY TableAssumption DEF Here, Phases

-----------------------------------------------------------------------------
(* The shapes of a cycle *)

\* A cycle without a check.
Unchecked ==
  /\ NotChecked
  /\ \/ Here.kind \notin {"hold", "search"}
     \/ outcome' \notin {"running", "done"} /\ phase' = phase

\* A cycle in a phase with a check.
Checked ==
  /\ Here.kind \in {"hold", "search"}
  /\ \/ /\ Stay /\ UNCHANGED <<elapsed, sync, taken>>
        /\ \/ Here.gate = "before" /\ NotChecked
           \/ Invalid(Here.check)
           \/ ValidNotEnough(Here.check)
           \/ Here.gate = "after" /\ Succeeds(Here.check)
     \/ Succeeds(Here.check) /\ Complete

\* What each cycle does to the counters of the checks.
LEMMA CounterShapes ==
  ASSUME Running, executeRT
  PROVE  /\ plan' = plan
         /\ Unchecked \/ Checked \/ (outcome' \notin {"running", "done"} /\ UNCHANGED <<phase, counters, history>>)
<1> DEFINE Kind == Here.kind
<1>1. CASE Approach
  <2>1. plan' = plan
    BY <1>1 DEF Approach, Sense
  <2>2. NotChecked /\ Kind = "joint"
    BY <1>1 DEF Approach, Return
  <2>3. Here.kind \notin {"hold", "search"}
    BY <2>2
  <2>4. Unchecked
    BY <2>2, <2>3 DEF Unchecked
  <2> QED BY <2>1, <2>4
<1>2. CASE AtOnce \/ Contact \/ Push \/ Retreat
  <2>1. plan' = plan
    BY <1>2 DEF AtOnce, Contact, Push, Retreat, Sense
  <2>2. NotChecked /\ Kind \in {"init", "contact", "until", "sweep", "pull", "retreat"}
    BY <1>2 DEF AtOnce, Contact, Push, Retreat
  <2>3. Here.kind \notin {"hold", "search"}
    BY <2>2
  <2>4. Unchecked
    BY <2>2, <2>3 DEF Unchecked
  <2> QED BY <2>1, <2>4
<1>3. CASE Hold
  BY <1>3 DEF Hold, Sense, Checked
<1>4. CASE Exhausted \/ NoPose \/ Brake \/ NoSuchArm
  BY <1>4 DEF Exhausted, NoPose, Brake, NoSuchArm, Sense, Return, Unchecked
<1>5. CASE Collect
  <2>1. plan' = plan
    BY <1>5 DEF Collect, Sense
  <2>2. NotChecked /\ Kind = "collect"
    BY <1>5 DEF Collect, Return
  <2>3. Here.kind \notin {"hold", "search"}
    BY <2>2
  <2>4. Unchecked
    BY <2>2, <2>3 DEF Unchecked
  <2> QED BY <2>1, <2>4
<1>6. CASE CutShort
  BY <1>6 DEF CutShort
<1> QED BY <1>1, <1>2, <1>3, <1>4, <1>5, <1>6 DEF executeRT

-----------------------------------------------------------------------------
(* Types *)

\* Ages in the bounds of their periods stay so.
LEMMA AgedType ==
  ASSUME TypeOK, NEW c \in Checks
  PROVE  /\ Aged[c] = Unset \/ Aged[c] \in 0 .. Period(c) - 1
         /\ Aged[c] = Unset <=> age[c] = Unset
         /\ Onset(c) \in 0 .. Period(c) - 1
         /\ Aged[c] \in Int
<1>1. Period(c) \in Nat \ {0}
  BY PeriodType DEF TypeOK
<1>2. age[c] = Unset \/ age[c] \in 0 .. Period(c) - 1
  BY DEF TypeOK
<1>3. Aged[c] = IF age[c] = Unset THEN Unset ELSE (age[c] + 1) % Period(c)
  BY DEF Aged
<1> QED BY <1>1, <1>2, <1>3 DEF Unset, Onset

LEMMA CounterType ==
  ASSUME TypeOK, Running, executeRT
  PROVE  /\ hits' \in [Checks -> Nat] /\ age' \in [Checks -> Int]
         /\ \A c \in Checks : age'[c] = Unset \/ age'[c] \in 0 .. Period(c) - 1
         /\ held' \in Nat
<1>0. /\ Aged \in [Checks -> Int] /\ hits \in [Checks -> Nat] /\ held \in Nat
      /\ \A c \in Checks : Aged[c] = Unset \/ Aged[c] \in 0 .. Period(c) - 1
  <2>1. \A c \in Checks : Aged[c] \in Int /\ (Aged[c] = Unset \/ Aged[c] \in 0 .. Period(c) - 1)
    BY AgedType
  <2>2. Aged \in [Checks -> Int]
    BY <2>1 DEF Aged
  <2> QED BY <2>1, <2>2 DEF TypeOK
<1>1. CASE Unchecked
  BY <1>0, <1>1 DEF Unchecked, NotChecked
<1>2. CASE Checked
  <2>1. Here.check \in Checks
    BY <1>2, HereFacts DEF Checked, TypeOK
  <2>2. Onset(Here.check) \in 0 .. Period(Here.check) - 1 /\ Onset(Here.check) \in Int
    BY <2>1, AgedType
  <2>3. CASE NotChecked \/ Invalid(Here.check)
    BY <1>0, <2>1, <2>3 DEF NotChecked, Invalid
  <2>4. CASE ValidNotEnough(Here.check)
    BY <1>0, <2>1, <2>2, <2>4 DEF ValidNotEnough
  <2>5. CASE Succeeds(Here.check)
    BY <1>0, <2>1, <2>5 DEF Succeeds, Unset
  <2> QED BY <1>2, <2>3, <2>4, <2>5 DEF Checked
<1>3. CASE UNCHANGED <<counters, history>>
  BY <1>3 DEF TypeOK, counters, history
<1> QED BY <1>1, <1>2, <1>3, CounterShapes

LEMMA CompleteType ==
  ASSUME TypeOK, plan' = plan, Complete
  PROVE  /\ phase' \in 1 .. Len(Phases) /\ outcome' \in {outcome, "done"}
         /\ elapsed' \in Nat /\ sync' \in Nat /\ taken' \in Nat
<1>0. phase \in 1 .. Len(Phases) /\ plan \in DOMAIN Table /\ elapsed \in Nat /\ sync \in Nat /\ taken \in Nat
  BY DEF TypeOK
<1>1. Len(Phases) \in Nat \ {0}
  BY <1>0, HereFacts
<1>2. CASE phase < Len(Phases)
  <2>1. phase' = phase + 1 /\ UNCHANGED outcome /\ Enter(phase + 1)
    BY <1>2 DEF Complete
  <2>2. sync' \in Nat
    <3>1. CASE Phases[phase + 1].kind = "collect"
      <4>1. phase + 1 \in 1 .. Len(Phases)
        BY <1>0, <1>1, <1>2
      <4>2. Phases[phase + 1].every \in Nat
        BY <1>0, <3>1, <4>1, TableAssumption DEF Phases
      <4>3. Cycles(Phases[phase + 1].every) \in Nat
        BY <4>2, CyclesType
      <4>4. sync' \in 1 .. Cycles(Phases[phase + 1].every)
        BY <2>1, <3>1 DEF Enter
      <4> QED BY <4>3, <4>4
    <3>2. CASE Phases[phase + 1].kind # "collect"
      BY <2>1, <3>2 DEF Enter
    <3> QED BY <3>1, <3>2
  <2>3. elapsed' = 0 /\ taken' = 0
    BY <2>1 DEF Enter
  <2>4. phase' \in 1 .. Len(Phases)
    BY <1>0, <1>1, <1>2, <2>1
  <2> QED BY <2>1, <2>2, <2>3, <2>4
<1>3. CASE ~(phase < Len(Phases))
  BY <1>0, <1>3 DEF Complete
<1> QED BY <1>2, <1>3

LEMMA BlindType ==
  ASSUME TypeOK, Running, executeRT
  PROVE  blind' \in Nat
<1>1. blind \in Nat
  BY DEF TypeOK
<1>2. \A force : Moves(force) => blind' \in Nat
  BY <1>1 DEF Moves
<1>3. Rests => blind' \in Nat
  BY DEF Rests
<1>4. CASE Approach \/ AtOnce \/ Collect
  BY <1>3, <1>4 DEF Approach, AtOnce, Collect, Return
<1>5. CASE Contact \/ Hold \/ Push \/ Retreat
  BY <1>2, <1>3, <1>5 DEF Contact, Hold, Push, Retreat
<1>6. CASE Exhausted \/ NoPose \/ Brake \/ NoSuchArm
  BY <1>3, <1>6 DEF Exhausted, NoPose, Brake, NoSuchArm, Return
<1>7. CASE CutShort
  BY <1>1, <1>7 DEF CutShort, history
<1> QED BY <1>4, <1>5, <1>6, <1>7 DEF executeRT

\* What each cycle does to the variables of the phase.
Ends ==
  /\ outcome' \in {"braked", "refused", "exhausted", "no direction", "no pose", "cut short"}
  /\ UNCHANGED <<phase, elapsed, sync, taken, samples>>
Goes == Stay /\ elapsed' \in Nat /\ UNCHANGED <<sync, taken, samples>>

LEMMA PhaseShapes ==
  ASSUME TypeOK, Running, executeRT
  PROVE  \/ Complete /\ samples' = samples /\ Here.kind # "collect"
         \/ Ends
         \/ Goes /\ Here.kind # "collect"
         \/ Collect
<1>1. elapsed \in Nat
  BY DEF TypeOK
<1>2. CASE Approach
  <2>1. Here.kind # "collect" /\ samples' = samples
    BY <1>2 DEF Approach, Return
  <2>2. CASE Return("refused")
    BY <2>1, <2>2 DEF Return, Ends
  <2>3. CASE Complete
    BY <2>1, <2>3
  <2>4. CASE Stay /\ UNCHANGED <<elapsed, sync, taken>>
    BY <1>1, <2>1, <2>4 DEF Goes
  <2> QED BY <1>2, <2>2, <2>3, <2>4 DEF Approach
<1>3. CASE AtOnce
  BY <1>3 DEF AtOnce
<1>4. CASE Contact
  <2>1. Here.kind = "contact" /\ samples' = samples
    BY <1>4 DEF Contact
  <2>2. Cycles(Here.zeroAfter) \in Nat
    BY <2>1, HereFacts, CyclesType DEF TypeOK
  <2>3. \/ Complete
        \/ Stay /\ UNCHANGED <<sync, taken>>
           /\ elapsed' = IF elapsed + 1 > Cycles(Here.zeroAfter) THEN Cycles(Here.zeroAfter) + 1 ELSE elapsed + 1
    BY <1>4 DEF Contact
  <2>4. ASSUME elapsed' = IF elapsed + 1 > Cycles(Here.zeroAfter) THEN Cycles(Here.zeroAfter) + 1 ELSE elapsed + 1
        PROVE  elapsed' \in Nat
    BY <1>1, <2>2, <2>4
  <2> QED BY <2>1, <2>3, <2>4 DEF Goes
<1>5. CASE Hold
  <2>1. Here.kind # "collect" /\ samples' = samples
    BY <1>5 DEF Hold
  <2>2. Complete \/ (Stay /\ UNCHANGED <<elapsed, sync, taken>>)
    BY <1>5 DEF Hold
  <2> QED BY <1>1, <2>1, <2>2 DEF Goes
<1>6. CASE Push
  <2>1. Here.kind # "collect" /\ samples' = samples
    BY <1>6 DEF Push
  <2>2. Complete \/ (Stay /\ UNCHANGED <<elapsed, sync, taken>>)
    BY <1>6 DEF Push
  <2> QED BY <1>1, <2>1, <2>2 DEF Goes
<1>7. CASE Retreat
  <2>1. Here.kind # "collect" /\ samples' = samples
    BY <1>7 DEF Retreat
  <2>2. Complete \/ (Stay /\ elapsed' \in {elapsed, elapsed + 1} /\ UNCHANGED <<sync, taken>>)
    BY <1>7 DEF Retreat
  <2> QED BY <1>1, <2>1, <2>2 DEF Goes
<1>8. CASE Exhausted \/ NoPose \/ Brake \/ NoSuchArm
  BY <1>8 DEF Exhausted, NoPose, Brake, NoSuchArm, Return, Ends
<1>9. CASE CutShort
  BY <1>9 DEF CutShort, history, Ends
<1> QED BY <1>2, <1>3, <1>4, <1>5, <1>6, <1>7, <1>8, <1>9 DEF executeRT

\* A cycle of averaging.
LEMMA CollectShapes ==
  ASSUME Collect
  PROVE  \/ /\ elapsed + 1 <= Cycles(Here.window) /\ elapsed' = elapsed + 1
            /\ samples' = samples + OneIfSampled /\ taken' = taken + OneIfSampled
            /\ Stay /\ UNCHANGED sync
         \/ elapsed + 1 > Cycles(Here.window) /\ samples' = 0 /\ Complete
         \/ Ends
<1>1. Return("no direction") => Ends
  BY DEF Return, Ends
<1> QED BY <1>1 DEF Collect, Averaged

LEMMA PhaseType ==
  ASSUME TypeOK, Running, executeRT
  PROVE  /\ phase' \in 1 .. Len(Phases)
         /\ outcome' \in {"running", "done", "braked", "refused", "exhausted", "no direction", "no pose", "cut short"}
         /\ elapsed' \in Nat /\ sync' \in Nat /\ taken' \in Nat /\ samples' \in Nat
<1>0. plan' = plan
  BY CounterShapes
<1>1. ASSUME Complete, samples' \in {samples, 0}
      PROVE  /\ phase' \in 1 .. Len(Phases) /\ outcome' \in {outcome, "done"}
             /\ elapsed' \in Nat /\ sync' \in Nat /\ taken' \in Nat /\ samples' \in Nat
  <2>1. samples \in Nat
    BY DEF TypeOK
  <2> QED BY <1>0, <1>1, <2>1, CompleteType
<1>2. CASE Ends
  BY <1>2 DEF Ends, TypeOK
<1>3. CASE Goes
  BY <1>3 DEF Goes, Stay, TypeOK
<1>4. CASE Collect
  <2>1. CASE Stay /\ elapsed' = elapsed + 1 /\ sync' = sync
             /\ samples' \in {samples, samples + 1} /\ taken' \in {taken, taken + 1}
    <3>1. /\ phase \in 1 .. Len(Phases) /\ elapsed \in Nat /\ sync \in Nat
          /\ taken \in Nat /\ samples \in Nat
      BY DEF TypeOK
    <3> QED BY <2>1, <3>1 DEF Stay, Running
  <2>2. CASE samples' = 0 /\ Complete
    BY <1>1, <2>2 DEF Running
  <2>3. OneIfSampled \in {0, 1} /\ samples \in Nat /\ taken \in Nat
    BY DEF OneIfSampled, TypeOK
  <2>4. CASE /\ elapsed' = elapsed + 1 /\ Stay /\ UNCHANGED sync
             /\ samples' = samples + OneIfSampled /\ taken' = taken + OneIfSampled
    <3>1. samples' \in {samples, samples + 1} /\ taken' \in {taken, taken + 1}
      BY <2>3, <2>4
    <3> QED BY <2>1, <2>4, <3>1
  <2> QED BY <1>2, <1>4, <2>2, <2>4, CollectShapes
<1>5. CASE Complete /\ samples' = samples
  BY <1>1, <1>5 DEF Running
<1> QED BY <1>2, <1>3, <1>4, <1>5, PhaseShapes

LEMMA TypeStep == TypeOK /\ [Next]_vars => TypeOK'
<1>1. ASSUME TypeOK, UNCHANGED vars PROVE TypeOK'
  BY <1>1 DEF TypeOK, vars, Period, Arm, Phases
<1>2. ASSUME TypeOK, Running, executeRT PROVE TypeOK'
  <2>1. plan' = plan
    BY <1>2, CounterShapes
  <2>2. \A c \in Checks : Period(c)' = Period(c)
    BY <2>1 DEF Period, Arm
  <2>3. Len(Phases)' = Len(Phases)
    BY <2>1 DEF Phases
  <2> QED BY <1>2, <2>1, <2>2, <2>3, CounterType, PhaseType, BlindType DEF TypeOK
<1> QED BY <1>1, <1>2 DEF Next, Ended, executeRT, Approach, AtOnce, Contact, Hold, Exhausted, Push,
           NoSuchArm, Collect, Retreat, NoPose, Brake, CutShort

LEMMA TypeInit == Init => TypeOK
BY TableAssumption DEF Init, TypeOK, Phases, Unset

\* Types of the counters, in the bounds of their periods.
THEOREM TypeCorrect == Spec => []TypeOK
BY TypeInit, TypeStep, PTL DEF Spec

-----------------------------------------------------------------------------
(* The counters of the checks *)

\* No check but that of the phase has counted anything.
LEMMA OwnHitsStep == TypeOK /\ OwnHits /\ [Next]_vars => OwnHits'
<1> SUFFICES ASSUME TypeOK, OwnHits, Running, executeRT PROVE OwnHits'
  <2>1. UNCHANGED vars => OwnHits' = OwnHits
    BY DEF vars, OwnHits, Here, Phases
  <2>2. executeRT => Running
    BY DEF executeRT, Approach, AtOnce, Contact, Hold, Exhausted, Push,
           NoSuchArm, Collect, Retreat, NoPose, Brake, CutShort
  <2> QED BY <2>1, <2>2 DEF Next, Ended
<1>0. plan' = plan
  BY CounterShapes
<1>a. phase' = phase => Here' = Here
  BY <1>0 DEF Here, Phases
<1>b. hits \in [Checks -> Nat] /\ age \in [Checks -> Int]
  BY DEF TypeOK
<1>c. \A c \in Checks : Aged[c] = Unset <=> age[c] = Unset
  BY AgedType
<1>1. CASE Unchecked
  <2>1. hits' = hits /\ \A c \in Checks : age'[c] = Unset <=> age[c] = Unset
    BY <1>1, <1>c DEF Unchecked, NotChecked
  <2>2. CASE phase' = phase
    BY <1>a, <2>1, <2>2 DEF OwnHits
  <2>3. CASE Here.kind \notin {"hold", "search"}
    <3>1. \A c \in Checks : ~(hits[c] > 0) /\ age[c] = Unset
      BY <2>3 DEF OwnHits
    <3> QED BY <2>1, <3>1 DEF OwnHits
  <2> QED BY <1>1, <2>2, <2>3 DEF Unchecked
<1>2. CASE Checked
  <2> DEFINE d == Here.check
  <2>1. d \in Checks
    BY <1>2, HereFacts DEF Checked, TypeOK
  <2>2. \A c \in Checks \ {d} : hits[c] = 0 /\ age[c] = Unset /\ Aged[c] = Unset
    BY <1>b, <1>c DEF OwnHits
  <2>3. \A c \in Checks \ {d} : hits'[c] = 0 /\ age'[c] = Unset
    <3>1. CASE NotChecked \/ Invalid(d)
      BY <1>b, <2>2, <3>1 DEF NotChecked, Invalid
    <3>2. CASE ValidNotEnough(d)
      BY <1>b, <2>2, <3>2 DEF ValidNotEnough, Aged
    <3>3. CASE Succeeds(d)
      BY <1>b, <2>2, <3>3 DEF Succeeds, Aged
    <3> QED BY <1>2, <3>1, <3>2, <3>3 DEF Checked
  <2>4. CASE Stay
    <3>1. Here' = Here /\ Here.kind \in {"hold", "search"}
      BY <1>2, <1>a, <2>4 DEF Checked, Stay
    <3> QED BY <2>3, <3>1 DEF OwnHits
  <2>5. CASE Succeeds(d)
    <3>1. hits'[d] = 0 /\ age'[d] = Unset
      BY <1>b, <2>1, <2>5 DEF Succeeds, Aged
    <3> QED BY <2>3, <3>1 DEF OwnHits
  <2> QED BY <1>2, <2>4, <2>5 DEF Checked
<1>3. CASE UNCHANGED <<phase, counters, history>>
  BY <1>3, <1>a DEF OwnHits, counters
<1> QED BY <1>1, <1>2, <1>3, CounterShapes

LEMMA OwnHitsInit == Init => OwnHits
BY DEF Init, OwnHits

\* What one phase has counted is gone when the next one begins, in every plan.
THEOREM HitsAreOwn == Spec => []OwnHits
BY OwnHitsInit, OwnHitsStep, TypeCorrect, PTL DEF Spec

-----------------------------------------------------------------------------
(* Success after an unbroken stretch *)

\* While a check without a gate before it has hits, the onset is known, and the
\* valid cycles without a break are as many as the periods between the hits and the
\* cycles since the last one.
Stretch ==
  Running /\ Here.kind \in {"hold", "search"} /\ Here.gate # "before" /\ hits[Here.check] > 0 =>
    /\ age[Here.check] # Unset
    /\ held >= (hits[Here.check] - 1) * Period(Here.check) + age[Here.check] + 1

\* Multiplication, as far as it is needed.
LEMMA OneMore ==
  ASSUME NEW n \in Int, NEW p \in Nat
  PROVE  /\ (n + 1 - 1) * p = (n - 1) * p + p
         /\ (n - 1) * p \in Int
OBVIOUS

LEMMA Monotone ==
  ASSUME NEW m \in Int, NEW n \in Int, NEW p \in Nat, m <= n
  PROVE  m * p <= n * p
OBVIOUS

\* A valid cycle that is not the last one needed.
LEMMA StretchGrows ==
  ASSUME TypeOK, NEW d \in Checks, ValidNotEnough(d),
         hits[d] > 0 => age[d] # Unset /\ held >= (hits[d] - 1) * Period(d) + age[d] + 1
  PROVE  hits'[d] > 0 => age'[d] # Unset /\ held' >= (hits'[d] - 1) * Period(d) + age'[d] + 1
<1> DEFINE p == Period(d)
           h == hits[d]
           a == age[d]
<1>0. p \in Nat \ {0} /\ h \in Nat /\ held \in Nat /\ (a = Unset \/ a \in 0 .. p - 1)
  BY PeriodType DEF TypeOK
<1>1. Aged[d] = IF a = Unset THEN Unset ELSE (a + 1) % p
  BY DEF Aged
<1>2. /\ age'[d] = Onset(d) /\ held' = held + 1
      /\ hits'[d] = h + (IF Onset(d) = 0 THEN 1 ELSE 0)
  BY DEF ValidNotEnough, TypeOK, Aged
<1>3. Onset(d) = IF a = Unset THEN 0 ELSE (a + 1) % p
  BY <1>1 DEF Onset
<1>4. (h - 1) * p \in Int /\ (h + 1 - 1) * p = (h - 1) * p + p
  BY <1>0, OneMore
<1> HIDE DEF p, h, a
<1>5. CASE a = Unset
  <2>1. h = 0
    BY <1>0, <1>5 DEF p, h, a
  <2>2. age'[d] = 0 /\ hits'[d] = 1
    BY <1>2, <1>3, <1>5, <2>1
  <2>3. (1 - 1) * p = 0
    BY <1>0
  <2> QED BY <1>0, <1>2, <2>2, <2>3 DEF Unset, p
<1>6. CASE a \in 0 .. p - 2
  <2>1. Onset(d) = a + 1
    BY <1>0, <1>3, <1>6 DEF Unset
  <2>2. hits'[d] = h /\ age'[d] = a + 1
    BY <1>0, <1>2, <1>6, <2>1
  <2>3. h > 0 => held >= (h - 1) * p + a + 1
    BY DEF p, h, a
  <2> QED BY <1>0, <1>2, <1>4, <1>6, <2>2, <2>3 DEF Unset, p
<1>7. CASE a = p - 1
  <2>1. Onset(d) = 0
    BY <1>0, <1>3, <1>7 DEF Unset
  <2>2. hits'[d] = h + 1 /\ age'[d] = 0
    BY <1>0, <1>2, <2>1
  <2>3. h > 0 => held >= (h - 1) * p + a + 1
    BY DEF p, h, a
  <2>4. h = 0 => (h + 1 - 1) * p = 0
    BY <1>0
  <2> QED BY <1>0, <1>2, <1>4, <1>7, <2>2, <2>3, <2>4 DEF Unset, p
<1> QED BY <1>0, <1>5, <1>6, <1>7

\* The cycle that succeeds.
LEMMA StretchEnds ==
  ASSUME TypeOK, NEW d \in Checks, Succeeds(d), Here.ticks \in Nat, NEW t \in Nat, t = Here.ticks,
         hits[d] > 0 => age[d] # Unset /\ held >= (hits[d] - 1) * Period(d) + age[d] + 1
  PROVE  held >= (t - 1) * Period(d)
<1> DEFINE p == Period(d)
           h == hits[d]
           a == age[d]
<1>0. p \in Nat \ {0} /\ h \in Nat /\ held \in Nat /\ (a = Unset \/ a \in 0 .. p - 1)
  BY PeriodType DEF TypeOK
<1>1. Onset(d) = 0 /\ h + 1 >= t
  BY DEF Succeeds, Enough
<1>2. Onset(d) = IF a = Unset THEN 0 ELSE (a + 1) % p
  BY DEF Onset, Aged
<1>3. (t - 1) * p <= h * p /\ h * p \in Int /\ (t - 1) * p \in Int
  BY <1>0, <1>1, Monotone
<1>4. h * p = (h - 1) * p + p /\ (h - 1) * p \in Int
  BY <1>0
<1>5. h > 0 => a # Unset /\ held >= (h - 1) * p + a + 1
  OBVIOUS
<1> HIDE DEF p, h, a
<1>6. CASE h = 0
  <2>1. h * p = 0
    BY <1>0, <1>6
  <2> QED BY <1>0, <1>3, <2>1 DEF p
<1>7. CASE h > 0
  <2>1. a \in 0 .. p - 1 /\ (a + 1) % p = 0
    BY <1>0, <1>1, <1>2, <1>5, <1>7
  <2>2. a = p - 1
    <3>1. a < p - 1 => (a + 1) % p = a + 1
      BY <1>0, <2>1
    <3> QED BY <1>0, <2>1, <3>1
  <2> QED BY <1>0, <1>3, <1>4, <1>5, <1>7, <2>2 DEF p
<1> QED BY <1>0, <1>6, <1>7

LEMMA StretchStep == TypeOK /\ OwnHits /\ OwnHits' /\ Stretch /\ [Next]_vars => Stretch'
<1> SUFFICES ASSUME TypeOK, OwnHits, OwnHits', Stretch, Running, executeRT, Running' PROVE Stretch'
  <2>1. UNCHANGED vars => Stretch' = Stretch
    BY DEF vars, Stretch, Here, Phases, Running, Period, Arm
  <2>2. executeRT => Running
    BY DEF executeRT, Approach, AtOnce, Contact, Hold, Exhausted, Push,
           NoSuchArm, Collect, Retreat, NoPose, Brake, CutShort
  <2> QED BY <2>1, <2>2 DEF Next, Ended, Stretch
<1>0. plan' = plan
  BY CounterShapes
<1>a. phase' = phase => Here' = Here
  BY <1>0 DEF Here, Phases
<1>b. hits \in [Checks -> Nat]
  BY DEF TypeOK
<1>c. \A c \in Checks : Period(c)' = Period(c)
  BY <1>0 DEF Period, Arm
\* No hits, or no check: nothing to show.
<1>d. (\A c \in Checks : hits'[c] = 0) => Stretch'
  <2>1. Here.kind' \in {"hold", "search"} => Here.check' \in Checks
    <3>1. plan' \in DOMAIN Table /\ phase' \in 1 .. Len(Phases)'
      <4>1. phase' \in 1 .. Len(Phases) /\ plan \in DOMAIN Table
        BY PhaseType DEF TypeOK
      <4> QED BY <1>0, <4>1 DEF Phases
    <3> QED BY <3>1, TableAssumption DEF Here, Phases
  <2> QED BY <2>1 DEF Stretch
<1>1. CASE Unchecked
  <2>1. Here.kind \notin {"hold", "search"}
    BY <1>1 DEF Unchecked, Running
  <2>2. \A c \in Checks : hits[c] = 0
    BY <1>b, <2>1 DEF OwnHits
  <2> QED BY <1>1, <1>d, <2>2 DEF Unchecked, NotChecked
<1>2. CASE Checked
  <2> DEFINE d == Here.check
  <2>1. d \in Checks /\ Here.kind \in {"hold", "search"}
    BY <1>2, HereFacts DEF Checked, TypeOK
  <2>2. \A c \in Checks \ {d} : hits[c] = 0
    BY <1>b DEF OwnHits
  <2>3. CASE Invalid(d) \/ Succeeds(d)
    <3>1. \A c \in Checks : hits'[c] = 0
      BY <1>b, <2>2, <2>3 DEF Invalid, Succeeds
    <3> QED BY <1>d, <3>1
  <2>4. CASE Stay /\ Here.gate = "before" /\ NotChecked
    <3>1. Here' = Here
      BY <1>a, <2>4 DEF Stay
    <3> QED BY <2>4, <3>1 DEF Stretch
  <2>5. CASE Stay /\ ValidNotEnough(d) /\ Here.gate # "before"
    <3>1. Here' = Here /\ Period(d)' = Period(d)
      BY <1>a, <1>c, <2>1, <2>5 DEF Stay
    <3>2. hits[d] > 0 => age[d] # Unset /\ held >= (hits[d] - 1) * Period(d) + age[d] + 1
      BY <2>1, <2>5 DEF Stretch
    <3>3. hits'[d] > 0 => age'[d] # Unset /\ held' >= (hits'[d] - 1) * Period(d) + age'[d] + 1
      BY <2>1, <2>5, <3>2, StretchGrows
    <3>4. Here'.check = d
      BY <3>1
    <3>5. Period(Here.check)' = Period(d)
      BY <3>1, <3>4 DEF Period, Arm
    <3> QED BY <3>3, <3>4, <3>5 DEF Stretch
  <2>6. CASE Stay /\ Here.gate = "before"
    <3>1. Here' = Here
      BY <1>a, <2>6 DEF Stay
    <3> QED BY <2>6, <3>1 DEF Stretch
  <2> QED BY <1>2, <2>3, <2>4, <2>5, <2>6 DEF Checked
<1>3. CASE outcome' # "running"
  BY <1>3 DEF Running
<1> QED BY <1>1, <1>2, <1>3, CounterShapes

LEMMA SettledStep ==
  TypeOK /\ Stretch /\ [Next]_vars =>
    [ (phase' # phase \/ outcome' = "done") /\ Here.kind \in {"hold", "search"} /\ Here.gate # "before"
      => held >= (Here.ticks - 1) * Period(Here.check) ]_vars
<1> SUFFICES ASSUME TypeOK, Stretch, Next, vars' # vars, phase' # phase \/ outcome' = "done",
                    Here.kind \in {"hold", "search"}, Here.gate # "before"
             PROVE  held >= (Here.ticks - 1) * Period(Here.check)
  OBVIOUS
<1>1. Running /\ executeRT
  BY DEF Next, Ended, executeRT, Approach, AtOnce, Contact, Hold, Exhausted, Push,
         NoSuchArm, Collect, Retreat, NoPose, Brake, CutShort
<1>2. Here.check \in Checks /\ Here.ticks \in Nat
  BY HereFacts DEF TypeOK
<1>3. Succeeds(Here.check)
  <2>1. ~(outcome' \notin {"running", "done"} /\ phase' = phase)
    OBVIOUS
  <2>2. ~Unchecked
    BY <2>1 DEF Unchecked
  <2>3. Checked
    BY <1>1, <2>1, <2>2, CounterShapes
  <2>4. ~Stay
    BY <1>1 DEF Stay, Running
  <2> QED BY <2>3, <2>4 DEF Checked
<1>4. hits[Here.check] > 0 =>
        age[Here.check] # Unset /\ held >= (hits[Here.check] - 1) * Period(Here.check) + age[Here.check] + 1
  BY <1>1 DEF Stretch
<1> QED BY <1>2, <1>3, <1>4, StretchEnds

LEMMA StretchInit == Init => Stretch
<1> SUFFICES ASSUME Init PROVE Stretch
  OBVIOUS
<1>1. TypeOK
  BY TypeInit
<1>2. Here.kind \in {"hold", "search"} => Here.check \in Checks
  BY <1>1, HereFacts DEF TypeOK
<1> QED BY <1>2 DEF Init, Stretch

\* Success of a check is about one unbroken stretch of valid cycles, as long as
\* the number of hits asks for, whatever the plan's phases and numbers are.
THEOREM SettledUnbroken == Spec => SettledLongEnough
<1>1. Spec => []Stretch
  BY StretchInit, StretchStep, TypeCorrect, HitsAreOwn, PTL DEF Spec
<1> QED BY <1>1, SettledStep, TypeCorrect, PTL DEF Spec, SettledLongEnough

-----------------------------------------------------------------------------
(* A full sample *)

\* Samples are counted only while a phase averages; one is due every period from
\* the first cycle that counts on, and none is missed.
Sampling ==
  Running =>
    /\ Here.kind # "collect" => samples = 0
    /\ Here.kind = "collect" =>
         /\ taken = samples /\ samples <= Here.cap
         /\ sync \in 1 .. Cycles(Here.every) /\ elapsed <= Cycles(Here.window)
         /\ samples < Here.cap => elapsed < sync + samples * Cycles(Here.every)

LEMMA Multiple ==
  ASSUME NEW n \in Nat, NEW e \in Nat \ {0}
  PROVE  (n * e) % e = 0 /\ n * e \in Nat /\ (n + 1) * e = n * e + e
OBVIOUS

\* A phase begins with nothing sampled.
LEMMA SamplingBegins ==
  ASSUME TypeOK, plan' = plan, Complete, samples' = 0, Running'
  PROVE  Sampling'
<1>1. phase \in 1 .. Len(Phases) /\ plan \in DOMAIN Table /\ Len(Phases) \in Nat
  BY HereFacts DEF TypeOK
<1>2. phase < Len(Phases) /\ phase' = phase + 1 /\ Enter(phase + 1)
  BY DEF Complete, Running
<1>3. phase + 1 \in 1 .. Len(Phases)
  BY <1>1, <1>2
<1>4. Here' = Phases[phase + 1] /\ elapsed' = 0 /\ taken' = 0
  BY <1>2 DEF Here, Phases, Enter
<1>5. CASE Phases[phase + 1].kind = "collect"
  <2> DEFINE next == Phases[phase + 1]
  <2>1. next.every \in Nat /\ next.cap \in Nat /\ next.window \in Nat
    BY <1>1, <1>3, <1>5, TableAssumption DEF Phases
  <2>2. Cycles(next.every) \in Nat \ {0} /\ Cycles(next.window) \in Nat \ {0}
    BY <2>1, CyclesType
  <2>3. sync' \in 1 .. Cycles(next.every)
    BY <1>2, <1>5 DEF Enter
  <2>4. 0 * Cycles(next.every) = 0
    BY <2>2
  <2>5. Here' = next /\ next.kind = "collect"
    BY <1>4, <1>5
  <2>6. /\ taken' = samples' /\ samples' <= next.cap
        /\ sync' \in 1 .. Cycles(next.every) /\ elapsed' <= Cycles(next.window)
        /\ elapsed' < sync' + samples' * Cycles(next.every)
    BY <1>4, <2>1, <2>2, <2>3, <2>4
  <2> QED BY <2>5, <2>6 DEF Sampling, Cycles
<1>6. CASE Phases[phase + 1].kind # "collect"
  BY <1>4, <1>6 DEF Sampling
<1> QED BY <1>5, <1>6

\* When the window is over, all samples have been taken.
LEMMA WindowOver ==
  ASSUME TypeOK, Sampling, Running, Here.kind = "collect", elapsed + 1 > Cycles(Here.window)
  PROVE  taken = Here.cap
<1> DEFINE e == Cycles(Here.every)
           w == Cycles(Here.window)
           c == Here.cap
<1>1. c \in Nat /\ c * e <= w /\ e \in Nat \ {0} /\ w \in Nat \ {0}
  BY HereFacts, CyclesType DEF TypeOK
<1>2. /\ taken = samples /\ samples <= c /\ sync \in 1 .. e /\ elapsed <= w
      /\ samples < c => elapsed < sync + samples * e
  BY DEF Sampling
<1>3. samples \in Nat /\ elapsed \in Nat /\ elapsed + 1 > w
  BY DEF TypeOK
<1> HIDE DEF e, w, c
<1>4. ASSUME samples < c PROVE FALSE
  <2>1. (samples + 1) * e <= c * e
    BY <1>1, <1>3, <1>4, Monotone
  <2>2. (samples + 1) * e = samples * e + e /\ samples * e \in Nat /\ c * e \in Nat
    BY <1>1, <1>3, Multiple
  <2> QED BY <1>1, <1>2, <1>3, <1>4, <2>1, <2>2
<1>5. taken = c
  BY <1>1, <1>2, <1>3, <1>4
<1> QED BY <1>5 DEF c

\* A cycle within the window.
LEMMA SamplingGoesOn ==
  ASSUME TypeOK, Sampling, Running, Here.kind = "collect",
         elapsed + 1 <= Cycles(Here.window), elapsed' = elapsed + 1, sync' = sync,
         samples' = samples + OneIfSampled, taken' = taken + OneIfSampled
  PROVE  /\ taken' = samples' /\ samples' <= Here.cap
         /\ sync' \in 1 .. Cycles(Here.every) /\ elapsed' <= Cycles(Here.window)
         /\ samples' < Here.cap => elapsed' < sync' + samples' * Cycles(Here.every)
<1> DEFINE e == Cycles(Here.every)
           w == Cycles(Here.window)
           c == Here.cap
<1>1. c \in Nat /\ e \in Nat \ {0} /\ w \in Nat \ {0}
  BY HereFacts, CyclesType DEF TypeOK
<1>2. /\ taken = samples /\ samples <= c /\ sync \in 1 .. e
      /\ samples < c => elapsed < sync + samples * e
  BY DEF Sampling
<1>3. samples \in Nat /\ elapsed \in Nat
  BY DEF TypeOK
<1>4. Sampled <=> /\ elapsed + 1 >= sync /\ (elapsed + 1 - sync) % e = 0 /\ samples < c
  BY <1>1, <1>2, <1>3 DEF Sampled
<1>5. elapsed' = elapsed + 1 /\ elapsed' <= w /\ sync' = sync
  OBVIOUS
<1>6. /\ samples' = samples + (IF Sampled THEN 1 ELSE 0)
      /\ taken' = taken + (IF Sampled THEN 1 ELSE 0)
  BY DEF OneIfSampled
<1>7. (samples * e) % e = 0 /\ samples * e \in Nat /\ (samples + 1) * e = samples * e + e
  BY <1>1, <1>3, Multiple
<1>8. /\ taken' = samples' /\ samples' <= c /\ sync' \in 1 .. e /\ elapsed' <= w
      /\ samples' < c => elapsed' < sync' + samples' * e
  <2> HIDE DEF e, w, c
  <2>1. CASE Sampled
    <3>1. samples' = samples + 1 /\ taken' = taken + 1
      BY <1>6, <2>1
    <3>2. samples' * e = samples * e + e
      BY <1>7, <3>1
    <3> QED BY <1>1, <1>2, <1>3, <1>4, <1>5, <1>7, <2>1, <3>1, <3>2
  <2>2. CASE ~Sampled
    <3>1. samples' = samples /\ taken' = taken
      BY <1>2, <1>3, <1>6, <2>2
    <3>2. samples < c => elapsed + 1 # sync + samples * e
      <4> SUFFICES ASSUME samples < c, elapsed + 1 = sync + samples * e PROVE FALSE
        OBVIOUS
      <4>1. elapsed + 1 - sync = samples * e /\ elapsed + 1 >= sync
        BY <1>1, <1>2, <1>3, <1>7
      <4> QED BY <1>4, <1>7, <2>2, <4>1
    <3> QED BY <1>1, <1>2, <1>3, <1>5, <1>7, <3>1, <3>2
  <2> QED BY <2>1, <2>2
<1> QED BY <1>8

LEMMA SamplingStep == TypeOK /\ Sampling /\ [Next]_vars => Sampling'
<1> SUFFICES ASSUME TypeOK, Sampling, Running, executeRT, Running' PROVE Sampling'
  <2>1. UNCHANGED vars => Sampling' = Sampling
    BY DEF vars, Sampling, Here, Phases, Running
  <2>2. executeRT => Running
    BY DEF executeRT, Approach, AtOnce, Contact, Hold, Exhausted, Push,
           NoSuchArm, Collect, Retreat, NoPose, Brake, CutShort
  <2> QED BY <2>1, <2>2 DEF Next, Ended, Sampling
<1>0. plan' = plan
  BY CounterShapes
<1>a. phase' = phase => Here' = Here
  BY <1>0 DEF Here, Phases
<1>1. CASE Complete /\ samples' = samples /\ Here.kind # "collect"
  <2>1. samples' = 0
    BY <1>1 DEF Sampling
  <2> QED BY <1>0, <1>1, <2>1, SamplingBegins
<1>2. CASE Ends
  BY <1>2 DEF Ends, Running
<1>3. CASE Goes /\ Here.kind # "collect"
  BY <1>3, <1>a DEF Goes, Stay, Sampling
<1>4. CASE Collect
  <2>1. Here.kind = "collect"
    BY <1>4 DEF Collect
  <2>2. CASE /\ elapsed + 1 <= Cycles(Here.window) /\ elapsed' = elapsed + 1
             /\ samples' = samples + OneIfSampled /\ taken' = taken + OneIfSampled
             /\ Stay /\ UNCHANGED sync
    <3>1. Here' = Here
      BY <1>a, <2>2 DEF Stay
    <3>2. /\ taken' = samples' /\ samples' <= Here.cap
          /\ sync' \in 1 .. Cycles(Here.every) /\ elapsed' <= Cycles(Here.window)
          /\ samples' < Here.cap => elapsed' < sync' + samples' * Cycles(Here.every)
      BY <2>1, <2>2, SamplingGoesOn
    <3> QED BY <2>1, <3>1, <3>2 DEF Sampling, Cycles
  <2>3. CASE samples' = 0 /\ Complete
    BY <1>0, <2>3, SamplingBegins
  <2> QED BY <1>2, <1>4, <2>2, <2>3, CollectShapes
<1> QED BY <1>1, <1>2, <1>3, <1>4, PhaseShapes

LEMMA SamplingInit == Init => Sampling
BY TableAssumption DEF Init, Sampling, Here, Phases

LEMMA FullStep ==
  TypeOK /\ Sampling /\ [Next]_vars =>
    [phase' # phase /\ Here.kind = "collect"
     => taken = IF plan \in Misdivided THEN Here.cap ELSE Here.divisor]_vars
<1> SUFFICES ASSUME TypeOK, Sampling, Next, vars' # vars, phase' # phase, Here.kind = "collect"
             PROVE  taken = IF plan \in Misdivided THEN Here.cap ELSE Here.divisor
  OBVIOUS
<1>1. Running /\ executeRT
  BY DEF Next, Ended, executeRT, Approach, AtOnce, Contact, Hold, Exhausted, Push,
         NoSuchArm, Collect, Retreat, NoPose, Brake, CutShort
<1>2. Collect
  BY <1>1, PhaseShapes DEF Ends, Goes, Stay
<1>3. elapsed + 1 > Cycles(Here.window)
  BY <1>2, CollectShapes DEF Ends, Stay
<1>4. taken = Here.cap
  BY <1>1, <1>3, WindowOver
<1>5. plan \notin Misdivided => Here.divisor = Here.cap
  BY DivisorAssumption DEF TypeOK, Here, Phases
<1> QED BY <1>4, <1>5

\* Every mean is taken over as many samples as it is divided by, if the table's windows
\* are long enough for them at all and its divisors are the numbers of samples (all but
\* Demo's are).
THEOREM SampleIsFull == Spec => FullSample
<1>1. Spec => []Sampling
  BY SamplingInit, SamplingStep, TypeCorrect, PTL DEF Spec
<1> QED BY <1>1, FullStep, TypeCorrect, PTL DEF Spec, FullSample
-----------------------------------------------------------------------------
(* What the filter holds *)

\* Window samples, or none ever.
FilterType ==
  /\ recent \in Seq(Forces) /\ Len(recent) = Window
  /\ ~Arm.filtered => \A i \in 1 .. Window : recent[i] = 0

\* During an approach: as many samples of the air as cycles have passed.
InAir ==
  Running /\ Here.kind = "contact" /\ Arm.filtered =>
    \A i \in 1 .. Window : i > Window - elapsed => recent[i] < Here.threshold

\* A zero is that of the air but for its newest sample, or none.
ZeroBounded == offset \in 0 .. Overload + (Window - 1) * Air

\* While the arm is moved against an overloaded sensor, its newest samples are
\* those of these cycles.
BlindTail ==
  /\ blind < Window
  /\ Arm.filtered => \A i \in 1 .. Window : i > Window - blind => recent[i] = Overload
  /\ ~Arm.filtered => blind = 0

Filtering == FilterType /\ InAir /\ ZeroBounded /\ BlindTail

LEMMA OverloadIsMost ==
  Overload \in Forces /\ Overload \in Nat /\ \A f \in Forces : f \in Nat /\ f <= Overload
BY DataAssumption DEF Overload

\* The limits of the phase that runs.
LEMMA LimitFacts ==
  ASSUME plan \in DOMAIN Table, phase \in 1 .. Len(Phases)
  PROVE  /\ Here.kind = "contact" =>
              /\ Here.threshold \in 0 .. Overload
              /\ Here.zeroAfter > 0 => Here.threshold <= Air /\ Cycles(Here.zeroAfter) >= Window
         /\ Here.kind \in {"hold", "search", "until", "sweep", "pull", "retreat"} =>
              /\ Here.brake \in Nat /\ 10 * Here.brake < Overload
              /\ Here.zeroed => Here.brake * 10 * Window < (Window - 1) * (Overload - Air)
BY LimitAssumption DEF Here, Phases

LEMMA SeqOfInts ==
  ASSUME NEW S, S \subseteq Int, NEW s \in Seq(S)
  PROVE  s \in Seq(Int)
<1>1. Len(s) \in Nat /\ s \in [1 .. Len(s) -> S]
  OBVIOUS
<1>2. s \in [1 .. Len(s) -> Int]
  BY <1>1
<1> QED BY <1>1, <1>2

LEMMA FilteredFacts ==
  ASSUME FilterType, NEW force \in Forces, NEW f, f = Filtered(force)
  PROVE  /\ f \in Seq(Forces) /\ f \in Seq(Int) /\ Len(f) = Window
         /\ Arm.filtered => f[Window] = force /\ \A i \in 1 .. Window - 1 : f[i] = recent[i + 1]
         /\ ~Arm.filtered => f = recent
<1>1. Window \in Nat \ {0} /\ Forces \subseteq Int
  BY TickAssumption, DataAssumption
<1>2. recent \in Seq(Forces) /\ Len(recent) = Window
  BY DEF FilterType
<1>3. CASE Arm.filtered
  <2>1. f = Append(Tail(recent), force)
    BY <1>3 DEF Filtered
  <2>2. Tail(recent) \in Seq(Forces) /\ Len(Tail(recent)) = Window - 1
        /\ \A i \in 1 .. Window - 1 : Tail(recent)[i] = recent[i + 1]
    BY <1>1, <1>2
  <2>3. f \in Seq(Forces) /\ Len(f) = Window /\ f[Window] = force
        /\ \A i \in 1 .. Window - 1 : f[i] = Tail(recent)[i]
    BY <1>1, <2>1, <2>2
  <2>4. f \in Seq(Int)
    BY <1>1, <2>3, SeqOfInts
  <2> QED BY <1>3, <2>2, <2>3, <2>4
<1>4. CASE ~Arm.filtered
  <2>1. f = recent
    BY <1>4 DEF Filtered
  <2>2. recent \in Seq(Int)
    BY <1>1, <1>2, SeqOfInts
  <2> QED BY <1>2, <1>4, <2>1, <2>2
<1> QED BY <1>3, <1>4

\* What each cycle does to the filter, the zero and the arm.
LEMMA SenseShapes ==
  ASSUME Running, executeRT
  PROVE  \/ /\ Here.kind # "contact" /\ offset' = offset
            /\ \/ recent' = recent /\ Rests
               \/ \E force \in Forces :
                    /\ recent' = Filtered(force)
                    /\ \/ Rests
                       \/ /\ Here.kind \in {"hold", "search", "until", "sweep", "pull", "retreat"}
                          /\ Moves(force) /\ ~TooHard(force)
         \/ Contact
         \/ UNCHANGED <<recent, offset, blind>> /\ ~Running'
<1>1. CASE Approach
  BY <1>1 DEF Approach, Sense, Return
<1>2. CASE AtOnce
  BY <1>2 DEF AtOnce
<1>3. CASE Hold
  BY <1>3 DEF Hold, Sense
<1>4. CASE Exhausted \/ NoPose \/ Brake
  BY <1>4 DEF Exhausted, NoPose, Brake, Sense, Return
<1>5. CASE Push
  BY <1>5 DEF Push, Sense
<1>6. CASE NoSuchArm
  BY <1>6 DEF NoSuchArm, Return
<1>7. CASE Collect
  <2>1. Here.kind # "contact" /\ offset' = offset /\ Rests
    BY <1>7 DEF Collect, Return
  <2>2. recent' = recent \/ \E force \in Forces : recent' = Filtered(force)
    BY <1>7 DEF Collect, Sense
  <2> QED BY <2>1, <2>2
<1>8. CASE Retreat
  <2>1. Here.kind = "retreat" /\ offset' = offset
    BY <1>8 DEF Retreat
  <2>2. \E force \in Forces : recent' = Filtered(force) /\ (Rests \/ (Moves(force) /\ ~TooHard(force)))
    BY <1>8 DEF Retreat, Sense
  <2> QED BY <2>1, <2>2
<1>9. CASE CutShort
  BY <1>9 DEF CutShort, history, Running
<1> QED BY <1>1, <1>2, <1>3, <1>4, <1>5, <1>6, <1>7, <1>8, <1>9 DEF executeRT

\* The arm is not moved by the last of Window overloaded samples.
LEMMA NotBlind ==
  ASSUME TypeOK, Filtering, ~TooHard(Overload),
         Here.kind \in {"hold", "search", "until", "sweep", "pull", "retreat"}
  PROVE  Arm.filtered /\ blind + 1 < Window
<1> DEFINE O == Overload
           W == Window
           b == Here.brake
           f == Filtered(Overload)
<1>1. W \in Nat \ {0} /\ O \in Nat /\ Overload \in Forces /\ blind \in Nat
  BY TickAssumption, OverloadIsMost DEF TypeOK
<1>2. b \in Nat /\ 10 * b < O /\ (Here.zeroed => b * 10 * W < (W - 1) * (O - Air))
  BY LimitFacts DEF TypeOK
<1>3. 10 * b * W < W * O /\ W * O \in Nat /\ b * 10 * W = 10 * b * W /\ b * 10 * W \in Nat
  BY <1>1, <1>2
<1>4. Arm.filtered
  <2> SUFFICES ASSUME ~Arm.filtered PROVE FALSE
    OBVIOUS
  <2>1. Measured(Overload) = W * O
    BY DEF Measured
  <2> HIDE DEF W, O, b
  <2>2. TooHard(Overload) <=> W * O > b * 10 * W
    BY <1>3, <2>1 DEF TooHard, W, b
  <2> QED BY <1>3, <2>2
<1>5. ASSUME blind + 1 >= W PROVE FALSE
  <2>1. /\ f \in Seq(Int) /\ Len(f) = W /\ f[W] = O
        /\ \A i \in 1 .. W - 1 : f[i] = recent[i + 1]
    BY <1>1, <1>4, FilteredFacts DEF Filtering
  <2>2. \A i \in 1 .. W - 1 : recent[i + 1] = O
    <3> SUFFICES ASSUME NEW i \in 1 .. W - 1 PROVE recent[i + 1] = O
      OBVIOUS
    <3>1. i + 1 \in 1 .. W /\ i + 1 > W - blind
      BY <1>1, <1>5
    <3> QED BY <1>4, <3>1 DEF Filtering, BlindTail
  <2> HIDE DEF f
  <2>3. \A i \in 1 .. Len(f) : f[i] >= O
    <3> HIDE DEF W, O
    <3> SUFFICES ASSUME NEW i \in 1 .. W PROVE f[i] = O
      BY <1>1, <2>1
    <3>1. i = W \/ i \in 1 .. W - 1
      BY <1>1
    <3> QED BY <2>1, <2>2, <3>1
  <2>4. Total(f) >= W * O /\ Total(f) \in Int
    <3>1. Len(f) > 0 /\ O \in Int
      BY <1>1, <2>1
    <3> QED BY <2>1, <2>3, <3>1, TotalBounds
  <2>5. offset \in Int /\ offset <= O + (W - 1) * Air
    BY <1>1 DEF Filtering, ZeroBounded, Air
  <2>6. Measured(Overload) = IF Here.zeroed THEN Total(f) - offset ELSE Total(f)
    BY <1>4 DEF Measured, f
  <2>7. (W - 1) * (O - Air) = W * O - O - (W - 1) * Air /\ (W - 1) * Air \in Int
    BY <1>1 DEF Air
  <2> DEFINE m == Measured(Overload)
  <2>8. m \in Int /\ m > b * 10 * W
    <3> HIDE DEF W, O, b, f
    <3>1. CASE Here.zeroed
      BY <1>1, <1>2, <1>3, <2>4, <2>5, <2>6, <2>7, <3>1
    <3>2. CASE ~Here.zeroed
      BY <1>3, <2>4, <2>6, <3>2
    <3> QED BY <3>1, <3>2
  <2>9. TooHard(Overload) <=> (IF m < 0 THEN -m ELSE m) > b * 10 * W
    BY DEF TooHard
  <2> HIDE DEF m
  <2> QED BY <1>3, <2>8, <2>9
<1> QED BY <1>1, <1>4, <1>5

\* The threshold of the approach that runs.
LEMMA ThresholdFacts ==
  ASSUME plan \in DOMAIN Table, phase \in 1 .. Len(Phases), Here.kind = "contact"
  PROVE  /\ Here.threshold \in Int /\ Here.threshold <= Overload
         /\ Here.zeroAfter > 0 => Here.threshold <= Air /\ Cycles(Here.zeroAfter) >= Window
<1>1. Here.threshold \in 0 .. Overload
  BY LimitFacts
<1>2. Overload \in Nat
  BY OverloadIsMost
<1>3. Here.zeroAfter > 0 => Here.threshold <= Air /\ Cycles(Here.zeroAfter) >= Window
  BY LimitFacts
<1> QED BY <1>1, <1>2, <1>3


\* What the filter holds after a cycle that reads the sensor, or none.
LEMMA FilterTypeStep ==
  ASSUME TypeOK, FilterType, plan' = plan,
         recent' = recent \/ \E force \in Forces : recent' = Filtered(force)
  PROVE  FilterType'
<1>1. Arm' = Arm
  BY DEF Arm
<1>2. CASE recent' = recent
  BY <1>1, <1>2 DEF FilterType
<1>3. CASE \E force \in Forces : recent' = Filtered(force)
  <2>1. PICK force \in Forces : recent' = Filtered(force)
    BY <1>3
  <2>2. recent' \in Seq(Forces) /\ Len(recent') = Window /\ (~Arm.filtered => recent' = recent)
    BY <2>1, FilteredFacts
  <2> QED BY <1>1, <2>2 DEF FilterType
<1> QED BY <1>2, <1>3

LEMMA NextLast ==
  ASSUME NEW w \in Int, NEW m \in Int, NEW n \in Int, NEW i \in Int, n <= m + 1, i > w - n
  PROVE  i > w - m - 1
OBVIOUS

\* One cycle of an approach that does not end in it: one sample of the air more.
LEMMA AirGrows ==
  ASSUME TypeOK, Filtering, Running, Here.kind = "contact", NEW force \in Forces,
         recent' = Filtered(force), Arm.filtered
  PROVE  /\ \A i \in 1 .. Window - 1 : i > Window - elapsed - 1 => recent'[i] < Here.threshold
         /\ recent'[Window] = force
<1>1. Window \in Nat \ {0} /\ elapsed \in Nat
  BY TickAssumption DEF TypeOK
<1>2. recent'[Window] = force /\ \A i \in 1 .. Window - 1 : recent'[i] = recent[i + 1]
  BY FilteredFacts DEF Filtering
<1>3. ASSUME NEW i \in 1 .. Window - 1, i > Window - elapsed - 1
      PROVE  recent'[i] < Here.threshold
  <2>1. i + 1 \in 1 .. Window /\ i + 1 > Window - elapsed
    BY <1>1, <1>3
  <2>2. recent[i + 1] < Here.threshold
    BY <2>1 DEF Filtering, InAir
  <2> QED BY <1>2, <2>2
<1> QED BY <1>2, <1>3

\* The zero of an approach.
LEMMA ZeroIsOfAir ==
  ASSUME TypeOK, Filtering, Running, Here.kind = "contact", NEW force \in Forces,
         recent' = Filtered(force), Here.zeroAfter > 0, elapsed + 1 = Cycles(Here.zeroAfter)
  PROVE  Total(recent') \in 0 .. Overload + (Window - 1) * Air
<1>1. Window \in Nat \ {0} /\ elapsed \in Nat /\ Forces \subseteq Nat /\ Air \in Nat
  BY TickAssumption, DataAssumption DEF TypeOK, Air
<1>2. Here.threshold <= Air /\ Cycles(Here.zeroAfter) >= Window /\ Here.threshold \in Int
  BY ThresholdFacts DEF TypeOK
<1>3. recent' \in Seq(Forces) /\ recent' \in Seq(Int) /\ Len(recent') = Window
      /\ (~Arm.filtered => recent' = recent)
  BY FilteredFacts DEF Filtering
<1>4. \A i \in 1 .. Window : recent'[i] \in Nat /\ recent'[i] <= Overload
  BY <1>1, <1>3, OverloadIsMost
<1>5. \A i \in 1 .. Window - 1 : recent'[i] <= Air
  <2>1. CASE Arm.filtered
    <3> SUFFICES ASSUME NEW i \in 1 .. Window - 1 PROVE recent'[i] <= Air
      OBVIOUS
    <3>1. i > Window - elapsed - 1
      BY <1>1, <1>2
    <3>2. recent'[i] < Here.threshold
      BY <2>1, <3>1, AirGrows
    <3>3. recent'[i] \in Int
      BY <1>1, <1>4
    <3> QED BY <1>1, <1>2, <3>2, <3>3
  <2>2. CASE ~Arm.filtered
    <3>1. \A i \in 1 .. Window : recent[i] = 0
      BY <2>2 DEF Filtering, FilterType
    <3> QED BY <1>1, <1>3, <2>2, <3>1
  <2> QED BY <2>1, <2>2
<1>6. Total(recent') \in Int /\ Total(recent') <= (Window - 1) * Air + recent'[Window]
  <2>1. Air \in Int /\ Len(recent') > 0 /\ \A i \in 1 .. Len(recent') - 1 : recent'[i] <= Air
    BY <1>1, <1>3, <1>5
  <2> QED BY <1>3, <2>1, TotalBounds
<1>7. Total(recent') >= Window * 0
  <2>1. 0 \in Int /\ Len(recent') > 0 /\ \A i \in 1 .. Len(recent') : recent'[i] >= 0
    BY <1>1, <1>3, <1>4
  <2> QED BY <1>3, <2>1, TotalBounds
<1>8. recent'[Window] \in Nat /\ recent'[Window] <= Overload /\ (Window - 1) * Air \in Int
  BY <1>1, <1>4
<1> QED BY <1>1, <1>6, <1>7, <1>8, OverloadIsMost

\* An approach.
LEMMA ContactStep ==
  ASSUME TypeOK, Filtering, Running, Contact
  PROVE  Filtering'
<1>1. PICK force \in Forces :
        /\ recent' = Filtered(force) /\ plan' = plan
        /\ offset' = IF Here.zeroAfter > 0 /\ elapsed + 1 = Cycles(Here.zeroAfter)
                       THEN Total(Filtered(force)) ELSE offset
        /\ IF Touches(force)
             THEN Complete /\ Rests
             ELSE /\ Stay /\ Moves(force)
                  /\ elapsed' = IF elapsed + 1 > Cycles(Here.zeroAfter)
                                  THEN Cycles(Here.zeroAfter) + 1 ELSE elapsed + 1
  BY DEF Contact, Sense
<1>2. Here.kind = "contact" /\ Arm' = Arm
  BY <1>1 DEF Contact, Arm
<1>3. FilterType'
  BY <1>1, FilterTypeStep DEF Filtering
<1>4. ZeroBounded'
  BY <1>1, <1>2, ZeroIsOfAir DEF ZeroBounded, Filtering
<1>5. /\ Window \in Nat \ {0} /\ elapsed \in Nat /\ Overload \in Nat /\ force \in Nat
      /\ Here.threshold \in Int /\ Here.threshold <= Overload
  BY <1>2, TickAssumption, OverloadIsMost, ThresholdFacts DEF TypeOK
<1>6. BlindTail'
  <2>1. force = Overload => Touches(force)
    BY <1>5 DEF Touches
  <2>2. blind' = 0
    BY <1>1, <2>1 DEF Moves, Rests
  <2>3. \A i \in 1 .. Window : ~(i > Window - 0)
    BY <1>5
  <2> QED BY <1>2, <1>5, <2>2, <2>3 DEF BlindTail
<1>7. InAir'
  <2>1. CASE Touches(force)
    <3>1. elapsed' = 0 \/ ~Running'
      BY <1>1, <2>1 DEF Complete, Enter, Running
    <3>2. \A i \in 1 .. Window : ~(i > Window - 0)
      BY <1>5
    <3> QED BY <3>1, <3>2 DEF InAir
  <2>2. CASE ~Touches(force)
    <3>1. Here' = Here
      BY <1>1, <2>2 DEF Here, Phases, Stay
    <3>2. elapsed' \in Nat /\ elapsed' <= elapsed + 1
      <4>1. Cycles(Here.zeroAfter) \in Nat
        BY <1>2, HereFacts, CyclesType DEF TypeOK
      <4> QED BY <1>1, <1>5, <2>2, <4>1
    <3>3. force < Here.threshold
      BY <1>5, <2>2 DEF Touches
    <3>4. ASSUME NEW i \in 1 .. Window, Arm.filtered, i > Window - elapsed'
          PROVE  recent'[i] < Here.threshold
      <4>1. CASE i = Window
        BY <1>1, <1>2, <3>3, <3>4, <4>1, AirGrows
      <4>2. CASE i # Window
        <5>1. i > Window - elapsed - 1
          <6>1. i \in Int /\ Window \in Int /\ elapsed \in Int /\ elapsed' \in Int
            BY <1>5, <3>2
          <6>2. i > Window - elapsed'
            BY <3>4
          <6>3. elapsed' <= elapsed + 1
            BY <3>2
          <6> QED BY <6>1, <6>2, <6>3, NextLast
        <5>2. i \in 1 .. Window - 1
          BY <1>5, <4>2
        <5> QED BY <1>1, <1>2, <3>4, <5>1, <5>2, AirGrows
      <4> QED BY <4>1, <4>2
    <3> QED BY <1>2, <3>1, <3>4 DEF InAir
  <2> QED BY <2>1, <2>2
<1> QED BY <1>3, <1>4, <1>6, <1>7 DEF Filtering

LEMMA FilteringStep == TypeOK /\ Filtering /\ [Next]_vars => Filtering'
<1> SUFFICES ASSUME TypeOK, Filtering, Running, executeRT PROVE Filtering'
  <2>1. UNCHANGED vars => Filtering' = Filtering
    BY DEF vars, Filtering, FilterType, InAir, ZeroBounded, BlindTail, Running, Here, Phases, Arm
  <2>2. executeRT => Running
    BY DEF executeRT, Approach, AtOnce, Contact, Hold, Exhausted, Push,
           NoSuchArm, Collect, Retreat, NoPose, Brake, CutShort
  <2> QED BY <2>1, <2>2 DEF Next, Ended
<1>0. plan' = plan /\ Arm' = Arm
  BY CounterShapes DEF Arm
<1>1. Window \in Nat \ {0} /\ elapsed \in Nat /\ blind \in Nat
  BY TickAssumption DEF TypeOK
<1>2. CASE Contact
  BY <1>2, ContactStep
<1>3. CASE UNCHANGED <<recent, offset, blind>> /\ ~Running'
  BY <1>0, <1>3, FilterTypeStep DEF Filtering, FilterType, InAir, ZeroBounded, BlindTail
<1>4. ASSUME Here.kind # "contact", offset' = offset,
             recent' = recent \/ \E force \in Forces : recent' = Filtered(force)
      PROVE  FilterType' /\ ZeroBounded' /\ InAir'
  <2>1. FilterType' /\ ZeroBounded'
    BY <1>0, <1>4, FilterTypeStep DEF Filtering, ZeroBounded
  <2>2. ~Running' \/ elapsed' = 0 \/ phase' = phase
    BY PhaseShapes, CollectShapes DEF Complete, Enter, Ends, Goes, Stay, Running
  <2>3. \A i \in 1 .. Window : ~(i > Window - 0)
    BY <1>1
  <2>4. phase' = phase => Here' = Here
    BY <1>0 DEF Here, Phases
  <2> QED BY <1>4, <2>1, <2>2, <2>3, <2>4 DEF InAir
<1>5. ASSUME Rests PROVE BlindTail'
  <2>1. \A i \in 1 .. Window : ~(i > Window - 0)
    BY <1>1
  <2> QED BY <1>1, <1>5, <2>1 DEF Rests, BlindTail
<1>6. ASSUME NEW force \in Forces, recent' = Filtered(force), Moves(force), ~TooHard(force),
             Here.kind \in {"hold", "search", "until", "sweep", "pull", "retreat"}
      PROVE  BlindTail'
  <2>1. CASE force # Overload
    BY <1>5, <1>6, <2>1 DEF Moves, Rests
  <2>2. CASE force = Overload
    <3>1. Arm.filtered /\ blind + 1 < Window /\ blind' = blind + 1
      BY <1>6, <2>2, NotBlind DEF Moves
    <3>2. recent'[Window] = Overload /\ \A i \in 1 .. Window - 1 : recent'[i] = recent[i + 1]
      BY <1>6, <2>2, <3>1, FilteredFacts DEF Filtering
    <3>3. ASSUME NEW i \in 1 .. Window, i > Window - (blind + 1)
          PROVE  recent'[i] = Overload
      <4>1. CASE i = Window
        BY <3>2, <4>1
      <4>2. CASE i # Window
        <5>1. i \in 1 .. Window - 1 /\ i + 1 \in 1 .. Window /\ i + 1 > Window - blind
          BY <1>1, <3>3, <4>2
        <5> QED BY <3>1, <3>2, <5>1 DEF Filtering, BlindTail
      <4> QED BY <4>1, <4>2
    <3> QED BY <1>0, <3>1, <3>3 DEF BlindTail
  <2> QED BY <2>1, <2>2
<1> QED BY <1>2, <1>3, <1>4, <1>5, <1>6, SenseShapes DEF Filtering

LEMMA FilteringInit == Init => Filtering
<1> SUFFICES ASSUME Init PROVE Filtering
  OBVIOUS
<1>1. Window \in Nat \ {0} /\ 0 \in Forces /\ Overload \in Nat
  BY TickAssumption, DataAssumption, OverloadIsMost
<1>2. recent = [i \in 1 .. Window |-> 0] /\ offset = 0 /\ blind = 0 /\ elapsed = 0
  BY DEF Init
<1>3. recent \in Seq(Forces) /\ Len(recent) = Window
  BY <1>1, <1>2
<1>4. \A i \in 1 .. Window : ~(i > Window - 0) /\ recent[i] = 0
  BY <1>1, <1>2
<1>5. (Window - 1) * Air \in Nat
  BY <1>1 DEF Air
<1> QED BY <1>1, <1>2, <1>3, <1>4, <1>5 DEF Filtering, FilterType, InAir, ZeroBounded, BlindTail

\* The invariant of the next two: the filter and the zero hold forces of the air, but
\* for the newest samples, in every phase of every plan.
THEOREM FilterInvariance == Spec => []Filtering
BY FilteringInit, FilteringStep, TypeCorrect, PTL DEF Spec

\* No phase, with its limit, its zero and its filter, lets the arm be moved against
\* an overloaded sensor for as many cycles as the filter is long, whatever the order
\* of the phases is.
THEOREM NeverBlind == Spec => []NoBlindPush
<1>1. Filtering => NoBlindPush
  BY DEF Filtering, BlindTail, NoBlindPush
<1> QED BY <1>1, FilterInvariance, PTL

\* A zero holds the air, but for its newest sample.
THEOREM ZeroOfAir == Spec => []ZeroedInTheAir
<1>1. Filtering => ZeroedInTheAir
  BY OverloadIsMost, TickAssumption DEF Filtering, ZeroBounded, ZeroedInTheAir, Air
<1> QED BY <1>1, FilterInvariance, PTL
=============================================================================
