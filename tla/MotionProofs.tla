---------------------------- MODULE MotionProofs ---------------------------
(***************************************************************************)
(* What moves by numbers alone.                                             *)
(*                                                                          *)
(* Trajectories: the command never leaps and a plan ends on its target.     *)
(* The invariant is where the interpolation put the command last, so each   *)
(* plan needs only what one cycle adds to its curve: for a segment the way  *)
(* divided by its steps, for smoothstep a square less than half again the   *)
(* mean, for ModelForward the difference of two squares.                    *)
(*                                                                          *)
(* ZeroG: the fence holds for zones of every size, every speed limit and    *)
(* every force.                                                             *)
(*                                                                          *)
(* GripperBridge: a servo that keeps up is moved the way the joystick is    *)
(* pushed.  The invariant says how far it may be behind, and that it has    *)
(* caught up by the time it is read.                                        *)
(***************************************************************************)
EXTENDS Trajectories, ZeroG, GripperBridge, NatLemmas, TLAPS

-----------------------------------------------------------------------------
(* Numbers *)

LEMMA AbsFacts ==
  ASSUME NEW n \in Int
  PROVE  Abs(n) \in Nat /\ n <= Abs(n) /\ -n <= Abs(n) /\ (Abs(n) = n \/ Abs(n) = -n)
BY DEF Abs

LEMMA CeilFacts ==
  ASSUME NEW n \in Nat, NEW d \in Nat \ {0}
  PROVE  CeilDiv(n, d) \in Nat /\ n <= d * CeilDiv(n, d)
<1> DEFINE q == (n + d - 1) \div d
<1>0. n + d - 1 \in Nat
  OBVIOUS
<1>1. q \in Int /\ d * q <= n + d - 1 /\ n + d - 1 < d * q + d
  BY <1>0, QuotientFacts
<1> HIDE DEF q
<1>2. d * q \in Int
  BY <1>1
<1>3. n <= d * q
  BY <1>1, <1>2
<1>4. ~(q < 0)
  <2> SUFFICES ASSUME q < 0 PROVE FALSE
    OBVIOUS
  <2>1. d * (q + 1) <= d * 0 /\ d * (q + 1) = d * q + d
    BY <1>1, ProductGrows
  <2> QED BY <1>0, <1>1, <1>2, <2>1
<1> QED BY <1>1, <1>3, <1>4 DEF CeilDiv, q

\* Quotients rounded down are no farther apart than the numbers allow.
LEMMA QuotientsNear ==
  ASSUME NEW a \in Int, NEW b \in Int, NEW d \in Nat \ {0}, NEW m \in Int,
         a - b <= d * m, b - a <= d * m
  PROVE  Abs((a \div d) - (b \div d)) <= m
<1> DEFINE q == a \div d
           r == b \div d
<1>1. q \in Int /\ d * q <= a /\ a < d * q + d
  BY QuotientFacts
<1>2. r \in Int /\ d * r <= b /\ b < d * r + d
  BY QuotientFacts
<1> HIDE DEF q, r
<1>3. ~(q - r > m)
  <2> SUFFICES ASSUME q - r > m PROVE FALSE
    OBVIOUS
  <2>1. d * (m + 1) <= d * (q - r) /\ d * (m + 1) = d * m + d /\ d * (q - r) = d * q - d * r
    BY <1>1, <1>2, ProductGrows
  <2> QED BY <1>1, <1>2, <2>1
<1>4. ~(r - q > m)
  <2> SUFFICES ASSUME r - q > m PROVE FALSE
    OBVIOUS
  <2>1. d * (m + 1) <= d * (r - q) /\ d * (m + 1) = d * m + d /\ d * (r - q) = d * r - d * q
    BY <1>1, <1>2, ProductGrows
  <2> QED BY <1>1, <1>2, <2>1
<1>5. Abs(q - r) <= m
  BY <1>1, <1>2, <1>3, <1>4 DEF Abs
<1> QED BY <1>5 DEF q, r

LEMMA ExactQuotient ==
  ASSUME NEW n \in Int, NEW d \in Nat \ {0}
  PROVE  (n * d) \div d = n
<1>1. n * d \in Int /\ d * n = n * d
  OBVIOUS
<1> QED BY <1>1, QuotientIs

-----------------------------------------------------------------------------
(* A segment of the policy plan *)

LEMMA BlendFacts ==
  ASSUME NEW way \in Int \X Int
  PROVE  /\ blend_steps_seven(way) \in Nat \ {0}
         /\ \A axis \in 1 .. 2 : /\ way[axis] \in Int /\ StepLimit(axis) \in Nat \ {0}
                                 /\ CeilDiv(Abs(way[axis]), StepLimit(axis)) <= blend_steps_seven(way)
<1>1. way[1] \in Int /\ way[2] \in Int /\ ArmStep \in Nat \ {0} /\ GripStep \in Nat \ {0}
  BY TrajectoryAssumption
<1> DEFINE a == CeilDiv(Abs(way[1]), ArmStep)
           g == CeilDiv(Abs(way[2]), GripStep)
<1>2. Abs(way[1]) \in Nat /\ Abs(way[2]) \in Nat
  BY <1>1, AbsFacts
<1>3. a \in Nat /\ g \in Nat
  BY <1>1, <1>2, CeilFacts
<1>4. blend_steps_seven(way) = Largest(1, Largest(a, g))
  BY DEF blend_steps_seven
<1> HIDE DEF a, g
<1>5. /\ blend_steps_seven(way) \in Nat \ {0} /\ a <= blend_steps_seven(way)
      /\ g <= blend_steps_seven(way)
  BY <1>3, <1>4 DEF Largest
<1> SUFFICES ASSUME NEW axis \in 1 .. 2
             PROVE  /\ way[axis] \in Int /\ StepLimit(axis) \in Nat \ {0}
                    /\ CeilDiv(Abs(way[axis]), StepLimit(axis)) <= blend_steps_seven(way)
  BY <1>5
<1>6. CASE axis = 1
  BY <1>1, <1>5, <1>6 DEF StepLimit, a
<1>7. CASE axis = 2
  BY <1>1, <1>5, <1>7 DEF StepLimit, g
<1> QED BY <1>6, <1>7

\* In n cycles, as many as the way needs or more, no cycle moves an axis by more than
\* its limit, but that there is one step less than cycles.
LEMMA SegmentSteps ==
  ASSUME NEW w \in Int, NEW L \in Nat \ {0}, NEW n \in Nat, n >= 2,
         CeilDiv(Abs(w), L) <= n, NEW k \in Nat \ {0}
  PROVE  Abs(Alpha(w, k, n) - Alpha(w, k - 1, n)) <= CeilDiv(L * n, n - 1)
<1> DEFINE d == n - 1
           m == CeilDiv(L * n, d)
           a == w * k
           b == w * (k - 1)
<1>0. d \in Nat \ {0} /\ L * n \in Nat /\ a \in Int /\ b \in Int /\ a - b = w
  OBVIOUS
<1>1. m \in Nat /\ L * n <= d * m
  <2> HIDE DEF d
  <2> QED BY <1>0, CeilFacts
<1>2. Abs(w) <= L * n
  <2>0. Abs(w) \in Nat
    BY AbsFacts
  <2>1. CeilDiv(Abs(w), L) \in Nat /\ Abs(w) <= L * CeilDiv(Abs(w), L)
    BY <2>0, CeilFacts
  <2>2. L * CeilDiv(Abs(w), L) <= L * n
    BY <2>1, ProductGrows
  <2>3. L * CeilDiv(Abs(w), L) \in Int /\ L * n \in Int
    BY <2>1
  <2> QED BY <2>0, <2>1, <2>2, <2>3
<1>3. Alpha(w, k, n) = a \div d /\ Alpha(w, k - 1, n) = b \div d
  BY DEF Alpha
<1> HIDE DEF m, a, b, d
<1>4. a - b <= d * m /\ b - a <= d * m
  <2>1. d * m \in Int /\ Abs(w) \in Nat /\ w <= Abs(w) /\ -w <= Abs(w)
    BY <1>0, <1>1, AbsFacts
  <2> QED BY <1>0, <1>1, <1>2, <2>1
<1>5. m \in Int
  BY <1>1
<1>6. Abs((a \div d) - (b \div d)) <= m
  BY <1>0, <1>4, <1>5, QuotientsNear, Zenon
<1> QED BY <1>3, <1>6 DEF m, d

\* The last cycle is at the end of the way; a first of several at its start.
LEMMA SegmentEnds ==
  ASSUME NEW w \in Int, NEW n \in Nat \ {0}
  PROVE  Alpha(w, n - 1, n) = w /\ (n >= 2 => Alpha(w, 0, n) = 0)
<1>1. CASE n = 1
  BY <1>1 DEF Alpha
<1>2. CASE n >= 2
  <2> DEFINE d == n - 1
  <2>1. d \in Nat \ {0}
    BY <1>2
  <2>2. Alpha(w, n - 1, n) = (w * d) \div d /\ Alpha(w, 0, n) = (0 * d) \div d
    <3>1. w * 0 = 0 * d
      BY <2>1
    <3> QED BY <1>2, <3>1 DEF Alpha
  <2> HIDE DEF d
  <2>3. (w * d) \div d = w /\ (0 * d) \div d = 0
    BY <2>1, ExactQuotient
  <2> QED BY <2>2, <2>3
<1> QED BY <1>1, <1>2

-----------------------------------------------------------------------------
(* Smoothstep *)

\* The numerator of Smooth, and what a cycle adds to it: at most half again the
\* mean, for the difference of the two is a square and a bit.
Blend(k) == k * k * (3 * CyclesPerSeg - 2 * k)

LEMMA BlendGrows ==
  ASSUME NEW j \in Nat, j < CyclesPerSeg
  PROVE  /\ Blend(j) \in Int /\ Blend(j + 1) \in Int
         /\ Blend(j + 1) - Blend(j) \in Nat
         /\ 2 * (Blend(j + 1) - Blend(j)) <= 3 * (CyclesPerSeg * CyclesPerSeg)
<1> DEFINE C == CyclesPerSeg
           D == Blend(j + 1) - Blend(j)
           h == C - 2 * j - 1
           r == C - 1 - j
<1>1. C \in Nat \ {0} /\ h \in Int /\ r \in Nat
  BY TrajectoryAssumption
<1>2. Blend(j) \in Int /\ Blend(j + 1) \in Int
  BY <1>1 DEF Blend
<1>3. D = 6 * (j * r) + 3 * C - 2
  BY <1>1 DEF Blend
<1>4. 3 * (C * C) - 2 * D = 3 * (h * h) + 1
  BY <1>1 DEF Blend
<1>5. j * r \in Nat /\ h * h \in Nat
  <2>1. h >= 0 => h * h >= 0
    BY <1>1
  <2>2. h < 0 => h * h >= 0
    BY <1>1
  <2> QED BY <1>1, <2>1, <2>2
<1>6. D \in Nat /\ C * C \in Int
  BY <1>1, <1>3, <1>5
<1> HIDE DEF D, h, C, r
<1> QED BY <1>2, <1>4, <1>5, <1>6 DEF D, C

LEMMA SmoothSteps ==
  ASSUME NEW w \in Int, NEW j \in Nat, j < CyclesPerSeg
  PROVE  /\ Smooth(w, j) \in Int /\ Smooth(w, j + 1) \in Int
         /\ Abs(Smooth(w, j + 1) - Smooth(w, j)) <= CeilDiv(3 * Abs(w), 2 * CyclesPerSeg)
<1> DEFINE C == CyclesPerSeg
           d == C * C * C
           D == Blend(j + 1) - Blend(j)
           m == CeilDiv(3 * Abs(w), 2 * C)
           a == w * Blend(j + 1)
           b == w * Blend(j)
<1>1. C \in Nat \ {0} /\ Abs(w) \in Nat
  BY TrajectoryAssumption, AbsFacts
<1>2. d \in Nat \ {0}
  BY <1>1
<1>3. Blend(j) \in Int /\ Blend(j + 1) \in Int /\ D \in Nat /\ 2 * D <= 3 * (C * C)
  BY BlendGrows
<1>4. a \in Int /\ b \in Int /\ a - b = w * D
  BY <1>3
<1>5. Smooth(w, j) = b \div d /\ Smooth(w, j + 1) = a \div d
  <2>1. w * j * j * (3 * C - 2 * j) = b
    BY <1>1 DEF Blend
  <2>2. w * (j + 1) * (j + 1) * (3 * C - 2 * (j + 1)) = a
    BY <1>1 DEF Blend
  <2> QED BY <2>1, <2>2 DEF Smooth
<1>6. m \in Nat /\ 3 * Abs(w) <= (2 * C) * m
  BY <1>1, CeilFacts
<1>7. 2 * (Abs(w) * D) <= 2 * (d * m)
  <2> DEFINE W == Abs(w)
             Q == C * C
  <2>1. W \in Nat /\ Q \in Nat /\ W * D \in Int
    BY <1>1, <1>3
  <2>2. W * (2 * D) <= W * (3 * Q)
    BY <1>3, <2>1, ProductGrows
  <2>3. Q * (3 * W) <= Q * ((2 * C) * m)
    BY <1>1, <1>6, <2>1, ProductGrows
  <2>4. Q * ((2 * C) * m) = 2 * (d * m)
    BY <1>1, <1>6
  <2> HIDE DEF W, Q, D, m
  <2>5. W * (2 * D) = 2 * (W * D) /\ W * (3 * Q) = Q * (3 * W)
    BY <1>3, <2>1
  <2>6. W * (2 * D) \in Int /\ W * (3 * Q) \in Int /\ Q * ((2 * C) * m) \in Int
    BY <1>1, <1>3, <1>6, <2>1
  <2> QED BY <2>2, <2>3, <2>4, <2>5, <2>6 DEF W
<1> HIDE DEF d, D, m, a, b, C
<1>8. /\ Abs(w) * D \in Int /\ d * m \in Int /\ w * D <= Abs(w) * D
      /\ -(w * D) <= Abs(w) * D /\ w * D \in Int
  <2>1. w * D \in Int
    BY <1>3
  <2>2. Abs(w) = w \/ Abs(w) = -w
    BY AbsFacts
  <2>3. Abs(w) * D = w * D \/ Abs(w) * D = -(w * D)
    BY <1>3, <2>2
  <2>4. Abs(w) * D \in Nat /\ d * m \in Int
    BY <1>1, <1>2, <1>3, <1>6
  <2> QED BY <2>1, <2>3, <2>4
<1>9. a - b <= d * m /\ b - a <= d * m
  BY <1>4, <1>7, <1>8
<1>10. Abs((a \div d) - (b \div d)) <= m
  <2>1. m \in Int
    BY <1>6
  <2> QED BY <1>2, <1>4, <1>9, <2>1, QuotientsNear, Zenon
<1>11. a \div d \in Int /\ b \div d \in Int
  BY <1>2, <1>4, QuotientFacts
<1> QED BY <1>5, <1>10, <1>11 DEF m, C

LEMMA SmoothEnds ==
  ASSUME NEW w \in Int
  PROVE  Smooth(w, 0) = 0 /\ Smooth(w, CyclesPerSeg) = w
<1> DEFINE C == CyclesPerSeg
           d == C * C * C
<1>1. C \in Nat \ {0} /\ d \in Nat \ {0}
  BY TrajectoryAssumption
<1>2. w * C * C * (3 * C - 2 * C) = w * d
  BY <1>1
<1>3. w * 0 * 0 * (3 * C - 2 * 0) = 0 * d
  BY <1>1
<1>4. (w * d) \div d = w /\ (0 * d) \div d = 0
  <2> HIDE DEF d
  <2> QED BY <1>1, ExactQuotient
<1> QED BY <1>2, <1>3, <1>4 DEF Smooth

-----------------------------------------------------------------------------
(* From point to point *)

Point == [1 .. 6 -> Int]
Points(p) == Len(p) \in Nat /\ Len(p) >= 2 /\ \A i \in 1 .. Len(p) : p[i] \in Point

\* Where a cycle is: its segment, and its place in it.
LEMMA PlaceIs ==
  ASSUME NEW s \in Nat \ {0}, NEW k \in 1 .. CyclesPerSeg
  PROVE  SegmentOf(CyclesPerSeg * (s - 1) + k) = s /\ InSegment(CyclesPerSeg * (s - 1) + k) = k
<1> DEFINE C == CyclesPerSeg
           g == CyclesPerSeg * (s - 1) + k - 1
<1>1. C \in Nat \ {0} /\ s - 1 \in Int /\ k - 1 \in Nat /\ k - 1 < C /\ C * (s - 1) \in Int
  BY TrajectoryAssumption
<1>2. g \in Int /\ C * (s - 1) <= g /\ g < C * (s - 1) + C /\ g - C * (s - 1) = k - 1
  BY <1>1
<1> HIDE DEF g, C
<1>3. g \div C = s - 1
  BY <1>1, <1>2, QuotientIs
<1>4. g % C = g - C * (g \div C)
  BY <1>1, <1>2
<1>5. g % C = k - 1
  BY <1>2, <1>3, <1>4
<1>6. (CyclesPerSeg * (s - 1) + k) - 1 = g
  BY <1>1 DEF g, C
<1> QED BY <1>1, <1>3, <1>5, <1>6 DEF SegmentOf, InSegment, C

LEMMA PlaceExists ==
  ASSUME NEW c \in Nat \ {0}
  PROVE  \E s \in Nat \ {0}, k \in 1 .. CyclesPerSeg : c = CyclesPerSeg * (s - 1) + k
<1> DEFINE C == CyclesPerSeg
           q == (c - 1) \div C
           k == (c - 1) - C * q + 1
<1>1. C \in Nat \ {0} /\ c - 1 \in Nat
  BY TrajectoryAssumption
<1>2. q \in Int /\ C * q <= c - 1 /\ c - 1 < C * q + C
  BY <1>1, QuotientFacts
<1> HIDE DEF q, C
<1>3. C * q \in Int
  BY <1>1, <1>2
<1>4. ~(q < 0)
  <2> SUFFICES ASSUME q < 0 PROVE FALSE
    OBVIOUS
  <2>1. C * (q + 1) <= C * 0 /\ C * (q + 1) = C * q + C
    BY <1>1, <1>2, ProductGrows
  <2> QED BY <1>1, <1>2, <1>3, <2>1
<1>5. k \in 1 .. C /\ c = C * q + k
  BY <1>1, <1>2, <1>3
<1>6. q + 1 \in Nat \ {0} /\ (q + 1) - 1 = q
  BY <1>2, <1>4
<1> QED BY <1>5, <1>6 DEF C

\* The step of a cycle, from where the cycle before left an axis or, in the first
\* cycle, from the first point: it starts where the axis is, also at a point.
LEMMA PointsStep ==
  ASSUME NEW p, Points(p), NEW c \in Nat \ {0}, c <= TotalCycles(p), NEW from \in Point,
         from = (IF c = 1 THEN p[1] ELSE AlongPoints(p, c - 1)), NEW axis \in 1 .. 6
  PROVE  /\ SegmentOf(c) \in 1 .. Len(p) /\ SegmentOf(c) + 1 \in 1 .. Len(p)
         /\ AlongPoints(p, c)[axis] \in Int
         /\ Abs(AlongPoints(p, c)[axis] - from[axis])
              <= CeilDiv(3 * Abs(p[SegmentOf(c) + 1][axis] - p[SegmentOf(c)][axis]), 2 * CyclesPerSeg)
<1> DEFINE C == CyclesPerSeg
           L == Len(p)
<1>1. PICK s \in Nat \ {0}, k \in 1 .. C : c = C * (s - 1) + k
  BY PlaceExists
<1>2. SegmentOf(c) = s /\ InSegment(c) = k
  BY <1>1, PlaceIs
<1>3. C \in Nat \ {0} /\ L \in Nat /\ k \in Nat /\ k >= 1 /\ k <= C
  BY TrajectoryAssumption DEF Points
<1>4. s + 1 <= L
  <2> SUFFICES ASSUME L <= s PROVE FALSE
    BY <1>3
  <2>1. C * (L - 1) <= C * (s - 1) /\ C * (s - 1) \in Int /\ C * (L - 1) \in Int
    BY <1>3, ProductGrows
  <2>2. TotalCycles(p) = C * (L - 1)
    BY <1>3 DEF TotalCycles
  <2> QED BY <1>1, <1>3, <2>1, <2>2
<1>5. s \in 1 .. L /\ s + 1 \in 1 .. L /\ p[s] \in Point /\ p[s + 1] \in Point
  BY <1>3, <1>4 DEF Points
<1> DEFINE a == p[s][axis]
           w == p[s + 1][axis] - p[s][axis]
<1>6. a \in Int /\ w \in Int
  <2>1. p[s][axis] \in Int
    BY <1>5 DEF Point
  <2>2. p[s + 1][axis] \in Int
    BY <1>5 DEF Point
  <2> QED BY <2>1, <2>2
<1>7. AlongPoints(p, c)[axis] = a + Smooth(w, k)
  BY <1>2 DEF AlongPoints
<1>8. from[axis] = a + Smooth(w, k - 1)
  <2>1. CASE k = 1 /\ s = 1
    <3>1. c = 1
      BY <1>1, <1>3, <2>1
    <3> QED BY <1>6, <2>1, <3>1, SmoothEnds
  <2>2. CASE k = 1 /\ s # 1
    <3> DEFINE r == s - 1
    <3>1. r \in Nat \ {0} /\ C * (s - 1) = C * (r - 1) + C /\ r + 1 = s /\ C \in 1 .. C
      BY <1>3, <2>2
    <3>2. c - 1 = C * (r - 1) + C /\ c # 1
      <4>1. C * (r - 1) >= 0
        BY <1>3, <3>1
      <4>2. C * (r - 1) \in Int
        BY <1>3
      <4> QED BY <1>1, <1>3, <2>2, <3>1, <4>1, <4>2
    <3>3. SegmentOf(c - 1) = r /\ InSegment(c - 1) = C
      BY <3>1, <3>2, PlaceIs
    <3> HIDE DEF r
    <3>4. p[r] \in Point
      BY <1>5, <3>1 DEF Points
    <3>5. from[axis] = p[r][axis] + Smooth(p[r + 1][axis] - p[r][axis], C)
      BY <3>2, <3>3 DEF AlongPoints
    <3>6. p[r][axis] \in Int /\ p[r + 1][axis] - p[r][axis] \in Int
      <4>1. p[r][axis] \in Int
        BY <3>4 DEF Point
      <4>2. p[r + 1] \in Point
        BY <1>5, <3>1
      <4>3. p[r + 1][axis] \in Int
        BY <4>2 DEF Point
      <4> QED BY <4>1, <4>3
    <3>7. from[axis] = p[r][axis] + (p[r + 1][axis] - p[r][axis])
      BY <3>5, <3>6, SmoothEnds
    <3>8. Smooth(w, k - 1) = 0
      BY <1>6, <2>2, SmoothEnds
    <3>9. p[r + 1][axis] = a
      BY <3>1
    <3> HIDE DEF a
    <3> QED BY <1>6, <3>6, <3>7, <3>8, <3>9
  <2>3. CASE k # 1
    <3>1. k - 1 \in 1 .. C
      BY <1>3, <2>3
    <3>2. c - 1 = C * (s - 1) + (k - 1) /\ c # 1
      <4>1. C * (s - 1) >= 0 /\ C * (s - 1) \in Int
        BY <1>3
      <4> QED BY <1>1, <1>3, <2>3, <4>1
    <3>3. SegmentOf(c - 1) = s /\ InSegment(c - 1) = k - 1
      BY <3>1, <3>2, PlaceIs
    <3> QED BY <3>2, <3>3 DEF AlongPoints
  <2> QED BY <2>1, <2>2, <2>3
<1> DEFINE j == k - 1
<1>9. j \in Nat /\ j < C /\ j + 1 = k
  BY <1>3
<1> HIDE DEF j, a, w
<1>10. /\ Smooth(w, j) \in Int /\ Smooth(w, k) \in Int
       /\ Abs(Smooth(w, k) - Smooth(w, j)) <= CeilDiv(3 * Abs(w), 2 * C)
  BY <1>6, <1>9, SmoothSteps
<1>11. from[axis] = a + Smooth(w, j)
  BY <1>8 DEF j
<1>12. /\ AlongPoints(p, c)[axis] - from[axis] = Smooth(w, k) - Smooth(w, j)
       /\ AlongPoints(p, c)[axis] \in Int
  BY <1>6, <1>7, <1>10, <1>11
<1> QED BY <1>2, <1>5, <1>10, <1>12 DEF w

\* The last cycle is at the last point.
LEMMA PointsEnd ==
  ASSUME NEW p, Points(p)
  PROVE  AlongPoints(p, TotalCycles(p)) = p[Len(p)]
<1> DEFINE C == CyclesPerSeg
           L == Len(p)
           s == L - 1
<1>1. /\ C \in Nat \ {0} /\ L \in Nat /\ s \in Nat \ {0} /\ s + 1 = L /\ C \in 1 .. C
      /\ s \in 1 .. L /\ L \in 1 .. L
  BY TrajectoryAssumption DEF Points
<1>2. TotalCycles(p) = C * (s - 1) + C
  BY <1>1 DEF TotalCycles
<1>3. SegmentOf(TotalCycles(p)) = s /\ InSegment(TotalCycles(p)) = C
  BY <1>1, <1>2, PlaceIs
<1> HIDE DEF s
<1>4. p[s] \in Point /\ p[s + 1] \in Point
  BY <1>1 DEF Points
<1>5. \A axis \in 1 .. 6 : p[s][axis] + Smooth(p[s + 1][axis] - p[s][axis], C) = p[s + 1][axis]
  <2> SUFFICES ASSUME NEW axis \in 1 .. 6
               PROVE  p[s][axis] + Smooth(p[s + 1][axis] - p[s][axis], C) = p[s + 1][axis]
    OBVIOUS
  <2>1. p[s][axis] \in Int /\ p[s + 1][axis] \in Int
    BY <1>4 DEF Point
  <2>2. Smooth(p[s + 1][axis] - p[s][axis], C) = p[s + 1][axis] - p[s][axis]
    BY <2>1, SmoothEnds
  <2> QED BY <2>1, <2>2
<1>6. AlongPoints(p, TotalCycles(p))
        = [axis \in 1 .. 6 |-> p[s][axis] + Smooth(p[s + 1][axis] - p[s][axis], C)]
  BY <1>3 DEF AlongPoints
<1>7. AlongPoints(p, TotalCycles(p)) = [axis \in 1 .. 6 |-> p[s + 1][axis]]
  BY <1>5, <1>6
<1>8. [axis \in 1 .. 6 |-> p[s + 1][axis]] = p[s + 1]
  BY <1>4 DEF Point
<1> QED BY <1>1, <1>7, <1>8

LEMMA BuiltIn ==
  /\ \A i \in DOMAIN JointTraj : Points(JointTraj[i])
  /\ \A i \in DOMAIN PoseTraj : PoseTraj[i] \in Point
<1>1. ASSUME NEW i \in DOMAIN JointTraj PROVE Points(JointTraj[i])
  <2>1. DOMAIN JointTraj = 1 .. 3
    BY DEF JointTraj
  <2>2. CASE i = 1
    <3>1. Len(JointTraj[1]) = 4
      BY DEF JointTraj
    <3>2. \A n \in 1 .. 4 : JointTraj[1][n] \in Point
      BY DEF JointTraj, Point
    <3> QED BY <2>2, <3>1, <3>2 DEF Points
  <2>3. CASE i = 2
    <3>1. Len(JointTraj[2]) = 4
      BY DEF JointTraj
    <3>2. \A n \in 1 .. 4 : JointTraj[2][n] \in Point
      BY DEF JointTraj, Point
    <3> QED BY <2>3, <3>1, <3>2 DEF Points
  <2>4. CASE i = 3
    <3>1. Len(JointTraj[3]) = 5
      BY DEF JointTraj
    <3>2. \A n \in 1 .. 5 : JointTraj[3][n] \in Point
      BY DEF JointTraj, Point
    <3> QED BY <2>4, <3>1, <3>2 DEF Points
  <2> QED BY <2>1, <2>2, <2>3, <2>4
<1>2. ASSUME NEW i \in DOMAIN PoseTraj PROVE PoseTraj[i] \in Point
  <2>1. DOMAIN PoseTraj = 1 .. 25
    BY DEF PoseTraj
  <2>2. CASE i \in 1 .. 9
    BY <2>2 DEF PoseTraj, Point
  <2>3. CASE i \in 10 .. 17
    BY <2>3 DEF PoseTraj, Point
  <2>4. CASE i \in 18 .. 25
    BY <2>4 DEF PoseTraj, Point
  <2>5. i \in 1 .. 9 \/ i \in 10 .. 17 \/ i \in 18 .. 25
    BY <2>1
  <2> QED BY <2>2, <2>3, <2>4, <2>5
<1> QED BY <1>1, <1>2

-----------------------------------------------------------------------------
(* The curve of ModelForward *)

\* The two parts that bend: a square changes by no more than its root allows.
LEMMA SquaresNear ==
  ASSUME NEW u \in Int, 2 <= u, u <= Accelerated
  PROVE  /\ (u * u) \div 18 \in Int /\ ((u - 3) * (u - 3)) \div 18 \in Int
         /\ Abs((u * u) \div 18 - ((u - 3) * (u - 3)) \div 18) <= FastestTStep
<1> DEFINE a == u * u
           b == (u - 3) * (u - 3)
           d == 18
           m == 3000
<1>1. a \in Int /\ b \in Int /\ a - b = 6 * u - 9 /\ u <= 9000
  BY DEF Accelerated
<1> HIDE DEF a, b
<1>2. a - b <= d * m /\ b - a <= d * m /\ d \in Nat \ {0} /\ m \in Int
  BY <1>1
<1> HIDE DEF d, m
<1>5. a \in Int /\ b \in Int
  BY <1>1
<1>3. Abs((a \div d) - (b \div d)) <= m
  BY <1>2, <1>5, QuotientsNear, Zenon
<1>4. a \div d \in Int /\ b \div d \in Int
  BY <1>1, <1>2, QuotientFacts
<1> QED BY <1>3, <1>4 DEF a, b, d, m, FastestTStep

\* The curve is of one piece: where its parts meet no step is larger than in them.
LEMMA CurveNear ==
  ASSUME NEW c \in Nat \ {0}
  PROVE  /\ getTCurve(c) \in Int /\ getTCurve(c - 1) \in Int
         /\ Abs(getTCurve(c) - getTCurve(c - 1)) <= FastestTStep
<1> DEFINE t == 3 * (c + 1)
           u == Whole - (t - 3)
<1>1. /\ t \in Int /\ u \in Int /\ 3 * ((c - 1) + 1) = t - 3 /\ Whole - t = u - 3
      /\ u = 29003 - t /\ t >= 6
  BY DEF Whole
<1>2. \/ c <= 2999 \/ c = 3000 \/ (3001 <= c /\ c <= 6666)
      \/ c = 6667 \/ (6668 <= c /\ c <= 9666) \/ 9667 <= c
  OBVIOUS
<1>3. CASE c <= 2999
  <2>1. t <= 9000
    BY <1>3
  <2>2. getTCurve(c) = (t * t) \div 18 /\ getTCurve(c - 1) = ((t - 3) * (t - 3)) \div 18
    BY <1>1, <2>1 DEF getTCurve, Accelerated, Whole
  <2>3. t \in Int /\ 2 <= t /\ t <= Accelerated
    BY <2>1 DEF Accelerated
  <2> HIDE DEF t, u
  <2>4. /\ (t * t) \div 18 \in Int /\ ((t - 3) * (t - 3)) \div 18 \in Int
        /\ Abs((t * t) \div 18 - ((t - 3) * (t - 3)) \div 18) <= FastestTStep
    BY <2>3, SquaresNear, Zenon
  <2> QED BY <2>2, <2>4
<1>4. CASE c = 3000
  <2>1. getTCurve(c) = 4503000
    BY <1>4 DEF getTCurve, Accelerated, Whole
  <2>2. getTCurve(c - 1) = (9000 * 9000) \div 18
    BY <1>4 DEF getTCurve, Accelerated, Whole
  <2>3. (9000 * 9000) \div 18 = 4500000
    BY QuotientIs
  <2> QED BY <2>1, <2>2, <2>3 DEF Abs, FastestTStep
<1>5. CASE 3001 <= c /\ c <= 6666
  <2>1. t >= 9006 /\ t <= 20001
    BY <1>5
  <2>2. /\ getTCurve(c) = 4500000 + 1000 * (t - 9000)
        /\ getTCurve(c - 1) = 4500000 + 1000 * (t - 3 - 9000)
    BY <1>1, <2>1 DEF getTCurve, Accelerated, Whole
  <2> HIDE DEF t
  <2> QED BY <1>1, <2>2 DEF Abs, FastestTStep
<1>6. CASE c = 6667
  <2>1. getTCurve(c) = 20000000 - (8996 * 8996) \div 18
    BY <1>6 DEF getTCurve, Accelerated, Whole, CurveEnd
  <2>2. getTCurve(c - 1) = 15501000
    BY <1>6 DEF getTCurve, Accelerated, Whole
  <2>3. (8996 * 8996) \div 18 = 4496000
    BY QuotientIs
  <2> QED BY <2>1, <2>2, <2>3 DEF Abs, FastestTStep
<1>7. CASE 6668 <= c /\ c <= 9666
  <2>1. t >= 20007 /\ t <= 29001 /\ u >= 2 /\ u <= 8996
    BY <1>1, <1>7
  <2>2. /\ getTCurve(c) = CurveEnd - ((u - 3) * (u - 3)) \div 18
        /\ getTCurve(c - 1) = CurveEnd - (u * u) \div 18
    BY <1>1, <2>1 DEF getTCurve, Accelerated, Whole
  <2> HIDE DEF t, u
  <2>4. u \in Int /\ 2 <= u /\ u <= Accelerated
    BY <1>1, <2>1 DEF Accelerated
  <2>3. /\ (u * u) \div 18 \in Int /\ ((u - 3) * (u - 3)) \div 18 \in Int
        /\ Abs((u * u) \div 18 - ((u - 3) * (u - 3)) \div 18) <= FastestTStep
    BY <2>4, SquaresNear, Zenon
  <2> QED BY <2>2, <2>3 DEF CurveEnd
<1>8. CASE 9667 <= c
  <2>1. getTCurve(c) = CurveEnd
    BY <1>8 DEF getTCurve, Whole
  <2>2. getTCurve(c - 1) = CurveEnd
    <3>1. CASE c = 9667
      <4>1. getTCurve(c - 1) = CurveEnd - ((29000 - 29001) * (29000 - 29001)) \div 18
        BY <3>1 DEF getTCurve, Accelerated, Whole
      <4>2. ((29000 - 29001) * (29000 - 29001)) \div 18 = 0
        BY QuotientIs
      <4> QED BY <4>1, <4>2 DEF CurveEnd
    <3>2. CASE c # 9667
      BY <1>8, <3>2 DEF getTCurve, Whole
    <3> QED BY <3>1, <3>2
  <2> QED BY <2>1, <2>2 DEF Abs, FastestTStep, CurveEnd
<1> QED BY <1>2, <1>3, <1>4, <1>5, <1>6, <1>7, <1>8

\* The curve begins where the plan is, and ends at its end.
LEMMA CurveEnds ==
  /\ getTCurve(1) = 2 /\ getTCurve(ForwardCycles) = CurveEnd
<1>1. getTCurve(1) = (6 * 6) \div 18
  BY DEF getTCurve, Accelerated, Whole
<1>2. (6 * 6) \div 18 = 2
  BY QuotientIs
<1>3. getTCurve(10000) = CurveEnd
  BY DEF getTCurve, Whole
<1> QED BY <1>1, <1>2, <1>3 DEF ForwardCycles

-----------------------------------------------------------------------------
(* The plans *)

\* Where the command is while a plan of each kind runs: where the interpolation
\* put it in the last cycle, or where the arm is before the first.
SegmentAt ==
  /\ path.kind = "segment" /\ path.way \in Int \X Int
  /\ path.n \in Nat /\ blend_steps_seven(path.way) <= path.n /\ count < path.n
  /\ command = IF count = 0 THEN <<0, 0>> ELSE lerp_q(path.way, count - 1, path.n)

PointsAt ==
  /\ path.kind \in {"joints", "poses"} /\ Points(path.points) /\ count < TotalCycles(path.points)
  /\ command \in Point /\ (count > 0 => command = AlongPoints(path.points, count))
  /\ count = 0 /\ path.kind = "poses" => command = path.points[1]

ForwardAt ==
  /\ path.kind = "forward" /\ count < ForwardCycles
  /\ command = << IF count = 0 THEN 0 ELSE getTCurve(count) >>

\* No depth that PressDown went past had too strong a force.
PressAt ==
  /\ path.kind = "press"
  /\ \E down \in Nat : command = <<down>> /\ down <= MaxDown /\ (down = 0 \/ ~TooStrong(down - 1))

Underway == stage = "runs" => count \in Nat /\ (SegmentAt \/ PointsAt \/ ForwardAt \/ PressAt)
PathInv == Underway /\ EndsOnTarget

\* The step that NoLeap bounds
InStep == \A axis \in DOMAIN command : Abs(command'[axis] - command[axis]) <= LargestStep(axis)

LEMMA PathStarts == PathInit => PathInv
BY DEF PathInit, PathInv, Underway, EndsOnTarget

\* A plan begins where the arm is.
LEMMA StartKeeps == StartPath => PathInv'
<1> SUFFICES ASSUME StartPath PROVE PathInv'
  OBVIOUS
<1>1. stage' = "runs" /\ count' = 0
  BY DEF StartPath
<1>2. EndsOnTarget'
  BY <1>1 DEF EndsOnTarget
<1>3. ASSUME NEW way \in Segments, NEW least \in MinSteps,
             path' = [kind |-> "segment", way |-> way, n |-> Largest(least, blend_steps_seven(way))],
             command' = <<0, 0>>
      PROVE  SegmentAt'
  <2>1. way \in Int \X Int /\ least \in Nat
    BY TrajectoryAssumption
  <2>2. blend_steps_seven(way) \in Nat \ {0}
    BY <2>1, BlendFacts
  <2> DEFINE n == Largest(least, blend_steps_seven(way))
  <2>3. n \in Nat /\ blend_steps_seven(way) <= n /\ 0 < n
    BY <2>1, <2>2 DEF Largest
  <2>4. path'.kind = "segment" /\ path'.way = way /\ path'.n = n
    BY <1>3
  <2> HIDE DEF n
  <2> QED BY <1>1, <1>3, <2>1, <2>3, <2>4 DEF SegmentAt
<1>4. ASSUME NEW p, Points(p), NEW at \in Point, NEW kind \in {"joints", "poses"},
             kind = "poses" => at = p[1], path' = [kind |-> kind, points |-> p], command' = at
      PROVE  PointsAt'
  <2>1. TotalCycles(p) > 0
    <3> DEFINE m == Len(p) - 1
    <3>1. CyclesPerSeg \in Nat \ {0} /\ m \in Nat \ {0}
      BY <1>4, TrajectoryAssumption DEF Points
    <3> HIDE DEF m
    <3>2. m * CyclesPerSeg > 0
      BY <3>1
    <3> QED BY <3>2 DEF m, TotalCycles
  <2>2. path'.kind = kind /\ path'.points = p
    BY <1>4
  <2> QED BY <1>1, <1>4, <2>1, <2>2 DEF PointsAt
<1>5. Poses \subseteq Point
  BY TrajectoryAssumption DEF Point
<1>6. CASE \E way \in Segments, least \in MinSteps :
             /\ path' = [kind |-> "segment", way |-> way, n |-> Largest(least, blend_steps_seven(way))]
             /\ command' = <<0, 0>>
  BY <1>1, <1>2, <1>3, <1>6 DEF PathInv, Underway
<1>7. CASE \E i \in DOMAIN JointTraj, at \in Poses :
             path' = [kind |-> "joints", points |-> JointTraj[i]] /\ command' = at
  <2>1. PICK i \in DOMAIN JointTraj, at \in Poses :
             path' = [kind |-> "joints", points |-> JointTraj[i]] /\ command' = at
    BY <1>7
  <2>2. Points(JointTraj[i]) /\ at \in Point
    BY <1>5, BuiltIn
  <2>3. PointsAt'
    BY <1>4, <2>1, <2>2
  <2> QED BY <1>1, <1>2, <2>3 DEF PathInv, Underway
<1>8. CASE \E i \in DOMAIN PoseTraj, at \in Poses :
             path' = [kind |-> "poses", points |-> <<at, PoseTraj[i]>>] /\ command' = at
  <2>1. PICK i \in DOMAIN PoseTraj, at \in Poses :
             path' = [kind |-> "poses", points |-> <<at, PoseTraj[i]>>] /\ command' = at
    BY <1>8
  <2> DEFINE q == PoseTraj[i]
             p == <<at, q>>
  <2>2. at \in Point /\ q \in Point
    BY <1>5, BuiltIn
  <2>3. path' = [kind |-> "poses", points |-> p]
    BY <2>1
  <2> HIDE DEF q
  <2>4. Points(p) /\ p[1] = at
    BY <2>2 DEF Points
  <2> HIDE DEF p
  <2>5. PointsAt'
    BY <1>4, <2>1, <2>2, <2>3, <2>4
  <2> QED BY <1>1, <1>2, <2>5 DEF PathInv, Underway
<1>9. CASE path' = [kind |-> "forward"] /\ command' = <<0>>
  BY <1>1, <1>2, <1>9 DEF PathInv, Underway, ForwardAt, ForwardCycles
<1>10. CASE path' = [kind |-> "press"] /\ command' = <<0>>
  BY <1>1, <1>2, <1>10 DEF PathInv, Underway, PressAt, MaxDown
<1> QED BY <1>6, <1>7, <1>8, <1>9, <1>10 DEF StartPath

LEMMA SegmentKeeps ==
  ASSUME stage = "runs", count \in Nat, SegmentAt, SegmentCycle
  PROVE  PathInv' /\ InStep
<1> DEFINE way == path.way
           n == path.n
<1>1. way \in Int \X Int /\ n \in Nat \ {0} /\ blend_steps_seven(way) <= n /\ count < n
  BY DEF SegmentAt
<1>2. \A axis \in 1 .. 2 : /\ way[axis] \in Int /\ StepLimit(axis) \in Nat \ {0}
                           /\ CeilDiv(Abs(way[axis]), StepLimit(axis)) <= n
  <2> SUFFICES ASSUME NEW axis \in 1 .. 2
               PROVE  /\ way[axis] \in Int /\ StepLimit(axis) \in Nat \ {0}
                      /\ CeilDiv(Abs(way[axis]), StepLimit(axis)) <= n
    OBVIOUS
  <2>1. /\ blend_steps_seven(way) \in Nat
        /\ way[axis] \in Int /\ StepLimit(axis) \in Nat \ {0}
        /\ CeilDiv(Abs(way[axis]), StepLimit(axis)) <= blend_steps_seven(way)
    BY <1>1, BlendFacts
  <2>2. CeilDiv(Abs(way[axis]), StepLimit(axis)) \in Int
    <3>1. Abs(way[axis]) \in Nat
      BY <2>1, AbsFacts
    <3> QED BY <2>1, <3>1, CeilFacts
  <2> QED BY <1>1, <2>1, <2>2
<1>3. /\ path' = path /\ count' = count + 1 /\ command' = lerp_q(way, count, n)
      /\ stage' = IF count' = n THEN "done" ELSE "runs"
  BY DEF SegmentCycle, Cycle
<1>4. PathInv'
  <2>1. CASE count' = n
    <3>1. \A axis \in 1 .. 2 : Alpha(way[axis], count, n) = way[axis]
      <4> SUFFICES ASSUME NEW axis \in 1 .. 2 PROVE Alpha(way[axis], count, n) = way[axis]
        OBVIOUS
      <4>1. count = n - 1
        BY <1>1, <1>3, <2>1
      <4> QED BY <1>1, <1>2, <4>1, SegmentEnds
    <3>2. command' = [axis \in 1 .. 2 |-> way[axis]]
      BY <1>3, <3>1 DEF lerp_q
    <3>3. [axis \in 1 .. 2 |-> way[axis]] = way
      BY <1>1
    <3>4. stage' = "done" /\ path'.kind = "segment" /\ command' = path'.way
      BY <1>3, <2>1, <3>2, <3>3 DEF SegmentAt
    <3> QED BY <3>4 DEF PathInv, Underway, EndsOnTarget
  <2>2. CASE count' # n
    <3>1. stage' = "runs" /\ count' \in Nat /\ count' < n /\ count' # 0 /\ count' - 1 = count
      BY <1>1, <1>3, <2>2
    <3>2. SegmentAt'
      BY <1>1, <1>3, <3>1 DEF SegmentAt
    <3> QED BY <3>1, <3>2 DEF PathInv, Underway, EndsOnTarget
  <2> QED BY <2>1, <2>2
<1>5. InStep
  <2> SUFFICES ASSUME NEW axis \in DOMAIN command
               PROVE  Abs(command'[axis] - command[axis]) <= LargestStep(axis)
    BY DEF InStep
  <2>1. axis \in 1 .. 2
    BY DEF SegmentAt, lerp_q
  <2> DEFINE w == way[axis]
             L == StepLimit(axis)
  <2>2. w \in Int /\ L \in Nat \ {0} /\ CeilDiv(Abs(w), L) <= n
    BY <1>2, <2>1
  <2>3. /\ command'[axis] = Alpha(w, count, n)
        /\ command[axis] = IF count = 0 THEN 0 ELSE Alpha(w, count - 1, n)
    BY <1>3, <2>1 DEF SegmentAt, lerp_q
  <2>4. LargestStep(axis) = IF n = 1 THEN L ELSE CeilDiv(L * n, n - 1)
    BY DEF LargestStep, SegmentAt
  <2> HIDE DEF w, L, n, way
  <2>5. CASE n = 1
    <3>1. count = 0 /\ Alpha(w, count, n) = w
      BY <1>1, <2>5 DEF Alpha
    <3>2. Abs(w) \in Nat /\ CeilDiv(Abs(w), L) \in Nat /\ Abs(w) <= L * CeilDiv(Abs(w), L)
      BY <2>2, AbsFacts, CeilFacts
    <3>3. L * CeilDiv(Abs(w), L) <= L * 1
      BY <2>2, <2>5, <3>2, ProductGrows
    <3>4. Abs(w) <= L
      <4>1. L * CeilDiv(Abs(w), L) \in Int
        BY <2>2, <3>2
      <4> QED BY <2>2, <3>2, <3>3, <4>1
    <3> QED BY <2>2, <2>3, <2>4, <2>5, <3>1, <3>4
  <2>6. CASE n # 1 /\ count = 0
    <3>1. Alpha(w, count, n) = 0
      BY <1>1, <2>2, <2>6, SegmentEnds
    <3>2. CeilDiv(L * n, n - 1) \in Nat
      <4>1. L * n \in Nat /\ n - 1 \in Nat \ {0}
        BY <1>1, <2>2, <2>6
      <4> QED BY <4>1, CeilFacts
    <3> QED BY <2>3, <2>4, <2>6, <3>1, <3>2 DEF Abs
  <2>7. CASE count # 0
    <3>1. n >= 2 /\ count \in Nat \ {0} /\ n \in Nat
      BY <1>1, <2>7
    <3>2. Abs(Alpha(w, count, n) - Alpha(w, count - 1, n)) <= CeilDiv(L * n, n - 1)
      BY <2>2, <3>1, SegmentSteps
    <3> QED BY <2>3, <2>4, <2>7, <3>1, <3>2
  <2> QED BY <2>5, <2>6, <2>7
<1> QED BY <1>4, <1>5

LEMMA PointsKeeps ==
  ASSUME stage = "runs", count \in Nat, PointsAt, JointTrajCycle \/ PoseTrajCycle
  PROVE  PathInv' /\ ((path.kind = "joints" => count > 0) => InStep)
<1> DEFINE p == path.points
           c == count + 1
<1>1. /\ path' = path /\ count' = c /\ command' = AlongPoints(p, c)
      /\ stage' = IF c = TotalCycles(p) THEN "done" ELSE "runs"
  BY DEF JointTrajCycle, PoseTrajCycle, PointsCycle, Cycle
<1>2. /\ Points(p) /\ command \in Point /\ (count > 0 => command = AlongPoints(p, count))
      /\ path.kind \in {"joints", "poses"}
  BY DEF PointsAt
<1>3. c \in Nat \ {0} /\ c - 1 = count /\ TotalCycles(p) \in Int /\ c <= TotalCycles(p)
  <2>1. count < TotalCycles(p)
    BY DEF PointsAt
  <2>2. TotalCycles(p) \in Int
    <3> DEFINE m == Len(p) - 1
    <3>1. m \in Int /\ CyclesPerSeg \in Int
      BY <1>2, TrajectoryAssumption DEF Points
    <3> HIDE DEF m
    <3>2. m * CyclesPerSeg \in Int
      BY <3>1
    <3> QED BY <3>2 DEF m, TotalCycles
  <2> HIDE DEF p
  <2> QED BY <2>1, <2>2
<1> HIDE DEF p, c
<1>4. AlongPoints(p, c) \in Point
  <2>1. PICK at \in Point : at = IF c = 1 THEN p[1] ELSE AlongPoints(p, c - 1)
    <3>1. CASE c = 1
      <4>1. p[1] \in Point
        BY <1>2 DEF Points
      <4> QED BY <3>1, <4>1
    <3>2. CASE c # 1
      BY <1>2, <1>3, <3>2
    <3> QED BY <3>1, <3>2
  <2>2. \A axis \in 1 .. 6 : AlongPoints(p, c)[axis] \in Int
    BY <1>2, <1>3, <2>1, PointsStep
  <2> QED BY <2>2 DEF AlongPoints, Point
<1>5. PathInv'
  <2>1. CASE c = TotalCycles(p)
    <3>1. command' = p[Len(p)]
      BY <1>1, <1>2, <2>1, PointsEnd
    <3>2. /\ stage' = "done" /\ path'.kind \in {"joints", "poses"}
          /\ command' = path'.points[Len(path'.points)]
      BY <1>1, <1>2, <2>1, <3>1 DEF p
    <3> QED BY <3>2 DEF PathInv, Underway, EndsOnTarget
  <2>2. CASE c # TotalCycles(p)
    <3>1. stage' = "runs" /\ count' \in Nat /\ count' # 0
      BY <1>1, <1>3, <2>2
    <3>2. c < TotalCycles(p)
      BY <1>3, <2>2
    <3>3. PointsAt'
      BY <1>1, <1>2, <1>4, <3>1, <3>2 DEF PointsAt, p
    <3> QED BY <3>1, <3>3 DEF PathInv, Underway, EndsOnTarget
  <2> QED BY <2>1, <2>2
<1>6. ASSUME path.kind = "joints" => count > 0 PROVE InStep
  <2> SUFFICES ASSUME NEW axis \in DOMAIN command
               PROVE  Abs(command'[axis] - command[axis]) <= LargestStep(axis)
    BY DEF InStep
  <2>1. axis \in 1 .. 6
    BY <1>2 DEF Point
  <2>2. command = IF c = 1 THEN p[1] ELSE AlongPoints(p, c - 1)
    <3>1. CASE c = 1
      <4>1. count = 0 /\ path.kind = "poses"
        BY <1>2, <1>3, <1>6, <3>1
      <4>2. command = p[1]
        BY <4>1 DEF PointsAt, p
      <4> QED BY <3>1, <4>2
    <3>2. CASE c # 1
      <4>1. count > 0
        BY <1>3, <3>2
      <4> QED BY <1>2, <1>3, <3>2, <4>1
    <3> QED BY <3>1, <3>2
  <2>3. Abs(AlongPoints(p, c)[axis] - command[axis])
          <= CeilDiv(3 * Abs(p[SegmentOf(c) + 1][axis] - p[SegmentOf(c)][axis]), 2 * CyclesPerSeg)
    BY <1>2, <1>3, <2>1, <2>2, PointsStep
  <2>4. LargestStep(axis)
          = CeilDiv(3 * Abs(p[SegmentOf(c) + 1][axis] - p[SegmentOf(c)][axis]), 2 * CyclesPerSeg)
    BY <1>2 DEF LargestStep, p, c
  <2> QED BY <1>1, <2>3, <2>4
<1> QED BY <1>5, <1>6

LEMMA ForwardKeeps ==
  ASSUME stage = "runs", count \in Nat, ForwardAt, ForwardCycle
  PROVE  PathInv' /\ InStep
<1> DEFINE c == count + 1
<1>1. /\ path' = path /\ count' = c /\ command' = << getTCurve(c) >>
      /\ stage' = IF c = ForwardCycles THEN "done" ELSE "runs"
  BY DEF ForwardCycle, Cycle
<1>2. /\ path.kind = "forward" /\ count < ForwardCycles
      /\ command = << IF count = 0 THEN 0 ELSE getTCurve(count) >>
  BY DEF ForwardAt
<1>3. c \in Nat \ {0} /\ c - 1 = count
  OBVIOUS
<1> HIDE DEF c
<1>4. PathInv'
  <2>1. CASE c = ForwardCycles
    <3>1. stage' = "done" /\ path'.kind = "forward" /\ command' = << CurveEnd >>
      BY <1>1, <1>2, <2>1, CurveEnds
    <3> QED BY <3>1 DEF PathInv, Underway, EndsOnTarget
  <2>2. CASE c # ForwardCycles
    <3>1. stage' = "runs" /\ count' \in Nat /\ count' # 0
      BY <1>1, <1>3, <2>2
    <3>2. count' < ForwardCycles
      BY <1>1, <1>2, <1>3, <2>2 DEF ForwardCycles
    <3>3. ForwardAt'
      BY <1>1, <1>2, <3>1, <3>2 DEF ForwardAt
    <3> QED BY <3>1, <3>3 DEF PathInv, Underway, EndsOnTarget
  <2> QED BY <2>1, <2>2
<1>5. InStep
  <2> SUFFICES ASSUME NEW axis \in DOMAIN command
               PROVE  Abs(command'[axis] - command[axis]) <= LargestStep(axis)
    BY DEF InStep
  <2>1. axis = 1 /\ LargestStep(axis) = FastestTStep
    BY <1>2 DEF LargestStep
  <2>2. command'[axis] = getTCurve(c) /\ command[axis] = IF count = 0 THEN 0 ELSE getTCurve(count)
    BY <1>1, <1>2, <2>1
  <2>3. CASE count = 0
    <3>1. command'[axis] - command[axis] = 2
      <4>1. c = 1
        BY <1>3, <2>3
      <4> QED BY <2>2, <2>3, <4>1, CurveEnds
    <3> QED BY <2>1, <3>1 DEF Abs, FastestTStep
  <2>4. CASE count # 0
    <3>1. Abs(getTCurve(c) - getTCurve(c - 1)) <= FastestTStep
      BY <1>3, CurveNear
    <3> QED BY <1>3, <2>1, <2>2, <2>4, <3>1
  <2> QED BY <2>3, <2>4
<1> QED BY <1>4, <1>5

LEMMA PressKeeps ==
  ASSUME stage = "runs", count \in Nat, PressAt, PressCycle
  PROVE  PathInv' /\ InStep
<1>1. PICK down \in Nat :
        command = <<down>> /\ down <= MaxDown /\ (down = 0 \/ ~TooStrong(down - 1))
  BY DEF PressAt
<1>2. path' = path /\ count' = count + 1 /\ path.kind = "press"
  BY DEF PressCycle, Cycle, PressAt
<1>3. command[1] = down
  BY <1>1
<1>4. InStep
  <2>1. command' = command \/ command' = <<down + 1>>
    BY <1>3 DEF PressCycle
  <2> SUFFICES ASSUME NEW axis \in DOMAIN command
               PROVE  Abs(command'[axis] - command[axis]) <= LargestStep(axis)
    BY DEF InStep
  <2>2. axis = 1 /\ LargestStep(axis) = 1
    BY <1>1, <1>2 DEF LargestStep
  <2>3. command'[1] = down \/ command'[1] = down + 1
    BY <1>3, <2>1
  <2> QED BY <1>3, <2>2, <2>3 DEF Abs
<1>5. CASE stage' = "cut"
  BY <1>4, <1>5 DEF PathInv, Underway, EndsOnTarget
<1>6. CASE stage' = "done" /\ (command[1] >= MaxDown \/ TooStrong(command[1])) /\ command' = command
  <2>1. TooStrong(down) /\ ~TooStrong(down - 1)
    BY <1>1, <1>3, <1>6 DEF TooStrong, MaxDown
  <2> QED BY <1>1, <1>2, <1>3, <1>4, <1>6, <2>1 DEF PathInv, Underway, EndsOnTarget
<1>7. CASE /\ stage' = stage /\ ~(command[1] >= MaxDown \/ TooStrong(command[1]))
           /\ command' = << command[1] + 1 >>
  <2>1. /\ down + 1 \in Nat /\ down + 1 <= MaxDown /\ ~TooStrong((down + 1) - 1)
        /\ command' = << down + 1 >>
    BY <1>1, <1>3, <1>7 DEF MaxDown
  <2>2. PressAt'
    BY <1>2, <2>1 DEF PressAt
  <2>3. stage' = "runs" /\ count' \in Nat
    BY <1>2, <1>7
  <2> QED BY <1>4, <2>2, <2>3 DEF PathInv, Underway, EndsOnTarget
<1> QED BY <1>4, <1>5, <1>6, <1>7 DEF PressCycle

\* A plan that is cut off stays where it is.
LEMMA UnsolvedKeeps ==
  ASSUME Underway, stage = "runs", Unsolved
  PROVE  PathInv' /\ InStep
<1>1. stage' = "cut" /\ command' = command
  BY DEF Unsolved
<1>2. PathInv'
  BY <1>1 DEF PathInv, Underway, EndsOnTarget
<1>3. /\ count \in Nat /\ path.kind \in {"poses", "forward", "press"}
      /\ (PointsAt \/ ForwardAt \/ PressAt)
  BY DEF Underway, Unsolved, SegmentAt
<1>4. \A axis \in DOMAIN command : command[axis] \in Int /\ LargestStep(axis) >= 0
  <2>1. CASE PointsAt
    <3> SUFFICES ASSUME NEW axis \in DOMAIN command
                 PROVE  command[axis] \in Int /\ LargestStep(axis) >= 0
      OBVIOUS
    <3> DEFINE p == path.points
               c == count + 1
               a == p[SegmentOf(c)]
               b == p[SegmentOf(c) + 1]
    <3>1. axis \in 1 .. 6 /\ command[axis] \in Int
      BY <2>1 DEF PointsAt, Point
    <3>2. /\ Points(p) /\ c \in Nat \ {0} /\ c - 1 = count /\ (c = 1 => command = p[1])
          /\ (c # 1 => command = AlongPoints(p, c - 1))
      BY <1>3, <2>1 DEF PointsAt, ForwardAt, PressAt
    <3>3. command \in Point
      BY <2>1 DEF PointsAt
    <3>4. c <= TotalCycles(p)
      <4> DEFINE m == Len(p) - 1
      <4>1. m \in Int /\ CyclesPerSeg \in Int
        BY <3>2, TrajectoryAssumption DEF Points
      <4> HIDE DEF m
      <4>2. m * CyclesPerSeg \in Int
        BY <4>1
      <4>3. TotalCycles(p) \in Int
        BY <4>2 DEF m, TotalCycles
      <4>4. count < TotalCycles(p)
        BY <2>1 DEF PointsAt
      <4> QED BY <1>3, <4>3, <4>4
    <3> HIDE DEF p, c
    <3>5. SegmentOf(c) \in 1 .. Len(p) /\ SegmentOf(c) + 1 \in 1 .. Len(p)
      BY <3>1, <3>2, <3>3, <3>4, PointsStep
    <3>6. a \in Point /\ b \in Point
      BY <3>2, <3>5 DEF Points
    <3> HIDE DEF a, b
    <3>7. b[axis] - a[axis] \in Int
      <4>1. b[axis] \in Int
        BY <3>1, <3>6 DEF Point
      <4>2. a[axis] \in Int
        BY <3>1, <3>6 DEF Point
      <4> QED BY <4>1, <4>2
    <3>8. LargestStep(axis) = CeilDiv(3 * Abs(b[axis] - a[axis]), 2 * CyclesPerSeg)
      BY <2>1 DEF LargestStep, PointsAt, a, b, p, c
    <3>9. 3 * Abs(b[axis] - a[axis]) \in Nat /\ 2 * CyclesPerSeg \in Nat \ {0}
      BY <3>7, AbsFacts, TrajectoryAssumption
    <3>10. CeilDiv(3 * Abs(b[axis] - a[axis]), 2 * CyclesPerSeg) \in Nat
      BY <3>9, CeilFacts
    <3> QED BY <3>1, <3>8, <3>10
  <2>2. CASE ForwardAt
    <3> SUFFICES ASSUME NEW axis \in DOMAIN command
                 PROVE  command[axis] \in Int /\ LargestStep(axis) >= 0
      OBVIOUS
    <3>1. count # 0 => getTCurve(count) \in Int
      BY <1>3, CurveNear
    <3> QED BY <2>2, <3>1 DEF ForwardAt, LargestStep, FastestTStep
  <2>3. CASE PressAt
    BY <2>3 DEF PressAt, LargestStep
  <2> QED BY <1>3, <2>1, <2>2, <2>3
<1>5. InStep
  BY <1>1, <1>4 DEF InStep, Abs
<1> QED BY <1>2, <1>5

\* Every step keeps the invariant, and none leaps.
LEMMA PathNextKeeps ==
  PathInv /\ [PathNext]_pathVars =>
    /\ PathInv'
    /\ stage = "runs" /\ (path.kind = "joints" => count > 0) => InStep \/ UNCHANGED pathVars
<1> SUFFICES ASSUME PathInv, [PathNext]_pathVars
             PROVE  /\ PathInv'
                    /\ stage = "runs" /\ (path.kind = "joints" => count > 0)
                         => InStep \/ UNCHANGED pathVars
  OBVIOUS
<1>1. CASE StartPath
  <2>1. stage = "off"
    BY <1>1 DEF StartPath
  <2> QED BY <1>1, <2>1, StartKeeps
<1>2. CASE Refused
  <2>1. stage = "off" /\ stage' = "cut"
    BY <1>2 DEF Refused
  <2> QED BY <2>1 DEF PathInv, Underway, EndsOnTarget
<1>3. CASE /\ stage = "runs"
           /\ \/ SegmentCycle \/ JointTrajCycle \/ PoseTrajCycle
              \/ ForwardCycle \/ PressCycle \/ Unsolved
  <2>1. count \in Nat /\ Underway /\ (SegmentAt \/ PointsAt \/ ForwardAt \/ PressAt)
    BY <1>3 DEF PathInv, Underway
  <2>2. CASE SegmentCycle
    <3>1. SegmentAt
      BY <2>1, <2>2 DEF SegmentCycle, Cycle, PointsAt, ForwardAt, PressAt
    <3> QED BY <1>3, <2>1, <2>2, <3>1, SegmentKeeps
  <2>3. CASE JointTrajCycle \/ PoseTrajCycle
    <3>1. PointsAt
      BY <2>1, <2>3
         DEF JointTrajCycle, PoseTrajCycle, PointsCycle, Cycle, SegmentAt, ForwardAt, PressAt
    <3> QED BY <1>3, <2>1, <2>3, <3>1, PointsKeeps
  <2>4. CASE ForwardCycle
    <3>1. ForwardAt
      BY <2>1, <2>4 DEF ForwardCycle, Cycle, PointsAt, SegmentAt, PressAt
    <3> QED BY <1>3, <2>1, <2>4, <3>1, ForwardKeeps
  <2>5. CASE PressCycle
    <3>1. PressAt
      BY <2>1, <2>5 DEF PressCycle, Cycle, PointsAt, ForwardAt, SegmentAt
    <3> QED BY <1>3, <2>1, <2>5, <3>1, PressKeeps
  <2>6. CASE Unsolved
    BY <1>3, <2>1, <2>6, UnsolvedKeeps
  <2> QED BY <1>3, <2>2, <2>3, <2>4, <2>5, <2>6
<1>4. CASE UNCHANGED pathVars
  <2>1. path' = path /\ count' = count /\ command' = command /\ stage' = stage
    BY <1>4 DEF pathVars
  <2> QED BY <1>4, <2>1
     DEF PathInv, Underway, EndsOnTarget, SegmentAt, PointsAt, ForwardAt, PressAt
<1>5. SegmentCycle \/ JointTrajCycle \/ PoseTrajCycle \/ ForwardCycle \/ PressCycle \/ Unsolved
        => stage = "runs"
  BY
     DEF SegmentCycle, JointTrajCycle, PoseTrajCycle, PointsCycle, ForwardCycle, PressCycle,
         Unsolved, Cycle
<1> QED BY <1>1, <1>2, <1>3, <1>4, <1>5 DEF PathNext

\* Every plan that ends by itself has commanded its target to the unit: whatever the
\* way of a segment and the limits of its axes, whatever the cycles a segment of a
\* trajectory has, and wherever the arm is at first.
THEOREM EndsAtTheTarget == PathSpec => []EndsOnTarget
<1>1. PathInv /\ [PathNext]_pathVars => PathInv'
  BY PathNextKeeps
<1>2. PathInv => EndsOnTarget
  BY DEF PathInv
<1> QED BY PathStarts, <1>1, <1>2, PTL DEF PathSpec

\* From cycle to cycle no plan's command leaps: not between the points of a
\* trajectory, not where the parts of the curve meet, and not from where the arm is to
\* the first command, JointTrajCli's excepted.
THEOREM NeverLeaps == PathSpec => NoLeap
<1>1. PathInv /\ [PathNext]_pathVars => PathInv'
  BY PathNextKeeps
<1>2. PathInv /\ [PathNext]_pathVars =>
        [stage = "runs" /\ (path.kind = "joints" => count > 0) =>
           \A axis \in DOMAIN command :
             Abs(command'[axis] - command[axis]) <= LargestStep(axis)]_pathVars
  BY PathNextKeeps DEF InStep
<1> QED BY PathStarts, <1>1, <1>2, PTL DEF PathSpec, NoLeap

-----------------------------------------------------------------------------
(* Zero gravity *)

\* While nothing has leapt: the last command is the last position computed, until
\* the buffer is entered; the target then fixed is the fence each axis moves to;
\* and only the cycle that ends the plan has a speed above the limit.
Course ==
  ~leapt =>
    /\ fresh => final = <<>> /\ (gstage # "over" => x = pos)
    /\ final # <<>> => final = [a \in Axes |-> IF v[a] < 0 THEN -Outer ELSE Outer]
    /\ gstage # "over" => \A a \in Axes : v[a] <= Limit
    /\ ~fresh => final # <<>>

GInv == GTypeOK /\ Course /\ StopsAtTheFence

LEMMA GravityInit == GInit => GInv
<1> SUFFICES ASSUME GInit PROVE GInv
  OBVIOUS
<1>1. pos = [a \in Axes |-> 0] /\ x = pos /\ v = pos
  BY DEF GInit
<1>2. GTypeOK
  <2>1. pos \in [Axes -> Int] /\ x \in [Axes -> Int] /\ v \in [Axes -> Int]
    BY <1>1
  <2> QED BY <2>1 DEF GInit, GTypeOK
<1>3. Course
  BY <1>1, ZoneAssumption DEF GInit, Course
<1>4. \A a \in Axes : ~(v[a] < 0) /\ pos[a] \in -Inner..Outer
  BY <1>1, ZoneAssumption
<1> QED BY <1>2, <1>3, <1>4 DEF GInv, StopsAtTheFence

\* A cycle in the safe zone keeps the types.
LEMMA SafeCycleType == GTypeOK /\ SafeCycle => GTypeOK'
<1> SUFFICES ASSUME GTypeOK, SafeCycle PROVE GTypeOK'
  OBVIOUS
<1>1. PICK acc \in [Axes -> IF gstage = "work" THEN Accelerations ELSE {0}] :
        LET w == [a \in Axes |-> LastV(a) + acc[a]]
            y == [a \in Axes |-> LastX(a) + w[a]]
        IN  /\ v' = w /\ x' = y /\ fresh' = TRUE
            /\ leapt' = (leapt \/ ~fresh)
            /\ \/ pos' = y /\ gstage' \in {"await", "work"}
               \/ gstage' = "over" /\ UNCHANGED pos
  BY DEF SafeCycle
<1>2. \A a \in Axes : acc[a] \in Int
  <2>1. CASE gstage = "work"
    <3>1. acc \in [Axes -> Accelerations]
      BY <1>1, <2>1
    <3> QED BY <3>1, ZoneAssumption
  <2>2. CASE gstage # "work"
    <3>1. acc \in [Axes -> {0}]
      BY <1>1, <2>2
    <3> QED BY <3>1
  <2> QED BY <2>1, <2>2
<1>3. \A a \in Axes : LastV(a) \in Int /\ LastX(a) \in Int
  BY ZoneAssumption DEF LastV, LastX, GTypeOK
<1> DEFINE w == [a \in Axes |-> LastV(a) + acc[a]]
           y == [a \in Axes |-> LastX(a) + w[a]]
<1>4. v' \in [Axes -> Int] /\ x' \in [Axes -> Int] /\ pos' \in [Axes -> Int]
  <2>1. w \in [Axes -> Int]
    BY <1>2, <1>3
  <2>2. y \in [Axes -> Int]
    BY <1>3, <2>1
  <2>3. v' = w /\ x' = y /\ (pos' = y \/ pos' = pos)
    BY <1>1, Zenon
  <2> QED BY <2>1, <2>2, <2>3 DEF GTypeOK
<1>5. UNCHANGED final
  BY DEF SafeCycle
<1> QED BY <1>1, <1>4, <1>5 DEF GTypeOK

LEMMA GravityStep == GInv /\ [GNext]_gravityVars => GInv'
<1> SUFFICES ASSUME GInv, [GNext]_gravityVars PROVE GInv'
  OBVIOUS
<1> USE ZoneAssumption
<1>1. CASE SafeCycle
  <2>1. GTypeOK'
    BY <1>1, SafeCycleType DEF GInv
  <2>2. SUFFICES ASSUME ~leapt' PROVE Course' /\ StopsAtTheFence'
    BY <2>1 DEF GInv, Course, StopsAtTheFence
  <2>3. ~leapt /\ fresh /\ fresh' /\ final = <<>> /\ final' = <<>> /\ x = pos
        /\ gstage # "over"
    BY <1>1, <2>2 DEF SafeCycle, GInv, Course, GTypeOK
  <2>4. \A a \in Axes : pos[a] \in -Inner..Inner
    BY <1>1 DEF SafeCycle, isSave, InBuffer, Safe
  <2>5. \A a \in Axes : v'[a] >= -MaxSpeed /\ x'[a] = pos[a] + v'[a]
    BY <1>1, <2>3 DEF SafeCycle, LastX, LastV
  <2>6. \/ x' = pos' /\ \A a \in Axes : ~(v'[a] > Limit)
        \/ gstage' = "over" /\ pos' = pos
    BY <1>1 DEF SafeCycle, TooFast
  <2>7. \A a \in Axes : pos[a] \in Int /\ v'[a] \in Int /\ x'[a] \in Int
    BY <2>1 DEF GInv, GTypeOK
  <2>8. Course'
    BY <2>3, <2>6, <2>7 DEF Course
  <2>9. StopsAtTheFence'
    BY <2>4, <2>5, <2>6, <2>7 DEF StopsAtTheFence
  <2> QED BY <2>8, <2>9
<1>2. CASE BufferCycle
  <2>1. /\ x' = x /\ v' = v /\ leapt' = leapt /\ fresh' = FALSE /\ final' = FinalPos
        /\ gstage # "over"
    BY <1>2 DEF BufferCycle
  <2>2. FinalPos \in [Axes -> {-Outer, Outer}]
    BY DEF FinalPos, GInv, GTypeOK
  <2>3. \A a \in Axes : pos[a] \in Int /\ v[a] \in Int /\ FinalPos[a] \in Int
    BY <2>2 DEF GInv, GTypeOK
  <2>4. GTypeOK'
    <3>1. \A a \in Axes : BufferStep(a, FinalPos) \in Int
      BY <2>3 DEF BufferStep, Near
    <3>2. pos' \in [Axes -> Int] /\ gstage' \in {gstage, "over"}
      BY <1>2, <3>1 DEF BufferCycle, GInv, GTypeOK
    <3> QED BY <2>1, <2>2, <3>2 DEF GInv, GTypeOK
  <2>5. FinalPos # <<>>
    <3>1. DOMAIN FinalPos = {1, 2}
      BY <2>2 DEF Axes
    <3>2. DOMAIN <<>> = {}
      OBVIOUS
    <3> QED BY <3>1, <3>2
  <2>6. SUFFICES ASSUME ~leapt PROVE Course' /\ StopsAtTheFence'
    BY <2>1, <2>4 DEF GInv, Course, StopsAtTheFence
  <2>7. FinalPos = [a \in Axes |-> IF v[a] < 0 THEN -Outer ELSE Outer]
    BY <2>6 DEF FinalPos, GInv, Course
  <2>8. Course'
    BY <2>1, <2>5, <2>6, <2>7 DEF GInv, Course
  <2>9. ASSUME NEW a \in Axes
        PROVE  IF v[a] < 0 THEN pos'[a] >= -Outer ELSE pos'[a] \in -Inner..Outer
    <3>1. /\ v[a] <= Limit
          /\ IF v[a] < 0 THEN pos[a] >= -Outer ELSE pos[a] \in -Inner..Outer
      BY <2>1, <2>6 DEF GInv, Course, StopsAtTheFence
    <3>2. FinalPos[a] = IF v[a] < 0 THEN -Outer ELSE Outer
      BY <2>7
    <3>3. pos'[a] = pos[a] \/ pos'[a] = BufferStep(a, FinalPos)
      BY <1>2 DEF BufferCycle
    <3>4. IF v[a] < 0 THEN BufferStep(a, FinalPos) >= -Outer
                      ELSE BufferStep(a, FinalPos) \in -Inner..Outer
      BY <2>3, <3>1, <3>2 DEF BufferStep, Near
    <3> QED BY <3>1, <3>3, <3>4
  <2> QED BY <2>1, <2>8, <2>9 DEF StopsAtTheFence
<1>3. CASE GStart \/ FenceCycle \/ GTimeIsUp
  <2>1. /\ UNCHANGED <<pos, x, v, fresh, final, leapt>> /\ gstage # "over"
        /\ gstage' \in {"zero", "over"}
    BY <1>3 DEF GStart, FenceCycle, GTimeIsUp
  <2>2. GTypeOK'
    BY <2>1 DEF GInv, GTypeOK
  <2> QED BY <2>1, <2>2 DEF GInv, Course, StopsAtTheFence
<1>4. CASE UNCHANGED gravityVars
  BY <1>4 DEF gravityVars, GInv, GTypeOK, Course, StopsAtTheFence
<1> QED BY <1>1, <1>2, <1>3, <1>4 DEF GNext

\* The types of all variables.
THEOREM GravityTypes == GSpec => []GTypeOK
<1>1. GInv => GTypeOK
  BY DEF GInv
<1> QED BY GravityInit, GravityStep, <1>1, PTL DEF GSpec

\* The fence an axis is pushed to holds it, whatever the forces, and whatever the sizes
\* of the zones, the limit of the speed and the snap, as long as a cycle's way is shorter
\* than the snap and both fit in the buffer.
THEOREM FenceHolds == GSpec => []StopsAtTheFence
<1>1. GInv => StopsAtTheFence
  BY DEF GInv
<1> QED BY GravityInit, GravityStep, <1>1, PTL DEF GSpec

-----------------------------------------------------------------------------
(* The gripper thread *)

\* The last opening sent, or counted as sent, is where the servo goes or rests.
Reckoned == last_sent_mm = goal \/ (servo = StopFor(goal) /\ last_sent_mm = servo)

\* What is not sent yet is too little to be sent, or is about to be, the way the
\* joystick is pushed.
Unsent ==
  /\ loop # "moving" => Apart(target_mm, last_sent_mm) < Eps
  /\ loop = "moving" => \/ cmd = 1 /\ target_mm > last_sent_mm - Eps
                        \/ cmd = -1 /\ target_mm < last_sent_mm + Eps

GripInv == TypeOK /\ object <= servo /\ Unsent /\ (misread \/ Reckoned)

LEMMA GripNumbers ==
  ASSUME TypeOK
  PROVE  /\ Opening \in Nat \ {0} /\ Step \in Nat \ {0} /\ ServoStep \in Nat \ {0}
         /\ Eps \in Nat \ {0} /\ IdleReads \in Nat \ {0} /\ MaxFaults \in Nat
         /\ vr_grip_target \in Nat /\ vr_grip_target <= Opening
         /\ vr_grip_actual \in Nat /\ vr_grip_actual <= Opening
         /\ target_mm \in Nat /\ target_mm <= Opening
         /\ last_sent_mm \in Nat /\ last_sent_mm <= Opening
         /\ goal \in Nat /\ goal <= Opening /\ servo \in Nat /\ servo <= Opening
         /\ object \in Nat /\ object <= Opening
         /\ idle_ticks \in Nat /\ idle_ticks < IdleReads
BY GripperAssumption DEF TypeOK, Openings

LEMMA GripStarts == GripInit => GripInv
<1> SUFFICES ASSUME GripInit PROVE GripInv
  OBVIOUS
<1>1. {Opening, Step, ServoStep, Eps, IdleReads} \subseteq Nat \ {0} /\ MaxFaults \in Nat
  BY GripperAssumption
<1>2. TypeOK
  <2>1. misread \in BOOLEAN
    BY Zenon DEF GripInit
  <2> QED BY <1>1, <2>1 DEF GripInit, TypeOK, Openings
<1>3. object <= servo /\ Reckoned /\ Unsent
  <2>1. servo \in Nat /\ object \in Nat /\ object <= servo /\ Eps \in Nat \ {0}
    BY <1>1 DEF GripInit, Openings
  <2>2. Apart(servo, servo) = 0
    BY <2>1 DEF Apart
  <2> QED BY <2>1, <2>2 DEF GripInit, Reckoned, Unsent
<1> QED BY <1>2, <1>3 DEF GripInv

\* The joystick moves the target by a step at most, the way it is pushed.
LEMMA Clamped ==
  ASSUME TypeOK, NEW c \in {-1, 0, 1}
  PROVE  LET t == Clamp(target_mm + c * Step)
         IN  /\ t \in Nat /\ t <= Opening
             /\ c = 1 => target_mm <= t /\ t <= target_mm + Step
             /\ c = -1 => target_mm - Step <= t /\ t <= target_mm
             /\ c = 0 => t = target_mm
<1>1. c * Step = (IF c = 1 THEN Step ELSE IF c = -1 THEN -Step ELSE 0)
  BY GripNumbers
<1> QED BY <1>1, GripNumbers DEF Clamp

\* In a sleep the servo comes closer to where it stops, by its travel or all the way.
LEMMA ServoComes ==
  ASSUME TypeOK, ServoMoves
  PROVE  LET stop == StopFor(goal)
         IN  /\ servo' \in Nat /\ servo' <= Opening
             /\ \/ servo' = stop
                \/ servo' = servo + ServoStep /\ servo' < stop
                \/ servo' = servo - ServoStep /\ stop < servo'
<1> DEFINE stop == StopFor(goal)
<1>1. stop \in Nat /\ stop <= Opening
  BY GripNumbers DEF StopFor, Most
<1>2. servo' = CASE Apart(servo, stop) <= ServoStep -> stop
                 [] servo < stop - ServoStep -> servo + ServoStep
                 [] OTHER -> servo - ServoStep
  BY DEF ServoMoves, StopFor, Most
<1> HIDE DEF stop
<1>3. CASE Apart(servo, stop) <= ServoStep
  <2>1. servo' = stop \/ (servo < stop - ServoStep /\ servo' = servo + ServoStep)
    BY <1>2, <1>3
  <2>2. ~(servo < stop - ServoStep)
    BY <1>1, <1>3, GripNumbers DEF Apart
  <2> QED BY <1>1, <2>1, <2>2 DEF stop
<1>4. CASE ~(Apart(servo, stop) <= ServoStep) /\ servo < stop - ServoStep
  <2>1. servo' = servo + ServoStep
    BY <1>2, <1>4
  <2>2. servo' \in Nat /\ servo' < stop /\ servo' <= Opening
    BY <1>1, <1>4, <2>1, GripNumbers
  <2> QED BY <2>1, <2>2 DEF stop
<1>5. CASE ~(Apart(servo, stop) <= ServoStep) /\ ~(servo < stop - ServoStep)
  <2>1. servo' = servo - ServoStep
    BY <1>2, <1>5
  <2>2. servo - ServoStep > stop
    BY <1>1, <1>5, GripNumbers DEF Apart
  <2>3. servo' \in Nat /\ servo' > stop /\ servo' <= Opening
    BY <1>1, <2>1, <2>2, GripNumbers
  <2> QED BY <2>1, <2>3 DEF stop
<1> QED BY <1>3, <1>4, <1>5

LEMMA GripType == TypeOK /\ [GripNext]_gripVars => TypeOK'
<1> SUFFICES ASSUME TypeOK, [GripNext]_gripVars PROVE TypeOK'
  OBVIOUS
<1>1. CASE SetGripCmd
  BY <1>1 DEF SetGripCmd, TypeOK, loopVars, motorVars
<1>2. CASE SyncRead
  <2>1. Clamp(vr_grip_actual) \in Openings
    BY GripNumbers DEF Clamp, Openings
  <2> QED BY <1>2, <2>1 DEF SyncRead, TypeOK, loopVars, motorVars
<1>3. CASE SyncStore
  BY <1>3 DEF SyncStore, TypeOK, loopVars, motorVars
<1>4. CASE Integrate
  <2>1. servo' \in Openings
    BY <1>4, ServoComes DEF Integrate, Openings
  <2>2. target_mm' \in Openings
    <3>1. vr_grip_cmd \in {-1, 0, 1}
      BY DEF TypeOK
    <3>2. target_mm' = Clamp(target_mm + vr_grip_cmd * Step)
      BY <1>4 DEF Integrate
    <3>3. target_mm' \in Nat /\ target_mm' <= Opening
      BY <3>1, <3>2, Clamped
    <3> QED BY <3>3 DEF Openings
  <2> QED BY <1>4, <2>1, <2>2 DEF Integrate, TypeOK
<1>5. CASE Moving
  <2>1. goal' \in Openings /\ last_sent_mm' \in Openings
    BY <1>5 DEF Moving, TypeOK
  <2>2. 0 \in 0 .. (IdleReads - 1)
    BY GripNumbers
  <2> QED BY <1>5, <2>1, <2>2 DEF Moving, TypeOK
<1>6. CASE Idle
  <2>1. idle_ticks' \in 0 .. (IdleReads - 1)
    BY <1>6, GripNumbers DEF Idle
  <2>2. loop' \in {"sleep", "read"}
    BY <1>6 DEF Idle
  <2> QED BY <1>6, <2>1, <2>2 DEF Idle, TypeOK, sharedVars, motorVars
<1>7. CASE ReadBack
  <2>1. target_mm' \in Openings
    BY <1>7, GripNumbers DEF ReadBack, Openings
  <2>2. faults' \in 0 .. MaxFaults
    <3>1. faults \in 0 .. MaxFaults
      BY DEF TypeOK
    <3> QED BY <1>7, <3>1, GripNumbers DEF ReadBack
  <2> QED BY <1>7, <2>1, <2>2 DEF ReadBack, TypeOK, motorVars
<1>8. CASE UNCHANGED gripVars
  BY <1>8 DEF gripVars, sharedVars, loopVars, motorVars, TypeOK
<1> QED BY <1>1, <1>2, <1>3, <1>4, <1>5, <1>6, <1>7, <1>8 DEF GripNext, LoopStep

LEMMA IntegrateKeeps ==
  ASSUME TypeOK, object <= servo, Unsent, Integrate
  PROVE  object' <= servo' /\ Unsent' /\ (Reckoned => Reckoned')
<1> DEFINE stop == StopFor(goal)
<1>1. /\ loop = "sleep" /\ cmd' = vr_grip_cmd
      /\ target_mm' = Clamp(target_mm + vr_grip_cmd * Step)
      /\ loop' = IF cmd' = 0 THEN "idle" ELSE "moving"
      /\ last_sent_mm' = last_sent_mm /\ goal' = goal /\ object' = object
      /\ vr_grip_cmd \in {-1, 0, 1}
  BY DEF Integrate, TypeOK
<1>2. /\ target_mm' \in Nat /\ cmd' \in {-1, 0, 1}
      /\ cmd' = 1 => target_mm <= target_mm'
      /\ cmd' = -1 => target_mm' <= target_mm
      /\ cmd' = 0 => target_mm' = target_mm
  BY <1>1, Clamped
<1>3. stop \in Nat /\ object <= stop
  BY GripNumbers DEF StopFor, Most
<1>4. /\ servo' \in Nat
      /\ \/ servo' = stop
         \/ servo' = servo + ServoStep /\ servo' < stop
         \/ servo' = servo - ServoStep /\ stop < servo'
  BY ServoComes DEF Integrate
<1>5. (StopFor(goal))' = stop
  BY <1>1 DEF StopFor
<1>6. Apart(target_mm, last_sent_mm) < Eps
  BY <1>1 DEF Unsent
<1> HIDE DEF stop
<1>7. target_mm < last_sent_mm + Eps /\ last_sent_mm < target_mm + Eps
  BY <1>6, GripNumbers DEF Apart
<1>8. object' <= servo'
  BY <1>1, <1>3, <1>4, GripNumbers
<1>9. Reckoned => Reckoned'
  <2>1. ASSUME last_sent_mm = goal PROVE Reckoned'
    BY <1>1, <2>1 DEF Reckoned
  <2>2. ASSUME servo = stop, last_sent_mm = servo PROVE Reckoned'
    <3>1. servo' = stop
      BY <1>3, <1>4, <2>2, GripNumbers
    <3> QED BY <1>1, <1>5, <2>2, <3>1 DEF Reckoned
  <2> QED BY <2>1, <2>2 DEF Reckoned, stop
<1>10. Unsent'
  <2>1. CASE cmd' = 0
    <3>1. loop' = "idle" /\ target_mm' = target_mm
      BY <1>1, <1>2, <2>1
    <3> QED BY <1>1, <1>6, <3>1 DEF Unsent
  <2>2. CASE cmd' # 0
    <3>1. loop' = "moving" /\ (cmd' = 1 \/ cmd' = -1)
      BY <1>1, <1>2, <2>2
    <3>2. cmd' = 1 => target_mm' > last_sent_mm - Eps
      BY <1>2, <1>7, GripNumbers
    <3>3. cmd' = -1 => target_mm' < last_sent_mm + Eps
      BY <1>2, <1>7, GripNumbers
    <3> QED BY <1>1, <3>1, <3>2, <3>3 DEF Unsent
  <2> QED BY <2>1, <2>2
<1> QED BY <1>8, <1>9, <1>10

LEMMA MovingKeeps ==
  ASSUME GripInv, Moving
  PROVE  object' <= servo' /\ Unsent' /\ (misread \/ Reckoned)' /\ SentPushedWay
<1>1. /\ loop = "moving" /\ loop' = "sleep"
      /\ target_mm' = target_mm /\ servo' = servo /\ object' = object /\ cmd' = cmd
  BY DEF Moving
<1>2. TypeOK /\ object <= servo /\ Unsent /\ (misread \/ Reckoned)
  BY DEF GripInv
<1>3. CASE Apart(target_mm, last_sent_mm) >= Eps
  <2>1. goal' = target_mm /\ last_sent_mm' = target_mm
    BY <1>3 DEF Moving
  <2>2. Reckoned' /\ Unsent' /\ object' <= servo'
    <3>1. Apart(target_mm, target_mm) < Eps
      BY <1>2, GripNumbers DEF Apart
    <3> QED BY <1>1, <1>2, <2>1, <3>1 DEF Reckoned, Unsent
  <2>3. cmd = 1 => target_mm > last_sent_mm
    BY <1>1, <1>2, <1>3, GripNumbers DEF Unsent, Apart
  <2>4. cmd = -1 => target_mm < last_sent_mm
    BY <1>1, <1>2, <1>3, GripNumbers DEF Unsent, Apart
  <2>5. ~misread => last_sent_mm = goal \/ last_sent_mm = servo
    BY <1>2 DEF Reckoned
  <2>6. /\ cmd = 1 => misread \/ target_mm >= Least(goal, servo)
        /\ cmd = -1 => misread \/ target_mm <= Most(goal, servo)
    BY <1>2, <2>3, <2>4, <2>5, GripNumbers DEF Least, Most
  <2> QED BY <2>1, <2>2, <2>3, <2>4, <2>6 DEF SentPushedWay
<1>4. CASE ~(Apart(target_mm, last_sent_mm) >= Eps)
  <2>1. goal' = goal /\ last_sent_mm' = last_sent_mm /\ misread' = misread
    BY <1>4 DEF Moving
  <2>2. Apart(target_mm, last_sent_mm) < Eps
    BY <1>2, <1>4, GripNumbers DEF Apart
  <2>3. (StopFor(goal))' = StopFor(goal)
    BY <1>1, <2>1 DEF StopFor
  <2> QED BY <1>1, <1>2, <2>1, <2>2, <2>3 DEF Reckoned, Unsent, SentPushedWay
<1> QED BY <1>3, <1>4

\* Whatever the read returns is both the target and the last opening sent; unless it
\* is misread it is where the servo rests.
LEMMA ReadKeeps ==
  ASSUME TypeOK, TypeOK', object <= servo, ReadBack
  PROVE  object' <= servo' /\ Unsent' /\ (misread \/ Reckoned)'
<1>1. /\ loop' = "sleep" /\ last_sent_mm' = target_mm' /\ misread' = (target_mm' # StopFor(goal))
      /\ goal' = goal /\ servo' = servo /\ object' = object
      /\ target_mm' = servo \/ target_mm' = 0
  BY DEF ReadBack, motorVars
<1>2. (StopFor(goal))' = StopFor(goal)
  BY <1>1 DEF StopFor
<1>3. Unsent'
  <2>1. \A n \in Nat : Apart(n, n) < Eps
    BY GripNumbers DEF Apart
  <2>2. target_mm' \in Nat
    BY <1>1, GripNumbers
  <2> QED BY <1>1, <2>1, <2>2 DEF Unsent, Apart
<1>4. ~misread' => Reckoned'
  <2>1. ASSUME target_mm' = servo, target_mm' = StopFor(goal) PROVE Reckoned'
    BY <1>1, <1>2, <2>1 DEF Reckoned
  <2>2. ASSUME target_mm' = 0, target_mm' = StopFor(goal) PROVE Reckoned'
    <3>1. goal = 0
      BY <2>2, GripNumbers DEF StopFor, Most
    <3> QED BY <1>1, <2>2, <3>1 DEF Reckoned
  <2> QED BY <1>1, <2>1, <2>2
<1> QED BY <1>1, <1>3, <1>4

LEMMA GripKeeps ==
  ASSUME GripInv, [GripNext]_gripVars
  PROVE  GripInv' /\ SentPushedWay
<1>1. TypeOK /\ TypeOK' /\ object <= servo /\ Unsent /\ (misread \/ Reckoned)
  BY GripType DEF GripInv
<1>2. CASE Moving
  BY <1>1, <1>2, MovingKeeps DEF GripInv
<1>3. CASE Integrate
  <2>1. misread' = misread /\ goal' = goal
    BY <1>3 DEF Integrate
  <2> QED BY <1>1, <1>3, <2>1, IntegrateKeeps DEF GripInv, SentPushedWay
<1>4. CASE ReadBack
  <2>1. goal' = goal
    BY <1>4 DEF ReadBack, motorVars
  <2> QED BY <1>1, <1>4, <2>1, ReadKeeps DEF GripInv, SentPushedWay
<1>5. CASE Idle \/ SetGripCmd \/ SyncRead \/ SyncStore \/ UNCHANGED gripVars
  <2>1. /\ target_mm' = target_mm /\ last_sent_mm' = last_sent_mm /\ cmd' = cmd
        /\ goal' = goal /\ servo' = servo /\ object' = object /\ misread' = misread
        /\ loop' = "moving" <=> loop = "moving"
    BY <1>5
       DEF Idle, SetGripCmd, SyncRead, SyncStore, gripVars, sharedVars, loopVars, motorVars
  <2>2. Unsent' /\ (Reckoned => Reckoned') /\ object' <= servo'
    BY <1>1, <2>1 DEF Unsent, Reckoned, StopFor
  <2> QED BY <1>1, <2>1, <2>2 DEF GripInv, SentPushedWay
<1> QED BY <1>2, <1>3, <1>4, <1>5 DEF GripNext, LoopStep

\* The types of the gripper thread's openings, counts and phases.
THEOREM GripTypes == GripSpec => []TypeOK
BY GripStarts, GripType, PTL DEF GripSpec, GripInv

\* The gripper is moved the way the joystick is pushed, however slow its servo is,
\* whatever it holds, however little each step is and whenever a plan starts.
THEOREM MovedAsPushed == GripSpec => PushedWay
<1>1. GripInit => GripInv
  BY GripStarts
<1>2. GripInv /\ [GripNext]_gripVars => GripInv'
  BY GripKeeps
<1>3. GripInv /\ [GripNext]_gripVars => [SentPushedWay]_gripVars
  BY GripKeeps
<1> QED BY <1>1, <1>2, <1>3, PTL DEF GripSpec, PushedWay
=============================================================================
