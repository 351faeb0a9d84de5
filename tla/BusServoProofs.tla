--------------------------- MODULE BusServoProofs ---------------------------
(***************************************************************************)
(* Proofs about the serial line, for any number of requests, time-outs and  *)
(* late replies: whose reply receive_packet_ can take for its answer.  And  *)
(* about the conversions, for any calibration table and every position or   *)
(* opening: what interpolate_ and its inverse give.                         *)
(***************************************************************************)
EXTENDS BusServo, SequenceTheorems, NatLemmas, TLAPS

Parts == {"ff", "id", "length", "data", "checksum"}
BytesOf(S) == [of : S, part : Parts]

\* What is received and not read, and on its way
Line == rx \o wire

LineType ==
  /\ rx \in Seq(BytesOf(Nat)) /\ wire \in Seq(BytesOf(Nat)) /\ raw \in Seq(BytesOf(Nat))
  /\ todo \in Seq(Nat) /\ late \in SUBSET Nat
  /\ request \in Nat /\ answer \in Nat /\ need \in Nat /\ failures \in Nat

LEMMA ByteType ==
  ASSUME NEW S, NEW n \in S, NEW part \in Parts
  PROVE  Byte(n, part) \in BytesOf(S)
BY DEF Byte, BytesOf

LEMMA ByteMoves ==
  ASSUME NEW S, NEW T, NEW b \in BytesOf(S), b.of \in T
  PROVE  b \in BytesOf(T)
BY DEF BytesOf

LEMMA BodyFacts ==
  ASSUME NEW S, NEW n \in S, NEW data \in {"data", "ff"}
  PROVE  Body(n, data) \in Seq(BytesOf(S)) /\ Len(Body(n, data)) = 5
<1> DEFINE B == BytesOf(S)
<1>1. Byte(n, "id") \in B /\ Byte(n, "length") \in B /\ Byte(n, data) \in B /\ Byte(n, "checksum") \in B
  BY ByteType DEF Parts
<1> HIDE DEF B
<1>2. Body(n, data) \in Seq(B) /\ Len(Body(n, data)) = 5
  BY <1>1 DEF Body
<1> QED BY <1>2 DEF B

LEMMA WholeFacts ==
  ASSUME NEW packet, Whole(packet)
  PROVE  /\ Len(packet) = 5 /\ packet[1].of \in Nat
         /\ packet[5].of = packet[1].of /\ packet[5].part = "checksum"
<1>1. PICK n \in 1 .. MaxRequests, data \in {"data", "ff"} : packet = Body(n, data)
  BY DEF Whole
<1> QED BY <1>1 DEF Body, Byte

LEMMA Single ==
  ASSUME NEW S, NEW s \in Seq(S), NEW b \in S
  PROVE  << b >> \in Seq(S) /\ Append(s, b) \in Seq(S)
OBVIOUS

\* The bytes of a reply are of its request, and the last is the only checksum.
IsReply(r, n) ==
  /\ Len(r) = 7
  /\ \A i \in 1 .. 7 : r[i].of = n
  /\ \A i \in 1 .. 6 : r[i].part # "checksum"

LEMMA ReplyFacts ==
  ASSUME NEW S, NEW n \in S, NEW data \in {"data", "ff"}
  PROVE  ReplyBytes(n, data) \in Seq(BytesOf(S)) /\ IsReply(ReplyBytes(n, data), n)
<1> DEFINE h == << Byte(n, "ff"), Byte(n, "ff") >>
           b == Body(n, data)
           B == BytesOf(S)
           r == ReplyBytes(n, data)
<1>0. Byte(n, "ff") \in B
  BY ByteType DEF Parts
<1>2. b \in Seq(B) /\ Len(b) = 5
  BY BodyFacts
<1> HIDE DEF B
<1>1. h \in Seq(B) /\ Len(h) = 2 /\ h[1] = Byte(n, "ff") /\ h[2] = Byte(n, "ff")
  BY <1>0
<1>3. /\ b[1] = Byte(n, "id") /\ b[2] = Byte(n, "length") /\ b[3] = Byte(n, data)
      /\ b[4] = Byte(n, data) /\ b[5] = Byte(n, "checksum")
  BY DEF Body
<1>4. r = h \o b
  BY DEF ReplyBytes
<1> HIDE DEF h, b, r
<1>5. /\ r \in Seq(B) /\ Len(r) = 7
      /\ \A i \in 1 .. 7 : r[i] = IF i <= 2 THEN h[i] ELSE b[i - 2]
  <2>1. /\ r \in Seq(B) /\ Len(r) = Len(h) + Len(b)
        /\ \A i \in 1 .. Len(h) + Len(b) : r[i] = IF i <= Len(h) THEN h[i] ELSE b[i - Len(h)]
    BY <1>1, <1>2, <1>4, ConcatProperties, Zenon
  <2> QED BY <1>1, <1>2, <2>1
<1>6. /\ r[1] = Byte(n, "ff") /\ r[2] = Byte(n, "ff") /\ r[3] = Byte(n, "id") /\ r[4] = Byte(n, "length")
      /\ r[5] = Byte(n, data) /\ r[6] = Byte(n, data) /\ r[7] = Byte(n, "checksum")
  BY <1>1, <1>3, <1>5
<1>7. \A i \in 1 .. 7 : i \in {1, 2, 3, 4, 5, 6, 7}
  OBVIOUS
<1>8. \A i \in 1 .. 7 : r[i].of = n
  BY <1>6, <1>7 DEF Byte
<1>9. \A i \in 1 .. 6 : r[i].part # "checksum"
  BY <1>6, <1>7 DEF Byte
<1> QED BY <1>5, <1>8, <1>9 DEF B, r, IsReply
-----------------------------------------------------------------------------
(* Types *)

LEMMA LineTypeInit == Init => LineType
BY DEF Init, LineType

LEMMA LineTypeStep == LineType /\ [Next]_vars => LineType'
<1> SUFFICES ASSUME LineType, LineStep PROVE LineType'
  <2>1. UNCHANGED vars => LineType' = LineType
    BY DEF vars, LineType
  <2> QED BY <2>1 DEF Next
<1> DEFINE B == BytesOf(Nat)
<1>0. /\ rx \in Seq(B) /\ wire \in Seq(B) /\ raw \in Seq(B)
      /\ todo \in Seq(Nat) /\ late \in SUBSET Nat
      /\ request \in Nat /\ answer \in Nat /\ need \in Nat /\ failures \in Nat
  BY DEF LineType
<1>a. SUFFICES /\ rx' \in Seq(B) /\ wire' \in Seq(B) /\ raw' \in Seq(B)
               /\ todo' \in Seq(Nat) /\ late' \in SUBSET Nat
               /\ request' \in Nat /\ answer' \in Nat /\ need' \in Nat /\ failures' \in Nat
  BY DEF LineType
<1>b. \A b \in B : b.of \in Nat
  BY DEF BytesOf
<1>c. \A n \in Nat, data \in {"data", "ff"} : ReplyBytes(n, data) \in Seq(B)
  BY ReplyFacts
<1> HIDE DEF B
<1>1. CASE ServoAnswers
  <2>1. PICK data \in {"data", "ff"} : wire' = wire \o ReplyBytes(Head(todo), data)
    BY <1>0, <1>1 DEF ServoAnswers
  <2>2. Head(todo) \in Nat /\ todo' \in Seq(Nat)
    BY <1>0, <1>1 DEF ServoAnswers
  <2>3. wire' \in Seq(B)
    <3>1. ReplyBytes(Head(todo), data) \in Seq(B)
      BY <1>c, <2>2
    <3> QED BY <1>0, <2>1, <3>1
  <2> QED BY <1>0, <1>1, <2>2, <2>3 DEF ServoAnswers
<1>2. CASE ByteArrives
  BY <1>0, <1>2 DEF ByteArrives
<1>3. CASE Send
  <2>1. late' \in SUBSET Nat
    <3>1. \A i \in DOMAIN todo : todo[i] \in Nat
      BY <1>0
    <3>2. \A i \in DOMAIN wire : wire[i].of \in Nat
      BY <1>0, <1>b
    <3> QED BY <1>0, <1>3, <3>1, <3>2 DEF Send, Range
  <2>2. rx' \in Seq(B) /\ raw' \in Seq(B) /\ todo' \in Seq(Nat)
    BY <1>0, <1>3 DEF Send
  <2> QED BY <1>0, <1>3, <2>1, <2>2 DEF Send
<1>4. CASE Broadcast
  BY <1>0, <1>4 DEF Broadcast
<1>5. ASSUME NEW n \in Nat, Read(n) PROVE rx' \in Seq(B)
  BY <1>0, <1>5 DEF Read
<1>6. CASE ReadHeader
  BY <1>0, <1>5, <1>6 DEF ReadHeader, GiveUp
<1>7. CASE ReadId \/ ReadLength
  <2>1. Len(rx) >= 1 /\ rx' \in Seq(B)
    BY <1>0, <1>5, <1>7 DEF ReadId, ReadLength, Read
  <2>2. rx[1] \in B
    BY <1>0, <2>1
  <2>3. raw' \in Seq(B) /\ need' \in Nat
    <3>1. raw' = << rx[1] >> \/ raw' = Append(raw, rx[1])
      BY <1>7 DEF ReadId, ReadLength
    <3>2. raw' \in Seq(B)
      BY <1>0, <2>2, <3>1, Single
    <3>3. need' = need \/ need' = DataLength + 1 \/ need' \in 1 .. 4
      BY <1>7 DEF ReadId, ReadLength
    <3> QED BY <1>0, <3>2, <3>3 DEF DataLength
  <2> QED BY <1>0, <1>7, <2>1, <2>3 DEF ReadId, ReadLength
<1>8. CASE ReadRemain
  <2>1. rx' \in Seq(B) /\ Len(rx) >= need
    BY <1>0, <1>5, <1>8 DEF ReadRemain, Read
  <2> DEFINE packet == raw \o SubSeq(rx, 1, need)
  <2>2. Whole(packet) => packet[1].of \in Nat
    BY WholeFacts
  <2> HIDE DEF packet
  <2>3. \/ failures' = failures /\ answer' = packet[1].of /\ Whole(packet)
        \/ failures' = failures + 1 /\ answer' = answer
    BY <1>0, <1>8 DEF ReadRemain, GiveUp, packet
  <2> QED BY <1>0, <1>8, <2>1, <2>2, <2>3 DEF ReadRemain
<1>9. CASE Timeout
  BY <1>0, <1>9 DEF Timeout, GiveUp
<1> QED BY <1>1, <1>2, <1>3, <1>4, <1>6, <1>7, <1>8, <1>9 DEF LineStep, Receive

-----------------------------------------------------------------------------
(* Whose reply *)

Expected == late \cup {request}

\* While a reply is awaited, every byte that has come, is on its way or will be sent
\* belongs to the request or to one whose reply had not come when it was sent.
Pending ==
  /\ host # "idle" => /\ rx \in Seq(BytesOf(Expected)) /\ wire \in Seq(BytesOf(Expected))
                     /\ raw \in Seq(BytesOf(Expected)) /\ todo \in Seq(Expected)
  /\ LateRepliesOnly

LEMMA PendingInit == Init => Pending
BY DEF Init, Pending, LateRepliesOnly

LEMMA PendingStep == LineType /\ Pending /\ [Next]_vars => Pending'
<1> SUFFICES ASSUME LineType, Pending, LineStep PROVE Pending'
  <2>1. UNCHANGED vars => Pending' = Pending
    BY DEF vars, Pending, LateRepliesOnly, Expected
  <2> QED BY <2>1 DEF Next
<1> DEFINE E == Expected
           B == BytesOf(E)
<1>a. /\ host # "idle" => /\ rx \in Seq(B) /\ wire \in Seq(B) /\ raw \in Seq(B) /\ todo \in Seq(E)
      /\ answer # 0 => answer \in E
  BY DEF Pending, LateRepliesOnly, Expected
<1>b. \A b \in B : b.of \in E
  BY DEF BytesOf
<1>c. ASSUME UNCHANGED <<late, request>>, answer' = answer \/ answer' \in E,
             host' # "idle" => /\ rx' \in Seq(B) /\ wire' \in Seq(B) /\ raw' \in Seq(B) /\ todo' \in Seq(E)
      PROVE  Pending'
  <2>1. E' = E
    BY <1>c DEF Expected
  <2>2. (answer # 0 => answer \in E)'
    BY <1>a, <1>c, <2>1
  <2>3. B' = B
    BY <2>1
  <2> QED BY <1>c, <2>1, <2>2, <2>3 DEF Pending, LateRepliesOnly, Expected
<1>d. \A n \in E, data \in {"data", "ff"} : ReplyBytes(n, data) \in Seq(B)
  BY ReplyFacts
<1>e. need \in Nat
  BY DEF LineType
<1> HIDE DEF E, B
<1>1. CASE ServoAnswers
  <2>1. PICK data \in {"data", "ff"} : wire' = wire \o ReplyBytes(Head(todo), data)
    BY <1>1 DEF ServoAnswers
  <2>2. CASE host # "idle"
    <3>1. Head(todo) \in E /\ todo' \in Seq(E)
      BY <1>1, <1>a, <2>2 DEF ServoAnswers
    <3>2. wire' \in Seq(B)
      BY <1>a, <1>d, <2>1, <2>2, <3>1
    <3> QED BY <1>1, <1>a, <1>c, <2>2, <3>1, <3>2 DEF ServoAnswers
  <2>3. CASE host = "idle"
    BY <1>1, <1>c, <2>3 DEF ServoAnswers
  <2> QED BY <2>2, <2>3
<1>2. CASE ByteArrives
  BY <1>2, <1>a, <1>c DEF ByteArrives
<1>3. CASE Send
  <2> DEFINE F == late' \cup {request'}
             C == BytesOf(F)
             A == BytesOf(Nat)
  <2>1. \A i \in DOMAIN todo : todo[i] \in F
    BY <1>3 DEF Send, Range
  <2>2. \A i \in DOMAIN wire : wire[i].of \in F
    BY <1>3 DEF Send, Range
  <2>3. todo' = Append(todo, request') /\ request' \in F /\ wire' = wire
    BY <1>3 DEF Send
  <2>4. wire \in Seq(A) /\ todo \in Seq(Nat)
    BY DEF LineType
  <2>5. \A b \in A : b.of \in F => b \in C
    BY ByteMoves
  <2>6. rx' = <<>> /\ raw' = <<>> /\ answer' = 0
    BY <1>3 DEF Send
  <2> HIDE DEF F, C, A
  <2>7. todo \in Seq(F)
    BY <2>1, <2>4
  <2>8. \A i \in DOMAIN wire : wire[i] \in C
    BY <2>2, <2>4, <2>5
  <2>9. todo' \in Seq(F) /\ wire' \in Seq(C) /\ rx' \in Seq(C) /\ raw' \in Seq(C)
    BY <2>3, <2>4, <2>6, <2>7, <2>8
  <2> QED BY <2>6, <2>9 DEF Pending, LateRepliesOnly, Expected, F, C, BytesOf
<1>4. CASE Broadcast
  BY <1>4, <1>c DEF Broadcast
<1>5. ASSUME NEW n \in Nat, Read(n), host # "idle" PROVE rx' \in Seq(B)
  BY <1>5, <1>a DEF Read
<1>6. CASE ReadHeader
  <2>1. host = "header" /\ UNCHANGED <<raw, wire, todo, request, answer, late>> /\ Read(2)
    BY <1>6 DEF ReadHeader
  <2> QED BY <1>5, <1>a, <1>c, <2>1
<1>7. CASE ReadId \/ ReadLength
  <2>1. host # "idle" /\ Len(rx) >= 1 /\ rx' \in Seq(B)
    BY <1>5, <1>7 DEF ReadId, ReadLength, Read
  <2>2. rx[1] \in B
    BY <1>a, <2>1
  <2>3. raw' \in Seq(B)
    <3>1. raw' = << rx[1] >> \/ raw' = Append(raw, rx[1])
      BY <1>7 DEF ReadId, ReadLength
    <3> QED BY <1>a, <2>1, <2>2, <3>1, Single
  <2> QED BY <1>7, <1>a, <1>c, <2>1, <2>3 DEF ReadId, ReadLength
<1>8. CASE ReadRemain
  <2> DEFINE packet == raw \o SubSeq(rx, 1, need)
  <2>1. host # "idle" /\ Len(rx) >= need /\ need \in Nat /\ host' = "idle"
    BY <1>8, <1>e DEF ReadRemain, Read, GiveUp
  <2>2. packet \in Seq(B)
    BY <1>a, <2>1
  <2>4. UNCHANGED <<late, request>> /\ (answer' = answer \/ (Whole(packet) /\ answer' = packet[1].of))
    BY <1>8 DEF ReadRemain
  <2>5. Whole(packet) => Len(packet) = 5
    BY WholeFacts
  <2> HIDE DEF packet
  <2>3. ASSUME Whole(packet) PROVE packet[1].of \in E
    <3>3. packet[1] \in B
      BY <2>2, <2>3, <2>5
    <3> QED BY <1>b, <3>3
  <2> QED BY <1>c, <2>1, <2>3, <2>4
<1>9. CASE Timeout
  BY <1>9, <1>c DEF Timeout, GiveUp
<1> QED BY <1>1, <1>2, <1>3, <1>4, <1>6, <1>7, <1>8, <1>9 DEF LineStep, Receive

\* Whatever has been lost, late or cut before: the answer to a request is that of
\* the servo to it, or to one whose reply had not begun to come when it was sent.
THEOREM LateOnly == Spec => []LateRepliesOnly
<1>1. Spec => []LineType
  BY LineTypeInit, LineTypeStep, PTL DEF Spec
<1>2. Pending => LateRepliesOnly
  BY DEF Pending
<1> QED BY <1>1, <1>2, PendingInit, PendingStep, PTL DEF Spec

-----------------------------------------------------------------------------
(* How old a reply *)

\* Replies are on the line one after the other, in the order of their requests.
Before(a, b) == a.of <= b.of /\ (a.part = "checksum" => a.of < b.of)
InOrder(s) == \A i, j \in 1 .. Len(s) : i < j => Before(s[i], s[j])

\* The request that is, or will be, answered next
Due == IF host = "idle" THEN request + 1 ELSE request

\* What is on the line is in order, what is to be sent comes after it, and neither is
\* more requests behind than have failed.  A reply that is read has an end.
Queue ==
  /\ InOrder(Line)
  /\ \A i \in 1 .. Len(todo) : todo[i] <= request /\ Due - todo[i] <= failures
  /\ \A i, j \in 1 .. Len(todo) : i < j => todo[i] < todo[j]
  /\ \A i \in 1 .. Len(Line) : Line[i].of <= request /\ Due - Line[i].of <= failures
  /\ \A i \in 1 .. Len(Line), j \in 1 .. Len(todo) : Line[i].of < todo[j]
  /\ host = "remain" => need > 0

LEMMA Associative ==
  ASSUME NEW S, NEW s \in Seq(S), NEW t \in Seq(S), NEW u \in Seq(S)
  PROVE  (s \o t) \o u = s \o (t \o u)
BY ConcatAssociative

LEMMA LineFacts ==
  ASSUME LineType
  PROVE  /\ Line \in Seq(BytesOf(Nat)) /\ Len(Line) = Len(rx) + Len(wire)
         /\ \A i \in 1 .. Len(rx) + Len(wire) : Line[i] = IF i <= Len(rx) THEN rx[i] ELSE wire[i - Len(rx)]
BY ConcatProperties, Zenon DEF Line, LineType

LEMMA LineFactsPrimed ==
  ASSUME LineType'
  PROVE  /\ Line' \in Seq(BytesOf(Nat)) /\ Len(Line') = Len(rx') + Len(wire')
         /\ \A i \in 1 .. Len(rx') + Len(wire') : Line'[i] = IF i <= Len(rx') THEN rx'[i] ELSE wire'[i - Len(rx')]
BY ConcatProperties, Zenon DEF Line, LineType

\* The first k bytes are gone.
Drops(k) ==
  /\ k \in 0 .. Len(Line) /\ Len(Line') = Len(Line) - k
  /\ \A i \in 1 .. Len(Line') : Line'[i] = Line[i + k]

LEMMA DropsRead ==
  ASSUME LineType, LineType', NEW n \in Nat, Read(n), UNCHANGED wire
  PROVE  Drops(n)
<1>1. /\ Len(rx) \in Nat /\ Len(wire) \in Nat /\ Len(rx) >= n /\ rx' = SubSeq(rx, n + 1, Len(rx)) /\ wire' = wire
      /\ rx \in Seq(BytesOf(Nat))
  BY DEF LineType, Read
<1>2. Len(rx') = Len(rx) - n /\ \A i \in 1 .. Len(rx) - n : rx'[i] = rx[i + n]
  BY <1>1
<1>3. /\ Len(Line') = Len(rx') + Len(wire)
      /\ \A i \in 1 .. Len(rx') + Len(wire) : Line'[i] = IF i <= Len(rx') THEN rx'[i] ELSE wire[i - Len(rx')]
  BY <1>1, LineFactsPrimed
<1>4. /\ Len(Line) = Len(rx) + Len(wire)
      /\ \A i \in 1 .. Len(rx) + Len(wire) : Line[i] = IF i <= Len(rx) THEN rx[i] ELSE wire[i - Len(rx)]
  BY LineFacts
<1>a. Len(rx) \in Nat /\ Len(wire) \in Nat /\ n <= Len(rx)
  BY <1>1
<1>5. n \in 0 .. Len(Line) /\ Len(Line') = Len(Line) - n
  BY <1>a, <1>2, <1>3, <1>4
<1>6. ASSUME NEW i \in 1 .. Len(Line') PROVE Line'[i] = Line[i + n]
  <2>1. i \in 1 .. Len(rx) + Len(wire) - n /\ i + n \in 1 .. Len(rx) + Len(wire)
    BY <1>a, <1>2, <1>3
  <2>2. CASE i <= Len(rx) - n
    <3>1. Line'[i] = rx'[i] /\ Line[i + n] = rx[i + n]
      BY <1>a, <1>2, <1>3, <1>4, <2>1, <2>2
    <3> QED BY <1>a, <1>2, <2>1, <2>2, <3>1
  <2>3. CASE i > Len(rx) - n
    BY <1>a, <1>2, <1>3, <1>4, <2>1, <2>3
  <2> QED BY <1>a, <2>1, <2>2, <2>3
<1> QED BY <1>5, <1>6 DEF Drops

LEMMA DropsAll ==
  ASSUME LineType, LineType', rx' = <<>>, UNCHANGED wire
  PROVE  Drops(Len(rx))
<1>1. Len(rx) \in Nat /\ Len(wire) \in Nat /\ wire' = wire /\ Len(rx') = 0
  BY DEF LineType
<1>3. /\ Len(Line') = Len(rx') + Len(wire)
      /\ \A i \in 1 .. Len(rx') + Len(wire) : Line'[i] = IF i <= Len(rx') THEN rx'[i] ELSE wire[i - Len(rx')]
  BY <1>1, LineFactsPrimed
<1> QED BY <1>1, <1>3, LineFacts DEF Drops

LEMMA DropsNone ==
  ASSUME LineType, LineType', ByteArrives
  PROVE  Drops(0)
<1>1. /\ rx \in Seq(BytesOf(Nat)) /\ wire \in Seq(BytesOf(Nat)) /\ wire # <<>>
      /\ rx' = Append(rx, Head(wire)) /\ wire' = Tail(wire)
  BY DEF LineType, ByteArrives
<1>2. /\ Len(rx) \in Nat /\ Len(wire) \in Nat \ {0}
      /\ Len(rx') = Len(rx) + 1 /\ Len(wire') = Len(wire) - 1
  BY <1>1
<1>3. /\ \A i \in 1 .. Len(rx) : rx'[i] = rx[i]
      /\ rx'[Len(rx) + 1] = wire[1]
      /\ \A i \in 1 .. Len(wire) - 1 : wire'[i] = wire[i + 1]
  BY <1>1, <1>2
<1>4. /\ Len(Line') = Len(rx') + Len(wire')
      /\ \A i \in 1 .. Len(rx') + Len(wire') : Line'[i] = IF i <= Len(rx') THEN rx'[i] ELSE wire'[i - Len(rx')]
  BY LineFactsPrimed
<1>5. /\ Len(Line) = Len(rx) + Len(wire)
      /\ \A i \in 1 .. Len(rx) + Len(wire) : Line[i] = IF i <= Len(rx) THEN rx[i] ELSE wire[i - Len(rx)]
  BY LineFacts
<1>6. 0 \in 0 .. Len(Line) /\ Len(Line') = Len(Line) - 0
  BY <1>2, <1>4, <1>5
<1>7. ASSUME NEW i \in 1 .. Len(Line') PROVE Line'[i] = Line[i + 0]
  <2>1. i \in 1 .. Len(rx) + Len(wire) /\ i + 0 = i
    BY <1>2, <1>4
  <2>2. CASE i <= Len(rx)
    <3>1. i \in 1 .. Len(rx) /\ i <= Len(rx')
      BY <1>2, <2>1, <2>2
    <3>2. i \in 1 .. Len(rx') + Len(wire') /\ i \in 1 .. Len(rx) + Len(wire)
      BY <1>2, <1>4, <2>1
    <3>3. Line'[i] = rx'[i]
      BY <1>4, <3>1, <3>2
    <3>4. Line[i] = rx[i]
      BY <1>5, <2>2, <3>2
    <3> QED BY <1>3, <2>1, <3>1, <3>3, <3>4
  <2>3. CASE i = Len(rx) + 1
    BY <1>2, <1>3, <1>4, <1>5, <2>1, <2>3
  <2>4. CASE i > Len(rx) + 1
    <3>1. /\ i - Len(rx') \in 1 .. Len(wire) - 1 /\ i - Len(rx') + 1 = i - Len(rx)
          /\ ~(i <= Len(rx')) /\ ~(i <= Len(rx))
      BY <1>2, <2>1, <2>4
    <3> QED BY <1>2, <1>3, <1>4, <1>5, <2>1, <3>1
  <2> QED BY <1>2, <2>1, <2>2, <2>3, <2>4
<1> QED BY <1>6, <1>7 DEF Drops

LEMMA LineGrows ==
  ASSUME NEW B, NEW r \in Seq(B), rx \in Seq(B), wire \in Seq(B), rx' = rx, wire' = wire \o r
  PROVE  Line' = Line \o r
BY Associative, SMTT(30) DEF Line

LEMMA Later ==
  \A d, e, f, g, n \in Nat : d - n <= f /\ e - d <= g - f => e - n <= g
OBVIOUS

\* What goes of the line, and of the requests to be answered, leaves the rest in order.
LEMMA QueueShrinks ==
  ASSUME LineType, LineType', Queue, NEW k, Drops(k), UNCHANGED <<todo, request>>,
         failures' >= failures, Due' - Due <= failures' - failures, host' = "remain" => need' > 0
  PROVE  Queue'
<1>1. /\ k \in 0 .. Len(Line) /\ Len(Line') = Len(Line) - k /\ Len(Line) \in Nat
      /\ \A i \in 1 .. Len(Line') : Line'[i] = Line[i + k] /\ i + k \in 1 .. Len(Line)
  BY LineFacts DEF Drops
<1>2. /\ request \in Nat /\ Due \in Nat /\ Due' \in Nat /\ failures \in Nat /\ failures' \in Nat
      /\ \A i \in 1 .. Len(todo) : todo[i] \in Nat
      /\ \A i \in 1 .. Len(Line) : Line[i].of \in Nat
  <2>1. \A b \in BytesOf(Nat) : b.of \in Nat
    BY DEF BytesOf
  <2>2. \A i \in 1 .. Len(Line) : Line[i] \in BytesOf(Nat)
    BY LineFacts
  <2>3. request \in Nat /\ request' \in Nat /\ todo \in Seq(Nat) /\ failures \in Nat /\ failures' \in Nat
    BY DEF LineType
  <2> QED BY <2>1, <2>2, <2>3 DEF Due
<1>3. InOrder(Line')
  <2> SUFFICES ASSUME NEW i \in 1 .. Len(Line'), NEW j \in 1 .. Len(Line'), i < j
               PROVE  Before(Line'[i], Line'[j])
    BY DEF InOrder
  <2>1. /\ Line'[i] = Line[i + k] /\ i + k \in 1 .. Len(Line)
        /\ Line'[j] = Line[j + k] /\ j + k \in 1 .. Len(Line) /\ i + k < j + k
    BY <1>1
  <2>2. Before(Line[i + k], Line[j + k])
    BY <2>1 DEF Queue, InOrder
  <2> QED BY <2>1, <2>2
<1>4. ASSUME NEW i \in 1 .. Len(Line') PROVE Line'[i].of <= request /\ Due' - Line'[i].of <= failures'
  <2>1. Line'[i] = Line[i + k] /\ i + k \in 1 .. Len(Line)
    BY <1>1
  <2>2. Line[i + k].of <= request /\ Due - Line[i + k].of <= failures /\ Line[i + k].of \in Nat
    BY <1>2, <2>1 DEF Queue
  <2>3. Due' - Line[i + k].of <= failures'
    BY <1>2, <2>2, Later
  <2> QED BY <2>1, <2>2, <2>3
<1>5. \A i \in 1 .. Len(Line'), j \in 1 .. Len(todo) : Line'[i].of < todo[j]
  BY <1>1 DEF Queue
<1>6. ASSUME NEW i \in 1 .. Len(todo) PROVE todo[i] <= request /\ Due' - todo[i] <= failures'
  <2>1. todo[i] <= request /\ Due - todo[i] <= failures /\ todo[i] \in Nat
    BY <1>2 DEF Queue
  <2> QED BY <1>2, <2>1, Later
<1> QED BY <1>3, <1>4, <1>5, <1>6 DEF Queue

\* A reply put on the line comes after what is there.
LEMMA QueueGrows ==
  ASSUME LineType, LineType', Queue, ServoAnswers
  PROVE  Queue'
<1>1. PICK data \in {"data", "ff"} : wire' = wire \o ReplyBytes(Head(todo), data)
  BY DEF ServoAnswers
<1> DEFINE n == Head(todo)
           r == ReplyBytes(n, data)
           L == Len(Line)
           B == BytesOf(Nat)
<1>2. todo \in Seq(Nat) /\ todo # <<>> /\ todo' = Tail(todo) /\ rx \in Seq(B) /\ wire \in Seq(B) /\ rx' = rx
  BY DEF ServoAnswers, LineType
<1>3. /\ n \in Nat /\ n = todo[1] /\ Len(todo) \in Nat \ {0} /\ Len(todo') = Len(todo) - 1
      /\ \A i \in 1 .. Len(todo') : todo'[i] = todo[i + 1] /\ i + 1 \in 1 .. Len(todo) /\ todo'[i] \in Nat
  BY <1>2
<1>4. /\ r \in Seq(B) /\ Len(r) = 7
      /\ \A i \in 1 .. 7 : r[i].of = n
      /\ \A i \in 1 .. 6 : r[i].part # "checksum"
  <2>1. r \in Seq(B) /\ IsReply(r, n)
    BY <1>3, ReplyFacts
  <2> QED BY <2>1 DEF IsReply
<1>5. Line' = Line \o r /\ Line \in Seq(B) /\ L \in Nat
  <2>1. wire' = wire \o r
    BY <1>1
  <2>2. r \in Seq(B) /\ rx \in Seq(B) /\ wire \in Seq(B) /\ rx' = rx
    BY <1>2, <1>4
  <2> HIDE DEF r, B
  <2>3. Line' = Line \o r
    BY <2>1, <2>2, LineGrows
  <2> QED BY <2>3, LineFacts DEF B
<1> HIDE DEF r
<1>6. /\ Len(Line') = L + 7
      /\ \A i \in 1 .. L + 7 : Line'[i] = IF i <= L THEN Line[i] ELSE r[i - L]
  <2>1. /\ Len(Line \o r) = Len(Line) + Len(r)
        /\ \A i \in 1 .. Len(Line) + Len(r) : (Line \o r)[i] = IF i <= Len(Line) THEN Line[i] ELSE r[i - Len(Line)]
    BY <1>4, <1>5, ConcatProperties, Zenon
  <2> QED BY <1>4, <1>5, <2>1
<1>7. /\ Due' = Due /\ failures' = failures /\ request' = request /\ Due \in Nat /\ failures \in Nat
      /\ \A i \in 1 .. L : Line[i].of \in Nat
  <2>1. \A b \in B : b.of \in Nat
    BY DEF BytesOf
  <2> HIDE DEF B
  <2>2. \A i \in 1 .. L : Line[i] \in B
    BY <1>5
  <2>3. Due' = Due /\ failures' = failures /\ request' = request /\ Due \in Nat /\ failures \in Nat
    BY DEF ServoAnswers, Due, LineType
  <2> QED BY <2>1, <2>2, <2>3
<1>L. L \in Nat
  BY <1>5
<1> HIDE DEF n, L, B
<1>8. \A i \in 1 .. L : Line[i].of < n
  BY <1>3 DEF Queue, L
<1>9. \A i \in 1 .. L : Line'[i] = Line[i]
  BY <1>L, <1>6
<1>b. ASSUME NEW i \in 1 .. L + 7, i > L
      PROVE  Line'[i].of = n /\ (Line'[i].part = "checksum" => i = L + 7)
  <2>1. Line'[i] = r[i - L] /\ i - L \in 1 .. 7 /\ (i # L + 7 => i - L \in 1 .. 6)
    BY <1>L, <1>6, <1>b
  <2> QED BY <1>4, <2>1
<1>10. InOrder(Line')
  <2> SUFFICES ASSUME NEW i \in 1 .. L + 7, NEW j \in 1 .. L + 7, i < j PROVE Before(Line'[i], Line'[j])
    BY <1>6 DEF InOrder
  <2>1. CASE j <= L
    <3>1. i \in 1 .. L /\ j \in 1 .. L
      BY <1>L, <2>1
    <3>2. Before(Line[i], Line[j])
      BY <3>1 DEF Queue, InOrder, L
    <3>3. Line'[i] = Line[i] /\ Line'[j] = Line[j]
      BY <1>9, <3>1
    <3> QED BY <3>2, <3>3
  <2>2. CASE i <= L /\ j > L
    <3>1. i \in 1 .. L
      BY <1>L, <2>2
    <3>2. Line'[i] = Line[i] /\ Line'[j].of = n /\ Line[i].of < n /\ Line[i].of \in Nat
      BY <1>7, <1>8, <1>9, <1>b, <2>2, <3>1
    <3> QED BY <1>3, <3>2 DEF Before
  <2>3. CASE i > L
    BY <1>3, <1>L, <1>b, <2>3 DEF Before
  <2> QED BY <1>L, <2>1, <2>2, <2>3
<1>11. \A i \in 1 .. L + 7 : Line'[i].of <= n /\ Due' - Line'[i].of <= failures'
  <2> SUFFICES ASSUME NEW i \in 1 .. L + 7 PROVE Line'[i].of <= n /\ Due' - Line'[i].of <= failures'
    OBVIOUS
  <2>1. CASE i <= L
    <3>1. i \in 1 .. L
      BY <1>L, <2>1
    <3>2. Due - Line[i].of <= failures
      BY <3>1 DEF Queue, L
    <3>3. Line'[i] = Line[i] /\ Line[i].of < n /\ Line[i].of \in Nat
      BY <1>7, <1>8, <1>9, <3>1
    <3> QED BY <1>3, <1>7, <3>2, <3>3
  <2>2. CASE i > L
    <3>1. Due - n <= failures
      BY <1>3 DEF Queue
    <3> QED BY <1>3, <1>L, <1>7, <1>b, <2>2, <3>1
  <2> QED BY <1>L, <2>1, <2>2
<1>a. \A i \in 1 .. L + 7 : Line'[i].of \in Nat
  <2>1. \A i \in 1 .. L + 7 : i <= L => i \in 1 .. L
    BY <1>L
  <2> SUFFICES ASSUME NEW i \in 1 .. L + 7 PROVE Line'[i].of \in Nat
    OBVIOUS
  <2>2. CASE i <= L
    BY <1>7, <1>9, <2>1, <2>2
  <2>3. CASE i > L
    BY <1>3, <1>b, <2>3
  <2> QED BY <1>L, <2>2, <2>3
<1>12. \A j \in 1 .. Len(todo') : n < todo'[j] /\ todo'[j] <= request' /\ Due' - todo'[j] <= failures'
  <2> SUFFICES ASSUME NEW j \in 1 .. Len(todo')
               PROVE  n < todo'[j] /\ todo'[j] <= request' /\ Due' - todo'[j] <= failures'
    OBVIOUS
  <2>1. todo'[j] = todo[j + 1] /\ j + 1 \in 1 .. Len(todo) /\ 1 \in 1 .. Len(todo) /\ 1 < j + 1
    BY <1>3
  <2>2. todo[1] < todo[j + 1] /\ todo[j + 1] <= request /\ Due - todo[j + 1] <= failures
    BY <2>1 DEF Queue
  <2> QED BY <1>3, <1>7, <2>1, <2>2
<1>13. \A i, j \in 1 .. Len(todo') : i < j => todo'[i] < todo'[j]
  <2> SUFFICES ASSUME NEW i \in 1 .. Len(todo'), NEW j \in 1 .. Len(todo'), i < j
               PROVE  todo'[i] < todo'[j]
    OBVIOUS
  <2>1. /\ todo'[i] = todo[i + 1] /\ i + 1 \in 1 .. Len(todo)
        /\ todo'[j] = todo[j + 1] /\ j + 1 \in 1 .. Len(todo) /\ i + 1 < j + 1
    BY <1>3
  <2>2. todo[i + 1] < todo[j + 1]
    BY <2>1 DEF Queue
  <2> QED BY <2>1, <2>2
<1>14. \A i \in 1 .. L + 7, j \in 1 .. Len(todo') : Line'[i].of < todo'[j]
  <2> SUFFICES ASSUME NEW i \in 1 .. L + 7, NEW j \in 1 .. Len(todo') PROVE Line'[i].of < todo'[j]
    OBVIOUS
  <2> QED BY <1>3, <1>11, <1>12, <1>a
<1>15. \A i \in 1 .. L + 7 : Line'[i].of <= request'
  <2>1. n <= request /\ request \in Nat
    <3>1. 1 \in 1 .. Len(todo) /\ request \in Nat
      BY <1>3 DEF LineType
    <3> QED BY <1>3, <3>1 DEF Queue
  <2> SUFFICES ASSUME NEW i \in 1 .. L + 7 PROVE Line'[i].of <= request'
    OBVIOUS
  <2>2. Line'[i].of <= n /\ Line'[i].of \in Nat
    BY <1>11, <1>a
  <2> QED BY <1>3, <1>7, <2>1, <2>2
<1>16. (host = "remain" => need > 0)'
  BY DEF Queue, ServoAnswers
<1> QED BY <1>6, <1>10, <1>11, <1>12, <1>13, <1>14, <1>15, <1>16 DEF Queue

\* A new request comes after everything that is still to come.
LEMMA QueueSends ==
  ASSUME LineType, LineType', Queue, Send
  PROVE  Queue'
<1>1. /\ host = "idle" /\ host' = "header" /\ rx' = <<>> /\ UNCHANGED <<wire, failures>>
      /\ request' = request + 1 /\ todo' = Append(todo, request + 1)
  BY DEF Send
<1>2. Drops(Len(rx))
  BY <1>1, DropsAll
<1> DEFINE k == Len(rx)
<1>3. /\ k \in 0 .. Len(Line) /\ Len(Line') = Len(Line) - k /\ Len(Line) \in Nat
      /\ \A i \in 1 .. Len(Line') : Line'[i] = Line[i + k] /\ i + k \in 1 .. Len(Line)
  BY <1>2, LineFacts DEF Drops
<1> HIDE DEF k
<1>4. /\ request \in Nat /\ failures \in Nat /\ Due = request + 1 /\ Due' = request + 1
      /\ \A i \in 1 .. Len(todo) : todo[i] \in Nat
      /\ \A i \in 1 .. Len(Line) : Line[i].of \in Nat
  <2>1. \A b \in BytesOf(Nat) : b.of \in Nat
    BY DEF BytesOf
  <2>2. \A i \in 1 .. Len(Line) : Line[i] \in BytesOf(Nat)
    BY LineFacts
  <2>3. request \in Nat /\ todo \in Seq(Nat) /\ failures \in Nat
    BY DEF LineType
  <2> QED BY <1>1, <2>1, <2>2, <2>3 DEF Due
<1>5. /\ Len(todo) \in Nat /\ Len(todo') = Len(todo) + 1 /\ todo'[Len(todo) + 1] = request + 1
      /\ \A j \in 1 .. Len(todo) : todo'[j] = todo[j]
  <2>1. todo \in Seq(Nat) /\ request + 1 \in Nat
    BY <1>4 DEF LineType
  <2> QED BY <1>1, <2>1
<1>6. InOrder(Line')
  <2> SUFFICES ASSUME NEW i \in 1 .. Len(Line'), NEW j \in 1 .. Len(Line'), i < j
               PROVE  Before(Line'[i], Line'[j])
    BY DEF InOrder
  <2>1. Line'[i] = Line[i + k] /\ i + k \in 1 .. Len(Line) /\ Line'[j] = Line[j + k] /\ j + k \in 1 .. Len(Line)
    BY <1>3
  <2>2. i + k < j + k
    BY <1>3
  <2>3. Before(Line[i + k], Line[j + k])
    BY <2>1, <2>2 DEF Queue, InOrder
  <2> QED BY <2>1, <2>3
<1>7. ASSUME NEW i \in 1 .. Len(Line')
      PROVE  Line'[i].of < request + 1 /\ Due' - Line'[i].of <= failures'
  <2>1. Line'[i] = Line[i + k] /\ i + k \in 1 .. Len(Line)
    BY <1>3
  <2>2. Line[i + k].of <= request /\ Due - Line[i + k].of <= failures /\ Line[i + k].of \in Nat
    BY <1>4, <2>1 DEF Queue
  <2>3. Line[i + k].of < request + 1 /\ Due' - Line[i + k].of <= failures'
    BY <1>1, <1>4, <2>2
  <2> QED BY <2>1, <2>3
<1>8. ASSUME NEW j \in 1 .. Len(todo')
      PROVE  /\ (j \in 1 .. Len(todo) /\ todo'[j] = todo[j]) \/ (j = Len(todo) + 1 /\ todo'[j] = request + 1)
             /\ todo'[j] <= request' /\ Due' - todo'[j] <= failures'
  <2>1. CASE j = Len(todo) + 1
    BY <1>1, <1>4, <1>5, <2>1
  <2>2. CASE j \in 1 .. Len(todo)
    <3>1. todo[j] <= request /\ Due - todo[j] <= failures /\ todo[j] \in Nat
      BY <1>4, <2>2 DEF Queue
    <3>2. todo'[j] = todo[j]
      BY <1>5, <2>2
    <3> QED BY <1>1, <1>4, <2>2, <3>1, <3>2
  <2> QED BY <1>5, <2>1, <2>2
<1>9. ASSUME NEW i \in 1 .. Len(todo'), NEW j \in 1 .. Len(todo'), i < j PROVE todo'[i] < todo'[j]
  <2>1. i \in 1 .. Len(todo) /\ todo'[i] = todo[i] /\ todo[i] <= request /\ todo[i] \in Nat
    <3>1. i \in 1 .. Len(todo)
      BY <1>5, <1>9
    <3> QED BY <1>4, <1>5, <3>1 DEF Queue
  <2>2. CASE j = Len(todo) + 1
    BY <1>4, <1>5, <2>1, <2>2
  <2>3. CASE j \in 1 .. Len(todo)
    BY <1>5, <1>9, <2>1, <2>3 DEF Queue
  <2> QED BY <1>5, <2>2, <2>3
<1>10. ASSUME NEW i \in 1 .. Len(Line'), NEW j \in 1 .. Len(todo') PROVE Line'[i].of < todo'[j]
  <2>1. CASE todo'[j] = request + 1
    BY <1>7, <2>1
  <2>2. CASE j \in 1 .. Len(todo) /\ todo'[j] = todo[j]
    <3>1. Line'[i] = Line[i + k] /\ i + k \in 1 .. Len(Line)
      BY <1>3
    <3>2. Line[i + k].of < todo[j]
      BY <2>2, <3>1 DEF Queue
    <3> QED BY <2>2, <3>1, <3>2
  <2> QED BY <1>8, <2>1, <2>2
<1>11. ASSUME NEW i \in 1 .. Len(Line') PROVE Line'[i].of <= request'
  <2>1. Line'[i] = Line[i + k] /\ i + k \in 1 .. Len(Line)
    BY <1>3
  <2>2. Line[i + k].of <= request /\ Line[i + k].of \in Nat
    BY <1>4, <2>1 DEF Queue
  <2> QED BY <1>1, <1>4, <2>1, <2>2
<1> QED BY <1>1, <1>6, <1>7, <1>8, <1>9, <1>10, <1>11 DEF Queue

\* A reply that is taken whole has been the first on the line: what is left is of
\* later requests.
LEMMA QueueTakes ==
  ASSUME LineType, LineType', Queue, ReadRemain, Whole(raw \o SubSeq(rx, 1, need))
  PROVE  Queue' /\ answer' <= request /\ request - answer' <= failures'
<1> DEFINE packet == raw \o SubSeq(rx, 1, need)
           B == BytesOf(Nat)
           n == packet[1].of
<1>1. /\ host = "remain" /\ host' = "idle" /\ Read(need) /\ answer' = packet[1].of
      /\ UNCHANGED <<wire, todo, request, failures, need>>
  BY DEF ReadRemain
<1>2. need \in Nat \ {0} /\ Len(rx) >= need /\ rx \in Seq(B) /\ raw \in Seq(B) /\ Len(rx) \in Nat
  BY <1>1 DEF Queue, LineType, Read
<1>3. packet[5].of = n /\ packet[5].part = "checksum" /\ n \in Nat /\ Len(packet) = 5
  BY WholeFacts
<1>4. Line[need] = packet[5] /\ need \in 1 .. Len(Line)
  <2>0. SubSeq(rx, 1, need) \in Seq(B) /\ Len(SubSeq(rx, 1, need)) = need /\ SubSeq(rx, 1, need)[need] = rx[need]
    BY <1>2
  <2> DEFINE s == SubSeq(rx, 1, need)
  <2> HIDE DEF s, B
  <2>1. /\ Len(raw \o s) = Len(raw) + Len(s)
        /\ \A i \in 1 .. Len(raw) + Len(s) : (raw \o s)[i] = IF i <= Len(raw) THEN raw[i] ELSE s[i - Len(raw)]
    BY <1>2, <2>0, ConcatProperties, Zenon DEF s
  <2>2. Len(raw) \in Nat /\ Len(raw) + need = 5 /\ packet = raw \o s
    BY <1>2, <1>3, <2>0, <2>1 DEF s
  <2>3. packet[5] = s[need]
    BY <1>2, <2>0, <2>1, <2>2 DEF s
  <2>4. Len(wire) \in Nat
    BY DEF LineType
  <2>5. Line[need] = rx[need] /\ need \in 1 .. Len(Line)
    BY <1>2, <2>4, LineFacts
  <2> QED BY <2>0, <2>3, <2>5 DEF s
<1> HIDE DEF packet, n, B
<1>5. /\ Len(Line') = Len(Line) - need /\ Len(Line) \in Nat
      /\ \A i \in 1 .. Len(Line') : Line'[i] = Line[i + need] /\ i + need \in 1 .. Len(Line)
  <2>1. Drops(need)
    BY <1>1, <1>2, DropsRead
  <2> QED BY <1>2, <2>1, LineFacts DEF Drops
<1>6. /\ request \in Nat /\ failures \in Nat /\ Due = request /\ Due' = request + 1
      /\ \A i \in 1 .. Len(todo) : todo[i] \in Nat
      /\ \A i \in 1 .. Len(Line) : Line[i].of \in Nat
  <2>1. \A b \in BytesOf(Nat) : b.of \in Nat
    BY DEF BytesOf
  <2>2. \A i \in 1 .. Len(Line) : Line[i] \in BytesOf(Nat)
    BY LineFacts
  <2>3. request \in Nat /\ todo \in Seq(Nat) /\ failures \in Nat
    BY DEF LineType
  <2> QED BY <1>1, <2>1, <2>2, <2>3 DEF Due
<1>7. Line[need].of = n /\ Line[need].part = "checksum" /\ n <= request /\ request - n <= failures
  <2>1. Line[need].of = n /\ Line[need].part = "checksum"
    BY <1>3, <1>4
  <2>2. Line[need].of <= request /\ Due - Line[need].of <= failures
    BY <1>4 DEF Queue
  <2> QED BY <1>6, <2>1, <2>2
<1>8. ASSUME NEW i \in 1 .. Len(Line')
      PROVE  Line'[i].of <= request /\ Due' - Line'[i].of <= failures
  <2>1. Line'[i] = Line[i + need] /\ i + need \in 1 .. Len(Line) /\ need < i + need
    BY <1>2, <1>5
  <2>2. Before(Line[need], Line[i + need])
    BY <1>4, <2>1 DEF Queue, InOrder
  <2>3. n < Line[i + need].of
    BY <1>7, <2>2 DEF Before
  <2>4. Line[i + need].of <= request /\ Line[i + need].of \in Nat
    BY <1>6, <2>1 DEF Queue
  <2>5. Due' - Line[i + need].of <= failures
    BY <1>3, <1>6, <1>7, <2>3, <2>4
  <2> QED BY <2>1, <2>4, <2>5
<1>9. ASSUME NEW j \in 1 .. Len(todo)
      PROVE  todo[j] <= request /\ Due' - todo[j] <= failures
  <2>1. n < todo[j]
    <3>1. Line[need].of < todo[j]
      BY <1>4 DEF Queue
    <3> QED BY <1>7, <3>1
  <2>2. todo[j] <= request /\ todo[j] \in Nat
    BY <1>6 DEF Queue
  <2> QED BY <1>3, <1>6, <1>7, <2>1, <2>2
<1>10. InOrder(Line')
  <2> SUFFICES ASSUME NEW i \in 1 .. Len(Line'), NEW j \in 1 .. Len(Line'), i < j
               PROVE  Before(Line'[i], Line'[j])
    BY DEF InOrder
  <2>1. /\ Line'[i] = Line[i + need] /\ i + need \in 1 .. Len(Line)
        /\ Line'[j] = Line[j + need] /\ j + need \in 1 .. Len(Line) /\ i + need < j + need
    BY <1>2, <1>5
  <2>2. Before(Line[i + need], Line[j + need])
    BY <2>1 DEF Queue, InOrder
  <2> QED BY <2>1, <2>2
<1>11. ASSUME NEW i \in 1 .. Len(Line'), NEW j \in 1 .. Len(todo) PROVE Line'[i].of < todo[j]
  <2>1. Line'[i] = Line[i + need] /\ i + need \in 1 .. Len(Line)
    BY <1>5
  <2>2. Line[i + need].of < todo[j]
    BY <2>1 DEF Queue
  <2> QED BY <2>1, <2>2
<1>12. Queue'
  <2>1. \A i, j \in 1 .. Len(todo) : i < j => todo[i] < todo[j]
    BY DEF Queue
  <2> QED BY <1>1, <1>8, <1>9, <1>10, <1>11, <2>1 DEF Queue
<1> QED BY <1>1, <1>7, <1>12 DEF n

-----------------------------------------------------------------------------
LEMMA QueueInit == Init => Queue
<1> SUFFICES ASSUME Init PROVE Queue
  OBVIOUS
<1>1. rx = <<>> /\ wire = <<>> /\ todo = <<>> /\ host = "idle"
  BY DEF Init
<1>2. Len(Line) = 0
  BY <1>1, LineTypeInit, LineFacts
<1> QED BY <1>1, <1>2 DEF Queue, InOrder

\* Each step but a request, a reply sent and a reply taken only takes from the line.
LEMMA QueueStep == LineType /\ LineType' /\ Queue /\ [Next]_vars => Queue'
<1> SUFFICES ASSUME LineType, LineType', Queue, LineStep PROVE Queue'
  <2>1. UNCHANGED vars => Queue' = Queue
    BY DEF vars, Queue, InOrder, Line, Due
  <2> QED BY <2>1 DEF Next
<1>0. request \in Nat /\ failures \in Nat /\ need \in Nat
  BY DEF LineType
<1>1. CASE ServoAnswers
  BY <1>1, QueueGrows
<1>2. CASE ByteArrives
  <2>1. Drops(0)
    BY <1>2, DropsNone
  <2>2. UNCHANGED <<host, todo, request, failures, need>> /\ Due' = Due
    BY <1>2 DEF ByteArrives, Due
  <2>3. failures' >= failures /\ Due' - Due <= failures' - failures
    BY <1>0, <2>2 DEF Due
  <2>4. host' = "remain" => need' > 0
    BY <2>2 DEF Queue
  <2> QED BY <2>1, <2>2, <2>3, <2>4, QueueShrinks
<1>3. CASE Send
  BY <1>3, QueueSends
<1>4. CASE Broadcast
  <2>1. Drops(Len(rx))
    BY <1>4, DropsAll DEF Broadcast
  <2>2. UNCHANGED <<host, todo, request, failures, need>> /\ Due' = Due
    BY <1>4 DEF Broadcast, Due
  <2>3. failures' >= failures /\ Due' - Due <= failures' - failures
    BY <1>0, <2>2 DEF Due
  <2>4. host' = "remain" => need' > 0
    BY <2>2 DEF Queue
  <2> QED BY <2>1, <2>2, <2>3, <2>4, QueueShrinks
\* A request that has failed, or of which more is to be read.
<1>5. ASSUME NEW k, Drops(k), UNCHANGED <<todo, request>>, host # "idle", host' = "remain" => need' > 0,
             (failures' = failures /\ host' # "idle") \/ (failures' = failures + 1 /\ host' = "idle")
      PROVE  Queue'
  <2>1. failures' >= failures /\ Due' - Due <= failures' - failures
    BY <1>0, <1>5 DEF Due
  <2> QED BY <1>5, <2>1, QueueShrinks
<1>6. CASE ReadHeader
  <2>1. Drops(2)
    BY <1>6, DropsRead DEF ReadHeader
  <2> QED BY <1>5, <1>6, <2>1 DEF ReadHeader, GiveUp
<1>7. CASE ReadId \/ ReadLength
  <2>1. Drops(1)
    BY <1>7, DropsRead DEF ReadId, ReadLength
  <2>2. host' = "remain" => need' > 0
    BY <1>7 DEF ReadId, ReadLength, DataLength
  <2> QED BY <1>5, <1>7, <2>1, <2>2 DEF ReadId, ReadLength
<1>8. CASE ReadRemain
  <2>1. CASE Whole(raw \o SubSeq(rx, 1, need))
    BY <1>8, <2>1, QueueTakes
  <2>2. CASE ~Whole(raw \o SubSeq(rx, 1, need))
    <3>1. Drops(need)
      BY <1>0, <1>8, DropsRead DEF ReadRemain
    <3> QED BY <1>5, <1>8, <2>2, <3>1 DEF ReadRemain, GiveUp
  <2> QED BY <2>1, <2>2
<1>9. CASE Timeout
  <2>1. Drops(Len(rx))
    BY <1>9, DropsAll DEF Timeout
  <2>2. host # "idle"
    BY <1>9 DEF Timeout, Missing
  <2> QED BY <1>5, <1>9, <2>1, <2>2 DEF Timeout, GiveUp
<1> QED BY <1>1, <1>2, <1>3, <1>4, <1>6, <1>7, <1>8, <1>9 DEF LineStep, Receive

LEMMA StaleStep == LineType /\ LineType' /\ Queue /\ StaleByFailures /\ [Next]_vars => StaleByFailures'
<1> SUFFICES ASSUME LineType, LineType', Queue, StaleByFailures, LineStep PROVE StaleByFailures'
  BY DEF Next, vars, StaleByFailures
<1>0. request \in Nat /\ failures \in Nat /\ answer \in Nat
  BY DEF LineType
<1>1. CASE Send
  BY <1>1 DEF Send, StaleByFailures
<1>2. CASE ReadRemain /\ Whole(raw \o SubSeq(rx, 1, need))
  <2>1. request - answer' <= failures' /\ request' = request
    BY <1>2, QueueTakes DEF ReadRemain
  <2> QED BY <2>1 DEF StaleByFailures
<1>3. CASE ~Send /\ ~(ReadRemain /\ Whole(raw \o SubSeq(rx, 1, need)))
  <2>1. answer' = answer /\ request' = request /\ failures' \in {failures, failures + 1}
    BY <1>3 DEF LineStep, Receive, ServoAnswers, ByteArrives, Broadcast, ReadHeader, ReadId, ReadLength,
                ReadRemain, Timeout, GiveUp
  <2> QED BY <1>0, <2>1 DEF StaleByFailures
<1> QED BY <1>1, <1>2, <1>3

\* A reading is never more requests old than requests have failed, whatever the
\* delays and losses on the line.
THEOREM FailuresBoundAge == Spec => []StaleByFailures
<1>1. Spec => []LineType
  BY LineTypeInit, LineTypeStep, PTL DEF Spec
<1>2. Init => StaleByFailures
  BY DEF Init, StaleByFailures
<1> QED BY <1>1, <1>2, QueueInit, QueueStep, StaleStep, PTL DEF Spec

-----------------------------------------------------------------------------
(* The calibration tables *)

\* What the conversions need of a table: openings grow and positions fall from
\* point to point, a count is worth at least two micrometres, and every position
\* is one that the servo takes.
Calibration(t) ==
  /\ Len(t) \in Nat /\ Len(t) >= 2
  /\ \A i \in 1 .. Len(t) : t[i][1] \in Nat /\ t[i][2] \in Nat /\ t[i][2] <= 4096
  /\ \A i \in Stretches(t) :
       /\ Mm(t[i]) < Mm(t[i + 1]) /\ Pos(t[i + 1]) < Pos(t[i])
       /\ 2 * (Pos(t[i]) - Pos(t[i + 1])) <= Mm(t[i + 1]) - Mm(t[i])

LEMMA CalibratedTables == Calibration(Table100) /\ Calibration(Table50)
<1>1. Len(Table100) = 11 /\ Len(Table50) = 11
  BY DEF Table100, Table50
<1>a. ASSUME NEW i \in 1 .. 11 PROVE Table100[i][1] \in Nat /\ Table100[i][2] \in Nat /\ Table100[i][2] <= 4096
  BY DEF Table100
<1>b. ASSUME NEW i \in 1 .. 11 PROVE Table50[i][1] \in Nat /\ Table50[i][2] \in Nat /\ Table50[i][2] <= 4096
  BY DEF Table50
<1>2. ASSUME NEW i \in 1 .. 10
      PROVE  /\ Mm(Table100[i]) < Mm(Table100[i + 1]) /\ Pos(Table100[i + 1]) < Pos(Table100[i])
             /\ 2 * (Pos(Table100[i]) - Pos(Table100[i + 1])) <= Mm(Table100[i + 1]) - Mm(Table100[i])
  BY DEF Table100, Mm, Pos
<1>3. ASSUME NEW i \in 1 .. 10
      PROVE  /\ Mm(Table50[i]) < Mm(Table50[i + 1]) /\ Pos(Table50[i + 1]) < Pos(Table50[i])
             /\ 2 * (Pos(Table50[i]) - Pos(Table50[i + 1])) <= Mm(Table50[i + 1]) - Mm(Table50[i])
  BY DEF Table50, Mm, Pos
<1>4. Stretches(Table100) = 1 .. 10 /\ Stretches(Table50) = 1 .. 10
  BY <1>1 DEF Stretches
<1>5. Calibration(Table100)
  BY <1>1, <1>a, <1>2, <1>4 DEF Calibration
<1>6. Calibration(Table50)
  BY <1>1, <1>b, <1>3, <1>4 DEF Calibration
<1> QED BY <1>5, <1>6

LEMMA PointType ==
  ASSUME NEW t, Calibration(t)
  PROVE  /\ Len(t) \in Nat /\ \A i \in 1 .. Len(t) : Mm(t[i]) \in Nat /\ Pos(t[i]) \in Nat /\ Pos(t[i]) <= 4096
         /\ \A i \in Stretches(t) :
              /\ i \in 1 .. Len(t) /\ i + 1 \in 1 .. Len(t)
              /\ Mm(t[i]) \in Nat /\ Mm(t[i + 1]) \in Nat
              /\ Pos(t[i]) \in Nat /\ Pos(t[i + 1]) \in Nat
<1>1. Len(t) \in Nat /\ \A i \in 1 .. Len(t) : Mm(t[i]) \in Nat /\ Pos(t[i]) \in Nat /\ Pos(t[i]) <= 4096
  BY DEF Calibration, Mm, Pos
<1>2. \A i \in Stretches(t) : i \in 1 .. Len(t) /\ i + 1 \in 1 .. Len(t)
  BY <1>1 DEF Stretches
<1> QED BY <1>1, <1>2

\* What holds from point to point holds from any point to any later one.
LEMMA PointsInOrder ==
  ASSUME NEW t, Calibration(t), NEW i \in 1 .. Len(t), NEW j \in 1 .. Len(t), i < j
  PROVE  Mm(t[i]) < Mm(t[j]) /\ Pos(t[j]) < Pos(t[i])
<1> DEFINE S == {n \in Nat : \A k \in 1 .. Len(t) :
                   i < k /\ k <= i + 1 + n => Mm(t[i]) < Mm(t[k]) /\ Pos(t[k]) < Pos(t[i])}
<1>0. Len(t) \in Nat /\ \A k \in 1 .. Len(t) : Mm(t[k]) \in Nat /\ Pos(t[k]) \in Nat
  BY PointType
<1>a. \A k \in 1 .. Len(t) : k + 1 <= Len(t) => Mm(t[k]) < Mm(t[k + 1]) /\ Pos(t[k + 1]) < Pos(t[k])
  BY <1>0 DEF Calibration, Stretches
<1>1. 0 \in S
  BY <1>0, <1>a
<1>2. ASSUME NEW n \in Nat, n \in S PROVE n + 1 \in S
  <2> SUFFICES ASSUME NEW k \in 1 .. Len(t), i < k, k <= i + 1 + (n + 1)
               PROVE  Mm(t[i]) < Mm(t[k]) /\ Pos(t[k]) < Pos(t[i])
    OBVIOUS
  <2>1. CASE k <= i + 1 + n
    BY <1>2, <2>1
  <2>2. CASE k = i + 2 + n
    <3> DEFINE h == k - 1
    <3>1. h \in 1 .. Len(t) /\ h + 1 = k /\ i < h /\ h <= i + 1 + n
      BY <1>0, <2>2
    <3> HIDE DEF h
    <3>2. Mm(t[i]) < Mm(t[h]) /\ Pos(t[h]) < Pos(t[i])
      BY <1>2, <3>1
    <3>3. Mm(t[h]) < Mm(t[k]) /\ Pos(t[k]) < Pos(t[h])
      BY <1>a, <3>1
    <3> QED BY <1>0, <3>1, <3>2, <3>3
  <2> QED BY <2>1, <2>2, <1>0
<1> HIDE DEF S
<1>3. Nat \subseteq S
  BY <1>1, <1>2, ByInduction
<1>4. j - i - 1 \in Nat
  BY <1>0
<1> QED BY <1>3, <1>4, <1>0 DEF S

LEMMA FirstOfFacts ==
  ASSUME NEW S, S \subseteq Nat, S # {}
  PROVE  FirstOf(S) \in S /\ \A j \in S : FirstOf(S) <= j
BY LeastNatural DEF FirstOf

-----------------------------------------------------------------------------
(* Rounding and interpolation *)

\* Round is the nearest integer, to half a unit.
LEMMA RoundIs ==
  ASSUME NEW n \in Int, NEW d \in Nat \ {0}
  PROVE  /\ Round(n, d) \in Int
         /\ 2 * (d * Round(n, d)) <= 2 * n + d /\ 2 * n < 2 * (d * Round(n, d)) + d
<1> DEFINE q == (2 * n + d) \div (2 * d)
<1>0. 2 * n + d \in Int /\ 2 * d \in Nat \ {0}
  OBVIOUS
<1>1. q \in Int /\ (2 * d) * q <= 2 * n + d /\ 2 * n + d < (2 * d) * q + 2 * d
  BY <1>0, QuotientFacts
<1> HIDE DEF q
<1>2. (2 * d) * q = 2 * (d * q)
  BY <1>1
<1>3. d * q \in Int
  BY <1>1
<1>4. Round(n, d) = q
  BY DEF Round, q
<1> QED BY <1>1, <1>2, <1>3, <1>4

LEMMA RoundTo ==
  ASSUME NEW n \in Int, NEW d \in Nat \ {0}, NEW q \in Int,
         2 * (d * q) <= 2 * n + d, 2 * n < 2 * (d * q) + d
  PROVE  Round(n, d) = q
<1>1. d * q \in Int /\ (2 * d) * q = 2 * (d * q)
  OBVIOUS
<1>2. (2 * d) * q <= 2 * n + d /\ 2 * n + d < (2 * d) * q + 2 * d
  BY <1>1
<1>3. 2 * d \in Nat \ {0} /\ 2 * n + d \in Int
  OBVIOUS
<1> QED BY <1>2, <1>3, QuotientIs DEF Round

LEMMA RoundExact ==
  ASSUME NEW q \in Int, NEW d \in Nat \ {0}
  PROVE  Round(q * d, d) = q
<1>1. q * d = d * q /\ d * q \in Int
  OBVIOUS
<1>2. 2 * (d * q) <= 2 * (q * d) + d /\ 2 * (q * d) < 2 * (d * q) + d
  BY <1>1
<1> QED BY <1>1, <1>2, RoundTo

LEMMA RoundBetween ==
  ASSUME NEW n \in Int, NEW d \in Nat \ {0}, NEW l \in Int, NEW h \in Int, d * l <= n, n <= d * h
  PROVE  Round(n, d) \in l .. h
<1> DEFINE q == Round(n, d)
<1>1. q \in Int /\ 2 * (d * q) <= 2 * n + d /\ 2 * n < 2 * (d * q) + d
  BY RoundIs
<1> HIDE DEF q
<1>2. ~(q < l)
  <2> SUFFICES ASSUME q < l PROVE FALSE
    OBVIOUS
  <2>1. d * (q + 1) <= d * l /\ d * (q + 1) = d * q + d
    BY <1>1, ProductGrows
  <2> QED BY <1>1, <2>1
<1>3. ~(h < q)
  <2> SUFFICES ASSUME h < q PROVE FALSE
    OBVIOUS
  <2>1. d * (h + 1) <= d * q /\ d * (h + 1) = d * h + d
    BY <1>1, ProductGrows
  <2> QED BY <1>1, <2>1
<1> QED BY <1>1, <1>2, <1>3 DEF q

\* The chord over stretch i, at an opening: what interpolate rounds.
Width(t, i) == Mm(t[i + 1]) - Mm(t[i])
Chord(value, t, i) == Pos(t[i]) * Width(t, i) + (value - Mm(t[i])) * (Pos(t[i + 1]) - Pos(t[i]))

LEMMA ChordFacts ==
  ASSUME NEW t, Calibration(t), NEW i \in Stretches(t), NEW value \in Mm(t[i]) .. Mm(t[i + 1])
  PROVE  /\ Width(t, i) \in Nat \ {0} /\ value \in Int
         /\ Chord(value, t, i) \in Int
         /\ Width(t, i) * Pos(t[i + 1]) <= Chord(value, t, i)
         /\ Chord(value, t, i) <= Width(t, i) * Pos(t[i])
<1> DEFINE d == Width(t, i)
           k == value - Mm(t[i])
           P == Pos(t[i]) - Pos(t[i + 1])
<1>1. Mm(t[i]) \in Nat /\ Mm(t[i + 1]) \in Nat /\ Pos(t[i]) \in Nat /\ Pos(t[i + 1]) \in Nat
  BY PointType
<1>2. d \in Nat \ {0} /\ P \in Nat \ {0} /\ k \in Nat /\ k <= d
  <2>1. Mm(t[i]) < Mm(t[i + 1]) /\ Pos(t[i + 1]) < Pos(t[i])
    BY DEF Calibration
  <2> QED BY <1>1, <2>1 DEF Width
<1>3. Chord(value, t, i) = Pos(t[i]) * d + k * (Pos(t[i + 1]) - Pos(t[i]))
  BY DEF Chord
<1> HIDE DEF d, k
<1>4. k * (Pos(t[i + 1]) - Pos(t[i])) = -(P * k) /\ P * k \in Nat
  BY <1>1, <1>2
<1>5. P * k <= P * d
  BY <1>2, ProductGrows
<1>6. Pos(t[i]) * d = d * Pos(t[i]) /\ P * d = d * Pos(t[i]) - d * Pos(t[i + 1])
  BY <1>1, <1>2
<1>7. d * Pos(t[i]) \in Int /\ d * Pos(t[i + 1]) \in Int
  BY <1>1, <1>2
<1>8. value \in Int
  BY <1>1
<1> HIDE DEF P
<1> QED BY <1>2, <1>3, <1>4, <1>5, <1>6, <1>7, <1>8 DEF d

\* At the ends of a stretch the chord gives the calibration points.
LEMMA ChordEnds ==
  ASSUME NEW t, Calibration(t), NEW i \in Stretches(t)
  PROVE  /\ Round(Chord(Mm(t[i]), t, i), Width(t, i)) = Pos(t[i])
         /\ Round(Chord(Mm(t[i + 1]), t, i), Width(t, i)) = Pos(t[i + 1])
<1> DEFINE d == Width(t, i)
<1>1. Mm(t[i]) \in Nat /\ Mm(t[i + 1]) \in Nat /\ Pos(t[i]) \in Nat /\ Pos(t[i + 1]) \in Nat
  BY PointType
<1>2. d \in Nat \ {0}
  BY <1>1 DEF Calibration, Width
<1>3. Chord(Mm(t[i]), t, i) = Pos(t[i]) * d
  BY <1>1, <1>2 DEF Chord
<1>4. Chord(Mm(t[i + 1]), t, i) = Pos(t[i]) * d + d * (Pos(t[i + 1]) - Pos(t[i]))
  BY DEF Chord, Width
<1> HIDE DEF d
<1>5. Pos(t[i]) * d + d * (Pos(t[i + 1]) - Pos(t[i])) = Pos(t[i + 1]) * d
  BY <1>1, <1>2
<1>6. Round(Chord(Mm(t[i]), t, i), d) = Pos(t[i])
  BY <1>1, <1>2, <1>3, RoundExact
<1>7. Round(Chord(Mm(t[i + 1]), t, i), d) = Pos(t[i + 1])
  BY <1>1, <1>2, <1>4, <1>5, RoundExact
<1> QED BY <1>6, <1>7 DEF d

\* At a point where two stretches meet, or an end of the table, whichever branch
\* of interpolate_ is taken: the result is the chord of any stretch with the opening.
LEMMA InterpolateIn ==
  ASSUME NEW t, Calibration(t), NEW i \in Stretches(t), NEW value \in Mm(t[i]) .. Mm(t[i + 1])
  PROVE  interpolate(value, t) = Round(Chord(value, t, i), Width(t, i))
<1> DEFINE n == Len(t)
           S == {j \in Stretches(t) : value \in Mm(t[j]) .. Mm(t[j + 1])}
           f == FirstOf(S)
<1>0. /\ n \in Nat /\ n >= 2 /\ i \in 1 .. n /\ i + 1 \in 1 .. n /\ 1 \in 1 .. n /\ n \in 1 .. n
      /\ \A j \in 1 .. n : Mm(t[j]) \in Nat
  BY PointType DEF Calibration
<1>1. Mm(t[i]) \in Nat /\ Mm(t[i + 1]) \in Nat /\ value \in Int /\ Mm(t[i]) <= value /\ value <= Mm(t[i + 1])
  BY <1>0
<1>2. CASE value <= Mm(FirstPoint(t))
  <2>1. ~(1 < i)
    <3> SUFFICES ASSUME 1 < i PROVE FALSE
      OBVIOUS
    <3>1. Mm(t[1]) < Mm(t[i])
      BY <1>0, PointsInOrder
    <3> QED BY <1>0, <1>1, <1>2, <3>1 DEF FirstPoint
  <2>2. i = 1
    BY <1>0, <2>1
  <2>3. value = Mm(t[i])
    BY <1>0, <1>1, <1>2, <2>2 DEF FirstPoint
  <2>4. interpolate(value, t) = Pos(t[i])
    BY <1>2, <2>2 DEF interpolate, FirstPoint
  <2> QED BY <2>3, <2>4, ChordEnds
<1>3. CASE ~(value <= Mm(FirstPoint(t))) /\ value >= Mm(LastPoint(t))
  <2>1. ~(i + 1 < n)
    <3> SUFFICES ASSUME i + 1 < n PROVE FALSE
      OBVIOUS
    <3>1. Mm(t[i + 1]) < Mm(t[n])
      BY <1>0, PointsInOrder
    <3> QED BY <1>0, <1>1, <1>3, <3>1 DEF LastPoint
  <2>2. i + 1 = n
    BY <1>0, <2>1
  <2>3. value = Mm(t[i + 1])
    BY <1>0, <1>1, <1>3, <2>2 DEF LastPoint
  <2>4. interpolate(value, t) = Pos(t[i + 1])
    BY <1>3, <2>2 DEF interpolate, LastPoint
  <2> QED BY <2>3, <2>4, ChordEnds
<1>4. CASE ~(value <= Mm(FirstPoint(t))) /\ ~(value >= Mm(LastPoint(t)))
  <2>1. i \in S /\ S \subseteq Nat
    BY <1>0 DEF Stretches
  <2>2. f \in S /\ f <= i
    BY <2>1, FirstOfFacts
  <2>3. /\ f \in Stretches(t) /\ f \in 1 .. n /\ f + 1 \in 1 .. n /\ f \in Nat
        /\ value \in Mm(t[f]) .. Mm(t[f + 1]) /\ value <= Mm(t[f + 1])
    <3>1. f \in Stretches(t) /\ value \in Mm(t[f]) .. Mm(t[f + 1])
      BY <2>2
    <3>2. f \in 1 .. n /\ f + 1 \in 1 .. n /\ Mm(t[f]) \in Nat /\ Mm(t[f + 1]) \in Nat
      BY <3>1, PointType
    <3> HIDE DEF f
    <3> QED BY <1>0, <3>1, <3>2
  <2>4. interpolate(value, t) = Round(Chord(value, t, f), Width(t, f))
    BY <1>4 DEF interpolate, Chord, Width
  <2> HIDE DEF f, S
  <2>5. CASE f = i
    BY <2>4, <2>5
  <2>6. CASE f < i
    <3>1. ~(f + 1 < i)
      <4> SUFFICES ASSUME f + 1 < i PROVE FALSE
        OBVIOUS
      <4>1. Mm(t[f + 1]) < Mm(t[i])
        BY <1>0, <2>3, PointsInOrder
      <4> QED BY <1>0, <1>1, <2>3, <4>1
    <3>2. i = f + 1
      BY <1>0, <2>3, <2>6, <3>1
    <3>3. value = Mm(t[f + 1]) /\ value = Mm(t[i])
      BY <1>0, <1>1, <2>3, <3>2
    <3>4. interpolate(value, t) = Pos(t[f + 1])
      BY <2>3, <2>4, <3>3, ChordEnds
    <3>5. Round(Chord(value, t, i), Width(t, i)) = Pos(t[i])
      BY <3>3, ChordEnds
    <3> QED BY <3>2, <3>4, <3>5
  <2>7. f = i \/ f < i
    BY <1>0, <2>2, <2>3
  <2> QED BY <2>5, <2>6, <2>7
<1> QED BY <1>2, <1>3, <1>4

\* An opening within the table is sent to a position the servo takes: nothing is clamped.
LEMMA SentTo ==
  ASSUME NEW t, Calibration(t), NEW i \in Stretches(t), NEW value \in Mm(t[i]) .. Mm(t[i + 1])
  PROVE  /\ ToServo(value, t) = Round(Chord(value, t, i), Width(t, i))
         /\ ToServo(value, t) \in Pos(t[i + 1]) .. Pos(t[i])
<1> DEFINE q == Round(Chord(value, t, i), Width(t, i))
<1>1. /\ i \in 1 .. Len(t) /\ i + 1 \in 1 .. Len(t)
      /\ Pos(t[i]) \in Nat /\ Pos(t[i]) <= 4096 /\ Pos(t[i + 1]) \in Nat
  <2>1. i \in 1 .. Len(t) /\ i + 1 \in 1 .. Len(t)
    BY PointType
  <2> QED BY <2>1, PointType
<1>2. q \in Pos(t[i + 1]) .. Pos(t[i])
  <2>1. /\ Width(t, i) \in Nat \ {0} /\ Chord(value, t, i) \in Int
        /\ Width(t, i) * Pos(t[i + 1]) <= Chord(value, t, i)
        /\ Chord(value, t, i) <= Width(t, i) * Pos(t[i])
    BY ChordFacts
  <2>2. Pos(t[i]) \in Int /\ Pos(t[i + 1]) \in Int
    BY <1>1
  <2> QED BY <2>1, <2>2, RoundBetween
<1>3. interpolate(value, t) = q
  BY InterpolateIn
<1> HIDE DEF q
<1>4. ClampPos(q) = q
  BY <1>1, <1>2 DEF ClampPos
<1>5. ToServo(value, t) = q
  BY <1>3, <1>4 DEF ToServo
<1> QED BY <1>2, <1>5 DEF q

LEMMA OnCurveOf ==
  ASSUME NEW t, Calibration(t), NEW opening \in Int
  PROVE  OnCurve(ToServo(opening, t), opening, t)
<1> DEFINE p == ToServo(opening, t)
<1> SUFFICES ASSUME NEW i \in Stretches(t), opening \in Mm(t[i]) .. Mm(t[i + 1])
             PROVE  2 * Distance(Width(t, i) * (p - Pos(t[i])),
                                 (opening - Mm(t[i])) * (Pos(t[i + 1]) - Pos(t[i]))) <= Width(t, i)
  BY DEF OnCurve, Width
<1> DEFINE d == Width(t, i)
           c == Chord(opening, t, i)
           e == (opening - Mm(t[i])) * (Pos(t[i + 1]) - Pos(t[i]))
<1>1. Pos(t[i]) \in Nat /\ Pos(t[i + 1]) \in Nat /\ Mm(t[i]) \in Nat
  BY PointType
<1>2. d \in Nat \ {0} /\ c \in Int /\ e \in Int
  BY <1>1, ChordFacts
<1>3. p = Round(c, d)
  BY SentTo
<1>4. c = Pos(t[i]) * d + e
  BY DEF Chord
<1> HIDE DEF p, d, c, e
<1>5. p \in Int /\ 2 * (d * p) <= 2 * c + d /\ 2 * c < 2 * (d * p) + d
  BY <1>2, <1>3, RoundIs
<1>6. d * (p - Pos(t[i])) = d * p - Pos(t[i]) * d /\ d * p \in Int /\ Pos(t[i]) * d \in Int
  BY <1>1, <1>2, <1>5
<1>7. 2 * (d * (p - Pos(t[i])) - e) <= d /\ 2 * (e - d * (p - Pos(t[i]))) <= d
  BY <1>2, <1>4, <1>5, <1>6
<1>8. d * (p - Pos(t[i])) \in Int
  BY <1>6
<1>9. 2 * Distance(d * (p - Pos(t[i])), e) <= d
  BY <1>2, <1>7, <1>8 DEF Distance
<1> QED BY <1>9 DEF d, e

-----------------------------------------------------------------------------
(* The way back *)

\* Between the ends of the table every position lies in a stretch.
LEMMA Covered ==
  ASSUME NEW t, Calibration(t), NEW c \in Nat, Pos(LastPoint(t)) <= c, c <= Pos(FirstPoint(t))
  PROVE  \E i \in Stretches(t) : c \in Pos(t[i + 1]) .. Pos(t[i])
<1> DEFINE T == {i \in Stretches(t) : Pos(t[i + 1]) <= c}
<1>0. Len(t) \in Nat /\ Len(t) >= 2
  BY DEF Calibration
<1>1. PICK l \in Stretches(t) : l + 1 = Len(t)
  <2>1. Len(t) - 1 \in Stretches(t) /\ (Len(t) - 1) + 1 = Len(t)
    BY <1>0 DEF Stretches
  <2> QED BY <2>1
<1>2. l \in T
  BY <1>1 DEF LastPoint
<1>3. T \subseteq Nat /\ T # {}
  <2>1. Stretches(t) \subseteq Nat
    BY <1>0 DEF Stretches
  <2> QED BY <1>2, <2>1
<1>4. PICK i \in T : \A j \in T : i <= j
  BY <1>3, LeastNatural
<1>5. /\ i \in Stretches(t) /\ i \in 1 .. Len(t) /\ i + 1 \in 1 .. Len(t)
      /\ Pos(t[i]) \in Nat /\ Pos(t[i + 1]) \in Nat /\ Pos(t[i + 1]) <= c
  <2>1. i \in Stretches(t) /\ Pos(t[i + 1]) <= c
    BY <1>4
  <2> QED BY <2>1, PointType
<1>6. CASE i = 1
  BY <1>5, <1>6 DEF FirstPoint
<1>7. CASE i # 1
  <2>1. i - 1 \in Stretches(t) /\ (i - 1) + 1 = i /\ ~(i <= i - 1)
    BY <1>0, <1>5, <1>7 DEF Stretches
  <2>2. i - 1 \notin T
    BY <1>4, <2>1
  <2>3. ~(Pos(t[i]) <= c)
    BY <2>1, <2>2
  <2> QED BY <1>5, <2>3
<1> QED BY <1>6, <1>7

\* The opening a position stands for, and the position that opening is sent to.
LEMMA ThereAndBack ==
  ASSUME NEW k \in Nat, NEW P \in Nat \ {0}, NEW D \in Nat \ {0}, k <= P, 2 * P <= D,
         NEW a \in Int
  PROVE  /\ (k * D) \div P \in 0 .. D
         /\ Round(a * D + ((k * D) \div P) * (-P), D) = a - k
<1> DEFINE m == (k * D) \div P
<1>0. k * D \in Nat /\ D * k = k * D
  OBVIOUS
<1>1. m \in Int /\ P * m <= k * D /\ k * D < P * m + P
  BY <1>0, QuotientFacts
<1> HIDE DEF m
<1>2. ~(m < 0)
  <2> SUFFICES ASSUME m < 0 PROVE FALSE
    OBVIOUS
  <2>1. P * (m + 1) <= P * 0 /\ P * (m + 1) = P * m + P
    BY <1>1, ProductGrows
  <2> QED BY <1>0, <1>1, <2>1
<1>3. ~(D < m)
  <2> SUFFICES ASSUME D < m PROVE FALSE
    OBVIOUS
  <2>1. P * (D + 1) <= P * m /\ P * (D + 1) = P * D + P
    BY <1>1, ProductGrows
  <2>2. D * k <= D * P /\ D * P = P * D
    BY ProductGrows
  <2> QED BY <1>0, <1>1, <2>1, <2>2
<1>4. m * (-P) = -(P * m) /\ P * m \in Int /\ a * D \in Int
  BY <1>1
<1>5. D * (a - k) = a * D - k * D
  BY <1>0
<1> DEFINE n == a * D + m * (-P)
<1>6. n = a * D - P * m /\ n \in Int
  BY <1>4
<1> HIDE DEF n
<1>7. 2 * (D * (a - k)) <= 2 * n + D /\ 2 * n < 2 * (D * (a - k)) + D
  BY <1>0, <1>1, <1>4, <1>5, <1>6
<1>8. a - k \in Int
  OBVIOUS
<1>9. Round(n, D) = a - k
  BY <1>6, <1>7, <1>8, RoundTo
<1> QED BY <1>1, <1>2, <1>3, <1>9 DEF m, n

LEMMA HeldWithin ==
  ASSUME NEW t, Calibration(t), NEW c \in Nat, Pos(LastPoint(t)) <= c, c <= Pos(FirstPoint(t))
  PROVE  ToServo(inverse_interpolate_mm(c, t), t) = c
<1> DEFINE S == {j \in Stretches(t) : c \in Pos(t[j + 1]) .. Pos(t[j])}
           i == FirstOf(S)
<1>0. Len(t) \in Nat
  BY DEF Calibration
<1>1. S # {} /\ S \subseteq Nat
  <2>1. \E j \in Stretches(t) : c \in Pos(t[j + 1]) .. Pos(t[j])
    BY Covered
  <2>2. Stretches(t) \subseteq Nat
    BY <1>0 DEF Stretches
  <2> QED BY <2>1, <2>2
<1>2. i \in Stretches(t) /\ c \in Pos(t[i + 1]) .. Pos(t[i])
  BY <1>1, FirstOfFacts
<1> DEFINE k == Pos(t[i]) - c
           P == Pos(t[i]) - Pos(t[i + 1])
           D == Width(t, i)
           m == (k * D) \div P
<1>3. inverse_interpolate_mm(c, t) = Mm(t[i]) + m
  BY <1>1 DEF inverse_interpolate_mm, Width
<1> HIDE DEF i, S
<1>4. Mm(t[i]) \in Nat /\ Mm(t[i + 1]) \in Nat /\ Pos(t[i]) \in Nat /\ Pos(t[i + 1]) \in Nat
  BY <1>2, PointType
<1>5. k \in Nat /\ P \in Nat \ {0} /\ D \in Nat \ {0} /\ k <= P /\ 2 * P <= D
  <2>1. Mm(t[i]) < Mm(t[i + 1]) /\ Pos(t[i + 1]) < Pos(t[i])
        /\ 2 * (Pos(t[i]) - Pos(t[i + 1])) <= Mm(t[i + 1]) - Mm(t[i])
    BY <1>2 DEF Calibration
  <2> QED BY <1>2, <1>4, <2>1 DEF Width
<1>6. m \in 0 .. D /\ Round(Pos(t[i]) * D + m * (-P), D) = Pos(t[i]) - k
  <2> HIDE DEF k, P, D
  <2>1. Pos(t[i]) \in Int
    BY <1>4
  <2> QED BY <1>5, <2>1, ThereAndBack DEF m
<1>7. D = Mm(t[i + 1]) - Mm(t[i])
  BY DEF Width
<1>8. Pos(t[i]) - k = c /\ -P = Pos(t[i + 1]) - Pos(t[i])
  BY <1>4
<1> HIDE DEF m, k, D, P
<1> DEFINE value == Mm(t[i]) + m
<1>9. value \in Mm(t[i]) .. Mm(t[i + 1]) /\ value - Mm(t[i]) = m
  BY <1>4, <1>5, <1>6, <1>7
<1> HIDE DEF value
<1>10. Chord(value, t, i) = Pos(t[i]) * D + m * (-P)
  BY <1>8, <1>9 DEF Chord, D
<1>11. ToServo(value, t) = Round(Chord(value, t, i), D)
  BY <1>2, <1>9, SentTo DEF D
<1> QED BY <1>3, <1>6, <1>8, <1>10, <1>11 DEF value

\* Beyond the table the nearer end is taken, and no stretch holds the position.
LEMMA BeyondTheEnds ==
  ASSUME NEW t, Calibration(t), NEW c \in Int,
         c < Pos(LastPoint(t)) \/ c > Pos(FirstPoint(t))
  PROVE  inverse_interpolate_mm(c, t) =
           IF c < Pos(LastPoint(t)) THEN Mm(LastPoint(t)) ELSE Mm(FirstPoint(t))
<1> DEFINE n == Len(t)
<1>0. n \in Nat /\ n >= 2 /\ 1 \in 1 .. n /\ n \in 1 .. n
  BY DEF Calibration
<1>1. \A j \in 1 .. n : Pos(t[j]) \in Nat
  BY PointType
<1>2. \A j \in 1 .. n : Pos(t[n]) <= Pos(t[j]) /\ Pos(t[j]) <= Pos(t[1])
  <2> SUFFICES ASSUME NEW j \in 1 .. n PROVE Pos(t[n]) <= Pos(t[j]) /\ Pos(t[j]) <= Pos(t[1])
    OBVIOUS
  <2>1. j < n => Pos(t[n]) < Pos(t[j])
    BY <1>0, PointsInOrder
  <2>2. 1 < j => Pos(t[j]) < Pos(t[1])
    BY <1>0, PointsInOrder
  <2>3. Pos(t[n]) \in Nat /\ Pos(t[j]) \in Nat /\ Pos(t[1]) \in Nat
    BY <1>0, <1>1
  <2> QED BY <1>0, <2>1, <2>2, <2>3
<1>3. Pos(t[n]) < Pos(t[1])
  BY <1>0, PointsInOrder
<1>4. {j \in Stretches(t) : c \in Pos(t[j + 1]) .. Pos(t[j])} = {}
  <2> SUFFICES ASSUME NEW j \in Stretches(t), c \in Pos(t[j + 1]) .. Pos(t[j]) PROVE FALSE
    OBVIOUS
  <2>1. j \in 1 .. n /\ j + 1 \in 1 .. n
    BY PointType
  <2>2. Pos(t[n]) <= Pos(t[j + 1]) /\ Pos(t[j]) <= Pos(t[1])
    BY <1>2, <2>1
  <2>3. Pos(t[n]) \in Nat /\ Pos(t[j]) \in Nat /\ Pos(t[1]) \in Nat /\ Pos(t[j + 1]) \in Nat
    BY <1>0, <1>1, <2>1
  <2> QED BY <2>2, <2>3 DEF FirstPoint, LastPoint
<1>5. inverse_interpolate_mm(c, t) = NearerEnd(c, t)
  BY <1>4 DEF inverse_interpolate_mm
<1>6. Pos(t[n]) \in Nat /\ Pos(t[1]) \in Nat
  BY <1>0, <1>1
<1> QED BY <1>3, <1>5, <1>6 DEF NearerEnd, Distance, FirstPoint, LastPoint

LEMMA HoldsStillOf ==
  ASSUME NEW t, Calibration(t), NEW p \in Int
  PROVE  ToServo(ToMm(p, t), t) = Within(p, t)
<1> DEFINE c == ClampPos(p)
           n == Len(t)
<1>0. n \in Nat /\ n >= 2 /\ 1 \in 1 .. n /\ n \in 1 .. n
  BY DEF Calibration
<1>1. Pos(t[n]) \in Nat /\ Pos(t[1]) \in Nat /\ Pos(t[1]) <= 4096 /\ Mm(t[1]) \in Nat /\ Mm(t[n]) \in Nat
  BY <1>0, PointType
<1>2. Pos(t[n]) < Pos(t[1])
  BY <1>0, PointsInOrder
<1>3. c \in Nat
  BY DEF ClampPos
<1>4. Within(p, t) = IF c < Pos(t[n]) THEN Pos(t[n]) ELSE IF c > Pos(t[1]) THEN Pos(t[1]) ELSE c
  BY <1>1, <1>2 DEF Within, ClampPos, FirstPoint, LastPoint
<1> HIDE DEF c
<1>5. CASE Pos(t[n]) <= c /\ c <= Pos(t[1])
  <2>1. ToServo(inverse_interpolate_mm(c, t), t) = c
    BY <1>3, <1>5, HeldWithin DEF FirstPoint, LastPoint
  <2> QED BY <1>1, <1>3, <1>4, <1>5, <2>1 DEF ToMm, c
<1>6. ToServo(Mm(t[1]), t) = Pos(t[1]) /\ ToServo(Mm(t[n]), t) = Pos(t[n])
  <2>1. 1 \in Stretches(t) /\ n - 1 \in Stretches(t) /\ (n - 1) + 1 = n
    BY <1>0 DEF Stretches
  <2> DEFINE l == n - 1
  <2>2. l \in Stretches(t) /\ l + 1 = n
    BY <2>1
  <2> HIDE DEF l
  <2>3. \A j \in Stretches(t) : Mm(t[j]) \in Mm(t[j]) .. Mm(t[j + 1]) /\ Mm(t[j + 1]) \in Mm(t[j]) .. Mm(t[j + 1])
    <3> SUFFICES ASSUME NEW j \in Stretches(t)
                 PROVE  Mm(t[j]) \in Mm(t[j]) .. Mm(t[j + 1]) /\ Mm(t[j + 1]) \in Mm(t[j]) .. Mm(t[j + 1])
      OBVIOUS
    <3>1. Mm(t[j]) < Mm(t[j + 1])
      BY DEF Calibration
    <3>2. Mm(t[j]) \in Nat /\ Mm(t[j + 1]) \in Nat
      BY PointType
    <3> QED BY <3>1, <3>2
  <2>4. ToServo(Mm(t[1]), t) = Pos(t[1])
    BY <2>1, <2>3, SentTo, ChordEnds
  <2>5. ToServo(Mm(t[l + 1]), t) = Pos(t[l + 1])
    BY <2>2, <2>3, SentTo, ChordEnds
  <2> QED BY <2>2, <2>4, <2>5
<1>7. CASE c < Pos(t[n]) \/ c > Pos(t[1])
  <2>1. inverse_interpolate_mm(c, t) = IF c < Pos(t[n]) THEN Mm(t[n]) ELSE Mm(t[1])
    BY <1>3, <1>7, BeyondTheEnds DEF FirstPoint, LastPoint
  <2>2. ToMm(p, t) = IF c < Pos(t[n]) THEN Mm(t[n]) ELSE Mm(t[1])
    BY <2>1 DEF ToMm, c
  <2> QED BY <1>1, <1>2, <1>3, <1>4, <1>6, <1>7, <2>2
<1> QED BY <1>1, <1>3, <1>5, <1>7

-----------------------------------------------------------------------------
\* The table and the position asked about are of the servo, not of the line.
Asked == table \in {Table100, Table50} /\ x \in Int

LEMMA AskedAlways == Spec => []Asked
<1>1. Init => Asked
  BY LineAssumption DEF Init, Asked
<1>2. Asked /\ [Next]_vars => Asked'
  BY DEF Asked, Next, servoVars, vars
<1> QED BY <1>1, <1>2, PTL DEF Spec

\* An opening of any size, within the table or not, is sent to a position on the
\* calibration curve, to half a count: also at the points where two stretches meet.
THEOREM CurveKept == Spec => []OnTheCurve
<1>1. Asked => OnTheCurve
  <2> SUFFICES ASSUME Asked PROVE OnTheCurve
    OBVIOUS
  <2>1. Calibration(table)
    BY CalibratedTables DEF Asked
  <2>2. x * Resolution \in Int
    BY LineAssumption DEF Asked
  <2> QED BY <2>1, <2>2, OnCurveOf DEF OnTheCurve
<1> QED BY <1>1, AskedAlways, PTL

\* Reading an opening and sending it back moves the servo to where it stands, or
\* to the end of the table it is beyond: from every position it may report.
THEOREM StandsStill == Spec => []HoldsStill
<1>1. Asked => HoldsStill
  BY CalibratedTables, HoldsStillOf DEF Asked, HoldsStill
<1> QED BY <1>1, AskedAlways, PTL
=============================================================================
