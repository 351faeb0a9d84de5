------------------------------ MODULE BusServo ------------------------------
(***************************************************************************)
(* The half-duplex serial line between BusServo (gripper.cpp) and the servo:*)
(* send_packet_ drops what has been received and writes a request,          *)
(* receive_packet_ reads a reply piece by piece, each with a time-out.      *)
(* Replies carry no number: the code takes a well-formed one for the answer *)
(* to the request it sent last.                                             *)
(*                                                                          *)
(* A byte is the request it answers and the part it plays in the reply.  A  *)
(* byte of data may look like a header byte, 0xFF.  The checksum is taken to*)
(* reject everything that is not one whole reply.                           *)
(*                                                                          *)
(* The shaft stands anywhere while the line is idle.  The line does not     *)
(* depend on where, so requests are made at some of the positions only.     *)
(***************************************************************************)
EXTENDS ServoCalibration, SequencesExt

CONSTANTS
  MaxRequests,      \* bound: requests sent
  MaxTimeouts,      \* bound: time-outs of readExact
  Resolution,       \* openings are tried in steps of so many micrometres
  Turns,            \* bound: shaft positions, and openings in steps
  Probes            \* bound: the shaft positions at which requests are made

ASSUME LineAssumption ==
  /\ MaxRequests \in Nat /\ MaxTimeouts \in Nat
  /\ Resolution \in Nat \ {0} /\ Turns \subseteq Int /\ Probes \subseteq Turns

VARIABLES
  host,           \* what receive_packet_ reads next, or "idle"
  raw,            \* the bytes of the packet read so far, without the header
  need,           \* the length it announced
  rx,             \* bytes received and not read
  wire,           \* bytes on their way
  todo,           \* requests the servo has not answered
  request,        \* the number of the last request
  answer,         \* the reply returned for it: its number, or 0 for none
  late,           \* history: earlier requests with a reply still to come at Send
  timeouts,       \* time-outs so far
  failures,       \* requests that ended without a reply
  table,          \* the calibration table of the servo
  x               \* position of the shaft, or an opening in steps

servoVars == <<table, x>>
vars == <<host, raw, need, rx, wire, todo, request, answer, late, timeouts, failures, table, x>>

Byte(n, part) == [of |-> n, part |-> part]
DataLength == 2
Body(n, data) ==
  << Byte(n, "id"), Byte(n, "length"), Byte(n, data), Byte(n, data), Byte(n, "checksum") >>
ReplyBytes(n, data) == << Byte(n, "ff"), Byte(n, "ff") >> \o Body(n, data)

Init ==
  /\ host = "idle" /\ raw = <<>> /\ need = 0 /\ rx = <<>> /\ wire = <<>> /\ todo = <<>>
  /\ request = 0 /\ answer = 0 /\ late = {} /\ timeouts = 0 /\ failures = 0
  /\ table \in {Table100, Table50} /\ x \in Turns

-----------------------------------------------------------------------------
(* The servo and the line. *)

ServoAnswers ==
  /\ todo # <<>>
  /\ \E data \in {"data", "ff"} : wire' = wire \o ReplyBytes(Head(todo), data)
  /\ todo' = Tail(todo)
  /\ UNCHANGED <<host, raw, need, rx, request, answer, late, timeouts, failures, table, x>>

ByteArrives ==
  /\ wire # <<>>
  /\ rx' = Append(rx, Head(wire)) /\ wire' = Tail(wire)
  /\ UNCHANGED <<host, raw, need, todo, request, answer, late, timeouts, failures>>

-----------------------------------------------------------------------------
(* BusServo. *)

\* Mutant of Send: what an earlier reply left is not dropped.
SendUnflushed ==
  /\ host = "idle" /\ request < MaxRequests /\ x \in Probes
  /\ request' = request + 1
  /\ todo' = Append(todo, request + 1)
  /\ late' = Range(todo) \cup {byte.of : byte \in Range(wire)}
  /\ host' = "header" /\ raw' = <<>> /\ answer' = 0
  /\ UNCHANGED <<rx, need, wire, timeouts, failures>>

\* Mutant of Send: repeated while no reply has come.
SendAgain ==
  /\ host \in {"idle", "header"} /\ request < MaxRequests /\ x \in Probes
  /\ rx' = <<>>
  /\ request' = request + 1
  /\ todo' = Append(todo, request + 1)
  /\ late' = Range(todo) \cup {byte.of : byte \in Range(wire)}
  /\ host' = "header" /\ raw' = <<>> /\ answer' = 0
  /\ UNCHANGED <<need, wire, timeouts, failures>>

\* A request that is answered (read_data, ping): resetInputBuffer, then write it.
Send ==
  /\ host = "idle" /\ request < MaxRequests /\ x \in Probes
  /\ rx' = <<>>
  /\ request' = request + 1
  /\ todo' = Append(todo, request + 1)
  /\ late' = Range(todo) \cup {byte.of : byte \in Range(wire)}
  /\ host' = "header" /\ raw' = <<>> /\ answer' = 0
  /\ UNCHANGED <<need, wire, timeouts, failures>>

\* A request to every servo (move_servo): no reply comes.
Broadcast ==
  /\ host = "idle"
  /\ rx' = <<>>
  /\ UNCHANGED <<host, raw, need, wire, todo, request, answer, late, timeouts, failures>>

\* readExact: n bytes, once they are there
Read(n) == Len(rx) >= n /\ rx' = SubSeq(rx, n + 1, Len(rx))
GiveUp == host' = "idle" /\ failures' = failures + 1

ReadHeader ==
  /\ host = "header"
  /\ Read(2)
  /\ IF rx[1].part = "ff" /\ rx[2].part = "ff"
       THEN host' = "id" /\ UNCHANGED failures
       ELSE GiveUp
  /\ UNCHANGED <<raw, need, wire, todo, request, answer, late, timeouts>>

ReadId ==
  /\ host = "id"
  /\ Read(1)
  /\ raw' = << rx[1] >>
  /\ host' = "length"
  /\ UNCHANGED <<need, wire, todo, request, answer, late, timeouts, failures>>

\* A byte that is not a length, read as one, may announce any; more than four
\* bytes are as good as never there.
ReadLength ==
  /\ host = "length"
  /\ Read(1)
  /\ raw' = Append(raw, rx[1])
  /\ IF rx[1].part = "length" THEN need' = DataLength + 1 ELSE need' \in 1..4
  /\ host' = "remain"
  /\ UNCHANGED <<wire, todo, request, answer, late, timeouts, failures>>

Whole(packet) == \E n \in 1..MaxRequests, data \in {"data", "ff"} : packet = Body(n, data)

ReadRemain ==
  /\ host = "remain"
  /\ Read(need)
  /\ LET packet == raw \o SubSeq(rx, 1, need)
     IN  IF Whole(packet)
           THEN host' = "idle" /\ answer' = packet[1].of /\ UNCHANGED failures
           ELSE GiveUp /\ UNCHANGED answer
  /\ UNCHANGED <<raw, need, wire, todo, request, late, timeouts>>

Missing ==
  \/ host = "header" /\ Len(rx) < 2
  \/ host \in {"id", "length"} /\ Len(rx) < 1
  \/ host = "remain" /\ Len(rx) < need

\* readExact gives up; the bytes it had read are lost with it.
Timeout ==
  /\ Missing /\ timeouts < MaxTimeouts
  /\ rx' = <<>>
  /\ timeouts' = timeouts + 1
  /\ GiveUp
  /\ UNCHANGED <<raw, need, wire, todo, request, answer, late>>

-----------------------------------------------------------------------------
Receive == ReadHeader \/ ReadId \/ ReadLength \/ ReadRemain
LineStep == ServoAnswers \/ ByteArrives \/ Send \/ Broadcast \/ Receive \/ Timeout
Next == LineStep /\ UNCHANGED servoVars
Spec == Init /\ [][Next]_vars
-----------------------------------------------------------------------------
(* Properties *)

\* A reading (gripper.cpp:408, "the current opening of the servo") is never older
\* than the requests that have failed: it is the answer to the request just sent
\* while none has, and later the backlog of late replies grows only with failures.
StaleByFailures == answer # 0 => request - answer <= failures

\* Dropping the input before a request rules out every reply that had come by
\* then, in whole or in part: only one wholly on its way can be taken instead.
LateRepliesOnly == answer # 0 => answer \in late \cup {request}

\* The position an opening is sent to lies on the calibration curve, to half a
\* count (gripper.cpp:438).
OnTheCurve ==
  OnCurve(ToServo(x * Resolution, table), x * Resolution, table)

\* The gripper thread sends back what it has read (a10_gripper_bridge.cpp:89):
\* that does not move a servo that is within the table, and a servo beyond its
\* ends only to the end.
HoldsStill == ToServo(ToMm(x, table), table) = Within(x, table)
=============================================================================
