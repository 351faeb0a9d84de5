------------------------- MODULE PolicyBridgeProofs -------------------------
(***************************************************************************)
(* The robot's part of the loop implements A10PolicyTcp, and so everything  *)
(* proved there of any clients holds under the Python client, over any      *)
(* number of connections and time-outs.  The only step that is not a stutter*)
(* or literally a step of A10PolicyTcp is a reader committing a batch: that *)
(* is ClientBatch because every request in a connection holds a chunk of    *)
(* Chunks, which is the invariant proved first.                             *)
(*                                                                          *)
(* The rest is about the client: its answers are those of its requests,     *)
(* idle means executed, and what it observes is the arm at rest after all   *)
(* it has sent.                                                             *)
(***************************************************************************)
EXTENDS PolicyBridge, A10PolicyTcpProofs

RequestsOK == inbox \in [Conns -> Request]

LEMMA SendKeepsRequests ==
  ASSUME RequestsOK, NEW request \in Request, Send(request)
  PROVE  RequestsOK'
BY DEF RequestsOK, Send

LEMMA RequestsInit == BridgeInit => RequestsOK
BY DEF BridgeInit, RequestsOK, Request

LEMMA RequestsStep == RequestsOK /\ [BridgeNext]_bridgeVars => RequestsOK'
<1> SUFFICES ASSUME RequestsOK, [BridgeNext]_bridgeVars PROVE RequestsOK'
  OBVIOUS
<1>1. CASE AskState \/ AskStatus
  BY <1>1, SendKeepsRequests DEF AskState, AskStatus, Request
<1>2. CASE InferAndSend
  <2>1. PICK chunk \in Chunks \ {<<>>} : Send([kind |-> "batch", chunk |-> chunk])
    BY <1>2 DEF InferAndSend
  <2>2. [kind |-> "batch", chunk |-> chunk] \in Request
    BY DEF Request
  <2> QED BY <2>1, <2>2, SendKeepsRequests
<1>3. CASE \E c \in Conns : Reader(c)
  <2>1. PICK c \in Conns : inbox' = [inbox EXCEPT ![c] = Nothing]
    BY <1>3 DEF Reader, ServeState, ServeStatus, ServeBatch, Reply
  <2> QED BY <2>1 DEF RequestsOK, Request
<1>4. CASE UNCHANGED inbox
  BY <1>4 DEF RequestsOK
<1>5. GetState \/ GetAck \/ GetStatus \/ Settled \/ InferNothing \/ SocketTimeout
      \/ IdleTimeout \/ StateStep \/ Tick \/ RobotRt \/ OperatorStart \/ OperatorStop
      \/ StopProceeds \/ UNCHANGED bridgeVars => UNCHANGED inbox
  BY DEF GetState, GetAck, GetStatus, Settled, InferNothing, SocketTimeout, IdleTimeout,
         StateStep, StateSample, StateCheck, StatePublish, Tick, RobotRt, OperatorStart,
         OperatorStop, StopProceeds, Receive, netVars, bridgeVars
<1> QED BY <1>1, <1>2, <1>3, <1>4, <1>5
        DEF BridgeNext, ClientStep, ClientChoice

-----------------------------------------------------------------------------
LEMMA BridgeStepIsRobotStep ==
  RequestsOK /\ [BridgeNext]_bridgeVars => [Next]_vars
<1> SUFFICES ASSUME RequestsOK, [BridgeNext]_bridgeVars PROVE [Next]_vars
  OBVIOUS
<1>1. CASE \E c \in Conns : ServeBatch(c)
  <2>1. PICK c \in Conns : ServeBatch(c)
    BY <1>1
  <2>2. inbox[c].chunk \in Chunks
    BY <2>1 DEF ServeBatch, RequestsOK, Request, Nothing
  <2>3. ClientBatch
    BY <2>1, <2>2 DEF ServeBatch, ClientBatch
  <2> QED BY <2>3 DEF Next, Client
<1>2. CASE RobotRt \/ OperatorStart \/ OperatorStop \/ StopProceeds
  BY <1>2 DEF RobotRt, OperatorStart, OperatorStop, StopProceeds, Next, Command
<1>3. ClientStep \/ ClientChoice \/ (\E c \in Conns : ServeState(c) \/ ServeStatus(c))
      \/ StateStep \/ Tick \/ UNCHANGED bridgeVars => UNCHANGED vars
  BY DEF ClientStep, ClientChoice, AskState, GetState, GetAck, AskStatus, GetStatus,
         Settled, InferAndSend, InferNothing, SocketTimeout, IdleTimeout, ServeState,
         ServeStatus, StateStep, StateSample, StateCheck, StatePublish, Tick,
         robotVars, bridgeVars
<1> QED BY <1>1, <1>2, <1>3 DEF BridgeNext, Reader

\* The robot's part of the loop is a behaviour of A10PolicyTcp.
LEMMA LoopImplementsPlan == BridgeSpec => Spec
<1>1. BridgeInit => Init
  BY DEF BridgeInit
<1> QED BY <1>1, RequestsInit, RequestsStep, BridgeStepIsRobotStep, PTL
        DEF BridgeSpec, Spec

\* In the loop too, a keyframe in execution is counted by "remaining" as long
\* as its batch is the newest.
COROLLARY LoopExecutingFront == BridgeSpec => []ExecutingIsFront
BY LoopImplementsPlan, ExecutingFront, PTL

\* In the loop too, the arm follows the newest batch in order.
COROLLARY LoopFollowsNewestPlan == BridgeSpec => FollowsNewestPlan
BY LoopImplementsPlan, Refinement

-----------------------------------------------------------------------------
(* Requests and answers *)

Ages == {"unset", "new", "old"}
Answer == {Nothing} \cup [kind : {"state"}, age : Ages] \cup [kind : {"batch"}, seq : Nat]
            \cup [kind : {"status"}, remaining : Nat]

\* What a request or an answer on the client's connection says of where the client is.
Matches(box) ==
  /\ box.kind = "state" => cl = "awaitState"
  /\ box.kind = "batch" => cl = "awaitAck"
  /\ box.kind = "status" => cl = "awaitStatus"

\* A connection carries one request, or its answer, or nothing; one not opened yet, nothing.
Exchange ==
  /\ outbox \in [Conns -> Answer] /\ robot_q \in Ages /\ current_q \in Ages
  /\ cl \in Awaiting \cup {"observe", "infer", "poll", "settle"}
  /\ opened \in 0..MaxConn /\ sock \in 0..opened
  /\ cl \in Awaiting => sock # 0
  /\ \A c \in Conns : c > opened => inbox[c] = Nothing /\ outbox[c] = Nothing
  /\ \A c \in Conns : c = sock =>
       /\ Matches(inbox[c]) /\ Matches(outbox[c])
       /\ inbox[c] = Nothing \/ outbox[c] = Nothing

LEMMA Kinds ==
  /\ \A b \in Request : b.kind \in {"nothing", "state", "batch", "status"} /\ (b.kind = "nothing" => b = Nothing)
  /\ \A b \in Answer : b.kind \in {"nothing", "state", "batch", "status"} /\ (b.kind = "nothing" => b = Nothing)
  /\ Nothing.kind = "nothing" /\ Nothing \in Request /\ Nothing \in Answer
BY DEF Request, Answer, Nothing

LEMMA ConnsFacts == MaxConn \in Nat /\ \A c \in Conns : c \in Nat /\ c # 0
BY BridgeBoundsAssumption DEF Conns

\* A client that waits for nothing finds its connection empty.
LEMMA NothingPending ==
  ASSUME Exchange, RequestsOK, cl \notin Awaiting, NEW c \in Conns, c = sock
  PROVE  inbox[c] = Nothing /\ outbox[c] = Nothing
<1>1. inbox[c] \in Request /\ outbox[c] \in Answer
  BY DEF Exchange, RequestsOK
<1>2. Matches(inbox[c]) /\ Matches(outbox[c])
  BY DEF Exchange
<1>3. inbox[c].kind \notin {"state", "batch", "status"} /\ outbox[c].kind \notin {"state", "batch", "status"}
  BY <1>2 DEF Matches, Awaiting
<1> QED BY <1>1, <1>3, Kinds

LEMMA ExchangeSends ==
  ASSUME Exchange, RequestsOK, NEW request \in Request, Send(request), cl \notin Awaiting,
         cl' \in Awaiting, Matches(request)', UNCHANGED <<robot_q, current_q>>
  PROVE  Exchange'
<1>1. PICK c \in Conns :
        /\ c = (IF sock = 0 THEN opened + 1 ELSE sock)
        /\ sock' = c /\ opened' = (IF sock = 0 THEN c ELSE opened)
        /\ inbox' = [inbox EXCEPT ![c] = request] /\ outbox' = outbox
  BY DEF Send
<1>2. /\ opened \in 0..MaxConn /\ sock \in 0..opened /\ opened \in Nat /\ sock \in Nat
  BY ConnsFacts DEF Exchange
<1>3. c \in 1..MaxConn /\ c > 0
  BY <1>1 DEF Conns
<1>4. opened' \in 0..MaxConn /\ sock' \in 0..opened' /\ sock' # 0 /\ opened <= opened'
  BY <1>1, <1>2, <1>3
<1>5. outbox[c] = Nothing
  <2>1. CASE sock = 0
    BY <1>1, <1>2, <2>1 DEF Exchange
  <2>2. CASE sock # 0
    BY <1>1, <2>2, NothingPending
  <2> QED BY <2>1, <2>2
<1>6. inbox'[c] = request /\ \A d \in Conns : d # c => inbox'[d] = inbox[d]
  BY <1>1 DEF RequestsOK
<1>7. ASSUME NEW d \in Conns, d > opened' PROVE inbox'[d] = Nothing /\ outbox'[d] = Nothing
  <2>1. d > opened /\ d # c
    BY <1>1, <1>2, <1>4, <1>7, ConnsFacts
  <2> QED BY <1>1, <1>6, <2>1 DEF Exchange
<1>8. Matches(inbox[c])' /\ Matches(outbox[c])'
  <2>1. (inbox[c])' = request /\ (outbox[c])' = Nothing
    BY <1>1, <1>5, <1>6
  <2> QED BY <2>1, Kinds DEF Matches
<1>9. ASSUME NEW d \in Conns, d = sock'
      PROVE  /\ Matches(inbox[d])' /\ Matches(outbox[d])'
             /\ inbox'[d] = Nothing \/ outbox'[d] = Nothing
  BY <1>1, <1>5, <1>8, <1>9
<1> QED BY <1>1, <1>4, <1>7, <1>9 DEF Exchange

\* The client that takes an answer, or has nothing to take, leaves its connection empty.
LEMMA ExchangeRests ==
  ASSUME Exchange, RequestsOK, UNCHANGED <<sock, opened, robot_q, current_q, inbox>>,
         cl' \in {"observe", "infer", "poll", "settle"},
         (cl \in Awaiting /\ Receive) \/ (cl \notin Awaiting /\ UNCHANGED outbox)
  PROVE  Exchange'
<1>1. cl' \notin Awaiting
  BY DEF Awaiting
<1>2. ASSUME NEW c \in Conns, c = sock PROVE inbox[c] = Nothing /\ outbox'[c] = Nothing
  <2>1. CASE cl \notin Awaiting /\ UNCHANGED outbox
    BY <1>2, <2>1, NothingPending
  <2>2. CASE Receive
    <3>1. outbox[c] # Nothing /\ outbox'[c] = Nothing
      BY <1>2, <2>2 DEF Receive, Exchange
    <3> QED BY <1>2, <3>1 DEF Exchange
  <2> QED BY <2>1, <2>2
<1>3. /\ outbox' \in [Conns -> Answer]
      /\ \A c \in Conns : outbox'[c] = outbox[c] \/ outbox'[c] = Nothing
  <2>1. CASE UNCHANGED outbox
    BY <2>1 DEF Exchange
  <2>2. CASE Receive
    BY <2>2, Kinds DEF Receive, Exchange
  <2> QED BY <2>1, <2>2
<1>4. ASSUME NEW c \in Conns, c = sock'
      PROVE  /\ Matches(inbox[c])' /\ Matches(outbox[c])'
             /\ inbox'[c] = Nothing \/ outbox'[c] = Nothing
  <2>1. inbox'[c] = Nothing /\ outbox'[c] = Nothing
    BY <1>2, <1>4
  <2> QED BY <2>1, Kinds DEF Matches
<1>5. \A c \in Conns : c > opened' => inbox'[c] = Nothing /\ outbox'[c] = Nothing
  BY <1>3 DEF Exchange
<1>6. /\ robot_q' \in Ages /\ current_q' \in Ages /\ opened' \in 0..MaxConn /\ sock' \in 0..opened'
  BY DEF Exchange
<1> QED BY <1>1, <1>3, <1>4, <1>5, <1>6 DEF Exchange

\* The reader threads answer what they were asked.
LEMMA ExchangeServes ==
  ASSUME Exchange, RequestsOK, NEW c \in Conns, NEW reply \in Answer, Reply(c, reply),
         inbox[c].kind = reply.kind, reply.kind # "nothing", UNCHANGED <<clientVars, stateVars>>
  PROVE  Exchange'
<1>1. /\ inbox' = [inbox EXCEPT ![c] = Nothing]
      /\ outbox' = (IF c = sock THEN [outbox EXCEPT ![c] = reply] ELSE outbox)
      /\ UNCHANGED <<cl, sock, opened, robot_q, current_q>>
  BY DEF Reply, clientVars, stateVars
<1>2. inbox[c] # Nothing /\ c <= opened
  <2>1. inbox[c] # Nothing
    BY Kinds
  <2>2. ~(c > opened)
    BY <2>1 DEF Exchange
  <2>3. opened \in Nat /\ c \in Nat
    BY ConnsFacts DEF Exchange
  <2> QED BY <2>1, <2>2, <2>3
<1>3. outbox' \in [Conns -> Answer]
  BY <1>1 DEF Exchange
<1>4. ASSUME NEW d \in Conns, d = sock'
      PROVE  /\ Matches(inbox[d])' /\ Matches(outbox[d])'
             /\ inbox'[d] = Nothing \/ outbox'[d] = Nothing
  <2>1. Matches(inbox[d]) /\ Matches(outbox[d]) /\ (inbox[d] = Nothing \/ outbox[d] = Nothing)
    BY <1>1, <1>4 DEF Exchange
  <2>2. CASE d = c
    <3>1. inbox'[d] = Nothing /\ outbox'[d] = reply
      BY <1>1, <1>4, <2>2 DEF Exchange, RequestsOK
    <3>2. Matches(outbox[d])'
      BY <1>1, <2>1, <2>2, <3>1 DEF Matches
    <3> QED BY <3>1, <3>2, Kinds DEF Matches
  <2>3. CASE d # c
    <3>1. inbox'[d] = inbox[d] /\ outbox'[d] = outbox[d]
      BY <1>1, <2>3 DEF Exchange, RequestsOK
    <3> QED BY <1>1, <2>1, <3>1 DEF Matches
  <2> QED BY <2>2, <2>3
<1>5. ASSUME NEW d \in Conns, d > opened' PROVE inbox'[d] = Nothing /\ outbox'[d] = Nothing
  <2>1. opened \in Nat /\ d \in Nat /\ c \in Nat
    BY ConnsFacts DEF Exchange
  <2>2. d > opened /\ d # c
    BY <1>1, <1>2, <1>5, <2>1
  <2> QED BY <1>1, <2>2 DEF Exchange, RequestsOK
<1>6. /\ robot_q' \in Ages /\ current_q' \in Ages /\ opened' \in 0..MaxConn /\ sock' \in 0..opened'
      /\ cl' \in Awaiting \cup {"observe", "infer", "poll", "settle"} /\ (cl' \in Awaiting => sock' # 0)
  BY <1>1 DEF Exchange
<1> QED BY <1>3, <1>4, <1>5, <1>6 DEF Exchange

\* Nothing happens to the connections but that what they carry gets older.
LEMMA ExchangeAges ==
  ASSUME Exchange, RequestsOK, UNCHANGED <<cl, sock, opened, inbox>>, robot_q' \in Ages, current_q' \in Ages,
         outbox' \in [Conns -> Answer], \A c \in Conns : outbox'[c].kind = outbox[c].kind
  PROVE  Exchange'
<1>1. \A c \in Conns : outbox'[c] = Nothing <=> outbox[c] = Nothing
  <2>1. \A c \in Conns : outbox[c] \in Answer /\ outbox'[c] \in Answer
    BY DEF Exchange
  <2> QED BY <2>1, Kinds
<1>2. ASSUME NEW d \in Conns, d = sock'
      PROVE  /\ Matches(inbox[d])' /\ Matches(outbox[d])'
             /\ inbox'[d] = Nothing \/ outbox'[d] = Nothing
  <2>1. Matches(inbox[d]) /\ Matches(outbox[d]) /\ (inbox[d] = Nothing \/ outbox[d] = Nothing)
    BY <1>2 DEF Exchange
  <2> QED BY <1>1, <2>1 DEF Matches
<1> QED BY <1>1, <1>2 DEF Exchange

LEMMA ExchangeStep == Inv /\ Exchange /\ RequestsOK /\ [BridgeNext]_bridgeVars => Exchange'
<1> SUFFICES ASSUME Inv, Exchange, RequestsOK, BridgeNext PROVE Exchange'
  BY DEF bridgeVars, clientVars, netVars, stateVars, Exchange, Matches
<1>0. robot_q \in Ages /\ current_q \in Ages /\ outbox \in [Conns -> Answer]
  BY DEF Exchange
<1>1. CASE AskState \/ AskStatus
  <2>1. PICK request \in {[kind |-> "state"], [kind |-> "status"]} :
          Send(request) /\ (request.kind = "state" => cl' = "awaitState") /\ (request.kind = "status" => cl' = "awaitStatus")
    BY <1>1 DEF AskState, AskStatus
  <2>2. request \in Request /\ request.kind \in {"state", "status"}
    BY DEF Request
  <2>3. cl \notin Awaiting /\ cl' \in Awaiting /\ UNCHANGED <<robot_q, current_q>>
    BY <1>1 DEF AskState, AskStatus, Awaiting, stateVars
  <2>4. Matches(request)'
    BY <2>1, <2>2 DEF Matches
  <2> QED BY <2>1, <2>2, <2>3, <2>4, ExchangeSends
<1>2. CASE InferAndSend
  <2>1. PICK chunk \in Chunks \ {<<>>} : Send([kind |-> "batch", chunk |-> chunk])
    BY <1>2 DEF InferAndSend
  <2>2. [kind |-> "batch", chunk |-> chunk] \in Request
    BY DEF Request
  <2>3. cl \notin Awaiting /\ cl' = "awaitAck" /\ cl' \in Awaiting /\ UNCHANGED <<robot_q, current_q>>
    BY <1>2 DEF InferAndSend, Awaiting, stateVars
  <2>4. Matches([kind |-> "batch", chunk |-> chunk])'
    BY <2>3 DEF Matches
  <2> QED BY <2>1, <2>2, <2>3, <2>4, ExchangeSends
<1>3. CASE GetState \/ GetAck \/ GetStatus
  BY <1>3, ExchangeRests DEF GetState, GetAck, GetStatus, Receive, Awaiting, stateVars
<1>4. CASE Settled \/ InferNothing \/ IdleTimeout
  BY <1>4, ExchangeRests DEF Settled, InferNothing, IdleTimeout, Awaiting, stateVars, netVars
<1>5. CASE SocketTimeout
  <2>1. sock' = 0 /\ cl' = "observe" /\ UNCHANGED <<inbox, outbox, opened, robot_q, current_q>>
    BY <1>5 DEF SocketTimeout, netVars, stateVars
  <2>2. \A c \in Conns : c # sock'
    BY <2>1, ConnsFacts
  <2>3. opened \in 0..MaxConn /\ 0 \in 0..opened
    BY ConnsFacts DEF Exchange
  <2> QED BY <2>1, <2>2, <2>3 DEF Exchange, Awaiting
<1>6. CASE \E c \in Conns : Reader(c)
  <2>1. PICK c \in Conns : Reader(c)
    BY <1>6
  <2>2. CASE ServeState(c)
    <3>1. [kind |-> "state", age |-> robot_q] \in Answer
      BY <1>0 DEF Answer
    <3> QED BY <2>2, <3>1, ExchangeServes DEF ServeState
  <2>3. CASE ServeStatus(c)
    <3>1. [kind |-> "status", remaining |-> Remaining] \in Answer
      BY DEF Answer, Remaining
    <3> QED BY <2>3, <3>1, ExchangeServes DEF ServeStatus
  <2>4. CASE ServeBatch(c)
    <3>1. batch_commit_seq' \in Nat
      BY <2>4 DEF ServeBatch, CommitBatch, Inv, TypeOK
    <3>2. [kind |-> "batch", seq |-> batch_commit_seq'] \in Answer
      BY <3>1 DEF Answer
    <3> QED BY <2>4, <3>2, ExchangeServes DEF ServeBatch
  <2> QED BY <2>1, <2>2, <2>3, <2>4 DEF Reader
<1>7. CASE StateStep
  <2>1. robot_q' \in Ages /\ current_q' \in Ages
    BY <1>0, <1>7 DEF StateStep, StateSample, StateCheck, StatePublish, Ages
  <2> QED BY <1>0, <1>7, <2>1, ExchangeAges
          DEF StateStep, StateSample, StateCheck, StatePublish, clientVars, netVars
<1>8. CASE Tick \/ OperatorStart \/ OperatorStop \/ StopProceeds
  BY <1>0, <1>8, ExchangeAges DEF Tick, OperatorStart, OperatorStop, StopProceeds, clientVars, netVars, stateVars
<1>9. CASE RobotRt
  <2>1. \A a \in Ages : Aged(a) \in Ages
    BY DEF Aged, Ages
  <2>2. outbox' = [c \in Conns |-> IF outbox[c].kind = "state"
                                    THEN [outbox[c] EXCEPT !.age = Aged(@)] ELSE outbox[c]]
    BY <1>9 DEF RobotRt
  <2>3. ASSUME NEW b \in Answer, b.kind = "state"
        PROVE  [b EXCEPT !.age = Aged(@)] \in Answer /\ [b EXCEPT !.age = Aged(@)].kind = "state"
    <3>1. b \in [kind : {"state"}, age : Ages]
      BY <2>3 DEF Answer, Nothing
    <3>2. [b EXCEPT !.age = Aged(@)] \in [kind : {"state"}, age : Ages]
      BY <2>1, <3>1
    <3> QED BY <3>2 DEF Answer
  <2>4. outbox' \in [Conns -> Answer] /\ \A c \in Conns : outbox'[c].kind = outbox[c].kind
    BY <1>0, <2>2, <2>3
  <2>5. robot_q' \in Ages /\ current_q' \in Ages
    BY <1>0, <1>9, <2>1 DEF RobotRt
  <2> QED BY <1>9, <2>4, <2>5, ExchangeAges DEF RobotRt
<1> QED BY <1>1, <1>2, <1>3, <1>4, <1>5, <1>6, <1>7, <1>8, <1>9 DEF BridgeNext, ClientStep, ClientChoice

LEMMA ExchangeInit == BridgeInit => Exchange
BY ConnsFacts, Kinds DEF BridgeInit, Exchange, Ages, Awaiting, Matches

\* Whatever times out, and however often: the line the client takes for the answer
\* to its request is the answer to it, and between requests none is left.
THEOREM AnswersMatch == BridgeSpec => []AnswerMatches
<1>1. Exchange => AnswerMatches
  BY DEF Exchange, AnswerMatches, Matches
<1>2. BridgeSpec => []Inv
  BY LoopImplementsPlan, Invariance
<1> QED BY <1>1, <1>2, ExchangeInit, ExchangeStep, RequestsInit, RequestsStep, PTL DEF BridgeSpec

-----------------------------------------------------------------------------
(* Idle means done *)

\* The robot has nothing left to do.
AtRest == target_q_batch = <<>> /\ ~Executing /\ pc # "skip"

\* The client has yet to send a batch, or has been told that nothing remains of it.
NoBatchOut ==
  \/ cl \in {"settle", "observe", "awaitState", "infer"}
  \/ \E c \in Conns : c = sock /\ cl = "awaitAck" /\ inbox[c].kind = "batch"
  \/ \E c \in Conns : c = sock /\ cl = "awaitStatus" /\ outbox[c].kind = "status" /\ outbox[c].remaining = 0

\* The batch the client waits for is the newest commit.
Acknowledged ==
  /\ cl \in {"poll", "awaitStatus", "settle"} => accepted = batch_commit_seq
  /\ \A c \in Conns : c = sock /\ outbox[c].kind = "batch" => outbox[c].seq = batch_commit_seq

\* Neither a time-out nor a stop: one connection, no stop request, and the
\* keyframe in hand is of the newest batch, so that PeekedIsFront keeps it queued.
Calm ==
  /\ nrt = "ready" /\ ~stop_requested /\ pc \notin {"stopBatch", "stopTarget"}
  /\ sock = opened /\ opened <= 1
  /\ lost = {}
  /\ Executing \/ pc = "skip" => held.seq = batch_commit_seq
  /\ NoBatchOut => AtRest
  /\ Acknowledged

CalmUnlessDisturbed ==
  /\ faults \in Nat /\ stops \in Nat
  /\ Disturbed = 0 => Calm

LEMMA OwnConnection ==
  ASSUME Exchange, Calm, NEW c \in Conns, inbox[c] # Nothing \/ outbox[c] # Nothing
  PROVE  c = sock
<1>1. ~(c > opened) /\ opened \in Nat /\ sock = opened /\ opened <= 1
  BY ConnsFacts DEF Exchange, Calm
<1>2. c \in Nat /\ c # 0
  BY ConnsFacts
<1> QED BY <1>1, <1>2

\* The keyframe in hand is the front of the queue, so popping it loses nothing.
LEMMA CalmPop ==
  ASSUME Inv, Calm, PopFront, NoteLoss, Executing \/ pc = "skip"
  PROVE  lost' = {} /\ batch_commit_seq' = batch_commit_seq
<1>1. target_q_batch # <<>> /\ target_q_batch[1] = held /\ target_q_batch \in Seq(Keyframe)
  BY DEF Inv, TypeOK, PeekedIsFront, Calm
<1>2. target_q_batch' = Tail(target_q_batch)
  BY <1>1 DEF PopFront
<1>3. ASSUME NEW k \in Queued, k \notin Queued' PROVE k = held
  <2>1. PICK i \in 1..Len(target_q_batch) : k = target_q_batch[i]
    BY <1>3 DEF Queued
  <2>2. CASE i # 1
    <3>1. i - 1 \in 1..Len(target_q_batch') /\ target_q_batch'[i - 1] = target_q_batch[i]
      BY <1>1, <1>2, <2>1, <2>2
    <3> QED BY <1>3, <2>1, <3>1 DEF Queued
  <2> QED BY <1>1, <2>1, <2>2
<1>4. (Queued \ Queued') \ {held} = {}
  BY <1>3
<1> QED BY <1>4 DEF NoteLoss, Calm, PopFront

\* The cycles of the plan.
LEMMA CalmRobot ==
  ASSUME Inv, Exchange, Calm, RobotRt
  PROVE  Calm'
<1>1. /\ UNCHANGED <<cl, sock, opened, accepted, inbox>>
      /\ \A c \in Conns : /\ outbox'[c].kind = outbox[c].kind
                          /\ outbox[c].kind # "state" => outbox'[c] = outbox[c]
  <2>1. /\ UNCHANGED <<cl, sock, opened, accepted, inbox>>
        /\ outbox' = [c \in Conns |-> IF outbox[c].kind = "state"
                                        THEN [outbox[c] EXCEPT !.age = Aged(@)] ELSE outbox[c]]
    BY DEF RobotRt
  <2>2. ASSUME NEW b \in Answer, b.kind = "state" PROVE [b EXCEPT !.age = Aged(@)].kind = "state"
    <3>1. b \in [kind : {"state"}, age : Ages]
      BY <2>2 DEF Answer, Nothing
    <3> QED BY <3>1
  <2> QED BY <2>1, <2>2 DEF Exchange
<1>2. NoBatchOut' => NoBatchOut
  BY <1>1 DEF NoBatchOut
<1>3. ~RtStop /\ ~RtStopClearBatch /\ ~RtStopClearTarget /\ RtStep
  BY DEF Calm, RtStop, RtStopClearBatch, RtStopClearTarget, RobotRt
<1>4. /\ batch_commit_seq' = batch_commit_seq /\ nrt' = nrt /\ stop_requested' = stop_requested
      /\ pc' \notin {"stopBatch", "stopTarget"} /\ lost' = {}
  <2>1. CASE RtPop \/ RtSkip
    BY <2>1, CalmPop DEF RtPop, RtSkip, Executing, nrtVars, Calm
  <2>2. CASE RtStart \/ RtTick \/ RtLook \/ RtReadSeq \/ RtBegin \/ RtReject \/ RtNoKeyframe \/ RtTarget
    BY <2>2 DEF RtStart, RtTick, RtLook, RtReadSeq, RtBegin, RtReject, RtNoKeyframe, RtTarget,
                serverVars, nrtVars, historyVars, Calm
  <2> QED BY <1>3, <2>1, <2>2 DEF RtStep
<1>5. Executing' \/ pc' = "skip" => held'.seq = batch_commit_seq'
  <2>1. CASE RtBegin \/ RtReject
    <3>1. held' = target_q_batch[1] /\ 1 \in 1..Len(target_q_batch)
      BY <2>1, KeyframeFacts DEF RtBegin, RtReject, Inv
    <3>2. target_q_batch[1].seq = batch_commit_seq
      BY <3>1 DEF Inv, QueueIsRun
    <3> QED BY <1>4, <3>1, <3>2
  <2>2. CASE RtTick
    BY <1>4, <2>2 DEF RtTick, Executing, historyVars, Calm
  <2>3. CASE RtStart \/ RtPop \/ RtLook \/ RtReadSeq \/ RtSkip \/ RtNoKeyframe \/ RtTarget
    <3>1. pc' \notin {"pop", "skip"} /\ (batch_seg' = batch_seg \/ ~batch_seg'.active)
      BY <2>3 DEF RtStart, ResetMotionState, NoSegment, RtPop, RtLook, RtReadSeq, RtSkip, RtNoKeyframe,
                  RtTarget, planVars
    <3>2. ~batch_seg.active
      <4>1. CASE RtStart \/ RtPop \/ RtReadSeq \/ RtSkip \/ RtNoKeyframe \/ RtTarget
        BY <4>1 DEF RtStart, RtPop, RtReadSeq, RtSkip, RtNoKeyframe, RtTarget, Inv, Phase
      <4>2. CASE RtLook
        BY <4>2 DEF RtLook
      <4> QED BY <2>3, <4>1, <4>2
    <3> QED BY <3>1, <3>2 DEF Executing
  <2> QED BY <1>3, <2>1, <2>2, <2>3 DEF RtStep
<1>6. AtRest => AtRest'
  <2> SUFFICES ASSUME AtRest PROVE AtRest'
    OBVIOUS
  <2>1. ~RtBegin /\ ~RtReject /\ ~RtTick /\ ~RtPop /\ ~RtSkip
    BY DEF AtRest, Executing, RtBegin, RtReject, RtTick, RtPop, RtSkip
  <2>2. CASE RtStart \/ RtLook \/ RtReadSeq \/ RtNoKeyframe \/ RtTarget
    BY <2>2 DEF AtRest, Executing, RtStart, ResetMotionState, NoSegment, RtLook, RtReadSeq, RtNoKeyframe,
                RtTarget, planVars, serverVars
  <2> QED BY <1>3, <2>1, <2>2 DEF RtStep
<1>7. Acknowledged'
  BY <1>1, <1>4 DEF Acknowledged, Calm
<1> QED BY <1>1, <1>2, <1>4, <1>5, <1>6, <1>7 DEF Calm

\* What the robot keeps when only the client, the connections or robot_q_ move.
LEMMA CalmKept ==
  ASSUME Calm, UNCHANGED robotVars
  PROVE  /\ nrt' = "ready" /\ ~stop_requested' /\ pc' \notin {"stopBatch", "stopTarget"} /\ lost' = {}
         /\ (Executing' \/ pc' = "skip" => held'.seq = batch_commit_seq')
         /\ (AtRest' <=> AtRest) /\ batch_commit_seq' = batch_commit_seq
BY DEF Calm, AtRest, Executing, robotVars, vars, serverVars, planVars, motorVars, nrtVars, historyVars

LEMMA CalmSends ==
  ASSUME Exchange, RequestsOK, Calm, UNCHANGED <<robotVars, accepted>>, NEW request \in Request, Send(request),
         \/ cl = "observe" /\ cl' = "awaitState" /\ request.kind = "state"
         \/ cl = "infer" /\ cl' = "awaitAck" /\ request.kind = "batch"
         \/ cl = "poll" /\ cl' = "awaitStatus" /\ request.kind = "status"
  PROVE  Calm'
<1>1. PICK c \in Conns :
        /\ c = (IF sock = 0 THEN opened + 1 ELSE sock)
        /\ sock' = c /\ opened' = (IF sock = 0 THEN c ELSE opened)
        /\ inbox' = [inbox EXCEPT ![c] = request] /\ outbox' = outbox
  BY DEF Send
<1>2. opened \in Nat /\ sock = opened /\ opened <= 1
  BY ConnsFacts DEF Exchange, Calm
<1>3. sock' = opened' /\ opened' <= 1
  BY <1>1, <1>2
<1>4. outbox[c] = Nothing
  <2>1. CASE sock = 0
    BY <1>1, <1>2, <2>1 DEF Exchange
  <2>2. CASE sock # 0
    BY <1>1, <2>2, NothingPending DEF Awaiting
  <2> QED BY <2>1, <2>2
<1>5. outbox'[c].kind = "nothing" /\ \A d \in Conns : d = sock' => d = c
  BY <1>1, <1>4, Kinds
<1>6. NoBatchOut' => NoBatchOut
  BY <1>5 DEF NoBatchOut
<1>7. Acknowledged'
  BY <1>5, CalmKept DEF Acknowledged, Calm
<1> QED BY <1>3, <1>6, <1>7, CalmKept DEF Calm

\* The client takes an answer.
LEMMA CalmTakes ==
  ASSUME Inv, Exchange, RequestsOK, Calm, GetState \/ GetAck \/ GetStatus
  PROVE  Calm'
<1>1. /\ sock \in Conns /\ outbox[sock] # Nothing /\ outbox' = [outbox EXCEPT ![sock] = Nothing]
      /\ UNCHANGED <<robotVars, sock, opened, inbox>>
  <2>1. cl \in Awaiting /\ Receive /\ UNCHANGED <<robotVars, sock, opened>>
    BY DEF GetState, GetAck, GetStatus, Awaiting
  <2>2. sock \in Conns
    BY <2>1, ConnsFacts DEF Exchange, Conns
  <2> QED BY <2>1, <2>2 DEF Receive
<1>2. outbox[sock] \in Answer /\ Matches(outbox[sock]) /\ outbox'[sock] = Nothing
  BY <1>1 DEF Exchange
<1>3. outbox[sock].kind \in {"state", "batch", "status"}
  BY <1>1, <1>2, Kinds
<1>4. \A c \in Conns : c = sock' => outbox'[c].kind = "nothing"
  BY <1>1, <1>2, Kinds
<1>5. CASE GetState
  <2>1. cl = "awaitState" /\ cl' = "infer" /\ UNCHANGED accepted
    BY <1>5 DEF GetState
  <2>2. NoBatchOut /\ Acknowledged'
    BY <1>4, <2>1 DEF NoBatchOut, Acknowledged
  <2> QED BY <1>1, <2>2, CalmKept DEF Calm
<1>6. CASE GetAck
  <2>1. cl = "awaitAck" /\ cl' = "poll" /\ accepted' = outbox[sock].seq
    BY <1>6 DEF GetAck
  <2>2. outbox[sock].kind = "batch"
    BY <1>2, <1>3, <2>1 DEF Matches
  <2>3. accepted' = batch_commit_seq
    BY <1>1, <2>1, <2>2 DEF Calm, Acknowledged
  <2>4. ~NoBatchOut' /\ Acknowledged'
    BY <1>1, <1>4, <2>1, <2>3, CalmKept DEF NoBatchOut, Acknowledged
  <2> QED BY <1>1, <2>4, CalmKept DEF Calm
<1>7. CASE GetStatus
  <2>1. cl = "awaitStatus" /\ UNCHANGED accepted
        /\ (IF outbox[sock].remaining = 0 THEN cl' = "settle" ELSE cl' = "poll")
    BY <1>7 DEF GetStatus
  <2>2. outbox[sock].kind = "status"
    BY <1>2, <1>3, <2>1 DEF Matches
  <2>3. NoBatchOut' => NoBatchOut
    BY <1>1, <2>1, <2>2 DEF NoBatchOut
  <2>4. Acknowledged'
    BY <1>1, <1>4, <2>1, CalmKept DEF Acknowledged, Calm
  <2> QED BY <1>1, <2>3, <2>4, CalmKept DEF Calm
<1> QED BY <1>5, <1>6, <1>7

\* A reader answers: a committed batch is the newest commit, and "remaining" 0
\* says that the robot is at rest, for a keyframe in hand would be counted.
LEMMA CalmServes ==
  ASSUME Inv, Exchange, RequestsOK, Calm, NEW c \in Conns, Reader(c)
  PROVE  Calm'
<1>1. inbox[c].kind \in {"state", "status", "batch"} /\ inbox[c] # Nothing
  BY Kinds DEF Reader, ServeState, ServeStatus, ServeBatch
<1>2. c = sock /\ Matches(inbox[c])
  BY <1>1, OwnConnection DEF Exchange
<1>3. PICK reply \in Answer : Reply(c, reply) /\ reply.kind = inbox[c].kind
        /\ (reply.kind = "batch" => reply.seq = batch_commit_seq')
        /\ (reply.kind = "status" => reply.remaining = Remaining)
        /\ UNCHANGED clientVars
  <2>1. CASE ServeState(c)
    <3>1. [kind |-> "state", age |-> robot_q] \in Answer
      BY DEF Answer, Exchange
    <3> QED BY <2>1, <3>1 DEF ServeState
  <2>2. CASE ServeStatus(c)
    <3>1. [kind |-> "status", remaining |-> Remaining] \in Answer
      BY DEF Answer, Remaining, Inv, TypeOK
    <3> QED BY <2>2, <3>1 DEF ServeStatus
  <2>3. CASE ServeBatch(c)
    <3>1. [kind |-> "batch", seq |-> batch_commit_seq'] \in Answer
      BY <2>3 DEF ServeBatch, CommitBatch, Inv, TypeOK, Answer
    <3> QED BY <2>3, <3>1 DEF ServeBatch
  <2> QED BY <2>1, <2>2, <2>3 DEF Reader
<1>4. /\ UNCHANGED <<cl, sock, opened, accepted>>
      /\ inbox'[c] = Nothing /\ outbox'[c] = reply
  BY <1>2, <1>3 DEF Reply, clientVars, Exchange, RequestsOK
<1>5. \A d \in Conns : d = sock' => d = c
  BY <1>2, <1>4
<1>6. CASE inbox[c].kind = "state"
  <2>1. UNCHANGED robotVars /\ cl = "awaitState"
    BY <1>2, <1>6 DEF Reader, ServeState, ServeStatus, ServeBatch, Matches
  <2>2. NoBatchOut /\ Acknowledged'
    BY <1>3, <1>4, <1>5, <1>6, <2>1 DEF NoBatchOut, Acknowledged
  <2> QED BY <1>4, <2>1, <2>2, CalmKept DEF Calm
<1>7. CASE inbox[c].kind = "status"
  <2>1. UNCHANGED robotVars /\ cl = "awaitStatus"
    BY <1>2, <1>7 DEF Reader, ServeState, ServeStatus, ServeBatch, Matches
  <2>2. NoBatchOut' => AtRest
    <3> SUFFICES ASSUME NoBatchOut' PROVE AtRest
      OBVIOUS
    <3>1. reply.remaining = 0
      BY <1>4, <1>5, <2>1 DEF NoBatchOut
    <3>2. target_q_batch = <<>>
      BY <1>3, <1>7, <3>1 DEF Remaining, Inv, TypeOK
    <3> QED BY <3>2 DEF AtRest, Calm, Inv, PeekedIsFront
  <2>3. Acknowledged'
    BY <1>3, <1>4, <1>5, <1>7, <2>1, CalmKept DEF Acknowledged, Calm
  <2> QED BY <1>4, <2>1, <2>2, <2>3, CalmKept DEF Calm
<1>8. CASE inbox[c].kind = "batch"
  <2>1. ServeBatch(c) /\ cl = "awaitAck"
    BY <1>2, <1>8 DEF Reader, ServeState, ServeStatus, Matches
  <2>2. AtRest
    BY <1>2, <1>8, <2>1 DEF Calm, NoBatchOut
  <2>3. UNCHANGED <<nrt, stop_requested, pc, lost, batch_seg>>
    BY <2>1 DEF ServeBatch, planVars, nrtVars, historyVars
  <2>4. ~Executing' /\ pc' # "skip"
    BY <2>2, <2>3 DEF AtRest, Executing
  <2>5. ~NoBatchOut'
    BY <1>4, <1>5, <2>1, Kinds DEF NoBatchOut
  <2>6. Acknowledged'
    BY <1>3, <1>4, <1>5, <2>1 DEF Acknowledged
  <2> QED BY <1>4, <2>3, <2>4, <2>5, <2>6 DEF Calm
<1> QED BY <1>1, <1>6, <1>7, <1>8

LEMMA CalmStep ==
  Inv /\ Exchange /\ RequestsOK /\ CalmUnlessDisturbed /\ [BridgeNext]_bridgeVars => CalmUnlessDisturbed'
<1> SUFFICES ASSUME Inv, Exchange, RequestsOK, CalmUnlessDisturbed, [BridgeNext]_bridgeVars
             PROVE  CalmUnlessDisturbed'
  OBVIOUS
<1>0. faults \in Nat /\ stops \in Nat /\ (Disturbed = 0 => Calm)
  BY DEF CalmUnlessDisturbed
<1>1. CASE SocketTimeout \/ IdleTimeout \/ OperatorStop
  <2>1. faults' \in Nat /\ stops' \in Nat /\ faults' + stops' # 0
    BY <1>0, <1>1 DEF SocketTimeout, IdleTimeout, OperatorStop, clientVars
  <2> QED BY <2>1 DEF CalmUnlessDisturbed, Disturbed
<1>2. ASSUME UNCHANGED <<faults, stops>>, Calm => Calm' PROVE CalmUnlessDisturbed'
  BY <1>0, <1>2 DEF CalmUnlessDisturbed, Disturbed
<1>3. CASE AskState \/ InferAndSend \/ AskStatus
  <2>1. UNCHANGED <<robotVars, accepted, faults, stops>>
    BY <1>3 DEF AskState, InferAndSend, AskStatus
  <2>2. ASSUME Calm PROVE Calm'
    <3>1. CASE AskState
      <4>1. [kind |-> "state"] \in Request
        BY DEF Request
      <4> QED BY <2>1, <2>2, <3>1, <4>1, CalmSends DEF AskState
    <3>2. CASE AskStatus
      <4>1. [kind |-> "status"] \in Request
        BY DEF Request
      <4> QED BY <2>1, <2>2, <3>2, <4>1, CalmSends DEF AskStatus
    <3>3. CASE InferAndSend
      <4>1. PICK chunk \in Chunks : Send([kind |-> "batch", chunk |-> chunk])
        BY <3>3 DEF InferAndSend
      <4>2. [kind |-> "batch", chunk |-> chunk] \in Request
        BY DEF Request
      <4> QED BY <2>1, <2>2, <3>3, <4>1, <4>2, CalmSends DEF InferAndSend
    <3> QED BY <1>3, <3>1, <3>2, <3>3
  <2> QED BY <1>2, <2>1, <2>2
<1>4. CASE GetState \/ GetAck \/ GetStatus
  BY <1>2, <1>4, CalmTakes DEF GetState, GetAck, GetStatus
<1>5. CASE \E c \in Conns : Reader(c)
  <2>1. UNCHANGED <<faults, stops>>
    BY <1>5 DEF Reader, ServeState, ServeStatus, ServeBatch, clientVars
  <2> QED BY <1>2, <1>5, <2>1, CalmServes
<1>6. CASE RobotRt
  <2>1. UNCHANGED <<faults, stops>>
    BY <1>6 DEF RobotRt
  <2> QED BY <1>2, <1>6, <2>1, CalmRobot
<1>7. CASE Settled \/ InferNothing \/ StateStep \/ Tick \/ UNCHANGED bridgeVars
  <2>1. /\ UNCHANGED <<robotVars, netVars, sock, opened, accepted, faults, stops>>
        /\ cl' = cl \/ (cl \in {"settle", "infer"} /\ cl' = "observe")
    BY <1>7 DEF Settled, InferNothing, StateStep, StateSample, StateCheck, StatePublish, Tick, clientVars,
                bridgeVars
  <2>2. NoBatchOut' => NoBatchOut
    BY <2>1 DEF NoBatchOut, netVars
  <2>3. ASSUME Calm PROVE Calm'
    <3>1. Acknowledged'
      BY <2>1, <2>3, CalmKept DEF Acknowledged, Calm, netVars
    <3> QED BY <2>1, <2>2, <2>3, <3>1, CalmKept DEF Calm
  <2> QED BY <1>2, <2>1, <2>3
<1>8. CASE OperatorStart
  <2>1. /\ UNCHANGED <<cl, sock, opened, accepted, faults, stops, inbox, outbox, target_q_batch,
                       batch_commit_seq, pc, batch_seg, held, lost, nrt>>
        /\ ~stop_requested'
    BY <1>8 DEF OperatorStart, NrtPolicy, clientVars, netVars, serverVars, planVars, historyVars
  <2>2. (NoBatchOut' <=> NoBatchOut) /\ (AtRest' <=> AtRest) /\ (Acknowledged' <=> Acknowledged)
        /\ (Executing' <=> Executing)
    BY <2>1 DEF NoBatchOut, AtRest, Acknowledged, Executing
  <2> QED BY <1>2, <2>1, <2>2 DEF Calm
<1>9. CASE StopProceeds
  <2>1. ~Calm /\ UNCHANGED <<faults, stops>>
    BY <1>9 DEF StopProceeds, NrtStep, NrtStopClearBatch, NrtStopClearTarget, Calm, clientVars
  <2> QED BY <1>2, <2>1
<1> QED BY <1>1, <1>3, <1>4, <1>5, <1>6, <1>7, <1>8, <1>9 DEF BridgeNext, ClientStep, ClientChoice

LEMMA CalmInit == BridgeInit => CalmUnlessDisturbed
<1> SUFFICES ASSUME BridgeInit PROVE CalmUnlessDisturbed
  OBVIOUS
<1>1. \A c \in Conns : outbox[c].kind = "nothing"
  BY DEF BridgeInit, Nothing
<1>2. Acknowledged
  BY <1>1 DEF BridgeInit, Acknowledged
<1>3. AtRest
  BY DEF BridgeInit, Init, ServerInit, AtRest, Executing, NoSegment
<1>4. lost = {} /\ nrt = "ready" /\ ~stop_requested /\ pc = "off" /\ ~Executing
  BY DEF BridgeInit, Init, Executing, NoSegment
<1> QED BY <1>2, <1>3, <1>4 DEF BridgeInit, CalmUnlessDisturbed, Calm

\* Any number of batches of any length, as long as nothing times out and nobody
\* stops the plan: "remaining" 0 means that the arm has followed the whole batch.
THEOREM IdleIsDone == BridgeSpec => []IdleMeansDone
<1>1. CalmUnlessDisturbed => IdleMeansDone
  BY DEF CalmUnlessDisturbed, Calm, Acknowledged, NoBatchOut, AtRest, IdleMeansDone
<1>2. BridgeSpec => []Inv
  BY LoopImplementsPlan, Invariance
<1> QED BY <1>1, <1>2, CalmInit, CalmStep, ExchangeInit, ExchangeStep, RequestsInit, RequestsStep, PTL
        DEF BridgeSpec

-----------------------------------------------------------------------------
(* Fresh observations *)

\* What a stop leaves behind while it proceeds.  The second line needs an operator
\* who enters "policy" only when no plan runs: it drops a stop request.
StopUnderway ==
  /\ target_q = None
  /\ waiting # 0 => pc = "off" /\ waiting = 1
  /\ nrt # "ready" /\ ~stop_requested => pc \in {"stopBatch", "stopTarget", "off"} /\ waiting = 0

\* No command will move: nothing is queued, and a segment under way is to be stopped.
Still == target_q_batch = <<>> /\ (batch_seg.active => stop_requested)

\* A segment of a batch that is no longer the newest is to be stopped.
Superseded == batch_seg.active /\ begun.seq # batch_commit_seq => stop_requested

\* While the client rests: robot_q_ is fresh, or will be before the rest is over,
\* whatever sample the state thread had in hand when it began.
Ripening ==
  \/ robot_q = "new"
  \/ st = "sleep" /\ settle > st_wait
  \/ st # "sleep" /\ (settle > Period \/ (current_q = "new" /\ settle > 0))

\* The client has gone through a batch: what it is shown is of the arm at rest.
Seen ==
  /\ cl \in {"observe", "awaitState", "infer"} => robot_q = "new"
  /\ cl = "infer" => obs = "new"
  /\ \A c \in Conns : c = sock /\ outbox[c].kind = "state" => outbox[c].age = "new"

FirstConnection == sock = opened /\ opened <= 1

StateType ==
  /\ settle \in Nat /\ st_wait \in 0 .. Period /\ st \in {"sleep", "sampled", "checked"}
  /\ robot_q = "new" => current_q = "new"

Fresh ==
  /\ FirstConnection
  /\ Superseded
  /\ NoBatchOut => Still
  /\ cl = "settle" => Ripening
  /\ accepted > 0 => Seen

FreshUnlessLate == accepted \in Nat /\ faults \in Nat /\ (faults = 0 => Fresh)

\* What the steps of the loop do to the robot.
LEMMA BridgeShape ==
  ASSUME [BridgeNext]_bridgeVars
  PROVE  \/ UNCHANGED robotVars
         \/ \E c \in Conns : ServeBatch(c)
         \/ RobotRt \/ OperatorStart \/ OperatorStop \/ StopProceeds
BY DEF BridgeNext, ClientStep, ClientChoice, AskState, GetState, GetAck, AskStatus, GetStatus,
       Settled, InferAndSend, InferNothing, SocketTimeout, IdleTimeout, Reader, ServeState,
       ServeStatus, StateStep, StateSample, StateCheck, StatePublish, Tick, bridgeVars

LEMMA StopUnderwayStep ==
  ASSUME OperatorWaits, Inv, StopUnderway, [BridgeNext]_bridgeVars
  PROVE  StopUnderway'
<1>1. CASE UNCHANGED robotVars
  BY <1>1 DEF StopUnderway, robotVars, vars, serverVars, nrtVars
<1>2. CASE \E c \in Conns : ServeBatch(c)
  BY <1>2 DEF StopUnderway, ServeBatch, CommitBatch, nrtVars
<1>3. CASE RobotRt
  <2>1. CASE RtStart
    BY <2>1 DEF RtStart, StopUnderway, serverVars
  <2>2. CASE RtStop
    <3>1. waiting = 0
      BY <2>2 DEF RtStop, StopUnderway
    <3> QED BY <2>2, <3>1 DEF RtStop, StopUnderway, serverVars, nrtVars
  <2>3. CASE RtStopClearBatch \/ RtStopClearTarget
    BY <2>3 DEF RtStopClearBatch, RtStopClearTarget, ClearBatch, ClearTarget, StopUnderway, nrtVars
  <2>4. CASE RtTick \/ RtPop \/ RtLook \/ RtReadSeq \/ RtBegin \/ RtReject \/ RtSkip \/ RtNoKeyframe \/ RtTarget
    <3>1. UNCHANGED <<target_q, waiting, nrt, stop_requested>> /\ pc \notin {"stopBatch", "stopTarget", "off"}
      BY <2>4 DEF RtTick, RtPop, RtLook, RtReadSeq, RtBegin, RtReject, RtSkip, RtNoKeyframe, RtTarget,
                  PopFront, serverVars, nrtVars
    <3> QED BY <3>1 DEF StopUnderway
  <2> QED BY <1>3, <2>1, <2>2, <2>3, <2>4 DEF RobotRt, RtStep
<1>4. CASE OperatorStart
  BY <1>4 DEF OperatorStart, NrtPolicy, StopUnderway, serverVars
<1>5. CASE OperatorStop
  BY <1>5 DEF OperatorStop, NrtStop, StopUnderway, serverVars
<1>6. CASE StopProceeds
  BY <1>6 DEF StopProceeds, NrtStep, NrtStopClearBatch, NrtStopClearTarget, ClearBatch, ClearTarget, StopUnderway
<1> QED BY <1>1, <1>2, <1>3, <1>4, <1>5, <1>6, BridgeShape

\* A plan with nothing to do moves no command, and stays so.
LEMMA StillRobot ==
  ASSUME Inv, StopUnderway, Still, RtStep
  PROVE  cmd' = cmd /\ Still'
<1>1. CASE RtStart \/ RtStop
  BY <1>1 DEF RtStart, RtStop, ResetMotionState, NoSegment, Still, serverVars, motorVars
<1>2. CASE RtStopClearBatch \/ RtStopClearTarget
  BY <1>2 DEF RtStopClearBatch, RtStopClearTarget, ClearBatch, ClearTarget, Still, planVars, motorVars
<1>3. CASE RtPop \/ RtSkip
  BY <1>3 DEF RtPop, RtSkip, PopFront, Still, planVars, motorVars
<1>4. CASE RtLook \/ RtReadSeq \/ RtNoKeyframe
  BY <1>4 DEF RtLook, RtReadSeq, RtNoKeyframe, Still, planVars, motorVars, serverVars
<1>5. CASE RtTarget
  BY <1>5 DEF RtTarget, Still, StopUnderway, serverVars
<1>6. ~RtTick /\ ~RtBegin /\ ~RtReject
  BY DEF RtTick, RtBegin, RtReject, Still
<1> QED BY <1>1, <1>2, <1>3, <1>4, <1>5, <1>6 DEF RtStep

LEMMA SupersededRobot ==
  ASSUME Inv, Superseded, RtStep
  PROVE  Superseded'
<1>1. CASE RtStart \/ RtStop
  BY <1>1 DEF RtStart, RtStop, ResetMotionState, NoSegment, Superseded
<1>2. CASE RtStopClearBatch
  <2>1. ~batch_seg.active
    BY <1>2 DEF RtStopClearBatch, Inv, Phase
  <2> QED BY <1>2, <2>1 DEF RtStopClearBatch, Superseded, planVars
<1>3. CASE RtStopClearTarget \/ RtPop \/ RtLook \/ RtReadSeq \/ RtReject \/ RtSkip \/ RtNoKeyframe \/ RtTarget
  <2>1. UNCHANGED <<batch_seg, begun, batch_commit_seq, stop_requested>>
    BY <1>3 DEF RtStopClearTarget, ClearTarget, RtPop, RtLook, RtReadSeq, RtReject, RtSkip, RtNoKeyframe, RtTarget,
                PopFront, planVars, historyVars, serverVars
  <2> QED BY <2>1 DEF Superseded
<1>4. CASE RtTick
  BY <1>4 DEF RtTick, Superseded, historyVars, serverVars
<1>5. CASE RtBegin
  <2>1. begun' = target_q_batch[1] /\ 1 \in 1 .. Len(target_q_batch) /\ batch_commit_seq' = batch_commit_seq
    BY <1>5, KeyframeFacts DEF RtBegin, Inv, serverVars
  <2>2. target_q_batch[1].seq = batch_commit_seq
    BY <2>1 DEF Inv, QueueIsRun
  <2> QED BY <2>1, <2>2 DEF Superseded
<1> QED BY <1>1, <1>2, <1>3, <1>4, <1>5 DEF RtStep

\* An empty queue with every segment of the newest batch: the segment under way
\* would be of the batch at its front.
LEMMA EmptyIsStill ==
  ASSUME Inv, Superseded, target_q_batch = <<>>
  PROVE  Still
<1> SUFFICES ASSUME batch_seg.active PROVE stop_requested
  BY DEF Still
<1>1. Executing /\ held = begun
  BY DEF Executing, Inv, Phase
<1>2. begun.seq # batch_commit_seq
  BY <1>1 DEF Inv, PeekedIsFront
<1> QED BY <1>2 DEF Superseded

\* While no connection has been given up there is only the client's own.
LEMMA OnlyConnection ==
  ASSUME Exchange, FirstConnection, NEW c \in Conns, inbox[c] # Nothing \/ outbox[c] # Nothing
  PROVE  c = sock
<1>1. ~(c > opened) /\ opened \in Nat /\ sock = opened /\ opened <= 1
  BY ConnsFacts DEF Exchange, FirstConnection
<1>2. c \in Nat /\ c # 0
  BY ConnsFacts
<1> QED BY <1>1, <1>2

\* A new request: its connection is the first, and holds nothing else.
LEMMA SendFirst ==
  ASSUME Exchange, RequestsOK, FirstConnection, cl \notin Awaiting, NEW request \in Request, Send(request)
  PROVE  /\ FirstConnection'
         /\ \A c \in Conns : c = sock' => inbox'[c] = request /\ outbox'[c] = Nothing
<1>1. PICK c \in Conns :
        /\ c = (IF sock = 0 THEN opened + 1 ELSE sock)
        /\ sock' = c /\ opened' = (IF sock = 0 THEN c ELSE opened)
        /\ inbox' = [inbox EXCEPT ![c] = request] /\ outbox' = outbox
  BY DEF Send
<1>2. opened \in Nat /\ sock = opened /\ opened <= 1
  BY ConnsFacts DEF Exchange, FirstConnection
<1>3. FirstConnection'
  BY <1>1, <1>2 DEF FirstConnection
<1>4. outbox[c] = Nothing
  <2>1. CASE sock = 0
    BY <1>1, <1>2, <2>1 DEF Exchange
  <2>2. CASE sock # 0
    BY <1>1, <2>2, NothingPending
  <2> QED BY <2>1, <2>2
<1>5. inbox'[c] = request /\ outbox'[c] = Nothing
  BY <1>1, <1>4 DEF RequestsOK
<1> QED BY <1>1, <1>3, <1>5

\* What the invariant says of the robot, when the robot does not step.
LEMMA RobotRests ==
  ASSUME UNCHANGED robotVars
  PROVE  (Superseded' <=> Superseded) /\ (Still' <=> Still)
BY DEF Superseded, Still, robotVars, vars, serverVars, planVars, historyVars

LEMMA FreshSends ==
  ASSUME Exchange, RequestsOK, Fresh, AskState \/ InferAndSend \/ AskStatus
  PROVE  Fresh'
<1>1. /\ UNCHANGED <<robotVars, stateVars, settle, obs, accepted, faults>>
      /\ cl \notin Awaiting /\ FirstConnection
  BY DEF AskState, InferAndSend, AskStatus, Awaiting, Fresh
<1>2. \E request \in Request : Send(request) /\ (cl' = "awaitState" => cl = "observe")
        /\ (cl' = "awaitAck" => cl = "infer") /\ cl' \in Awaiting /\ request.kind # "nothing"
  <2>1. [kind |-> "state"] \in Request /\ [kind |-> "status"] \in Request
        /\ \A chunk \in Chunks : [kind |-> "batch", chunk |-> chunk] \in Request
    BY DEF Request
  <2> QED BY <2>1 DEF AskState, InferAndSend, AskStatus, Awaiting
<1>3. FirstConnection' /\ \A c \in Conns : c = sock' => outbox'[c] = Nothing
  BY <1>1, <1>2, SendFirst
<1>4. \A c \in Conns : c = sock' => outbox'[c].kind = "nothing"
  BY <1>3, Kinds
<1>5. NoBatchOut' => NoBatchOut
  BY <1>2, <1>4 DEF NoBatchOut, Awaiting
<1>6. Seen => Seen'
  BY <1>1, <1>2, <1>4 DEF Seen, Awaiting, stateVars
<1>7. cl' # "settle"
  BY <1>2 DEF Awaiting
<1> QED BY <1>1, <1>3, <1>5, <1>6, <1>7, RobotRests DEF Fresh

\* The client takes an answer from its connection.
LEMMA Taken ==
  ASSUME Exchange, GetState \/ GetAck \/ GetStatus
  PROVE  /\ sock \in Conns /\ outbox[sock] \in Answer /\ Matches(outbox[sock])
         /\ outbox[sock].kind \in {"state", "batch", "status"}
         /\ \A c \in Conns : c = sock' => outbox'[c].kind = "nothing"
         /\ UNCHANGED <<robotVars, stateVars, sock, opened, faults>>
<1>1. cl \in Awaiting /\ Receive /\ UNCHANGED <<robotVars, stateVars, sock, opened, faults>>
  BY DEF GetState, GetAck, GetStatus, Awaiting
<1>2. sock \in Conns
  BY <1>1, ConnsFacts DEF Exchange, Conns
<1>3. outbox[sock] # Nothing /\ outbox' = [outbox EXCEPT ![sock] = Nothing]
  BY <1>1 DEF Receive
<1>4. outbox[sock] \in Answer /\ Matches(outbox[sock]) /\ outbox'[sock] = Nothing
  BY <1>2, <1>3 DEF Exchange
<1> QED BY <1>1, <1>2, <1>3, <1>4, Kinds

LEMMA FreshTakes ==
  ASSUME Exchange, StateType, accepted \in Nat, Fresh, GetState \/ GetAck \/ GetStatus
  PROVE  Fresh' /\ accepted' \in Nat
<1>0. FirstConnection'
  BY Taken DEF Fresh, FirstConnection
<1>1. CASE GetState
  <2>1. /\ cl = "awaitState" /\ cl' = "infer" /\ obs' = outbox[sock].age
        /\ UNCHANGED <<settle, accepted>>
    BY <1>1 DEF GetState
  <2>2. outbox[sock].kind = "state"
    BY <1>1, <2>1, Taken DEF Matches
  <2>3. NoBatchOut
    BY <2>1 DEF NoBatchOut
  <2>4. Seen => Seen'
    BY <1>1, <2>1, <2>2, Taken DEF Seen, stateVars
  <2> QED BY <1>0, <1>1, <2>1, <2>3, <2>4, Taken, RobotRests DEF Fresh
<1>2. CASE GetAck
  <2>1. cl = "awaitAck" /\ cl' = "poll" /\ accepted' = outbox[sock].seq
    BY <1>2 DEF GetAck
  <2>2. outbox[sock].kind = "batch"
    BY <1>2, <2>1, Taken DEF Matches
  <2>3. accepted' \in Nat
    BY <2>1, <2>2, Taken DEF Answer, Nothing
  <2>4. ~NoBatchOut' /\ Seen'
    BY <1>2, <2>1, Taken DEF NoBatchOut, Seen
  <2> QED BY <1>0, <1>2, <2>1, <2>3, <2>4, Taken, RobotRests DEF Fresh
<1>3. CASE GetStatus
  <2>1. /\ cl = "awaitStatus" /\ UNCHANGED <<obs, accepted>>
        /\ IF outbox[sock].remaining = 0 THEN cl' = "settle" /\ settle' = Settle
                                         ELSE cl' = "poll" /\ UNCHANGED settle
    BY <1>3 DEF GetStatus
  <2>2. outbox[sock].kind = "status"
    BY <1>3, <2>1, Taken DEF Matches
  <2>3. NoBatchOut' => NoBatchOut
    BY <1>3, <2>1, <2>2, Taken DEF NoBatchOut
  <2>4. Seen'
    BY <1>3, <2>1, Taken DEF Seen
  <2>5. cl' = "settle" => Ripening'
    <3> SUFFICES ASSUME cl' = "settle" PROVE Ripening'
      OBVIOUS
    <3>1. settle' = Settle /\ UNCHANGED <<st, st_wait>>
      BY <1>3, <2>1, Taken DEF stateVars
    <3>2. Settle > Period /\ Settle > st_wait /\ st_wait \in Int
      BY TimesAssumption DEF StateType
    <3> QED BY <3>1, <3>2 DEF Ripening
  <2> QED BY <1>0, <1>3, <2>1, <2>3, <2>4, <2>5, Taken, RobotRests DEF Fresh
<1> QED BY <1>1, <1>2, <1>3

LEMMA FreshTurns ==
  ASSUME Exchange, StateType, Fresh, Settled \/ InferNothing
  PROVE  Fresh'
<1>1. /\ UNCHANGED <<robotVars, stateVars, netVars, sock, opened, obs, accepted>>
      /\ cl' = "observe" /\ cl \in {"settle", "infer"}
  BY DEF Settled, InferNothing
<1>2. NoBatchOut /\ FirstConnection'
  BY <1>1 DEF NoBatchOut, Fresh, FirstConnection
<1>3. accepted > 0 => robot_q = "new"
  <2>1. CASE Settled
    <3>1. settle = 0 /\ Ripening
      BY <2>1 DEF Settled, Fresh
    <3>2. st_wait >= 0 /\ Period > 0
      BY TimesAssumption DEF StateType
    <3> QED BY <3>1, <3>2, TimesAssumption DEF Ripening, StateType
  <2>2. CASE InferNothing
    BY <2>2 DEF InferNothing, Fresh, Seen
  <2> QED BY <2>1, <2>2
<1>4. accepted' > 0 => Seen'
  BY <1>1, <1>3 DEF Fresh, Seen, stateVars, netVars
<1> QED BY <1>1, <1>2, <1>4, RobotRests DEF Fresh

LEMMA FreshServes ==
  ASSUME Inv, Exchange, RequestsOK, StateType, Fresh, NEW c \in Conns, Reader(c)
  PROVE  Fresh'
<1>1. inbox[c].kind \in {"state", "status", "batch"} /\ inbox[c] # Nothing
  BY Kinds DEF Reader, ServeState, ServeStatus, ServeBatch
<1>2. c = sock /\ Matches(inbox[c])
  BY <1>1, OnlyConnection DEF Exchange, Fresh
<1>3. /\ UNCHANGED <<cl, sock, opened, settle, obs, accepted, st, st_wait, current_q, robot_q>>
      /\ inbox'[c] = Nothing
      /\ \A reply : Reply(c, reply) => outbox'[c] = reply
      /\ \A d \in Conns : d = sock' => d = c
  BY <1>2 DEF Reader, ServeState, ServeStatus, ServeBatch, Reply, clientVars, stateVars, Exchange, RequestsOK
<1>4. FirstConnection' /\ (Ripening' <=> Ripening)
  BY <1>3 DEF Fresh, FirstConnection, Ripening
<1>5. CASE ServeState(c)
  <2>1. outbox'[c].kind = "state" /\ outbox'[c].age = robot_q /\ UNCHANGED robotVars /\ cl = "awaitState"
    BY <1>2, <1>3, <1>5 DEF ServeState, Matches
  <2>2. NoBatchOut /\ (Seen => Seen')
    BY <1>3, <2>1 DEF NoBatchOut, Seen
  <2> QED BY <1>3, <1>4, <2>1, <2>2, RobotRests DEF Fresh
<1>6. CASE ServeStatus(c)
  <2>1. outbox'[c].kind = "status" /\ outbox'[c].remaining = Remaining /\ UNCHANGED robotVars /\ cl = "awaitStatus"
    BY <1>2, <1>3, <1>6 DEF ServeStatus, Matches
  <2>2. Seen'
    BY <1>3, <2>1 DEF Seen
  <2>3. NoBatchOut' => Still
    <3> SUFFICES ASSUME NoBatchOut' PROVE Still
      OBVIOUS
    <3>1. Remaining = 0
      BY <1>3, <2>1 DEF NoBatchOut
    <3>2. target_q_batch = <<>>
      BY <3>1 DEF Remaining, Inv, TypeOK
    <3> QED BY <3>2, EmptyIsStill DEF Fresh
  <2> QED BY <1>3, <1>4, <2>1, <2>2, <2>3, RobotRests DEF Fresh
<1>7. CASE ServeBatch(c)
  <2>1. outbox'[c].kind = "batch" /\ cl = "awaitAck" /\ inbox[c].kind = "batch"
        /\ UNCHANGED <<batch_seg, stop_requested>>
    BY <1>2, <1>3, <1>7 DEF ServeBatch, Matches, planVars
  <2>2. Still
    BY <1>2, <2>1 DEF Fresh, NoBatchOut
  <2>3. Superseded'
    BY <2>1, <2>2 DEF Superseded, Still
  <2>4. ~NoBatchOut' /\ Seen'
    BY <1>3, <2>1, Kinds DEF NoBatchOut, Seen
  <2> QED BY <1>3, <1>4, <2>1, <2>3, <2>4 DEF Fresh
<1> QED BY <1>5, <1>6, <1>7 DEF Reader

\* The state thread refreshes robot_q_, and time passes.
LEMMA FreshRefreshes ==
  ASSUME Inv, Exchange, StateType, Fresh, StateStep \/ Tick
  PROVE  Fresh' /\ StateType'
<1>1. UNCHANGED <<robotVars, netVars, cl, sock, opened, obs, accepted, faults>>
  BY DEF StateStep, StateSample, StateCheck, StatePublish, Tick, clientVars
<1>2. FirstConnection' /\ (NoBatchOut' <=> NoBatchOut)
  BY <1>1 DEF Fresh, FirstConnection, NoBatchOut, netVars
<1>3. Period \in Nat /\ Period > 0
  BY TimesAssumption
<1>4. CASE StateSample
  <2>1. /\ st = "sleep" /\ st_wait = 0 /\ current_q' = "new" /\ st' = "sampled"
        /\ UNCHANGED <<settle, st_wait, robot_q>>
    BY <1>4 DEF StateSample, clientVars
  <2>2. StateType' /\ (Seen => Seen')
    BY <1>1, <2>1 DEF StateType, Seen, netVars
  <2>3. Ripening => Ripening'
    BY <1>3, <2>1 DEF Ripening, StateType
  <2> QED BY <1>1, <1>2, <2>2, <2>3, RobotRests DEF Fresh
<1>5. CASE StateCheck
  <2>1. /\ st = "sampled" /\ UNCHANGED <<settle, current_q, robot_q>>
        /\ IF target_q_batch # <<>> THEN st' = "sleep" /\ st_wait' = Period
                                    ELSE st' = "checked" /\ UNCHANGED st_wait
    BY <1>5 DEF StateCheck, clientVars
  <2>2. StateType' /\ (Seen => Seen')
    BY <1>1, <1>3, <2>1 DEF StateType, Seen, netVars
  <2>3. ASSUME cl = "settle" PROVE Ripening'
    <3>1. target_q_batch = <<>> /\ Ripening
      BY <2>3 DEF Fresh, NoBatchOut, Still
    <3> QED BY <2>1, <3>1 DEF Ripening
  <2> QED BY <1>1, <1>2, <2>2, <2>3, RobotRests DEF Fresh
<1>6. CASE StatePublish
  <2>1. /\ st = "checked" /\ robot_q' = current_q /\ st' = "sleep" /\ st_wait' = Period
        /\ UNCHANGED <<settle, current_q>>
    BY <1>6 DEF StatePublish, clientVars
  <2>2. StateType' /\ (Seen => Seen')
    BY <1>1, <1>3, <2>1 DEF StateType, Seen, netVars
  <2>3. Ripening => Ripening'
    BY <1>3, <2>1 DEF Ripening, StateType
  <2> QED BY <1>1, <1>2, <2>2, <2>3, RobotRests DEF Fresh
<1>7. CASE Tick
  <2>1. /\ st = "sleep" /\ st_wait > 0 /\ st_wait' = st_wait - 1
        /\ settle' = (IF settle > 0 THEN settle - 1 ELSE 0)
        /\ UNCHANGED <<st, current_q, robot_q>>
    BY <1>7 DEF Tick
  <2>2. StateType' /\ (Seen => Seen')
    BY <1>1, <1>3, <2>1 DEF StateType, Seen, netVars
  <2>3. Ripening => Ripening'
    BY <1>3, <2>1 DEF Ripening, StateType
  <2> QED BY <1>1, <1>2, <2>2, <2>3, RobotRests DEF Fresh
<1> QED BY <1>4, <1>5, <1>6, <1>7 DEF StateStep

\* A cycle of the plan ages what is known of the arm, but not while it is at rest.
LEMMA FreshRobot ==
  ASSUME Inv, Exchange, StopUnderway, StateType, Fresh, RobotRt
  PROVE  Fresh'
<1>1. /\ UNCHANGED <<cl, sock, opened, settle, accepted, inbox, st, st_wait>> /\ RtStep
      /\ current_q' = Aged(current_q) /\ robot_q' = Aged(robot_q) /\ obs' = Aged(obs)
      /\ outbox' = [c \in Conns |-> IF outbox[c].kind = "state"
                                      THEN [outbox[c] EXCEPT !.age = Aged(@)] ELSE outbox[c]]
  BY DEF RobotRt
<1>2. ASSUME NEW b \in Answer, b.kind = "state"
      PROVE  [b EXCEPT !.age = Aged(@)].kind = "state" /\ [b EXCEPT !.age = Aged(@)].age = Aged(b.age)
  <2>1. b \in [kind : {"state"}, age : Ages]
    BY <1>2 DEF Answer, Nothing
  <2> QED BY <2>1
<1>3. \A c \in Conns : /\ outbox'[c].kind = outbox[c].kind
                       /\ outbox[c].kind # "state" => outbox'[c] = outbox[c]
                       /\ outbox[c].kind = "state" => outbox'[c].age = Aged(outbox[c].age)
  BY <1>1, <1>2 DEF Exchange
<1>4. NoBatchOut' => NoBatchOut
  BY <1>1, <1>3 DEF NoBatchOut
<1>5. Superseded' /\ FirstConnection'
  BY <1>1, SupersededRobot DEF Fresh, FirstConnection
<1>6. CASE NoBatchOut
  <2>1. cmd' = cmd /\ Still'
    BY <1>1, <1>6, StillRobot DEF Fresh
  <2>2. \A age \in Ages : Aged(age) = age
    BY <2>1 DEF Aged
  <2>3. robot_q' = robot_q /\ current_q' = current_q /\ (obs = "new" => obs' = "new")
    BY <1>1, <2>1, <2>2 DEF Exchange, Aged
  <2>4. \A c \in Conns : outbox[c].kind = "state" /\ outbox[c].age = "new" => outbox'[c].age = "new"
    BY <1>3, <2>1 DEF Aged
  <2>5. Seen => Seen'
    BY <1>1, <1>3, <2>3, <2>4 DEF Seen
  <2>6. Ripening => Ripening'
    BY <1>1, <2>3 DEF Ripening
  <2> QED BY <1>1, <1>5, <2>1, <2>5, <2>6 DEF Fresh
<1>7. CASE ~NoBatchOut
  <2>1. cl \notin {"settle", "observe", "awaitState", "infer"}
    BY <1>7 DEF NoBatchOut
  <2>2. Seen'
    <3>1. \A c \in Conns : c = sock => outbox[c].kind # "state"
      BY <2>1 DEF Exchange, Matches
    <3> QED BY <1>1, <1>3, <2>1, <3>1 DEF Seen
  <2> QED BY <1>1, <1>4, <1>5, <1>7, <2>1, <2>2 DEF Fresh
<1> QED BY <1>6, <1>7

\* The operator: a stop clears the queue only while the segment under way is to stop.
LEMMA FreshOperated ==
  ASSUME Inv, StopUnderway, Fresh, OperatorWaits, OperatorStart \/ OperatorStop \/ StopProceeds
  PROVE  Fresh'
<1>1. UNCHANGED <<clientVars, netVars, stateVars>>
  BY DEF OperatorStart, OperatorStop, StopProceeds
<1>2. Superseded' /\ (Still => Still')
  <2>1. CASE OperatorStart
    <3>1. ~batch_seg.active /\ UNCHANGED <<batch_seg, target_q_batch>>
      BY <2>1 DEF OperatorStart, NrtPolicy, Inv, Phase, serverVars, planVars
    <3> QED BY <3>1 DEF Superseded, Still
  <2>2. CASE OperatorStop
    <3>1. stop_requested' /\ UNCHANGED <<batch_seg, target_q_batch>>
      BY <2>2 DEF OperatorStop, NrtStop, serverVars, planVars
    <3> QED BY <3>1 DEF Superseded, Still
  <2>3. CASE StopProceeds /\ NrtStopClearBatch
    <3>1. batch_seg.active => stop_requested
      BY <2>3 DEF NrtStopClearBatch, StopUnderway, Inv, Phase
    <3>2. UNCHANGED <<batch_seg, stop_requested>> /\ target_q_batch' = <<>>
      BY <2>3 DEF NrtStopClearBatch, ClearBatch, planVars
    <3> QED BY <3>1, <3>2 DEF Superseded, Still
  <2>4. CASE StopProceeds /\ NrtStopClearTarget
    BY <2>4 DEF NrtStopClearTarget, ClearTarget, Superseded, Still, Fresh, planVars, historyVars
  <2> QED BY <2>1, <2>2, <2>3, <2>4 DEF StopProceeds, NrtStep
<1>3. /\ (NoBatchOut' <=> NoBatchOut) /\ (Seen' <=> Seen) /\ (Ripening' <=> Ripening)
      /\ (FirstConnection' <=> FirstConnection) /\ cl' = cl /\ accepted' = accepted
  BY <1>1 DEF NoBatchOut, Seen, Ripening, FirstConnection, clientVars, netVars, stateVars
<1> QED BY <1>2, <1>3 DEF Fresh

LEMMA StateTypeStep == Exchange /\ StateType /\ [BridgeNext]_bridgeVars => StateType'
<1> SUFFICES ASSUME Exchange, StateType, [BridgeNext]_bridgeVars PROVE StateType'
  OBVIOUS
<1>0. Period \in Nat /\ Settle \in Nat
  BY TimesAssumption
<1>1. CASE StateStep
  BY <1>0, <1>1 DEF StateStep, StateSample, StateCheck, StatePublish, clientVars, StateType
<1>2. CASE Tick
  BY <1>0, <1>2 DEF Tick, StateType
<1>3. CASE RobotRt
  BY <1>3 DEF RobotRt, Aged, StateType
<1>4. CASE GetStatus
  BY <1>0, <1>4 DEF GetStatus, stateVars, StateType
<1>5. CASE \/ AskState \/ GetState \/ GetAck \/ AskStatus \/ Settled \/ ClientChoice
           \/ (\E c \in Conns : Reader(c)) \/ OperatorStart \/ OperatorStop \/ StopProceeds \/ UNCHANGED bridgeVars
  <2>1. UNCHANGED <<stateVars, settle>>
    BY <1>5 DEF AskState, GetState, GetAck, AskStatus, Settled, ClientChoice, InferAndSend, InferNothing,
                SocketTimeout, IdleTimeout, Reader, ServeState, ServeStatus, ServeBatch, OperatorStart,
                OperatorStop, StopProceeds, bridgeVars, clientVars
  <2> QED BY <2>1 DEF StateType, stateVars
<1> QED BY <1>1, <1>2, <1>3, <1>4, <1>5 DEF BridgeNext, ClientStep

LEMMA FreshStep ==
  ASSUME OperatorWaits
  PROVE  Inv /\ Exchange /\ RequestsOK /\ StateType /\ StopUnderway /\ FreshUnlessLate /\ [BridgeNext]_bridgeVars
           => FreshUnlessLate'
<1> SUFFICES ASSUME Inv, Exchange, RequestsOK, StateType, StopUnderway, FreshUnlessLate, [BridgeNext]_bridgeVars
             PROVE  FreshUnlessLate'
  OBVIOUS
<1>1. CASE SocketTimeout \/ IdleTimeout
  <2>1. faults' = faults + 1 /\ accepted' = accepted
    BY <1>1 DEF SocketTimeout, IdleTimeout
  <2> QED BY <2>1 DEF FreshUnlessLate
<1>2. ASSUME faults' = faults, accepted' \in Nat, Fresh => Fresh' PROVE FreshUnlessLate'
  BY <1>2 DEF FreshUnlessLate
<1>3. CASE AskState \/ InferAndSend \/ AskStatus
  <2>1. UNCHANGED <<faults, accepted>>
    BY <1>3 DEF AskState, InferAndSend, AskStatus
  <2> QED BY <1>2, <1>3, <2>1, FreshSends DEF FreshUnlessLate
<1>4. CASE GetState \/ GetAck \/ GetStatus
  <2>1. faults' = faults
    BY <1>4 DEF GetState, GetAck, GetStatus
  <2>2. CASE faults = 0
    BY <1>4, <2>1, <2>2, FreshTakes DEF FreshUnlessLate
  <2>3. CASE faults # 0
    <3>1. accepted' \in Nat
      <4>1. CASE GetAck
        <5>1. cl = "awaitAck" /\ accepted' = outbox[sock].seq
          BY <4>1 DEF GetAck
        <5>2. outbox[sock].kind = "batch" /\ outbox[sock] \in Answer
          BY <4>1, <5>1, Taken DEF Matches
        <5> QED BY <5>1, <5>2 DEF Answer, Nothing
      <4>2. CASE GetState \/ GetStatus
        BY <4>2 DEF GetState, GetStatus, FreshUnlessLate
      <4> QED BY <1>4, <4>1, <4>2
    <3> QED BY <2>1, <2>3, <3>1 DEF FreshUnlessLate
  <2> QED BY <2>2, <2>3
<1>5. CASE Settled \/ InferNothing
  <2>1. UNCHANGED <<faults, accepted>>
    BY <1>5 DEF Settled, InferNothing
  <2> QED BY <1>2, <1>5, <2>1, FreshTurns DEF FreshUnlessLate
<1>6. CASE \E c \in Conns : Reader(c)
  <2>1. UNCHANGED <<faults, accepted>>
    BY <1>6 DEF Reader, ServeState, ServeStatus, ServeBatch, clientVars
  <2> QED BY <1>2, <1>6, <2>1, FreshServes DEF FreshUnlessLate
<1>7. CASE StateStep \/ Tick
  <2>1. UNCHANGED <<faults, accepted>>
    BY <1>7 DEF StateStep, StateSample, StateCheck, StatePublish, Tick, clientVars
  <2> QED BY <1>2, <1>7, <2>1, FreshRefreshes DEF FreshUnlessLate
<1>8. CASE RobotRt
  <2>1. UNCHANGED <<faults, accepted>>
    BY <1>8 DEF RobotRt
  <2> QED BY <1>2, <1>8, <2>1, FreshRobot DEF FreshUnlessLate
<1>9. CASE OperatorStart \/ OperatorStop \/ StopProceeds
  <2>1. UNCHANGED <<faults, accepted>>
    BY <1>9 DEF OperatorStart, OperatorStop, StopProceeds, clientVars
  <2> QED BY <1>2, <1>9, <2>1, FreshOperated DEF FreshUnlessLate
<1>10. CASE UNCHANGED bridgeVars
  <2>1. UNCHANGED <<robotVars, clientVars, netVars, stateVars>>
    BY <1>10 DEF bridgeVars
  <2>2. /\ (NoBatchOut' <=> NoBatchOut) /\ (Seen' <=> Seen) /\ (Ripening' <=> Ripening)
        /\ (FirstConnection' <=> FirstConnection) /\ UNCHANGED <<cl, accepted, faults>>
    BY <2>1 DEF NoBatchOut, Seen, Ripening, FirstConnection, clientVars, netVars, stateVars
  <2> QED BY <1>2, <2>1, <2>2, RobotRests DEF Fresh, FreshUnlessLate
<1> QED BY <1>1, <1>3, <1>4, <1>5, <1>6, <1>7, <1>8, <1>9, <1>10 DEF BridgeNext, ClientStep, ClientChoice

LEMMA FreshInit == BridgeInit => StopUnderway /\ StateType /\ FreshUnlessLate
<1> SUFFICES ASSUME BridgeInit PROVE StopUnderway /\ StateType /\ FreshUnlessLate
  OBVIOUS
<1>1. StopUnderway
  BY DEF BridgeInit, Init, ServerInit, StopUnderway
<1>2. StateType
  BY TimesAssumption DEF BridgeInit, StateType
<1>3. Superseded /\ Still
  BY DEF BridgeInit, Init, ServerInit, NoSegment, Superseded, Still
<1> QED BY <1>1, <1>2, <1>3 DEF BridgeInit, FreshUnlessLate, Fresh, FirstConnection

\* Any number of batches, and of stops and restarts of the plan, as long as nothing
\* times out: after a batch the client observes the arm after its last command.  The
\* rest it takes outlasts any sample the state thread may have had in hand, and the
\* operator enters "policy" only when no plan runs.
THEOREM ObservesAtRest ==
  ASSUME OperatorWaits
  PROVE  BridgeSpec => []FreshObservation
<1>1. FreshUnlessLate => FreshObservation
  BY DEF FreshUnlessLate, Fresh, Seen, FreshObservation
<1>2. BridgeSpec => []Inv
  BY LoopImplementsPlan, Invariance
<1>3. Inv /\ StopUnderway /\ [BridgeNext]_bridgeVars => StopUnderway'
  BY StopUnderwayStep
<1> QED BY <1>1, <1>2, <1>3, ExchangeInit, ExchangeStep, RequestsInit, RequestsStep, FreshInit, FreshStep,
           StateTypeStep, PTL DEF BridgeSpec
=============================================================================
