---------------------------- MODULE PolicyBridge ----------------------------
(***************************************************************************)
(* The whole observe-infer-act loop: the Python client (client/bridge.py    *)
(* over client/robot_tcp_client.py), the TCP connections and their reader   *)
(* threads, the thread of main.cpp that refreshes robot_q_, and the policy  *)
(* plan of A10PolicyTcp.                                                    *)
(*                                                                          *)
(* The client sends a request only when the answer to the one before has    *)
(* come, so a connection carries at most one request or reply.  When the    *)
(* client gives a connection up, a request already sent is still served.    *)
(* What robot_q_ and the observation hold is reduced to their age: "new"    *)
(* when no command has moved since the joints were sampled.                 *)
(***************************************************************************)
EXTENDS A10PolicyTcp

CONSTANTS
  MaxConn,         \* bound: connections the client opens
  Period,          \* the sleep of the state thread, in ticks
  Settle,          \* post_idle_settle_s, in ticks
  MaxSent,         \* bound: batches the client sends
  MaxFaults        \* bound: time-outs of the client and stops by the operator

\* The client rests for longer than the state thread sleeps: 50 ms by default
\* (--post-idle-settle), against 33 ms.
ASSUME TimesAssumption == Period \in Nat \ {0} /\ Settle \in Nat /\ Settle > Period
ASSUME BridgeBoundsAssumption == MaxConn \in Nat /\ MaxSent \in Nat /\ MaxFaults \in Nat

VARIABLES
  cl,          \* where the client is in run_forever
  sock,        \* its connection, 0 when _sock is None
  opened,      \* connections opened so far
  settle,      \* ticks left of the sleep after idle
  obs,         \* age of the observation of this round
  inbox,       \* per connection: the request not served yet
  outbox,      \* per connection: the reply not read yet
  st,          \* where the state thread is in its loop
  st_wait,     \* ticks left of its sleep
  current_q,   \* age of its sample
  robot_q,     \* age of robot_q_
  sent,        \* history: batches sent
  accepted,    \* history: the commit of the batch acknowledged last
  faults,      \* history: time-outs of the client so far
  stops        \* history: stops entered by the operator so far

robotVars == vars
clientVars == <<cl, sock, opened, settle, obs, sent, accepted, faults>>
netVars == <<inbox, outbox>>
stateVars == <<st, st_wait, current_q, robot_q>>
bridgeVars == <<robotVars, clientVars, netVars, stateVars, stops>>

Conns == 1..MaxConn

Nothing == [kind |-> "nothing"]
Disturbed == faults + stops

BridgeInit ==
  /\ Init
  /\ cl = "observe" /\ sock = 0 /\ opened = 0 /\ settle = 0 /\ obs = "unset"
  /\ inbox = [c \in Conns |-> Nothing] /\ outbox = [c \in Conns |-> Nothing]
  /\ st = "sleep" /\ st_wait = Period /\ current_q = "unset" /\ robot_q = "unset"
  /\ sent = 0 /\ accepted = 0 /\ faults = 0 /\ stops = 0

-----------------------------------------------------------------------------
(* The client. *)

\* _send_line: connect first when there is no connection.
Send(request) ==
  LET c == IF sock = 0 THEN opened + 1 ELSE sock
  IN  /\ c \in Conns
      /\ sock' = c
      /\ opened' = IF sock = 0 THEN c ELSE opened
      /\ inbox' = [inbox EXCEPT ![c] = request]
      /\ UNCHANGED outbox

\* _recv_line: the next line on the connection, whatever it is.
Receive == outbox[sock] # Nothing /\ outbox' = [outbox EXCEPT ![sock] = Nothing] /\ UNCHANGED inbox

AskState ==
  /\ cl = "observe"
  /\ Send([kind |-> "state"])
  /\ cl' = "awaitState"
  /\ UNCHANGED <<robotVars, stops, stateVars, settle, obs, sent, accepted, faults>>

GetState ==
  /\ cl = "awaitState"
  /\ Receive
  /\ obs' = outbox[sock].age
  /\ cl' = "infer"
  /\ UNCHANGED <<robotVars, stops, stateVars, sock, opened, settle, sent, accepted, faults>>

\* The policy answers with a chunk of actions, sent as one batch; an empty one
\* is skipped, and a failure of the inference server starts the round again.
InferAndSend ==
  /\ cl = "infer" /\ sent < MaxSent
  /\ \E chunk \in Chunks \ {<<>>} : Send([kind |-> "batch", chunk |-> chunk])
  /\ cl' = "awaitAck"
  /\ sent' = sent + 1
  /\ UNCHANGED <<robotVars, stops, stateVars, settle, obs, accepted, faults>>

InferNothing ==
  /\ cl = "infer"
  /\ cl' = "observe"
  /\ UNCHANGED <<robotVars, stops, stateVars, netVars, sock, opened, settle, obs, sent,
                 accepted, faults>>

GetAck ==
  /\ cl = "awaitAck"
  /\ Receive
  /\ accepted' = outbox[sock].seq
  /\ cl' = "poll"
  /\ UNCHANGED <<robotVars, stops, stateVars, sock, opened, settle, obs, sent, faults>>

AskStatus ==
  /\ cl = "poll"
  /\ Send([kind |-> "status"])
  /\ cl' = "awaitStatus"
  /\ UNCHANGED <<robotVars, stops, stateVars, settle, obs, sent, accepted, faults>>

\* Mutant of GetStatus: no sleep after idle.
GetStatusNoSettle ==
  /\ cl = "awaitStatus"
  /\ Receive
  /\ cl' = IF outbox[sock].remaining = 0 THEN "settle" ELSE "poll"
  /\ UNCHANGED <<robotVars, stops, stateVars, sock, opened, settle, obs, sent, accepted, faults>>

GetStatus ==
  /\ cl = "awaitStatus"
  /\ Receive
  /\ IF outbox[sock].remaining = 0
       THEN cl' = "settle" /\ settle' = Settle
       ELSE cl' = "poll" /\ UNCHANGED settle
  /\ UNCHANGED <<robotVars, stops, stateVars, sock, opened, obs, sent, accepted, faults>>

\* The next round; throttling to hz is no more than a longer sleep.
Settled ==
  /\ cl = "settle" /\ settle = 0
  /\ cl' = "observe"
  /\ UNCHANGED <<robotVars, stops, stateVars, netVars, sock, opened, settle, obs, sent,
                 accepted, faults>>

Awaiting == {"awaitState", "awaitAck", "awaitStatus"}

\* Mutant of SocketTimeout: the connection is kept for the next round.
SocketTimeoutKeepsSocket ==
  /\ cl \in Awaiting /\ Disturbed < MaxFaults
  /\ cl' = "observe"
  /\ faults' = faults + 1
  /\ UNCHANGED <<robotVars, stops, stateVars, netVars, sock, opened, settle, obs, sent, accepted>>

\* A reply that does not come in timeout_s, or a connection that breaks: the
\* socket is closed, the round given up, and the next one begins after 0.2 s.
SocketTimeout ==
  /\ cl \in Awaiting /\ Disturbed < MaxFaults
  /\ sock' = 0
  /\ cl' = "observe"
  /\ faults' = faults + 1
  /\ UNCHANGED <<robotVars, stops, stateVars, netVars, opened, settle, obs, sent, accepted>>

\* wait_policy_idle gives up after idle_timeout_s; the connection stays.
IdleTimeout ==
  /\ cl = "poll" /\ Disturbed < MaxFaults
  /\ cl' = "observe"
  /\ faults' = faults + 1
  /\ UNCHANGED <<robotVars, stops, stateVars, netVars, sock, opened, settle, obs, sent, accepted>>

ClientStep == AskState \/ GetState \/ GetAck \/ AskStatus \/ GetStatus \/ Settled
ClientChoice == InferAndSend \/ InferNothing \/ SocketTimeout \/ IdleTimeout

-----------------------------------------------------------------------------
(* The reader threads. *)

\* The request is served, and answered unless the client closed the connection.
Reply(c, reply) ==
  /\ inbox' = [inbox EXCEPT ![c] = Nothing]
  /\ outbox' = IF c = sock THEN [outbox EXCEPT ![c] = reply] ELSE outbox

ServeState(c) ==
  /\ inbox[c].kind = "state"
  /\ Reply(c, [kind |-> "state", age |-> robot_q])
  /\ UNCHANGED <<robotVars, stops, clientVars, stateVars>>

ServeStatus(c) ==
  /\ inbox[c].kind = "status"
  /\ Reply(c, [kind |-> "status", remaining |-> Remaining])
  /\ UNCHANGED <<robotVars, stops, clientVars, stateVars>>

ServeBatch(c) ==
  /\ inbox[c].kind = "batch" /\ batch_commit_seq < MaxSeq
  /\ CommitBatch(inbox[c].chunk)
  /\ Reply(c, [kind |-> "batch", seq |-> batch_commit_seq'])
  /\ UNCHANGED <<stop_requested, pc, attempt, planVars, motorVars, nrtVars, historyVars,
                 clientVars, stateVars, stops>>

Reader(c) == ServeState(c) \/ ServeStatus(c) \/ ServeBatch(c)

-----------------------------------------------------------------------------
(* The thread of main.cpp that refreshes robot_q_. *)

\* The joints are read first, then the queue is looked at.
StateSample ==
  /\ st = "sleep" /\ st_wait = 0
  /\ current_q' = "new"
  /\ st' = "sampled"
  /\ UNCHANGED <<robotVars, stops, clientVars, netVars, st_wait, robot_q>>

\* While keyframes remain, the sample is dropped.
StateCheck ==
  /\ st = "sampled"
  /\ IF target_q_batch # <<>>
       THEN st' = "sleep" /\ st_wait' = Period
       ELSE st' = "checked" /\ UNCHANGED st_wait
  /\ UNCHANGED <<robotVars, stops, clientVars, netVars, current_q, robot_q>>

StatePublish ==
  /\ st = "checked"
  /\ robot_q' = current_q
  /\ st' = "sleep" /\ st_wait' = Period
  /\ UNCHANGED <<robotVars, stops, clientVars, netVars, current_q>>

StateStep == StateSample \/ StateCheck \/ StatePublish

\* Time passes only while the state thread sleeps: its loop body takes far
\* less than a tick.
Tick ==
  /\ st = "sleep" /\ st_wait > 0
  /\ st_wait' = st_wait - 1
  /\ settle' = IF settle > 0 THEN settle - 1 ELSE 0
  /\ UNCHANGED <<robotVars, stops, netVars, cl, sock, opened, obs, sent, accepted, faults,
                 st, current_q, robot_q>>

-----------------------------------------------------------------------------
(* The robot, and the operator at its command line. *)

\* Whatever was sampled is old as soon as the command moves.
Aged(age) == IF cmd' # cmd /\ age = "new" THEN "old" ELSE age

RobotRt ==
  /\ RtStep
  /\ current_q' = Aged(current_q) /\ robot_q' = Aged(robot_q) /\ obs' = Aged(obs)
  /\ outbox' = [c \in Conns |-> IF outbox[c].kind = "state"
                                  THEN [outbox[c] EXCEPT !.age = Aged(@)] ELSE outbox[c]]
  /\ UNCHANGED <<cl, sock, opened, settle, sent, accepted, faults, stops, inbox, st, st_wait>>

OperatorStart == NrtPolicy /\ UNCHANGED <<clientVars, netVars, stateVars, stops>>
OperatorStop ==
  /\ Disturbed < MaxFaults /\ NrtStop
  /\ stops' = stops + 1
  /\ UNCHANGED <<clientVars, netVars, stateVars>>
StopProceeds == NrtStep /\ UNCHANGED <<clientVars, netVars, stateVars, stops>>

BridgeNext ==
  \/ ClientStep \/ ClientChoice
  \/ \E c \in Conns : Reader(c)
  \/ StateStep \/ Tick
  \/ RobotRt \/ OperatorStart \/ OperatorStop \/ StopProceeds

BridgeSpec == BridgeInit /\ [][BridgeNext]_bridgeVars

\* Threads run on and the client is not abandoned; the choices of the policy
\* server, the network and the operator are free.
FairBridgeSpec ==
  /\ BridgeSpec
  /\ WF_bridgeVars(ClientStep) /\ \A c \in Conns : WF_bridgeVars(Reader(c))
  /\ WF_bridgeVars(StateStep) /\ WF_bridgeVars(Tick)
  /\ WF_bridgeVars(RobotRt) /\ WF_bridgeVars(StopProceeds)
-----------------------------------------------------------------------------
(* Properties *)

Request == {Nothing, [kind |-> "state"], [kind |-> "status"]}
             \cup [kind : {"batch"}, chunk : Chunks]

\* The protocol has no request numbers: the client takes the next line on its
\* connection for the answer to its last request.  Whatever the time-outs, that
\* line answers the request it is waiting for, and between requests none is left.
AnswerMatches ==
  \A c \in {sock} \cap Conns :
    /\ outbox[c].kind = "state" => cl = "awaitState"
    /\ outbox[c].kind = "batch" => cl = "awaitAck"
    /\ outbox[c].kind = "status" => cl = "awaitStatus"

\* When "remaining" has come down to 0 for the client, the robot has begun every
\* keyframe of the batch the client sent last, or found it too far away, and
\* nothing else was queued since.  (Not after a time-out; a stop erases the batch.)
IdleMeansDone ==
  cl = "settle" /\ Disturbed = 0 => batch_commit_seq = accepted /\ lost = {} /\ ~Executing

\* Once a batch has been followed, the next observation is of the arm after the
\* last command of that batch: no command has moved since it was sampled, also when
\* the plan was stopped and started meanwhile.  (A client that gave up waiting
\* observes an arm that still moves.)
FreshObservation == cl = "infer" /\ accepted > 0 /\ faults = 0 => obs = "new"

\* While a plan runs, an acknowledged batch is finished and the client goes on,
\* also when the client gave up an earlier round or its batch was erased.
RoundCompletes == pc # "off" /\ cl = "poll" ~> cl \in {"settle", "observe"} \/ pc = "off"

(* What a comment of the code claims and TLC refutes. *)

\* client/robot_tcp_client.py:121: remaining = 0 says that the robot has executed the
\* present batch; so, unless a stop erased it, no other batch was queued after it.
IdleIsOwn == cl = "settle" /\ stops = 0 => batch_commit_seq = accepted
=============================================================================
