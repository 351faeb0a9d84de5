---------------------------- MODULE A10TcpServer ----------------------------
(***************************************************************************)
(* The buffers of class A10TcpServer (a10_tcp_server.cpp) that carry motion *)
(* targets from the TCP reader threads to the real-time thread.  Each       *)
(* operator below is one locked operation of the class: a mutex guards each *)
(* buffer and no operation holds two of them, so one operation is one step. *)
(*                                                                          *)
(* A keyframe is one row of a SET_JOINTS_BATCH command.  Its seven joint    *)
(* values are reduced to one position; "seq" and "row" are not in the code: *)
(* they say which committed batch the row came from and its place in it, so *)
(* that properties can follow a keyframe after it has left the queue.       *)
(***************************************************************************)
EXTENDS Integers, Sequences

CONSTANTS
  Pos,          \* the joint positions a keyframe or a target may hold
  Chunks,       \* the action chunks a client may send, sequences over Pos
  Targets,      \* the immediate targets a client may send
  None          \* an absent position: an empty target_q_ or last_batch_q1_

ASSUME PosAssumption == Pos \subseteq Int
ASSUME ChunksAssumption == Chunks \subseteq Seq(Pos) /\ Targets \subseteq Pos \cup {None}
ASSUME NoneAssumption == None \notin Int

VARIABLES
  target_q_batch,     \* the queue of keyframes still to execute
  batch_commit_seq,   \* counts commits and clears of the queue
  target_q            \* the single immediate target of the {"q": ...} line

serverVars == <<target_q_batch, batch_commit_seq, target_q>>

Keyframe == [seq : Nat, row : Nat \ {0}, goal : Pos]

\* The keyframes of a chunk as the commit numbered seq queues them.
Rows(chunk, seq) ==
  [i \in 1..Len(chunk) |-> [seq |-> seq, row |-> i, goal |-> chunk[i]]]

ServerInit ==
  /\ target_q_batch = <<>>
  /\ batch_commit_seq = 0
  /\ target_q = None

\* SET_JOINTS_BATCH: a parsed batch replaces whatever is queued.  (A line that
\* does not parse is answered accepted:false and changes nothing.)
CommitBatch(chunk) ==
  /\ batch_commit_seq' = batch_commit_seq + 1
  /\ target_q_batch' = Rows(chunk, batch_commit_seq + 1)
  /\ UNCHANGED target_q

\* The legacy line {"q": [...]} overwrites the immediate target.
StoreTarget(p) ==
  /\ target_q' = p
  /\ UNCHANGED <<target_q_batch, batch_commit_seq>>

\* Mutants of PopFront: pop_back instead of pop_front; an empty() test off by one.
PopBack ==
  /\ target_q_batch' = SubSeq(target_q_batch, 1, Len(target_q_batch) - 1)
  /\ UNCHANGED <<batch_commit_seq, target_q>>

PopUnlessLast ==
  /\ target_q_batch' = IF Len(target_q_batch) <= 1 THEN target_q_batch ELSE Tail(target_q_batch)
  /\ UNCHANGED <<batch_commit_seq, target_q>>

\* pop_policy_batch_front: pops whatever is at the front, if anything is.
PopFront ==
  /\ target_q_batch' = IF target_q_batch = <<>> THEN <<>> ELSE Tail(target_q_batch)
  /\ UNCHANGED <<batch_commit_seq, target_q>>

\* Mutant of ClearBatch: the commit counter is not advanced.
ClearBatchUncounted ==
  /\ target_q_batch' = <<>>
  /\ UNCHANGED <<batch_commit_seq, target_q>>

\* clear_policy_tcp_targets_nrt takes the two locks one after the other.
ClearBatch ==
  /\ target_q_batch' = <<>>
  /\ batch_commit_seq' = batch_commit_seq + 1
  /\ UNCHANGED target_q

ClearTarget ==
  /\ target_q' = None
  /\ UNCHANGED <<target_q_batch, batch_commit_seq>>

\* Mutant of Remaining: the keyframe being executed is not counted.
RemainingBehindFront == IF target_q_batch = <<>> THEN 0 ELSE Len(target_q_batch) - 1

\* What GET_POLICY_STATUS reports as "remaining".
Remaining == Len(target_q_batch)
=============================================================================
