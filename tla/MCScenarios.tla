----------------------------- MODULE MCScenarios -----------------------------
(* Three programs on a connection, chosen in the initial state: one that   *)
(* uses a transaction, one that is reset by a signal while two streams are  *)
(* open, and one whose server or transport misbehaves.  Each is Session     *)
(* with its own streams, calls, faults and points for signals.              *)
EXTENDS Integers, TLC

CONSTANTS None, ts1, t1, rs1, rs2, fs1

VARIABLES scenario,
          processing, reset_requested, failed, poison_tx, request_queue,
          inflight_requests, jobs, closed, streams, txs, pc, failure, call,
          ret, toServer, toClient, server, committed, broken, resets

\* Transactions after each other, whose statements and commits may time out
\* on the server, with a reset between two calls.
Transacting ==
  INSTANCE Session WITH
    Streams <- {ts1}, Txs <- {t1}, QueueSize <- 3, MaxPipelined <- 3,
    MaxRecords <- 1, MaxResets <- 1, SignalAt <- {"idle"},
    Ops <- {"run_in_tx", "begin", "commit", "rollback", "fetch", "peek",
            "close_rs", "close"},
    Faults <- {"TIMEOUT"}

\* Two streams, a signal at any of the safe points of MCSession, and a RESET
\* that may overtake what is before it on the server.
Resetting ==
  INSTANCE Session WITH
    Streams <- {rs1, rs2}, Txs <- {}, QueueSize <- 4, MaxPipelined <- 2,
    MaxRecords <- 1, MaxResets <- 1,
    SignalAt <- {"idle", "run_unlock", "pull", "pull_unlock", "start", "abandon", "free",
                 "enter", "lock", "loop", "reply", "send", "exit", "unlock",
                 "unlock_ack", "done", "rrecv", "rfinal", "crecv", "cend"},
    Ops <- {"run", "fetch", "check", "close_rs"},
    Faults <- {"FAILURE", "INTERRUPT"}

\* One stream, whose statement fails, whose connection drops, or whose replies
\* are malformed in any of three ways.
Failing ==
  INSTANCE Session WITH
    Streams <- {fs1}, Txs <- {}, QueueSize <- 3, MaxPipelined <- 2,
    MaxRecords <- 1, MaxResets <- 1,
    SignalAt <- {"idle", "start", "reply", "unlock_ack"},
    Ops <- {"run", "fetch", "check", "close_rs", "close"},
    Faults <- {"DROP", "FAILURE", "INVALID", "BADRECORD", "GARBLED"}

Init ==
  \/ scenario = "transaction" /\ Transacting!Init
  \/ scenario = "reset" /\ Resetting!Init
  \/ scenario = "faults" /\ Failing!Init

Next ==
  /\ scenario' = scenario
  /\ \/ scenario = "transaction" /\ Transacting!Next
     \/ scenario = "reset" /\ Resetting!Next
     \/ scenario = "faults" /\ Failing!Next

vars == <<scenario, processing, reset_requested, failed, poison_tx,
          request_queue, inflight_requests, jobs, closed, streams, txs, pc,
          failure, call, ret, toServer, toClient, server, committed, broken,
          resets>>

Spec == Init /\ [][Next]_vars

Symmetry == Permutations({rs1, rs2})
-----------------------------------------------------------------------------
\* neo4j_commit succeeds only if the server has committed the transaction.
CommitHonest == scenario = "transaction" => Transacting!CommitHonest

\* While neo4j_commit, neo4j_rollback and neo4j_run_in_tx accept a transaction,
\* it is the one the server has open.
OpenMeansOpen == scenario = "transaction" => Transacting!OpenMeansOpen

\* A statement of a transaction is only executed inside that transaction.
InTransaction == [][scenario = "transaction" => Transacting!StepInTransaction]_vars

\* Whatever step the signal interrupts, the requests in flight are what is on
\* the wire, and the references of a stream are its owner and its requests.
WireAndReferences ==
  scenario = "reset" => Resetting!WireIsWindow /\ Resetting!RefcountCounts

\* The server never receives a request that its session has no place for.
InPlace == scenario = "reset" => Resetting!InPlace

\* A stream that has ended without a failure is complete: the server has
\* executed the statement and reported its end.
CompleteOrFailed == scenario = "faults" => Failing!CompleteOrFailed
=============================================================================
