----------------------------- MODULE Transaction -----------------------------
(***************************************************************************)
(* The explicit transactions of transaction.c, as values: what the         *)
(* callbacks of BEGIN, COMMIT and ROLLBACK do to a neo4j_transaction_t and *)
(* return, and when the transaction may still be used.                     *)
(***************************************************************************)
EXTENDS Integers

TxType ==
  [live : BOOLEAN,        \* allocated by new_transaction, not yet freed
   is_open : BOOLEAN, is_expired : BOOLEAN, failed : BOOLEAN,
   timed_out : BOOLEAN]   \* failure_code is TransactionTimedOut

NoTx == [live |-> FALSE, is_open |-> FALSE, is_expired |-> FALSE,
         failed |-> FALSE, timed_out |-> FALSE]

new_transaction == [NoTx EXCEPT !.live = TRUE]

\* Fault: a reset of the connection is not noticed.
DefunctIgnoresReset(tx, poisoned) == tx.is_expired \/ (tx.failed /\ tx.timed_out)

(* neo4j_tx_defunct; poisoned is the flag neo4j_reset leaves on the        *)
(* connection.                                                             *)
tx_defunct(tx, poisoned) ==
  tx.is_expired \/ poisoned \/ (tx.failed /\ tx.timed_out)

\* Fault: a transaction that has ended is accepted.
UsableClosed(tx, poisoned) == tx.live /\ ~tx_defunct(tx, poisoned)

(* The test neo4j_commit, neo4j_rollback, neo4j_run_in_tx and              *)
(* neo4j_send_to_tx make before they use the connection.                   *)
Usable(tx, poisoned) == tx.live /\ tx.is_open /\ ~tx_defunct(tx, poisoned)

TxFailed(tx, type) == [tx EXCEPT !.failed = TRUE, !.timed_out = type = "TIMEOUT"]

\* Fault: a COMMIT the server refused is not recorded.
TxCallbackForgetsFailure(request, tx, type) ==
  IF type = "IGNORED" \/ type \in {"FAILURE", "TIMEOUT"} THEN [tx |-> tx, rc |-> 0]
  ELSE [tx |-> [tx EXCEPT !.is_open = request = "BEGIN"], rc |-> 0]

(* begin_callback, commit_callback and rollback_callback differ only in    *)
(* what SUCCESS does.  An ignored request leaves the transaction as it is  *)
(* and is not an error.  They have no case for a drained request: see      *)
(* DrainCrashes in Session.                                                *)
tx_callback(request, tx, type) ==
  CASE type \in {"FAILURE", "TIMEOUT"} -> [tx |-> TxFailed(tx, type), rc |-> -1]
    [] type = "IGNORED" -> [tx |-> tx, rc |-> 0]
    [] type = "SUCCESS" ->
         [tx |-> CASE request = "BEGIN" -> [tx EXCEPT !.is_open = TRUE]
                   [] request = "COMMIT" -> [tx EXCEPT !.is_open = FALSE]
                   [] request = "ROLLBACK" ->
                        [tx EXCEPT !.is_open = FALSE, !.failed = FALSE],
          rc |-> 0]
    [] type \in {"INVALID", "RECORD", "BADRECORD"} ->
         [tx |-> [tx EXCEPT !.failed = TRUE], rc |-> -1]

(* What neo4j_begin_tx does when neo4j_session_transact has returned.      *)
Begun(tx, rc) == IF rc = 0 THEN tx ELSE [tx EXCEPT !.failed = TRUE]

(* What tx_commit and tx_rollback do when neo4j_session_transact has       *)
(* returned, and the value they return.                                    *)
Ended(tx, rc) ==
  IF rc = 0
  THEN [tx EXCEPT !.is_open = FALSE, !.failed = FALSE, !.timed_out = FALSE]
  ELSE [tx EXCEPT !.failed = TRUE]

(* tx_run could not start the statement, or it timed out on the server.    *)
RunFailed(tx) == [tx EXCEPT !.failed = TRUE]

\* Fault: the transaction is not marked as expired.
RunTimedOutUnmarked(tx) == RunFailed(tx)

RunTimedOut(tx) == [tx EXCEPT !.failed = TRUE, !.is_expired = TRUE]
=============================================================================
