---------------------------- MODULE ResultStream ----------------------------
(***************************************************************************)
(* The result streams of result_stream.c, as values: what each callback    *)
(* does to a run_result_stream_t, and what it returns.  Module Session     *)
(* keeps the streams of a connection and applies these operators when a    *)
(* reply is received, a request is drained or a job is aborted.            *)
(*                                                                         *)
(* A reply is SUCCESS, FAILURE (the server rejects the statement), TIMEOUT *)
(* (a FAILURE whose code is TransactionTimedOut), IGNORED, RECORD,         *)
(* BADRECORD (a RECORD whose field is not a list), INVALID (a message, or  *)
(* metadata, the caller cannot accept) or NULL (the request is drained).   *)
(***************************************************************************)
EXTENDS Integers, Sequences

(* Values of the failure field: 0 and the error codes a stream can carry.  *)
FailureCodes == {"none", "EVALUATION_FAILED", "TIMED_OUT", "PREVIOUS_FAILURE",
                 "EPROTO", "EINVAL", "SESSION_RESET", "SESSION_ENDED",
                 "SESSION_FAILED", "SESSION_BUSY", "CONNECTION_CLOSED",
                 "ENOBUFS", "TX_FAILED"}

StreamType(maxRecords) ==
  [open : BOOLEAN,             \* allocated by run_rs_open, not yet closed
   connection : BOOLEAN,       \* the connection pointer is not NULL
   refcount : -1 .. 3,
   starting : BOOLEAN,
   streaming : BOOLEAN,
   awaiting_records : 0 .. 2,
   records : Seq(1 .. maxRecords), \* fetched from the front, by number
   nrecords : 0 .. maxRecords, \* received, kept or not
   statement_type : BOOLEAN,   \* known: PULL_ALL or DISCARD_ALL succeeded
   failure : FailureCodes,
   lost : BOOLEAN]             \* the program has no pointer to it

NoStream ==
  [open |-> FALSE, connection |-> FALSE, refcount |-> 0, starting |-> FALSE,
   streaming |-> FALSE, awaiting_records |-> 0, records |-> <<>>,
   nrecords |-> 0, statement_type |-> FALSE, failure |-> "none", lost |-> FALSE]

run_rs_open == [NoStream EXCEPT !.open = TRUE, !.connection = TRUE, !.refcount = 1]

(* What neo4j_run and neo4j_send do once both requests are queued.         *)
Started(s) == [s EXCEPT !.starting = TRUE, !.streaming = TRUE]

set_failure(s, error) ==
  [s EXCEPT !.failure = error, !.streaming = FALSE, !.awaiting_records = 0]

\* Only the first failure of a stream is kept.
set_eval_failure(s, type) ==
  IF s.failure # "none" THEN s
  ELSE set_failure(s, IF type = "TIMEOUT" THEN "TIMED_OUT" ELSE "EVALUATION_FAILED")

\* Faults: the program is not told; the pointer to the connection is kept.
AbortSilently(s, err) == [s EXCEPT !.connection = FALSE]
AbortKeepsConnection(s, err) == IF s.failure = "none" THEN set_failure(s, err) ELSE s

abort_job(s, err) ==
  IF ~s.connection THEN s
  ELSE LET t == [s EXCEPT !.connection = FALSE]
       IN  IF s.streaming /\ s.failure = "none" THEN set_failure(t, err) ELSE t

(* A callback's effect: the stream after it, the value it returns, and     *)
(* whether one of its assertions fails.                                    *)
Result(s, rc) == [stream |-> s, rc |-> rc, assert |-> TRUE]

IsFailure(type) == type \in {"FAILURE", "TIMEOUT"}

\* Fault: the reference held for the RUN request is not given back.
RunCallbackKeepsReference(s0, type) ==
  LET s == [s0 EXCEPT !.starting = FALSE]
  IN  CASE type = "NULL" \/ ~s.connection -> Result(s, 0)
        [] s.connection /\ IsFailure(type) -> Result(set_eval_failure(s, type), 0)
        [] s.connection /\ type = "SUCCESS" -> Result(s, 0)
        [] OTHER -> Result(set_failure(s, "EPROTO"), -1)

run_callback(s0, type) ==
  LET s == [s0 EXCEPT !.starting = FALSE, !.refcount = @ - 1]
  IN  CASE type = "NULL" \/ ~s.connection -> Result(s, 0)
        [] s.connection /\ IsFailure(type) ->
             Result(set_eval_failure(s, type), 0)
        [] s.connection /\ type = "IGNORED" ->
             Result(IF s.failure = "none"
                    THEN set_failure(s, "PREVIOUS_FAILURE") ELSE s, 0)
        [] s.connection /\ type = "SUCCESS" -> Result(s, 0)
        [] s.connection /\ type \in {"RECORD", "BADRECORD", "INVALID"} ->
             Result(set_failure(s, "EPROTO"), -1)

stream_end(s, type) ==
  CASE type = "NULL" \/ ~s.connection -> Result(s, 0)
    [] s.connection /\ type = "IGNORED" ->
         IF s.failure = "none"
         THEN Result(set_failure(s, "EPROTO"), -1) ELSE Result(s, 0)
    [] s.connection /\ IsFailure(type) ->
         [Result(set_eval_failure(s, type), 0) EXCEPT !.assert = s.failure = "none"]
    [] s.connection /\ type = "SUCCESS" ->
         [Result([s EXCEPT !.statement_type = TRUE], 0)
            EXCEPT !.assert = s.failure = "none"]
    [] s.connection /\ type = "INVALID" ->
         [Result(set_failure(s, "EPROTO"), -1) EXCEPT !.assert = s.failure = "none"]

\* Fault: records are prepended.
AppendPrepends(s, n) ==
  IF ~s.streaming THEN [s EXCEPT !.nrecords = @ + 1]
  ELSE [s EXCEPT !.records = <<n>> \o @, !.nrecords = @ + 1,
                 !.awaiting_records = IF @ > 0 THEN @ - 1 ELSE @]

\* Records are dropped once the stream is no longer streaming.
append_result(s, n) ==
  IF ~s.streaming THEN [s EXCEPT !.nrecords = @ + 1]
  ELSE [s EXCEPT !.records = Append(@, n), !.nrecords = @ + 1,
                 !.awaiting_records = IF @ > 0 THEN @ - 1 ELSE @]

(* A record leaves the request at the head of the queue (1); a bad one     *)
(* fails the stream without giving back the request's reference.           *)
pull_all_callback(s, type, n) ==
  CASE type = "RECORD" -> Result(append_result(s, n), 1)
    [] type = "BADRECORD" -> Result(set_failure(s, "EPROTO"), -1)
    [] OTHER -> stream_end([s EXCEPT !.refcount = @ - 1, !.streaming = FALSE], type)

discard_all_callback(s, type) ==
  stream_end([s EXCEPT !.refcount = @ - 1, !.streaming = FALSE],
             IF type \in {"RECORD", "BADRECORD"} THEN "INVALID" ELSE type)
=============================================================================
