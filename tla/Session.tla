------------------------------- MODULE Session -------------------------------
(***************************************************************************)
(* A connection to a Bolt server (connection.c), the result streams and    *)
(* transactions that use it (result_stream.c, transaction.c), the program  *)
(* that calls them, and a signal handler that calls neo4j_reset in the     *)
(* middle of any of those calls, as the shell does on SIGINT.              *)
(*                                                                         *)
(* One action per stretch of code between two points where a signal can be *)
(* delivered with a different outcome, or where the program waits for the  *)
(* server.  The handler runs in the thread it interrupts: while it is      *)
(* active the program does not move.                                       *)
(***************************************************************************)
EXTENDS Integers, Sequences, FiniteSets, Filters, ResultStream, Transaction

CONSTANTS Streams, Txs,       \* result streams and transactions of the program
          None,               \* no stream, or no transaction
          QueueSize,          \* config->session_request_queue_size
          MaxPipelined,       \* config->max_pipelined_requests
          MaxRecords,         \* records the server sends for a statement
          MaxResets,          \* signals delivered in a behaviour
          SignalAt,           \* the points of the program where they are
          Ops,                \* the API calls the program makes
          Faults              \* what may go wrong outside the client

ASSUME SizeAssumption ==
  /\ QueueSize \in Nat \ {0}
  /\ MaxPipelined \in Nat \ {0}
  /\ MaxRecords \in Nat
  /\ MaxResets \in Nat
ASSUME NoneAssumption == None \notin Streams \cup Txs
ASSUME TargetsAssumption == Streams \cap (Txs \cup {"connection", "nothing"}) = {}
ASSUME SignalAssumption == "crashed" \notin SignalAt

VARIABLES processing, reset_requested, failed, poison_tx,   \* atomic flags
          request_queue, inflight_requests, jobs,
          closed,        \* neo4j_close has freed the connection
          streams, txs,
          pc,            \* where the program and the handler are
          failure,       \* the local `failure' of their receive_responses
          call,          \* the API call the program is making
          ret,           \* result and errno of its last session_sync
          toServer, toClient, server,  \* the wire and the server's session
          committed,     \* transactions the server committed
          broken,        \* the transport has failed
          resets         \* signals delivered so far

connVars == <<processing, reset_requested, failed, poison_tx, request_queue,
              inflight_requests, jobs, closed>>
ctlVars == <<pc, failure, call, ret>>
wireVars == <<toServer, toClient, server, committed, broken>>
vars == <<connVars, streams, txs, ctlVars, wireVars, resets>>

Actors == {"app", "sig"}

Statements == {"PULL_ALL", "DISCARD_ALL"}
TxRequests == {"BEGIN", "COMMIT", "ROLLBACK"}

(* A request names what its callback data points to and, for RUN, the      *)
(* transaction it belongs to.  BLANK is a slot new_request has handed out  *)
(* and its caller has not populated yet.                                   *)
Request(type, of, tx) == [type |-> type, of |-> of, tx |-> tx]
Ack == Request("ACK", "connection", None)
Reset == Request("RESET", "connection", None)
Goodbye == Request("GOODBYE", "connection", None)

IsReset(q) == q.type \in {"ACK", "RESET"}   \* both are RESET from Bolt 3 on

Idle == [op |-> "none", rs |-> None, tx |-> None, cond |-> "none",
         kind |-> "PULL_ALL", fill |-> Ack]

Init ==
  /\ processing = FALSE /\ reset_requested = FALSE
  /\ failed = FALSE /\ poison_tx = FALSE
  /\ request_queue = <<>> /\ inflight_requests = 0 /\ jobs = <<>>
  /\ closed = FALSE
  /\ streams = [s \in Streams |-> NoStream]
  /\ txs = [t \in Txs |-> NoTx]
  /\ pc = [a \in Actors |-> "idle"]
  /\ failure = [a \in Actors |-> FALSE]
  /\ call = Idle
  /\ ret = [rc |-> 0, errno |-> "none"]
  /\ toServer = <<>> /\ toClient = <<>>
  /\ server = [mode |-> "READY", tx |-> None, n |-> 0]
  /\ committed = {}
  /\ broken = FALSE
  /\ resets = 0
-----------------------------------------------------------------------------
(* The program runs only while the handler does not.                       *)
At(label) == pc["app"] = label /\ pc["sig"] = "idle"
Goto(label) == pc' = [pc EXCEPT !["app"] = label]

(* A failed assertion or a NULL pointer dereferenced: the process is gone. *)
Crash == pc' = [pc EXCEPT !["app"] = "crashed", !["sig"] = "idle"]

(* drain_queued_requests: every queued request's callback is given NULL.   *)
(* Those of streams take it; those of BEGIN, COMMIT and ROLLBACK, and an   *)
(* unpopulated request, dereference a NULL pointer.                        *)
DrainedStreams(q, st) ==
  LET Has(s, types) == \E i \in DOMAIN q : q[i].of = s /\ q[i].type \in types
      Run(s) == IF Has(s, {"RUN"}) THEN run_callback(st[s], "NULL").stream ELSE st[s]
  IN  [s \in Streams |->
         IF Has(s, Statements)
         THEN pull_all_callback(Run(s), "NULL", 0).stream ELSE Run(s)]

DrainCrashes(q) == \E i \in DOMAIN q : q[i].type \in TxRequests \cup {"BLANK"}

(* new_request: whether there is room, and the queue with the request.     *)
CanQueue == ~failed /\ Len(request_queue) < QueueSize
QueueError == IF failed THEN "SESSION_FAILED" ELSE "ENOBUFS"

\* Fault: the request goes to the head of the queue.
QueueFirst(q) == <<q>> \o request_queue

Queue(q) == Append(request_queue, q)

(* Stopping the open jobs: the loop of session_reset and neo4j_close reads *)
(* job->next after abort_job has cleared it, so it ends with the first.    *)
AbortedJobs(err) ==
  IF jobs = <<>> THEN streams
  ELSE [streams EXCEPT ![Head(jobs)] = abort_job(@, err)]

(* neo4j_detach_job                                                        *)
DetachJob(s) == Filter(jobs, Streams \ {s})

(* The callback of request q for a reply of the given type.                *)
Callback(q, m, st, tx) ==
  CASE q.type = "RUN" ->
         LET r == run_callback(st[q.of], m.type)
         IN  [streams |-> [st EXCEPT ![q.of] = r.stream], txs |-> tx,
              rc |-> r.rc, assert |-> r.assert]
    [] q.type \in Statements ->
         LET r == IF q.type = "PULL_ALL" THEN pull_all_callback(st[q.of], m.type, m.n)
                  ELSE discard_all_callback(st[q.of], m.type)
         IN  [streams |-> [st EXCEPT ![q.of] = r.stream], txs |-> tx,
              rc |-> r.rc, assert |-> r.assert]
    [] q.type \in TxRequests ->
         LET r == tx_callback(q.type, tx[q.of], m.type)
         IN  [streams |-> st, txs |-> [tx EXCEPT ![q.of] = r.tx],
              rc |-> r.rc, assert |-> TRUE]
    [] q.type = "ACK" ->   \* ack_failure_callback
         [streams |-> st, txs |-> tx, assert |-> TRUE,
          rc |-> IF m.type \in {"SUCCESS", "IGNORED"} THEN 0 ELSE -1]

\* Fault: a record, too, takes its request off the queue.
PopsOnRecord(rc) == TRUE

\* Only the final reply to a request takes it off the queue.
Pops(rc) == rc <= 0

\* Fault: the window is not moved when a request is popped.
InflightKept(pop) == inflight_requests

InflightAfter(pop) == IF pop THEN inflight_requests - 1 ELSE inflight_requests

(* One turn of the loop of receive_responses by actor a: what it has read, *)
(* what it has done about it and how it goes on.  An error return after a  *)
(* reply without arguments (IGNORED) looks up the failure code in argv[0]. *)
Received(a) ==
  LET m == Head(toClient)
      unexpected == failure[a] /\ m.type # "IGNORED"
      cb == Callback(Head(request_queue), m, streams, txs)
      pop == ~unexpected /\ Pops(cb.rc)
  IN  [rc |-> IF unexpected THEN -1 ELSE cb.rc,
       streams |-> IF unexpected THEN streams ELSE cb.streams,
       txs |-> IF unexpected THEN txs ELSE cb.txs,
       queue |-> IF pop THEN Tail(request_queue) ELSE request_queue,
       inflight |-> InflightAfter(pop),
       failure |-> failure[a] \/ IsFailure(m.type),
       crash |-> ~unexpected /\ (~cb.assert \/ (cb.rc < 0 /\ m.type = "IGNORED"))]

(* neo4j_connection_recv has a reply to return, or it fails: nothing will  *)
(* come any more, or the message is not one it knows, and is lost.         *)
Garbled == toClient # <<>> /\ Head(toClient).type = "GARBLED"
Reply == toClient # <<>> /\ ~Garbled
NoReply ==
  \/ broken /\ toClient = <<>> /\ UNCHANGED toClient
  \/ Garbled /\ toClient' = Tail(toClient)
-----------------------------------------------------------------------------
(* Calls that need the server end in a session_sync, whose condition is a  *)
(* counter of a stream; "none" is the NULL condition.                      *)
CondHolds(st) ==
  CASE call.cond = "none" -> TRUE
    [] call.cond = "starting" -> st[call.rs].starting
    [] call.cond = "streaming" -> st[call.rs].streaming
    [] call.cond = "awaiting_records" -> st[call.rs].awaiting_records > 0
    [] call.cond = "refcount" -> st[call.rs].refcount > 0

Return(rc, errno) == Goto("done") /\ ret' = [rc |-> rc, errno |-> errno]

\* Fault: the lock is not released after an error.
FailSyncKeepsLock(errno, q, st) ==
  /\ Goto("done")
  /\ request_queue' = <<>>
  /\ inflight_requests' = 0
  /\ streams' = DrainedStreams(q, st)
  /\ ret' = [rc |-> -1, errno |-> errno]

(* The error exit of session_sync: drain everything and unlock.            *)
FailSync(errno, q, st) ==
  /\ IF DrainCrashes(q) THEN Crash ELSE Goto("unlock")
  /\ request_queue' = <<>>
  /\ inflight_requests' = 0
  /\ streams' = DrainedStreams(q, st)
  /\ ret' = [rc |-> -1, errno |-> errno]

sync_enter ==
  /\ At("enter")
  /\ IF call.cond # "none" /\ ~streams[call.rs].connection
     THEN Return(-1, "EINVAL")
     ELSE IF failed THEN Return(-1, "SESSION_FAILED")
     ELSE Goto("lock") /\ UNCHANGED ret
  /\ UNCHANGED <<connVars, streams, txs, failure, call, wireVars, resets>>

sync_lock ==
  /\ At("lock")
  /\ IF processing THEN Return(-1, "SESSION_BUSY")
     ELSE Goto("loop") /\ UNCHANGED ret
  /\ processing' = TRUE
  /\ UNCHANGED <<reset_requested, failed, poison_tx, request_queue,
                 inflight_requests, jobs, closed, streams, txs, failure, call,
                 wireVars, resets>>

\* Fault: a reset does not end the loop, which cannot send either.
MoreInSpiteOfReset == CondHolds(streams) /\ request_queue # <<>>

MoreToDo == CondHolds(streams) /\ request_queue # <<>> /\ ~reset_requested

(* The head of session_sync's loop, and the first test of receive_         *)
(* responses' loop, which it enters with failure = false.                  *)
sync_loop ==
  /\ At("loop")
  /\ failure' = [failure EXCEPT !["app"] = FALSE]
  /\ IF MoreToDo
     THEN IF inflight_requests > 0 THEN Goto("reply") ELSE Goto("send")
     ELSE Goto("exit")
  /\ UNCHANGED <<connVars, streams, txs, call, ret, wireVars, resets>>

(* A reply is received, its callback run, and the loop of receive_         *)
(* responses goes on, is interrupted, ends in a failure (the queue is      *)
(* drained and the failure acknowledged), or ends normally.                *)
sync_receive ==
  /\ At("reply") /\ Reply
  /\ \E r \in {Received("app")} :
       LET more == (r.failure \/ CondHolds(r.streams)) /\ r.inflight > 0
       IN  /\ toClient' = Tail(toClient)
           /\ failure' = [failure EXCEPT !["app"] = r.failure]
           /\ txs' = r.txs
           /\ \/ /\ r.crash
                 /\ Crash
                 /\ UNCHANGED <<failed, request_queue, inflight_requests, streams, ret>>
              \/ /\ ~r.crash /\ r.rc < 0
                 /\ failed' = TRUE
                 /\ FailSync("EPROTO", r.queue, r.streams)
              \/ /\ ~r.crash /\ r.rc >= 0 /\ r.failure /\ ~more /\ ~reset_requested
                 /\ IF DrainCrashes(r.queue) THEN Crash ELSE Goto("unlock_ack")
                 /\ request_queue' = <<>>
                 /\ inflight_requests' = 0
                 /\ streams' = DrainedStreams(r.queue, r.streams)
                 /\ UNCHANGED <<failed, ret>>
              \/ /\ ~r.crash /\ r.rc >= 0 /\ (~r.failure \/ more \/ reset_requested)
                 /\ IF reset_requested THEN Goto("exit")
                    ELSE IF more THEN Goto("reply") ELSE Goto("send")
                 /\ request_queue' = r.queue
                 /\ inflight_requests' = r.inflight
                 /\ streams' = r.streams
                 /\ UNCHANGED <<failed, ret>>
  /\ UNCHANGED <<processing, reset_requested, poison_tx, jobs, closed, call,
                 toServer, server, committed, broken, resets>>

sync_receive_error ==
  /\ At("reply") /\ NoReply
  /\ FailSync("CONNECTION_CLOSED", request_queue, streams)
  /\ UNCHANGED <<processing, reset_requested, failed, poison_tx, jobs, closed,
                 txs, failure, call, toServer, server, committed, broken, resets>>
-----------------------------------------------------------------------------
(* send_requests: the window is tested, then a request is sent.  A signal  *)
(* can be delivered in between.                                            *)
send_requests ==
  /\ At("send")
  /\ IF /\ inflight_requests < Len(request_queue)
        /\ inflight_requests < MaxPipelined
        /\ ~reset_requested
     THEN Goto("xmit") ELSE Goto("loop")
  /\ UNCHANGED <<connVars, streams, txs, failure, call, ret, wireVars, resets>>

(* When the transport has failed the message is lost, with or without an   *)
(* error: neo4j_message_send ignores what closing the chunking stream, and *)
(* so flushing a small message, returns.                                   *)
send_request ==
  /\ At("xmit")
  /\ \/ /\ inflight_requests' = inflight_requests + 1
        /\ toServer' = IF broken THEN toServer
                       ELSE Append(toServer, request_queue[inflight_requests + 1])
        /\ Goto("send")
        /\ UNCHANGED <<request_queue, streams, ret>>
     \/ /\ broken
        /\ FailSync("CONNECTION_CLOSED", request_queue, streams)
        /\ UNCHANGED toServer
  /\ UNCHANGED <<processing, reset_requested, failed, poison_tx, jobs, closed, txs,
                 failure, call, toClient, server, committed, broken, resets>>

\* Fault: the replies to the requests in flight are not awaited.
ResetAtOnce == "rfinal"

(* session_reset starts with the replies to what is in flight, if any.     *)
ResetFrom == IF inflight_requests > 0 THEN "rrecv" ELSE "rfinal"

(* The end of session_sync's loop: serve a reset, or return.               *)
sync_exit ==
  /\ At("exit")
  /\ IF reset_requested
     THEN /\ streams' = AbortedJobs("SESSION_RESET")
          /\ jobs' = <<>>
          /\ failure' = [failure EXCEPT !["app"] = FALSE]
          /\ Goto(ResetFrom)
          /\ UNCHANGED ret
     ELSE /\ ret' = [rc |-> 0, errno |-> ret.errno]
          /\ Goto("unlock")
          /\ UNCHANGED <<streams, jobs, failure>>
  /\ UNCHANGED <<processing, reset_requested, failed, poison_tx, request_queue,
                 inflight_requests, closed, txs, call, wireVars, resets>>

sync_unlock ==
  /\ At("unlock")
  /\ processing' = FALSE
  /\ Goto("done")
  /\ UNCHANGED <<reset_requested, failed, poison_tx, request_queue,
                 inflight_requests, jobs, closed, streams, txs, failure, call,
                 ret, wireVars, resets>>

(* After a failure the lock is released before the call of ack_failure,    *)
(* whose result is the caller's.                                           *)
sync_unlock_ack ==
  /\ At("unlock_ack")
  /\ processing' = FALSE
  /\ call' = [call EXCEPT !.cond = "none", !.fill = Ack]
  /\ Goto("alloc")
  /\ UNCHANGED <<reset_requested, failed, poison_tx, request_queue,
                 inflight_requests, jobs, closed, streams, txs, failure, ret,
                 wireVars, resets>>

(* ack_failure and neo4j_session_transact take a slot of the queue without *)
(* the lock, populate it, and enter session_sync.                          *)
new_request ==
  /\ At("alloc")
  /\ IF CanQueue
     THEN /\ request_queue' = Queue(Request("BLANK", "nothing", None))
          /\ Goto("fill")
          /\ UNCHANGED ret
     ELSE Return(-1, QueueError) /\ UNCHANGED request_queue
  /\ UNCHANGED <<processing, reset_requested, failed, poison_tx, inflight_requests,
                 jobs, closed, streams, txs, failure, call, wireVars, resets>>

populate ==
  /\ At("fill")
  /\ request_queue' = [request_queue EXCEPT ![Len(request_queue)] = call.fill]
  /\ Goto("enter")
  /\ UNCHANGED <<processing, reset_requested, failed, poison_tx, inflight_requests,
                 jobs, closed, streams, txs, failure, call, ret, wireVars, resets>>
-----------------------------------------------------------------------------
(* session_reset, by the program or by the handler.                        *)
Resetting(a, label) == pc[a] = label /\ (a = "app" => pc["sig"] = "idle")

\* Fault: neo4j_reset forgets to release the lock.
NeverReleased(a) == TRUE

StillProcessing(a) == a = "app"

(* Its end: the queue is drained, and the caller, session_sync or          *)
(* neo4j_reset, clears the request and, the latter, the lock.              *)
EndReset(a, errno, q, st) ==
  /\ request_queue' = <<>>
  /\ inflight_requests' = 0
  /\ streams' = DrainedStreams(q, st)
  /\ reset_requested' = FALSE
  /\ ret' = IF a = "app" THEN [rc |-> -1, errno |-> errno] ELSE ret
  /\ processing' = StillProcessing(a)
  /\ poison_tx' = (poison_tx \/ a = "sig")
  /\ IF DrainCrashes(q) THEN Crash
     ELSE pc' = [pc EXCEPT ![a] = IF a = "app" THEN "unlock" ELSE "idle"]

reset_receive(a) ==
  /\ Resetting(a, "rrecv") /\ Reply
  /\ \E r \in {Received(a)} :
       /\ toClient' = Tail(toClient)
       /\ failure' = [failure EXCEPT ![a] = r.failure]
       /\ txs' = r.txs
       /\ \/ /\ r.crash
             /\ Crash
             /\ UNCHANGED <<processing, reset_requested, failed, poison_tx,
                            request_queue, inflight_requests, streams, ret>>
          \/ /\ ~r.crash /\ r.rc < 0
             /\ failed' = TRUE
             /\ EndReset(a, "EPROTO", r.queue, r.streams)
          \/ /\ ~r.crash /\ r.rc >= 0
             /\ request_queue' = r.queue
             /\ inflight_requests' = r.inflight
             /\ streams' = r.streams
             /\ pc' = [pc EXCEPT ![a] = IF r.inflight > 0 THEN "rrecv" ELSE "rfinal"]
             /\ UNCHANGED <<processing, reset_requested, failed, poison_tx, ret>>
  /\ UNCHANGED <<jobs, closed, call, toServer, server, committed, broken, resets>>

reset_reply(a) ==
  /\ Resetting(a, "rfinal") /\ Reply
  /\ toClient' = Tail(toClient)
  /\ IF Head(toClient).type = "SUCCESS"
     THEN EndReset(a, "SESSION_RESET", request_queue, streams) /\ UNCHANGED failed
     ELSE EndReset(a, "EPROTO", request_queue, streams) /\ failed' = TRUE
  /\ UNCHANGED <<jobs, closed, txs, failure, call, toServer, server, committed,
                 broken, resets>>

reset_error(a) ==
  /\ Resetting(a, "rrecv") \/ Resetting(a, "rfinal")
  /\ NoReply
  /\ failed' = TRUE
  /\ EndReset(a, "CONNECTION_CLOSED", request_queue, streams)
  /\ UNCHANGED <<jobs, closed, txs, failure, call, toServer, server, committed,
                 broken, resets>>

(* The signal handler: RESET is sent at once, whatever the program is      *)
(* doing; the rest is left to the program if it is in a critical section.  *)
neo4j_reset ==
  /\ pc["sig"] = "idle" /\ pc["app"] \in SignalAt
  /\ ~closed /\ resets < MaxResets
  /\ resets' = resets + 1
  /\ \/ /\ failed' = FALSE
        /\ reset_requested' = TRUE
        /\ toServer' = IF broken THEN toServer ELSE Append(toServer, Reset)
        /\ IF reset_requested \/ processing
           THEN UNCHANGED <<processing, streams, jobs, failure, pc>>
           ELSE /\ processing' = TRUE
                /\ streams' = AbortedJobs("SESSION_RESET")
                /\ jobs' = <<>>
                /\ failure' = [failure EXCEPT !["sig"] = FALSE]
                /\ pc' = [pc EXCEPT !["sig"] = ResetFrom]
     \/ /\ broken
        /\ failed' = TRUE
        /\ UNCHANGED <<processing, reset_requested, streams, jobs, failure, pc, toServer>>
  /\ UNCHANGED <<poison_tx, request_queue, inflight_requests, closed, txs, call,
                 ret, toClient, server, committed, broken>>
-----------------------------------------------------------------------------
(* neo4j_close                                                             *)
close_start ==
  /\ At("idle") /\ "close" \in Ops /\ ~closed /\ ~processing
  /\ processing' = TRUE
  /\ streams' = AbortedJobs("SESSION_ENDED")
  /\ jobs' = <<>>
  /\ failure' = [failure EXCEPT !["app"] = FALSE]
  /\ IF ~failed /\ inflight_requests > 0 THEN Goto("crecv") ELSE Goto("cend")
  /\ UNCHANGED <<reset_requested, failed, poison_tx, request_queue,
                 inflight_requests, closed, txs, call, ret, wireVars, resets>>

\* That a reply was a FAILURE counts as a failure of the connection.
close_receive ==
  /\ At("crecv") /\ Reply
  /\ \E r \in {Received("app")} :
       LET last == r.rc < 0 \/ r.inflight = 0
       IN  /\ toClient' = Tail(toClient)
           /\ failure' = [failure EXCEPT !["app"] = r.failure]
           /\ txs' = r.txs
           /\ streams' = r.streams
           /\ request_queue' = r.queue
           /\ inflight_requests' = r.inflight
           /\ failed' = (failed \/ r.rc < 0 \/ (last /\ r.failure))
           /\ IF r.crash THEN Crash ELSE IF last THEN Goto("cend") ELSE Goto("crecv")
  /\ UNCHANGED <<processing, reset_requested, poison_tx, jobs, closed, call, ret,
                 toServer, server, committed, broken, resets>>

close_receive_error ==
  /\ At("crecv") /\ NoReply
  /\ failed' = TRUE
  /\ Goto("cend")
  /\ UNCHANGED <<processing, reset_requested, poison_tx, request_queue,
                 inflight_requests, jobs, closed, streams, txs, failure, call, ret,
                 toServer, server, committed, broken, resets>>

(* The queue is drained, GOODBYE sent, and the connection freed.           *)
close_end ==
  /\ At("cend")
  /\ IF DrainCrashes(request_queue) THEN Crash ELSE Goto("idle")
  /\ streams' = DrainedStreams(request_queue, streams)
  /\ request_queue' = <<>>
  /\ inflight_requests' = 0
  /\ processing' = FALSE
  /\ toServer' = IF failed \/ broken THEN toServer ELSE Append(toServer, Goodbye)
  /\ closed' = TRUE
  /\ UNCHANGED <<reset_requested, failed, poison_tx, jobs, txs, failure, call, ret,
                 toClient, server, committed, broken, resets>>
-----------------------------------------------------------------------------
(* The calls of the program.  Those that change nothing (a stream that has *)
(* failed, a transaction that is defunct) are left out.                    *)
Calls(op) == At("idle") /\ op \in Ops /\ ~closed

Held(s) == streams[s].open /\ ~streams[s].lost

Enter(label, c) == Goto(label) /\ call' = c

unchangedByCall == <<processing, reset_requested, failed, poison_tx, request_queue,
                     inflight_requests, closed, failure, ret, wireVars, resets>>

(* neo4j_run, neo4j_send, neo4j_run_in_tx and neo4j_send_to_tx: the stream *)
(* is opened and attached.                                                 *)
run_open(s, kind, t) ==
  /\ Calls(IF t # None THEN "run_in_tx" ELSE IF kind = "PULL_ALL" THEN "run" ELSE "send")
  /\ ~streams[s].open
  /\ t # None => Usable(txs[t], poison_tx)
  /\ IF failed
     THEN /\ t # None
          /\ txs' = [txs EXCEPT ![t] = RunFailed(@)]
          /\ UNCHANGED <<streams, jobs, pc, call>>
     ELSE /\ streams' = [streams EXCEPT ![s] = run_rs_open]
          /\ jobs' = <<s>> \o jobs
          /\ Enter("run", [Idle EXCEPT !.op = "run", !.rs = s, !.tx = t,
                                       !.kind = kind, !.cond = "starting"])
          /\ UNCHANGED txs
  /\ UNCHANGED unchangedByCall

(* neo4j_session_run, then neo4j_session_pull_all or _discard_all, to the  *)
(* release of their lock.                                                  *)
Enqueue(q, next) ==
  /\ processing' = TRUE
  /\ Goto(next)
  /\ IF CanQueue
     THEN /\ request_queue' = Queue(q)
          /\ ret' = [rc |-> 0, errno |-> ret.errno]
     ELSE /\ ret' = [rc |-> -1, errno |-> QueueError]
          /\ UNCHANGED request_queue

session_run ==
  /\ At("run")
  /\ IF processing THEN Goto("abandon") /\ UNCHANGED <<processing, request_queue, ret>>
     ELSE Enqueue(Request("RUN", call.rs, call.tx), "run_unlock")
  /\ UNCHANGED <<reset_requested, failed, poison_tx, inflight_requests, jobs, closed,
                 streams, txs, failure, call, wireVars, resets>>

session_pull_all ==
  /\ At("pull")
  /\ IF processing \/ ~streams[call.rs].connection
     THEN Goto("abandon") /\ UNCHANGED <<processing, request_queue, ret>>
     ELSE Enqueue(Request(call.kind, call.rs, call.tx), "pull_unlock")
  /\ UNCHANGED <<reset_requested, failed, poison_tx, inflight_requests, jobs, closed,
                 streams, txs, failure, call, wireVars, resets>>

\* Fault: no reference is taken.
NotReferenced(s) == s

(* Each queued request holds a reference to the stream.                    *)
Referenced(s) == [s EXCEPT !.refcount = @ + 1]

session_unlock ==
  /\ At("run_unlock") \/ At("pull_unlock")
  /\ processing' = FALSE
  /\ IF ret.rc < 0 THEN Goto("abandon") /\ UNCHANGED streams
     ELSE /\ streams' = [streams EXCEPT ![call.rs] = Referenced(@)]
          /\ IF pc["app"] = "run_unlock" THEN Goto("pull") ELSE Goto("start")
  /\ UNCHANGED <<reset_requested, failed, poison_tx, request_queue,
                 inflight_requests, jobs, closed, txs, failure, call, ret,
                 wireVars, resets>>

(* The stream has started; tx_run goes on to neo4j_check_failure.          *)
run_start ==
  /\ At("start")
  /\ streams' = [streams EXCEPT ![call.rs] = Started(@)]
  /\ IF call.tx = None THEN Goto("idle") ELSE Goto("enter")
  /\ call' = IF call.tx = None THEN Idle ELSE call
  /\ UNCHANGED <<unchangedByCall, jobs, txs>>

\* Fault: the stream is freed without waiting for its requests.
RunRsCloseAtOnce(s, c) ==
  /\ streams' = [streams EXCEPT ![s].streaming = FALSE, ![s].refcount = @ - 1]
  /\ Enter("free", [c EXCEPT !.cond = "refcount"])

(* run_rs_close, called by the program or after a failed run: it waits     *)
(* until no request refers to the stream.                                  *)
run_rs_close(s, c) ==
  /\ streams' = [streams EXCEPT ![s].streaming = FALSE, ![s].refcount = @ - 1]
  /\ Enter(IF streams[s].refcount > 1 THEN "enter" ELSE "free",
           [c EXCEPT !.cond = "refcount"])

abandon ==
  /\ At("abandon")
  /\ run_rs_close(call.rs, [call EXCEPT !.op = "abandon"])
  /\ UNCHANGED <<unchangedByCall, jobs, txs>>

close_results(s) ==
  /\ At("idle") /\ "close_rs" \in Ops
  /\ Held(s)
  /\ run_rs_close(s, [Idle EXCEPT !.op = "close_rs", !.rs = s])
  /\ UNCHANGED <<unchangedByCall, jobs, txs>>

(* ... and is then detached and freed.  A stream neo4j_close did not abort *)
(* still points to the connection that was freed.                          *)
free_results ==
  /\ At("free")
  /\ LET s == streams[call.rs]
     IN  IF s.refcount # 0 \/ (s.connection /\ closed)
         THEN Crash /\ UNCHANGED <<streams, jobs, txs, call>>
         ELSE /\ streams' = [streams EXCEPT ![call.rs] = NoStream]
              /\ jobs' = IF s.connection THEN DetachJob(call.rs) ELSE jobs
              /\ txs' = IF call.tx = None THEN txs
                        ELSE [txs EXCEPT ![call.tx] = RunFailed(@)]
              /\ Enter("idle", Idle)
  /\ UNCHANGED unchangedByCall

(* neo4j_check_failure and the other accessors that await `starting'.      *)
check_failure(s) ==
  /\ Calls("check")
  /\ Held(s) /\ streams[s].failure = "none" /\ streams[s].starting
  /\ Enter("enter", [Idle EXCEPT !.op = "check", !.rs = s, !.cond = "starting"])
  /\ UNCHANGED <<unchangedByCall, jobs, streams, txs>>

(* neo4j_statement_type and the other accessors that await `streaming'.    *)
consume(s) ==
  /\ Calls("consume")
  /\ Held(s) /\ streams[s].failure = "none" /\ streams[s].streaming
  /\ Enter("enter", [Idle EXCEPT !.op = "consume", !.rs = s, !.cond = "streaming"])
  /\ UNCHANGED <<unchangedByCall, jobs, streams, txs>>

(* neo4j_fetch_next and neo4j_peek (depth 1) await the records they lack,   *)
(* and assert that a stream they can still wait for has not failed.         *)
Pop(s) == [s EXCEPT !.records = Tail(@)]
Await(s, n) == [s EXCEPT !.awaiting_records = n]
AwaitRecords(s, n, op) ==
  IF streams[s].failure = "none"
  THEN /\ streams' = [streams EXCEPT ![s] = Await(@, n)]
       /\ Enter("enter", [Idle EXCEPT !.op = op, !.rs = s, !.cond = "awaiting_records"])
  ELSE Crash /\ UNCHANGED <<streams, call>>

fetch_next(s) ==
  /\ At("idle") /\ "fetch" \in Ops
  /\ Held(s)
  /\ \/ /\ streams[s].records # <<>>
        /\ streams' = [streams EXCEPT ![s] = Pop(@)]
        /\ UNCHANGED <<pc, call>>
     \/ /\ streams[s].records = <<>> /\ streams[s].streaming
        /\ AwaitRecords(s, 1, "fetch")
  /\ UNCHANGED <<unchangedByCall, jobs, txs>>

peek(s) ==
  /\ Calls("peek")
  /\ Held(s) /\ streams[s].streaming /\ Len(streams[s].records) <= 1
  /\ AwaitRecords(s, 2 - Len(streams[s].records), "peek")
  /\ UNCHANGED <<unchangedByCall, jobs, txs>>

(* neo4j_begin_tx, neo4j_commit, neo4j_rollback and neo4j_free_tx.  The     *)
(* program has one transaction at a time, and ends it before it frees it.  *)
begin_tx(t) ==
  /\ Calls("begin")
  /\ ~txs[t].live
  /\ \A u \in Txs : ~Usable(txs[u], poison_tx)
  /\ txs' = [txs EXCEPT ![t] = new_transaction]
  /\ poison_tx' = FALSE
  /\ committed' = committed \ {t}    \* a new transaction takes the name
  /\ Enter("alloc", [Idle EXCEPT !.op = "begin", !.tx = t,
                                 !.fill = Request("BEGIN", t, t)])
  /\ UNCHANGED <<processing, reset_requested, failed, request_queue,
                 inflight_requests, closed, failure, ret, toServer, toClient,
                 server, broken, resets, jobs, streams>>

tx_commit(t) ==
  /\ Calls("commit")
  /\ Usable(txs[t], poison_tx)
  /\ Enter("alloc", [Idle EXCEPT !.op = "commit", !.tx = t,
                                 !.fill = Request("COMMIT", t, t)])
  /\ UNCHANGED <<unchangedByCall, jobs, streams, txs>>

tx_rollback(t) ==
  /\ Calls("rollback")
  /\ Usable(txs[t], poison_tx)
  /\ Enter("alloc", [Idle EXCEPT !.op = "rollback", !.tx = t,
                                 !.fill = Request("ROLLBACK", t, t)])
  /\ UNCHANGED <<unchangedByCall, jobs, streams, txs>>

free_tx(t) ==
  /\ At("idle") /\ "begin" \in Ops
  /\ txs[t].live /\ (closed \/ ~Usable(txs[t], poison_tx))
  /\ txs' = [txs EXCEPT ![t] = NoTx]
  /\ UNCHANGED <<unchangedByCall, jobs, streams, pc, call>>

(* What the calls do with the result of session_sync.  A failed await sets *)
(* the failure of the stream; fetch_next and peek assert that a record     *)
(* they still lack will not come.  When its statement has timed out,       *)
(* tx_run returns NULL and the program has lost the stream.                *)
Lost(s) == [s EXCEPT !.lost = TRUE]

\* Faults: a failed await leaves no trace; one that succeeds clears the failure.
AwaitedSilently(s) == s
AwaitedAlways(s) == set_failure(s, ret.errno)

Awaited(s) == IF ret.rc < 0 THEN set_failure(s, ret.errno) ELSE s

return_to_stream ==
  /\ At("done") /\ call.rs # None
  /\ LET s == Awaited(streams[call.rs])
         lacking == \/ call.op = "fetch" /\ s.records = <<>>
                    \/ call.op = "peek" /\ Len(s.records) <= 1
         timedOut == call.op = "run" /\ s.failure = "TIMED_OUT"
     IN  /\ streams' = [streams EXCEPT ![call.rs] =
                          IF call.op = "fetch" /\ ret.rc = 0 /\ ~lacking THEN Pop(s)
                          ELSE IF timedOut THEN Lost(s) ELSE s]
         /\ txs' = IF timedOut THEN [txs EXCEPT ![call.tx] = RunTimedOut(@)] ELSE txs
         /\ IF ret.rc = 0 /\ lacking /\ s.streaming
            THEN Crash /\ UNCHANGED call
            ELSE IF call.op \in {"close_rs", "abandon"}
            THEN Goto("free") /\ UNCHANGED call
            ELSE Enter("idle", Idle)
  /\ UNCHANGED <<unchangedByCall, jobs>>

return_to_tx ==
  /\ At("done") /\ call.rs = None
  /\ txs' = [txs EXCEPT ![call.tx] =
               IF call.op = "begin" THEN Begun(@, ret.rc) ELSE Ended(@, ret.rc)]
  /\ Enter("idle", Idle)
  /\ UNCHANGED <<unchangedByCall, jobs, streams>>
-----------------------------------------------------------------------------
(* The server and the transport, as far as the client relies on them: the  *)
(* requests of a session are answered in order; a failure rolls its        *)
(* transaction back and makes the server ignore what follows until RESET.  *)
Serve(q, type, n, mode, tx) ==
  /\ toServer # <<>> /\ Head(toServer) = q
  /\ toServer' = IF type \in {"RECORD", "BADRECORD"} THEN toServer ELSE Tail(toServer)
  /\ toClient' = Append(toClient, [type |-> type, to |-> q, n |-> n])
  /\ server' = [mode |-> mode, tx |-> tx, n |-> n]

\* The requests that do not fit the state of the server's session.
OutOfPlace(q) ==
  \/ q.type = "RUN" /\ server.mode # "READY"
  \/ q.type \in Statements /\ server.mode # "STREAMING"
  \/ q.type = "BEGIN" /\ (server.mode # "READY" \/ server.tx # None)
  \/ q.type \in {"COMMIT", "ROLLBACK"} /\ (server.mode # "READY" \/ server.tx = None)

ServerRefuse(q) ==
  /\ server.mode # "FAILED"
  /\ \/ /\ ("FAILURE" \in Faults) \/ OutOfPlace(q)
        /\ Serve(q, "FAILURE", 0, "FAILED", None)
     \/ /\ "TIMEOUT" \in Faults /\ server.tx # None
        /\ q.type \in {"RUN", "COMMIT"}
        /\ Serve(q, "TIMEOUT", 0, "FAILED", None)
  /\ UNCHANGED committed

\* A RESET that has arrived interrupts what is before it.
ServerIgnore(q) ==
  /\ \/ server.mode = "FAILED"
     \/ /\ "INTERRUPT" \in Faults
        /\ \E i \in DOMAIN toServer : IsReset(toServer[i])
  /\ Serve(q, "IGNORED", 0, "FAILED", None)
  /\ UNCHANGED committed

ServerRun(q) ==
  /\ q.type = "RUN" /\ server.mode = "READY"
  /\ \/ Serve(q, "SUCCESS", 0, "STREAMING", server.tx)
     \/ \E type \in {"INVALID", "GARBLED"} \cap Faults :
          Serve(q, type, 0, "STREAMING", server.tx)
  /\ UNCHANGED committed

ServerPull(q) ==
  /\ q.type \in Statements /\ server.mode = "STREAMING"
  /\ \/ /\ q.type = "PULL_ALL" /\ server.n < MaxRecords
        /\ \/ Serve(q, "RECORD", server.n + 1, "STREAMING", server.tx)
           \/ /\ "BADRECORD" \in Faults
              /\ Serve(q, "BADRECORD", server.n + 1, "STREAMING", server.tx)
     \/ Serve(q, "SUCCESS", server.n, "READY", server.tx)
  /\ UNCHANGED committed

ServerTx(q) ==
  /\ server.mode = "READY"
  /\ \/ /\ q.type = "BEGIN" /\ server.tx = None
        /\ Serve(q, "SUCCESS", 0, "READY", q.of)
        /\ UNCHANGED committed
     \/ /\ q.type = "COMMIT" /\ server.tx # None
        /\ Serve(q, "SUCCESS", 0, "READY", None)
        /\ committed' = committed \cup {server.tx}
     \/ /\ q.type = "ROLLBACK" /\ server.tx # None
        /\ Serve(q, "SUCCESS", 0, "READY", None)
        /\ UNCHANGED committed

ServerReset(q) ==
  /\ IsReset(q)
  /\ Serve(q, "SUCCESS", 0, "READY", None)
  /\ UNCHANGED committed

ServerStep ==
  /\ toServer # <<>>
  /\ LET q == Head(toServer)
     IN  IF IsReset(q) THEN ServerReset(q)
         ELSE /\ q.type # "GOODBYE"
              /\ \/ ServerRefuse(q) \/ ServerIgnore(q) \/ ServerRun(q)
                 \/ ServerPull(q) \/ ServerTx(q)
  /\ UNCHANGED <<connVars, streams, txs, ctlVars, broken, resets>>

ServerGoodbye ==
  /\ toServer # <<>> /\ Head(toServer).type = "GOODBYE"
  /\ toServer' = <<>>
  /\ server' = [mode |-> "READY", tx |-> None, n |-> 0]
  /\ UNCHANGED <<connVars, streams, txs, ctlVars, toClient, committed, broken, resets>>

(* The connection drops: what was not delivered may be lost.               *)
Drop ==
  /\ "DROP" \in Faults /\ ~broken /\ ~closed
  /\ broken' = TRUE
  /\ toServer' = <<>>
  /\ toClient' \in {toClient, <<>>}
  /\ UNCHANGED <<connVars, streams, txs, ctlVars, server, committed, resets>>
-----------------------------------------------------------------------------
Sync == \/ sync_enter \/ sync_lock \/ sync_loop \/ sync_receive
        \/ sync_receive_error \/ send_requests \/ send_request \/ sync_exit
        \/ sync_unlock \/ sync_unlock_ack \/ new_request \/ populate
ResetBy(a) == reset_receive(a) \/ reset_reply(a) \/ reset_error(a)
Close == close_receive \/ close_receive_error \/ close_end
Run == \/ session_run \/ session_pull_all \/ session_unlock \/ run_start
       \/ abandon \/ free_results \/ return_to_stream \/ return_to_tx

(* What the program starts, and what it goes through once it has.          *)
Start ==
  \/ \E s \in Streams :
       \/ \E kind \in Statements, t \in Txs \cup {None} : run_open(s, kind, t)
       \/ close_results(s) \/ check_failure(s) \/ consume(s)
       \/ fetch_next(s) \/ peek(s)
  \/ \E t \in Txs : begin_tx(t) \/ tx_commit(t) \/ tx_rollback(t) \/ free_tx(t)
  \/ close_start
Continue == Sync \/ ResetBy("app") \/ Close \/ Run

(* The connection is closed, or the process has died.                      *)
Terminated ==
  /\ (closed /\ At("idle")) \/ pc["app"] = "crashed"
  /\ UNCHANGED vars

Next == \/ Start \/ Continue \/ neo4j_reset \/ ResetBy("sig")
        \/ ServerStep \/ ServerGoodbye \/ Drop \/ Terminated

Spec == Init /\ [][Next]_vars

(* The program and the handler do not stop inside a call, the server       *)
(* answers, and a statement does not produce records for ever.             *)
FairSpec ==
  /\ Spec
  /\ WF_vars(Continue) /\ WF_vars(ResetBy("sig"))
  /\ WF_vars(ServerStep)
-----------------------------------------------------------------------------
(* Properties.                                                             *)

Labels == {"idle", "run", "run_unlock", "pull", "pull_unlock", "start", "abandon",
           "free", "alloc", "fill", "enter", "lock", "loop", "reply", "send", "xmit",
           "exit", "unlock", "unlock_ack", "done", "rrecv", "rfinal", "crecv", "cend",
           "crashed"}
Targets == Streams \cup Txs \cup {"connection", "nothing", None}
Requests == [type : Statements \cup TxRequests \cup {"RUN", "ACK", "RESET", "GOODBYE", "BLANK"},
             of : Targets, tx : Txs \cup {None}]
Replies == [type : {"SUCCESS", "FAILURE", "TIMEOUT", "IGNORED", "RECORD", "BADRECORD",
                    "INVALID", "GARBLED"},
            to : Requests, n : 0 .. MaxRecords]

\* Every variable has its type.
TypeOK ==
  /\ {processing, reset_requested, failed, poison_tx, closed, broken} \subseteq BOOLEAN
  /\ request_queue \in Seq(Requests) /\ inflight_requests \in Nat
  /\ jobs \in Seq(Streams)
  /\ streams \in [Streams -> StreamType(MaxRecords)]
  /\ txs \in [Txs -> TxType]
  /\ pc["app"] \in Labels /\ pc["sig"] \in {"idle", "rrecv", "rfinal"}
  /\ failure \in [Actors -> BOOLEAN]
  /\ call.rs \in Streams \cup {None} /\ call.tx \in Txs \cup {None}
  /\ call.fill \in Requests
  /\ ret.rc \in {-1, 0} /\ ret.errno \in FailureCodes
  /\ toServer \in Seq(Requests) /\ toClient \in Seq(Replies)
  /\ server.mode \in {"READY", "STREAMING", "FAILED"}
  /\ server.tx \in Txs \cup {None} /\ server.n \in 0 .. MaxRecords
  /\ committed \subseteq Txs
  /\ resets \in 0 .. MaxResets

AppHolds == pc["app"] \in {"run_unlock", "pull_unlock", "loop", "reply", "send", "xmit",
                           "exit", "unlock", "unlock_ack", "rrecv", "rfinal", "crecv",
                           "cend"}
SigHolds == pc["sig"] # "idle"

\* `processing' is a lock: it is set exactly while the program or the handler
\* is in a section it protects, and they never are in one together, whatever
\* step of the program the handler interrupts.
LockOwned ==
  pc["app"] # "crashed" => /\ processing <=> (AppHolds \/ SigHolds)
                           /\ ~(AppHolds /\ SigHolds)

\* The requests in flight are the first of the queue, no more than may be
\* pipelined, and the queue does not outgrow its array, although the handler
\* drains both in the middle of the program's calls.
WindowOK ==
  /\ inflight_requests <= Len(request_queue) /\ inflight_requests <= MaxPipelined
  /\ Len(request_queue) <= QueueSize

\* What is on the wire, apart from the RESETs of the handler, is the window of
\* requests in flight, in the order of the queue: the next reply is always
\* for the request at the head of the queue.
FinalReplies ==
  [type : {"SUCCESS", "FAILURE", "TIMEOUT", "IGNORED", "INVALID", "GARBLED"},
   to : Requests, n : Nat]
Answered(replies) ==
  LET finals == Filter(replies, FinalReplies)
  IN  [i \in DOMAIN finals |-> finals[i].to]
OnTheWire == Filter(Answered(toClient) \o toServer, Requests \ {Reset})
WireIsWindow ==
  ~broken /\ ~failed /\ ~closed /\ pc["app"] # "crashed" =>
    OnTheWire = SubSeq(request_queue, 1, inflight_requests)

\* A stream counts one reference for the program, until it closes the stream,
\* and one for each request in the queue whose callback points to it: it is
\* not freed while a reply may be delivered to it.
Queued(s) == {i \in DOMAIN request_queue : request_queue[i].of = s}
Closing(s) == call.rs = s /\ call.op \in {"close_rs", "abandon"}
RefcountCounts ==
  pc["app"] # "crashed" =>
    \A s \in {x \in Streams : streams[x].open} :
      streams[s].refcount =
        Cardinality(Queued(s))
          + (IF Closing(s) THEN 0 ELSE 1)
          - (IF call.rs = s /\ ret.rc = 0 /\ pc["app"] \in {"run_unlock", "pull_unlock"}
             THEN 1 ELSE 0)

\* No assertion of the client fails and no NULL pointer is dereferenced.
NotCrashed == pc["app"] # "crashed"

\* The records a stream holds are the last it received, none missing and in
\* order, and when the server reports the end of a result the stream has
\* received all of it.
RecordsInOrder ==
  \A s \in Streams :
    LET r == streams[s].records
        last == streams[s].nrecords
        end == /\ toClient # <<>> /\ pc["app"] = "reply"
               /\ Head(toClient).type = "SUCCESS" /\ Head(toClient).to.of = s
               /\ Head(toClient).to.type \in Statements
    IN  /\ streams[s].streaming => \A i \in DOMAIN r : r[i] = last - Len(r) + i
        /\ end => last = Head(toClient).n

\* The server never receives a request that its session has no place for.
InPlace ==
  ~broken /\ toServer # <<>> /\ server.mode # "FAILED" => ~OutOfPlace(Head(toServer))

\* The first failure of a stream is what the program is told until it closes
\* the stream.
FirstFailureKept ==
  [][\A s \in Streams :
       streams[s].failure # "none" /\ ~Closing(s) =>
         streams'[s].failure = streams[s].failure]_vars

\* A stream that has ended without a failure is complete: the server has
\* executed the statement and reported its end.
CompleteOrFailed ==
  \A s \in Streams :
    /\ streams[s].open /\ ~streams[s].starting /\ ~streams[s].streaming
    /\ pc["app"] = "idle" /\ pc["sig"] = "idle"
    /\ streams[s].failure = "none"
    => streams[s].statement_type

\* neo4j_commit succeeds only if the server has committed the transaction.
CommitHonest ==
  pc["app"] = "done" /\ call.op = "commit" /\ ret.rc = 0 => call.tx \in committed

\* While neo4j_commit, neo4j_rollback and neo4j_run_in_tx accept a transaction,
\* it is the one the server has open.
OpenMeansOpen ==
  \A t \in Txs :
    /\ Usable(txs[t], poison_tx)
    /\ pc["app"] = "idle" /\ pc["sig"] = "idle" /\ ~closed /\ ~failed /\ ~broken
    => server.tx = t

\* A statement of a transaction is only executed inside that transaction.
StepInTransaction ==
  \A q \in {toServer[i] : i \in DOMAIN toServer} :
    /\ q.type = "RUN" /\ q.tx # None
    /\ toClient' = Append(toClient, [type |-> "SUCCESS", to |-> q, n |-> 0])
    => server.tx = q.tx
InTransaction == [][StepInTransaction]_vars

\* The streams of a connection that has been freed do not point to it.
NoDanglingConnection ==
  closed => \A s \in Streams : streams[s].open => ~streams[s].connection

\* While the connection lasts, the reply session_reset takes for the reply to
\* RESET is one.
ResetAnswered ==
  ~broken =>
    \A a \in Actors :
      pc[a] = "rfinal" /\ toClient # <<>> => Head(toClient).to = Reset

\* Every call of the program returns, and so does the handler, if the server
\* answers: whatever a reset interrupts, nobody waits for a reply that was
\* taken by the other, or turns in a loop the reset keeps from ending.  (An
\* assertion that fails ends the process: that is what NotCrashed is about.)
Quiet == pc["app"] = "crashed" \/ \A a \in Actors : pc[a] = "idle"
CallsReturn == ~Quiet ~> Quiet
=============================================================================
