---------------------------- MODULE SessionProofs ----------------------------
(***************************************************************************)
(* The lock and the window of a connection, the references of its result   *)
(* streams, and the wire: for every number of streams and transactions,    *)
(* every configuration, and signals delivered at any point of the program, *)
(* or, for the wire, at those that are named.                              *)
(***************************************************************************)
EXTENDS Session, SequenceLemmas, FiniteSetTheorems

(* The lock needs no more than to know where the program and the handler   *)
(* are.                                                                    *)
LockInv ==
  /\ pc \in [Actors -> Labels]
  /\ pc["sig"] \in {"idle", "rrecv", "rfinal"}
  /\ processing \in BOOLEAN
  /\ LockOwned

LEMMA LockInit == Init => LockInv
  BY DEF Init, LockInv, LockOwned, AppHolds, SigHolds, Actors, Labels

\* The end of a reset gives the lock back to session_sync, or releases it.
LEMMA LockEndReset ==
  ASSUME LockInv, NEW a \in Actors, NEW errno, NEW q, NEW st,
         Resetting(a, "rrecv") \/ Resetting(a, "rfinal"),
         EndReset(a, errno, q, st)
  PROVE  LockInv'
<1> USE DEF LockInv, LockOwned, AppHolds, SigHolds, Labels, Actors, EndReset, Resetting,
            Crash, StillProcessing
<1>1. CASE a = "app" /\ ~DrainCrashes(q)
  <2>1. processing' = TRUE
    BY <1>1
  <2>2. pc' = [pc EXCEPT !["app"] = "unlock"] /\ pc["sig"] = "idle"
    BY <1>1
  <2> QED
    BY <2>1, <2>2
<1>2. CASE a = "sig" /\ ~DrainCrashes(q)
  <2>1. processing' = FALSE
    BY <1>2
  <2>2. pc' = [pc EXCEPT !["sig"] = "idle"] /\ pc["sig"] # "idle"
    BY <1>2
  <2> QED
    BY <2>1, <2>2
<1>3. CASE DrainCrashes(q)
  <2>1. processing' \in BOOLEAN
    OBVIOUS
  <2> QED
    BY <1>3, <2>1
<1> QED
  BY <1>1, <1>2, <1>3

LEMMA LockStep == LockInv /\ [Next]_vars => LockInv'
<1> SUFFICES ASSUME LockInv, [Next]_vars PROVE LockInv'
  OBVIOUS
<1> USE DEF LockInv, LockOwned, AppHolds, SigHolds, Labels, Actors, At, Goto, Crash
<1>1. CASE Start
  <2>1. ASSUME NEW s \in Streams, NEW kind \in Statements, NEW t \in Txs \cup {None},
               run_open(s, kind, t)
        PROVE  LockInv'
    BY <2>1 DEF run_open, Calls, Enter, unchangedByCall
  <2>2. ASSUME NEW s \in Streams, close_results(s) PROVE LockInv'
    BY <2>2 DEF close_results, run_rs_close, Enter, unchangedByCall
  <2>3. ASSUME NEW s \in Streams, check_failure(s) PROVE LockInv'
    BY <2>3 DEF check_failure, Calls, Enter, unchangedByCall
  <2>4. ASSUME NEW s \in Streams, consume(s) PROVE LockInv'
    BY <2>4 DEF consume, Calls, Enter, unchangedByCall
  <2>5. ASSUME NEW s \in Streams, fetch_next(s) PROVE LockInv'
    BY <2>5 DEF fetch_next, AwaitRecords, Enter, unchangedByCall
  <2>6. ASSUME NEW s \in Streams, peek(s) PROVE LockInv'
    BY <2>6 DEF peek, AwaitRecords, Calls, Enter, unchangedByCall
  <2>7. ASSUME NEW t \in Txs, begin_tx(t) PROVE LockInv'
    BY <2>7 DEF begin_tx, Calls, Enter
  <2>8. ASSUME NEW t \in Txs, tx_commit(t) PROVE LockInv'
    BY <2>8 DEF tx_commit, Calls, Enter, unchangedByCall
  <2>9. ASSUME NEW t \in Txs, tx_rollback(t) PROVE LockInv'
    BY <2>9 DEF tx_rollback, Calls, Enter, unchangedByCall
  <2>10. ASSUME NEW t \in Txs, free_tx(t) PROVE LockInv'
    BY <2>10 DEF free_tx, unchangedByCall
  <2>11. CASE close_start
    BY <2>11 DEF close_start
  <2> QED
    BY <1>1, <2>1, <2>2, <2>3, <2>4, <2>5, <2>6, <2>7, <2>8, <2>9, <2>10, <2>11 DEF Start
<1>2. CASE Sync
  <2>1. CASE sync_enter
    BY <2>1 DEF sync_enter, Return, connVars
  <2>2. CASE sync_lock
    BY <2>2 DEF sync_lock, Return
  <2>3. CASE sync_loop
    BY <2>3 DEF sync_loop, connVars
  <2>4. CASE sync_receive
    BY <2>4 DEF sync_receive, FailSync
  <2>5. CASE sync_receive_error
    BY <2>5 DEF sync_receive_error, FailSync
  <2>6. CASE send_requests
    BY <2>6 DEF send_requests, connVars
  <2>7. CASE send_request
    BY <2>7 DEF send_request, FailSync
  <2>8. CASE sync_exit
    BY <2>8 DEF sync_exit, ResetFrom
  <2>9. CASE sync_unlock \/ sync_unlock_ack
    BY <2>9 DEF sync_unlock, sync_unlock_ack
  <2>10. CASE new_request \/ populate
    BY <2>10 DEF new_request, populate, Return
  <2> QED
    BY <1>2, <2>1, <2>2, <2>3, <2>4, <2>5, <2>6, <2>7, <2>8, <2>9, <2>10 DEF Sync
<1>3. ASSUME NEW a \in Actors, ResetBy(a) PROVE LockInv'
  <2>1. CASE reset_receive(a)
    <3> DEFINE r == Received(a)
    <3>1. CASE EndReset(a, "EPROTO", r.queue, r.streams)
      BY <2>1, <3>1, LockEndReset DEF reset_receive
    <3>2. CASE Crash /\ UNCHANGED processing
      BY <3>2
    <3>3. CASE /\ UNCHANGED processing
               /\ \/ pc' = [pc EXCEPT ![a] = "rrecv"]
                  \/ pc' = [pc EXCEPT ![a] = "rfinal"]
      BY <2>1, <3>3 DEF reset_receive, Resetting
    <3> QED
      BY <2>1, <3>1, <3>2, <3>3 DEF reset_receive
  <2>2. CASE reset_reply(a)
    BY <2>2, LockEndReset DEF reset_reply
  <2>3. CASE reset_error(a)
    BY <2>3, LockEndReset DEF reset_error
  <2> QED
    BY <1>3, <2>1, <2>2, <2>3 DEF ResetBy
<1>4. CASE Close
  <2>1. CASE close_receive
    BY <2>1 DEF close_receive
  <2>2. CASE close_receive_error
    BY <2>2 DEF close_receive_error
  <2>3. CASE close_end
    BY <2>3 DEF close_end
  <2> QED
    BY <1>4, <2>1, <2>2, <2>3 DEF Close
<1>5. CASE Run
  <2>1. CASE session_run
    BY <2>1 DEF session_run, Enqueue
  <2>2. CASE session_pull_all
    BY <2>2 DEF session_pull_all, Enqueue
  <2>3. CASE session_unlock
    BY <2>3 DEF session_unlock
  <2>4. CASE run_start
    BY <2>4 DEF run_start, unchangedByCall
  <2>5. CASE abandon
    BY <2>5 DEF abandon, run_rs_close, Enter, unchangedByCall
  <2>6. CASE free_results
    BY <2>6 DEF free_results, Enter, unchangedByCall
  <2>7. CASE return_to_stream
    BY <2>7 DEF return_to_stream, Enter, unchangedByCall
  <2>8. CASE return_to_tx
    BY <2>8 DEF return_to_tx, Enter, unchangedByCall
  <2> QED
    BY <1>5, <2>1, <2>2, <2>3, <2>4, <2>5, <2>6, <2>7, <2>8 DEF Run
<1>6. CASE neo4j_reset
  <2>1. CASE UNCHANGED <<processing, pc>>
    BY <2>1
  <2>2. CASE /\ ~processing /\ processing' = TRUE /\ pc["sig"] = "idle"
             /\ \/ pc' = [pc EXCEPT !["sig"] = "rrecv"]
                \/ pc' = [pc EXCEPT !["sig"] = "rfinal"]
    BY <2>2
  <2> QED
    BY <1>6, <2>1, <2>2 DEF neo4j_reset, ResetFrom
<1>7. CASE ServerStep \/ ServerGoodbye \/ Drop
  BY <1>7 DEF ServerStep, ServerGoodbye, Drop, connVars, ctlVars
<1>8. CASE Terminated \/ UNCHANGED vars
  BY <1>8 DEF Terminated, vars, connVars, ctlVars
<1> QED
  BY <1>1, <1>2, <1>3, <1>4, <1>5, <1>6, <1>7, <1>8 DEF Next, Continue

\* The lock, and who is in a protected section, agree at every step.
THEOREM LockInvariant == Spec => []LockInv
  BY LockInit, LockStep, PTL DEF Spec

(* The lock excludes: whatever step of the program the handler interrupts, *)
(* the two are never in a protected section together, and the lock is held *)
(* exactly while one of them is.                                           *)
THEOREM LockTheorem == Spec => []LockOwned
<1>1. LockInv => LockOwned
  BY DEF LockInv
<1> QED
  BY <1>1, LockInvariant, PTL
-----------------------------------------------------------------------------
(* The window is an invariant together with what the program and the       *)
(* handler know at the points where they move it: there is a request to    *)
(* send, or a reply to receive.  It is the lock that keeps this knowledge  *)
(* true when the program is interrupted.                                   *)
Calling ==
  [op : {"none", "run", "abandon", "close_rs", "check", "consume", "fetch", "peek",
         "begin", "commit", "rollback"},
   rs : Streams \cup {None}, tx : Txs \cup {None},
   cond : {"none", "starting", "streaming", "awaiting_records", "refcount"},
   kind : Statements, fill : Requests]

WindowTypes ==
  /\ request_queue \in Seq(Requests)
  /\ inflight_requests \in Nat
  /\ call \in Calling

Expecting ==
  /\ pc["app"] = "xmit" => /\ inflight_requests < Len(request_queue)
                           /\ inflight_requests < MaxPipelined
  /\ pc["app"] \in {"reply", "rrecv", "crecv"} => inflight_requests > 0
  /\ pc["sig"] = "rrecv" => inflight_requests > 0

WindowInv == LockInv /\ WindowTypes /\ WindowOK /\ Expecting

LEMMA RequestsTyped ==
  /\ Ack \in Requests /\ Reset \in Requests /\ Goodbye \in Requests
  /\ Request("BLANK", "nothing", None) \in Requests
  /\ \A s \in Streams \cup {None}, t \in Txs \cup {None}, kind \in Statements :
       Request("RUN", s, t) \in Requests /\ Request(kind, s, t) \in Requests
  /\ \A t \in Txs, type \in TxRequests : Request(type, t, t) \in Requests
  BY DEF Ack, Reset, Goodbye, Request, Requests, Targets, Statements, TxRequests

LEMMA QueueOperations ==
  ASSUME NEW q \in Seq(Requests), NEW x \in Requests
  PROVE  /\ Append(q, x) \in Seq(Requests) /\ Len(Append(q, x)) = Len(q) + 1
         /\ Len(q) \in Nat
         /\ Len(q) > 0 => Tail(q) \in Seq(Requests) /\ Len(Tail(q)) = Len(q) - 1
         /\ LET r == [q EXCEPT ![Len(q)] = x]
            IN  r \in Seq(Requests) /\ Len(r) = Len(q)
<1> DEFINE r == [q EXCEPT ![Len(q)] = x]
<1>1. Len(q) \in Nat /\ q \in [1 .. Len(q) -> Requests] /\ DOMAIN q = 1 .. Len(q)
  OBVIOUS
<1>2. r = [i \in DOMAIN q |-> IF i = Len(q) THEN x ELSE q[i]]
  BY Zenon
<1>3. r \in [1 .. Len(q) -> Requests]
  BY <1>1, <1>2
<1>4. r \in Seq(Requests) /\ Len(r) = Len(q)
  BY <1>1, <1>3
<1>5. Append(q, x) \in Seq(Requests) /\ Len(Append(q, x)) = Len(q) + 1
  OBVIOUS
<1>6. Len(q) > 0 => Tail(q) \in Seq(Requests) /\ Len(Tail(q)) = Len(q) - 1
  OBVIOUS
<1> QED
  BY <1>1, <1>4, <1>5, <1>6

\* Every call of the program is one that has its type.
LEMMA CallsTyped ==
  /\ Idle \in Calling
  /\ \A c \in Calling : [c EXCEPT !.cond = "none", !.fill = Ack] \in Calling
  /\ \A c \in Calling : [c EXCEPT !.op = "abandon"] \in Calling
  /\ \A c \in Calling : [c EXCEPT !.cond = "refcount"] \in Calling
  BY RequestsTyped DEF Idle, Calling, Statements

LEMMA WindowInit == Init => WindowInv
<1> SUFFICES ASSUME Init PROVE WindowInv
  OBVIOUS
<1>1. LockInv
  BY LockInit
<1>2. Idle \in Calling
  BY CallsTyped
<1>3. WindowTypes
  BY <1>2 DEF Init, WindowTypes
<1>4. Len(request_queue) = 0 /\ inflight_requests = 0
  BY DEF Init
<1>5. WindowOK
  BY <1>4, SizeAssumption DEF WindowOK
<1>6. Expecting
  BY DEF Init, Expecting, Actors
<1> QED
  BY <1>1, <1>3, <1>5, <1>6 DEF WindowInv

(* A turn of receive_responses moves the window by one request or leaves   *)
(* it alone.                                                               *)
LEMMA ReceivedMoves ==
  ASSUME NEW a \in Actors, WindowTypes, WindowOK, inflight_requests > 0
  PROVE  LET r == Received(a)
         IN  /\ r.queue \in Seq(Requests) /\ r.inflight \in Nat
             /\ r.inflight <= Len(r.queue) /\ r.inflight <= MaxPipelined
             /\ Len(r.queue) <= QueueSize
<1> DEFINE r == Received(a)
<1>1. \/ r.queue = request_queue /\ r.inflight = inflight_requests
      \/ r.queue = Tail(request_queue) /\ r.inflight = inflight_requests - 1
  BY DEF Received, InflightAfter
<1>2. Len(request_queue) \in Nat /\ Len(request_queue) > 0
  BY DEF WindowTypes, WindowOK
<1>3. /\ Tail(request_queue) \in Seq(Requests)
      /\ Len(Tail(request_queue)) = Len(request_queue) - 1
  BY <1>2, RequestsTyped, QueueOperations DEF WindowTypes
<1>4. /\ request_queue \in Seq(Requests) /\ inflight_requests \in Nat
      /\ inflight_requests <= Len(request_queue)
      /\ inflight_requests <= MaxPipelined /\ Len(request_queue) <= QueueSize
      /\ MaxPipelined \in Nat /\ QueueSize \in Nat
  BY SizeAssumption DEF WindowTypes, WindowOK
<1> SUFFICES /\ r.queue \in Seq(Requests) /\ r.inflight \in Nat
             /\ r.inflight <= Len(r.queue) /\ r.inflight <= MaxPipelined
             /\ Len(r.queue) <= QueueSize
  OBVIOUS
<1> HIDE DEF r
<1>5. CASE r.queue = request_queue /\ r.inflight = inflight_requests
  BY <1>4, <1>5
<1>6. CASE r.queue = Tail(request_queue) /\ r.inflight = inflight_requests - 1
  BY <1>2, <1>3, <1>4, <1>6
<1> QED
  BY <1>1, <1>5, <1>6

\* Steps that move the window.
LEMMA WindowMoved ==
  ASSUME LockInv', Expecting', call' \in Calling,
         request_queue' \in Seq(Requests), inflight_requests' \in Nat,
         inflight_requests' <= Len(request_queue'), inflight_requests' <= MaxPipelined,
         Len(request_queue') <= QueueSize
  PROVE  WindowInv'
  BY DEF WindowInv, WindowTypes, WindowOK

\* Steps that leave the window alone.
LEMMA WindowKept ==
  ASSUME WindowInv, LockInv', UNCHANGED <<request_queue, inflight_requests>>,
         call' \in Calling, Expecting'
  PROVE  WindowInv'
  BY DEF WindowInv, WindowTypes, WindowOK

\* Steps that drain the queue.
LEMMA WindowEmptied ==
  ASSUME WindowInv, LockInv', request_queue' = <<>>, inflight_requests' = 0,
         call' \in Calling, Expecting'
  PROVE  WindowInv'
<1>1. Len(<<>>) = 0 /\ <<>> \in Seq(Requests)
  OBVIOUS
<1> QED
  BY <1>1, SizeAssumption DEF WindowInv, WindowTypes, WindowOK

\* Calls that return to the caller or go on at a point outside the lock.
Elsewhere == {"idle", "run", "run_unlock", "pull", "pull_unlock", "start", "abandon",
              "free", "alloc", "fill", "enter", "lock", "loop", "send", "exit",
              "unlock", "unlock_ack", "done", "rfinal", "cend", "crashed"}

LEMMA ExpectingNothing ==
  ASSUME WindowInv, pc["sig"] = "idle", NEW label \in Elsewhere,
         pc' = [pc EXCEPT !["app"] = label]
  PROVE  Expecting'
  BY DEF WindowInv, LockInv, Expecting, Elsewhere, Actors

LEMMA ExpectingCrashed ==
  ASSUME WindowInv, Crash
  PROVE  Expecting'
  BY DEF WindowInv, LockInv, Expecting, Crash, Actors

\* Entering a call, and the points of a call where nothing is expected.
LEMMA WindowEntered ==
  ASSUME WindowInv, LockInv', UNCHANGED <<request_queue, inflight_requests>>,
         call' \in Calling, pc["sig"] = "idle", NEW label \in Elsewhere,
         pc' = [pc EXCEPT !["app"] = label]
  PROVE  WindowInv'
  BY ExpectingNothing, WindowKept

LEMMA WindowStart ==
  ASSUME WindowInv, LockInv', Start
  PROVE  WindowInv'
<1> USE CallsTyped, RequestsTyped DEF WindowInv, WindowTypes, At, Goto, Enter, Calls,
            unchangedByCall, Elsewhere
<1>1. ASSUME NEW s \in Streams, NEW kind \in Statements, NEW t \in Txs \cup {None},
             run_open(s, kind, t)
      PROVE  WindowInv'
  <2>1. [Idle EXCEPT !.op = "run", !.rs = s, !.tx = t, !.kind = kind,
                     !.cond = "starting"] \in Calling
    BY DEF Idle, Calling
  <2>2. CASE failed
    BY <1>1, <2>2, WindowKept DEF run_open, Expecting
  <2>3. CASE ~failed
    BY <1>1, <2>1, <2>3, WindowEntered DEF run_open
  <2> QED
    BY <2>2, <2>3
<1>2. ASSUME NEW s \in Streams, close_results(s) PROVE WindowInv'
  <2>1. [[Idle EXCEPT !.op = "close_rs", !.rs = s] EXCEPT !.cond = "refcount"] \in Calling
    BY DEF Idle, Calling
  <2> QED
    BY <1>2, <2>1, WindowEntered DEF close_results, run_rs_close
<1>3. ASSUME NEW s \in Streams, check_failure(s) PROVE WindowInv'
  <2>1. [Idle EXCEPT !.op = "check", !.rs = s, !.cond = "starting"] \in Calling
    BY DEF Idle, Calling
  <2> QED
    BY <1>3, <2>1, WindowEntered DEF check_failure
<1>4. ASSUME NEW s \in Streams, consume(s) PROVE WindowInv'
  <2>1. [Idle EXCEPT !.op = "consume", !.rs = s, !.cond = "streaming"] \in Calling
    BY DEF Idle, Calling
  <2> QED
    BY <1>4, <2>1, WindowEntered DEF consume
<1>5. ASSUME NEW s \in Streams, fetch_next(s) PROVE WindowInv'
  <2>1. [Idle EXCEPT !.op = "fetch", !.rs = s, !.cond = "awaiting_records"] \in Calling
    BY DEF Idle, Calling
  <2>2. CASE UNCHANGED <<pc, call>>
    BY <1>5, <2>2, WindowKept DEF fetch_next, AwaitRecords, Expecting
  <2>3. CASE Enter("enter", [Idle EXCEPT !.op = "fetch", !.rs = s,
                                         !.cond = "awaiting_records"])
    BY <1>5, <2>1, <2>3, WindowEntered DEF fetch_next, AwaitRecords
  <2>4. CASE Crash /\ call' = call
    BY <1>5, <2>4, ExpectingCrashed, WindowKept DEF fetch_next
  <2> QED
    BY <1>5, <2>2, <2>3, <2>4 DEF fetch_next, AwaitRecords
<1>6. ASSUME NEW s \in Streams, peek(s) PROVE WindowInv'
  <2>1. [Idle EXCEPT !.op = "peek", !.rs = s, !.cond = "awaiting_records"] \in Calling
    BY DEF Idle, Calling
  <2>2. CASE Enter("enter", [Idle EXCEPT !.op = "peek", !.rs = s,
                                         !.cond = "awaiting_records"])
    BY <1>6, <2>1, <2>2, WindowEntered DEF peek
  <2>3. CASE Crash /\ call' = call
    BY <1>6, <2>3, ExpectingCrashed, WindowKept DEF peek
  <2> QED
    BY <1>6, <2>2, <2>3 DEF peek, AwaitRecords
<1>7. ASSUME NEW t \in Txs, begin_tx(t) PROVE WindowInv'
  <2>1. [Idle EXCEPT !.op = "begin", !.tx = t,
                     !.fill = Request("BEGIN", t, t)] \in Calling
    BY DEF Idle, Calling, TxRequests
  <2> QED
    BY <1>7, <2>1, WindowEntered DEF begin_tx
<1>8. ASSUME NEW t \in Txs, tx_commit(t) PROVE WindowInv'
  <2>1. [Idle EXCEPT !.op = "commit", !.tx = t,
                     !.fill = Request("COMMIT", t, t)] \in Calling
    BY DEF Idle, Calling, TxRequests
  <2> QED
    BY <1>8, <2>1, WindowEntered DEF tx_commit
<1>9. ASSUME NEW t \in Txs, tx_rollback(t) PROVE WindowInv'
  <2>1. [Idle EXCEPT !.op = "rollback", !.tx = t,
                     !.fill = Request("ROLLBACK", t, t)] \in Calling
    BY DEF Idle, Calling, TxRequests
  <2> QED
    BY <1>9, <2>1, WindowEntered DEF tx_rollback
<1>10. ASSUME NEW t \in Txs, free_tx(t) PROVE WindowInv'
  BY <1>10, WindowKept DEF free_tx, Expecting
<1>11. CASE close_start
  <2>1. CASE ~failed /\ inflight_requests > 0
    <3>1. Expecting'
      BY <1>11, <2>1 DEF close_start, Expecting, LockInv, Actors
    <3> QED
      BY <1>11, <3>1, WindowKept DEF close_start
  <2>2. CASE ~(~failed /\ inflight_requests > 0)
    BY <1>11, <2>2, WindowEntered DEF close_start
  <2> QED
    BY <2>1, <2>2
<1> QED
  BY <1>1, <1>2, <1>3, <1>4, <1>5, <1>6, <1>7, <1>8, <1>9, <1>10, <1>11 DEF Start

LEMMA WindowSync ==
  ASSUME WindowInv, LockInv', Sync
  PROVE  WindowInv'
<1>. DEFINE Step(label) == pc' = [pc EXCEPT !["app"] = label]
<1>0. WindowTypes /\ WindowOK /\ Expecting
  BY DEF WindowInv
<1>1. CASE sync_enter
  BY <1>0, <1>1, WindowEntered
     DEF sync_enter, Return, connVars, At, Goto, Elsewhere, WindowTypes
<1>2. CASE sync_lock
  BY <1>0, <1>2, WindowEntered DEF sync_lock, Return, At, Goto, Elsewhere, WindowTypes
<1>3. CASE sync_loop
  <2>1. CASE Step("reply") /\ inflight_requests > 0
    <3>1. Expecting'
      BY <1>3, <2>1 DEF sync_loop, At, connVars, Expecting, WindowInv, LockInv, Actors
    <3> QED
      BY <1>0, <1>3, <3>1, WindowKept DEF sync_loop, connVars, WindowTypes
  <2>2. CASE Step("send") \/ Step("exit")
    BY <1>0, <1>3, <2>2, WindowEntered DEF sync_loop, connVars, At, Elsewhere, WindowTypes
  <2> QED
    BY <1>3, <2>1, <2>2 DEF sync_loop, Goto
<1>4. CASE sync_receive
  <2> DEFINE r == Received("app")
  <2>0. At("reply") /\ inflight_requests > 0 /\ call' = call
    BY <1>0, <1>4 DEF sync_receive, At, Expecting
  <2>1. CASE Crash /\ UNCHANGED <<request_queue, inflight_requests>>
    BY <1>0, <2>0, <2>1, ExpectingCrashed, WindowKept DEF WindowTypes
  <2>2. CASE /\ request_queue' = <<>> /\ inflight_requests' = 0
             /\ \/ Crash \/ Step("unlock") \/ Step("unlock_ack")
    <3>1. Expecting'
      BY <2>0, <2>2, ExpectingCrashed, ExpectingNothing DEF At, Elsewhere
    <3> QED
      BY <1>0, <2>0, <2>2, <3>1, WindowEmptied DEF WindowTypes
  <2>3. CASE /\ request_queue' = r.queue /\ inflight_requests' = r.inflight
             /\ \/ Step("exit") \/ Step("send")
                \/ Step("reply") /\ r.inflight > 0
    <3>1. Expecting'
      <4>1. CASE Step("reply") /\ r.inflight > 0
        BY <2>0, <2>3, <4>1 DEF At, Expecting, WindowInv, LockInv, Actors
      <4> QED
        BY <2>0, <2>3, <4>1, ExpectingNothing DEF At, Elsewhere
    <3> QED
      BY <1>0, <2>0, <2>3, <3>1, ReceivedMoves
         DEF WindowInv, WindowTypes, WindowOK, Actors
  <2> QED
    BY <1>4, <2>1, <2>2, <2>3 DEF sync_receive, FailSync, Goto
<1>5. CASE sync_receive_error
  <2>1. Expecting'
    BY <1>5, ExpectingCrashed, ExpectingNothing
       DEF sync_receive_error, FailSync, At, Goto, Elsewhere
  <2> QED
    BY <1>0, <1>5, <2>1, WindowEmptied DEF sync_receive_error, FailSync, WindowTypes
<1>6. CASE send_requests
  <2>1. CASE Step("xmit") /\ inflight_requests < Len(request_queue)
                          /\ inflight_requests < MaxPipelined
    <3>1. Expecting'
      BY <1>6, <2>1 DEF send_requests, At, connVars, Expecting, WindowInv, LockInv, Actors
    <3> QED
      BY <1>0, <1>6, <3>1, WindowKept DEF send_requests, connVars, WindowTypes
  <2>2. CASE Step("loop")
    BY <1>0, <1>6, <2>2, WindowEntered
       DEF send_requests, connVars, At, Elsewhere, WindowTypes
  <2> QED
    BY <1>6, <2>1, <2>2 DEF send_requests, Goto
<1>7. CASE send_request
  <2>1. /\ inflight_requests < Len(request_queue) /\ inflight_requests < MaxPipelined
        /\ pc["sig"] = "idle" /\ call' = call
    BY <1>0, <1>7 DEF send_request, At, Expecting
  <2>2. CASE /\ inflight_requests' = inflight_requests + 1 /\ Step("send")
             /\ UNCHANGED request_queue
    <3>1. Expecting'
      BY <2>1, <2>2, ExpectingNothing DEF Elsewhere
    <3>2. /\ request_queue \in Seq(Requests) /\ Len(request_queue) \in Nat
          /\ inflight_requests \in Nat /\ call \in Calling /\ Len(request_queue) <= QueueSize
      BY <1>0 DEF WindowTypes, WindowOK
    <3>3. inflight_requests + 1 <= Len(request_queue) /\ inflight_requests + 1 <= MaxPipelined
      BY <2>1, <3>2, SizeAssumption
    <3> QED
      BY <2>1, <2>2, <3>1, <3>2, <3>3, WindowMoved
  <2>3. CASE /\ request_queue' = <<>> /\ inflight_requests' = 0
             /\ (Crash \/ Step("unlock"))
    <3>1. Expecting'
      BY <2>1, <2>3, ExpectingCrashed, ExpectingNothing DEF Elsewhere
    <3> QED
      BY <1>0, <2>1, <2>3, <3>1, WindowEmptied DEF WindowTypes
  <2> QED
    BY <1>7, <2>2, <2>3 DEF send_request, FailSync, Goto
<1>8. CASE sync_exit
  <2>1. CASE Step("rrecv") /\ inflight_requests > 0
    <3>1. Expecting'
      BY <1>8, <2>1 DEF sync_exit, At, Expecting, WindowInv, LockInv, Actors
    <3> QED
      BY <1>0, <1>8, <3>1, WindowKept DEF sync_exit, WindowTypes
  <2>2. CASE Step("rfinal") \/ Step("unlock")
    BY <1>0, <1>8, <2>2, WindowEntered DEF sync_exit, At, Elsewhere, WindowTypes
  <2> QED
    BY <1>8, <2>1, <2>2 DEF sync_exit, ResetFrom, Goto
<1>9. CASE sync_unlock
  BY <1>0, <1>9, WindowEntered DEF sync_unlock, At, Goto, Elsewhere, WindowTypes
<1>10. CASE sync_unlock_ack
  BY <1>0, <1>10, CallsTyped, WindowEntered DEF sync_unlock_ack, At, Goto, Elsewhere, WindowTypes
<1>11. CASE new_request
  <2>1. CASE UNCHANGED request_queue
    BY <1>0, <1>11, <2>1, WindowEntered
       DEF new_request, Return, At, Goto, Elsewhere, WindowTypes
  <2>2. CASE CanQueue /\ request_queue' = Queue(Request("BLANK", "nothing", None))
    <3>1. Expecting' /\ call' = call /\ inflight_requests' = inflight_requests
      BY <1>11, <2>2, ExpectingNothing DEF new_request, Return, At, Goto, Elsewhere
    <3>2. /\ request_queue' \in Seq(Requests)
          /\ Len(request_queue') = Len(request_queue) + 1
          /\ Len(request_queue) < QueueSize /\ Len(request_queue) \in Nat
      BY <1>0, <2>2, RequestsTyped, QueueOperations DEF Queue, CanQueue, WindowTypes
    <3>3. /\ inflight_requests \in Nat /\ call \in Calling
          /\ inflight_requests <= Len(request_queue) /\ inflight_requests <= MaxPipelined
      BY <1>0 DEF WindowTypes, WindowOK
    <3>4. inflight_requests <= Len(request_queue') /\ Len(request_queue') <= QueueSize
      BY <3>2, <3>3, SizeAssumption
    <3> QED
      BY <3>1, <3>2, <3>3, <3>4, WindowMoved
  <2> QED
    BY <1>11, <2>1, <2>2 DEF new_request
<1>12. CASE populate
  <2>1. Expecting' /\ call' = call /\ inflight_requests' = inflight_requests
    BY <1>12, ExpectingNothing DEF populate, At, Goto, Elsewhere
  <2>2. call.fill \in Requests /\ request_queue \in Seq(Requests)
    BY <1>0 DEF WindowTypes, Calling
  <2>3. request_queue' = [request_queue EXCEPT ![Len(request_queue)] = call.fill]
    BY <1>12 DEF populate
  <2>4. request_queue' \in Seq(Requests) /\ Len(request_queue') = Len(request_queue)
    BY <2>2, <2>3, QueueOperations
  <2> QED
    BY <1>0, <2>1, <2>4, WindowMoved DEF WindowTypes, WindowOK
<1> QED
  BY <1>1, <1>2, <1>3, <1>4, <1>5, <1>6, <1>7, <1>8, <1>9, <1>10, <1>11, <1>12 DEF Sync

\* The end of a reset: the program, if it was interrupted, expected nothing.
LEMMA WindowEndReset ==
  ASSUME WindowInv, LockInv', NEW a \in Actors, NEW errno, NEW q, NEW st,
         Resetting(a, "rrecv") \/ Resetting(a, "rfinal"),
         EndReset(a, errno, q, st), call' = call
  PROVE  WindowInv'
<1>1. Expecting'
  <2>1. CASE Crash
    BY <2>1, ExpectingCrashed
  <2>2. CASE a = "app" /\ pc' = [pc EXCEPT !["app"] = "unlock"]
    BY <2>2, ExpectingNothing DEF Resetting, Elsewhere
  <2>3. CASE a = "sig" /\ pc' = [pc EXCEPT !["sig"] = "idle"]
    BY <2>3 DEF Resetting, Expecting, WindowInv, LockInv, LockOwned, AppHolds, SigHolds,
                Actors
  <2> QED
    BY <2>1, <2>2, <2>3 DEF EndReset, Actors
<1> QED
  BY <1>1, WindowEmptied DEF EndReset, WindowInv, WindowTypes

LEMMA WindowReset ==
  ASSUME WindowInv, LockInv', NEW a \in Actors, ResetBy(a)
  PROVE  WindowInv'
<1>0. WindowTypes /\ WindowOK /\ Expecting
  BY DEF WindowInv
<1>1. CASE reset_receive(a)
  <2> DEFINE r == Received(a)
  <2>0. Resetting(a, "rrecv") /\ inflight_requests > 0 /\ call' = call
    BY <1>0, <1>1 DEF reset_receive, Resetting, Expecting, Actors
  <2>1. CASE Crash /\ UNCHANGED <<request_queue, inflight_requests>>
    BY <1>0, <2>0, <2>1, ExpectingCrashed, WindowKept DEF WindowTypes
  <2>2. CASE EndReset(a, "EPROTO", r.queue, r.streams)
    BY <2>0, <2>2, WindowEndReset
  <2>3. CASE /\ request_queue' = r.queue /\ inflight_requests' = r.inflight
             /\ pc' = [pc EXCEPT ![a] = IF r.inflight > 0 THEN "rrecv" ELSE "rfinal"]
    <3>1. Expecting'
      <4>1. CASE a = "app"
        BY <2>0, <2>3, <4>1 DEF Resetting, Expecting, WindowInv, LockInv, Actors
      <4>2. CASE a = "sig"
        BY <2>0, <2>3, <4>2 DEF Resetting, Expecting, WindowInv, LockInv, LockOwned,
                                AppHolds, SigHolds, Actors
      <4> QED
        BY <4>1, <4>2 DEF Actors
    <3>2. /\ r.queue \in Seq(Requests) /\ r.inflight \in Nat
          /\ r.inflight <= Len(r.queue) /\ r.inflight <= MaxPipelined
          /\ Len(r.queue) <= QueueSize
      BY <1>0, <2>0, ReceivedMoves
    <3> QED
      BY <1>0, <2>0, <2>3, <3>1, <3>2, WindowMoved DEF WindowTypes
  <2> QED
    BY <1>1, <2>1, <2>2, <2>3 DEF reset_receive
<1>2. CASE reset_reply(a)
  BY <1>2, WindowEndReset DEF reset_reply
<1>3. CASE reset_error(a)
  BY <1>3, WindowEndReset DEF reset_error
<1> QED
  BY <1>1, <1>2, <1>3 DEF ResetBy

LEMMA WindowClose ==
  ASSUME WindowInv, LockInv', Close
  PROVE  WindowInv'
<1>. DEFINE Step(label) == pc' = [pc EXCEPT !["app"] = label]
<1>0. WindowTypes /\ WindowOK /\ Expecting
  BY DEF WindowInv
<1>1. CASE close_receive
  <2> DEFINE r == Received("app")
  <2>0. /\ At("crecv") /\ inflight_requests > 0 /\ call' = call
        /\ request_queue' = r.queue /\ inflight_requests' = r.inflight
    BY <1>0, <1>1 DEF close_receive, At, Expecting
  <2>1. /\ r.queue \in Seq(Requests) /\ r.inflight \in Nat
        /\ r.inflight <= Len(r.queue) /\ r.inflight <= MaxPipelined
        /\ Len(r.queue) <= QueueSize
    BY <1>0, <2>0, ReceivedMoves DEF Actors
  <2>2. Expecting'
    <3>1. CASE Step("crecv") /\ r.inflight # 0
      BY <2>0, <2>1, <3>1 DEF At, Expecting, WindowInv, LockInv, Actors
    <3>2. CASE Crash \/ Step("cend")
      BY <2>0, <3>2, ExpectingCrashed, ExpectingNothing DEF At, Elsewhere
    <3> QED
      BY <1>1, <3>1, <3>2 DEF close_receive, Goto
  <2> QED
    BY <1>0, <2>0, <2>1, <2>2, WindowMoved DEF WindowTypes
<1>2. CASE close_receive_error
  BY <1>0, <1>2, WindowEntered DEF close_receive_error, At, Goto, Elsewhere, WindowTypes
<1>3. CASE close_end
  <2>1. Expecting'
    BY <1>3, ExpectingCrashed, ExpectingNothing DEF close_end, At, Goto, Elsewhere
  <2> QED
    BY <1>0, <1>3, <2>1, WindowEmptied DEF close_end, WindowTypes
<1> QED
  BY <1>1, <1>2, <1>3 DEF Close

\* A request is queued if there is room, and nothing happens if not.
LEMMA WindowEnqueued ==
  ASSUME WindowInv, LockInv', NEW q \in Requests, NEW label \in Elsewhere,
         Enqueue(q, label), pc["sig"] = "idle", call' = call,
         inflight_requests' = inflight_requests
  PROVE  WindowInv'
<1>0. WindowTypes /\ WindowOK
  BY DEF WindowInv
<1>1. Expecting'
  BY ExpectingNothing DEF Enqueue, Goto
<1>2. CASE UNCHANGED request_queue
  BY <1>0, <1>1, <1>2, WindowKept DEF WindowTypes
<1>3. CASE CanQueue /\ request_queue' = Queue(q)
  <2>1. /\ request_queue' \in Seq(Requests)
        /\ Len(request_queue') = Len(request_queue) + 1
        /\ Len(request_queue) < QueueSize /\ Len(request_queue) \in Nat
    BY <1>0, <1>3, QueueOperations DEF Queue, CanQueue, WindowTypes
  <2>2. /\ inflight_requests \in Nat /\ call \in Calling
        /\ inflight_requests <= Len(request_queue) /\ inflight_requests <= MaxPipelined
    BY <1>0 DEF WindowTypes, WindowOK
  <2>3. inflight_requests <= Len(request_queue') /\ Len(request_queue') <= QueueSize
    BY <2>1, <2>2, SizeAssumption
  <2> QED
    BY <1>1, <2>1, <2>2, <2>3, WindowMoved
<1> QED
  BY <1>2, <1>3 DEF Enqueue

LEMMA WindowRun ==
  ASSUME WindowInv, LockInv', Run
  PROVE  WindowInv'
<1>0. WindowTypes /\ call \in Calling
  BY DEF WindowInv, WindowTypes
<1>1. CASE session_run
  <2>1. CASE Goto("abandon") /\ UNCHANGED request_queue
    BY <1>0, <1>1, <2>1, WindowEntered DEF session_run, At, Goto, Elsewhere
  <2>2. CASE Enqueue(Request("RUN", call.rs, call.tx), "run_unlock")
    <3>1. Request("RUN", call.rs, call.tx) \in Requests
      BY <1>0, RequestsTyped DEF Calling
    <3> QED
      BY <1>1, <2>2, <3>1, WindowEnqueued DEF session_run, At, Elsewhere
  <2> QED
    BY <1>1, <2>1, <2>2 DEF session_run
<1>2. CASE session_pull_all
  <2>1. CASE Goto("abandon") /\ UNCHANGED request_queue
    BY <1>0, <1>2, <2>1, WindowEntered DEF session_pull_all, At, Goto, Elsewhere
  <2>2. CASE Enqueue(Request(call.kind, call.rs, call.tx), "pull_unlock")
    <3>1. Request(call.kind, call.rs, call.tx) \in Requests
      BY <1>0, RequestsTyped DEF Calling
    <3> QED
      BY <1>2, <2>2, <3>1, WindowEnqueued DEF session_pull_all, At, Elsewhere
  <2> QED
    BY <1>2, <2>1, <2>2 DEF session_pull_all
<1>3. CASE session_unlock
  BY <1>0, <1>3, WindowEntered DEF session_unlock, At, Goto, Elsewhere
<1>4. CASE run_start
  BY <1>0, <1>4, CallsTyped, WindowEntered
     DEF run_start, At, Goto, unchangedByCall, Elsewhere
<1>5. CASE abandon
  BY <1>0, <1>5, CallsTyped, WindowEntered
     DEF abandon, run_rs_close, At, Goto, Enter, unchangedByCall, Elsewhere
<1>6. CASE free_results
  BY <1>0, <1>6, CallsTyped, WindowEntered
     DEF free_results, Crash, At, Goto, Enter, unchangedByCall, Elsewhere,
         WindowInv, LockInv, Actors
<1>7. CASE return_to_stream
  <2>1. At("done") /\ UNCHANGED <<request_queue, inflight_requests>>
    BY <1>7 DEF return_to_stream, unchangedByCall
  <2>2. CASE Crash /\ UNCHANGED call
    BY <1>0, <2>1, <2>2, ExpectingCrashed, WindowKept
  <2>3. CASE Goto("free") /\ UNCHANGED call
    BY <1>0, <2>1, <2>3, WindowEntered DEF At, Goto, Elsewhere
  <2>4. CASE Enter("idle", Idle)
    BY <2>1, <2>4, CallsTyped, WindowEntered DEF At, Goto, Enter, Elsewhere
  <2> QED
    BY <1>7, <2>2, <2>3, <2>4 DEF return_to_stream
<1>8. CASE return_to_tx
  BY <1>8, CallsTyped, WindowEntered
     DEF return_to_tx, At, Goto, Enter, unchangedByCall, Elsewhere
<1> QED
  BY <1>1, <1>2, <1>3, <1>4, <1>5, <1>6, <1>7, <1>8 DEF Run

LEMMA WindowSignal ==
  ASSUME WindowInv, LockInv', neo4j_reset
  PROVE  WindowInv'
<1>1. call' = call /\ call \in Calling
  BY DEF neo4j_reset, WindowInv, WindowTypes
<1>2. Expecting'
  <2>1. CASE UNCHANGED pc
    BY <2>1 DEF neo4j_reset, Expecting, WindowInv
  <2>2. CASE pc' = [pc EXCEPT !["sig"] = ResetFrom]
    BY <2>2 DEF neo4j_reset, ResetFrom, Expecting, WindowInv, LockInv, Actors
  <2> QED
    BY <2>1, <2>2 DEF neo4j_reset
<1> QED
  BY <1>1, <1>2, WindowKept DEF neo4j_reset

LEMMA WindowStep == WindowInv /\ [Next]_vars => WindowInv'
<1> SUFFICES ASSUME WindowInv, [Next]_vars PROVE WindowInv'
  OBVIOUS
<1>1. LockInv'
  BY LockStep DEF WindowInv
<1>2. CASE \/ ServerStep \/ ServerGoodbye \/ Drop \/ Terminated
           \/ UNCHANGED vars
  <2>1. UNCHANGED <<request_queue, inflight_requests, call, pc>>
    BY <1>2 DEF ServerStep, ServerGoodbye, Drop, Terminated, vars, connVars, ctlVars
  <2>2. Expecting' /\ call' \in Calling
    BY <2>1 DEF Expecting, WindowInv, WindowTypes
  <2> QED
    BY <1>1, <2>1, <2>2, WindowKept
<1> QED
  BY <1>1, <1>2, WindowStart, WindowSync, WindowReset, WindowClose, WindowRun, WindowSignal
     DEF Next, Continue, Actors

(* In whatever step the program is interrupted, and however often, no more *)
(* requests are counted as in flight than are queued or may be pipelined,  *)
(* and the queue never holds more than its array does: send_requests,      *)
(* receive_responses, the drains and the handler's reset agree on it.      *)
THEOREM WindowTheorem == Spec => []WindowOK
<1>1. Spec => []WindowInv
  BY WindowInit, WindowStep, PTL DEF Spec
<1>2. WindowInv => WindowOK
  BY DEF WindowInv
<1> QED
  BY <1>1, <1>2, PTL

-----------------------------------------------------------------------------
(***************************************************************************)
(* The references of the result streams of a connection: a stream is not   *)
(* freed while a queued request points to it, whatever the server answers  *)
(* and wherever a signal is delivered, and its count is exact as long as   *)
(* no record is malformed.                                                 *)
(***************************************************************************)

(* A request of a type in `types' for stream s is queued in q.              *)
Has(q, s, types) == \E i \in DOMAIN q : q[i].of = s /\ q[i].type \in types
HasRun(q, s) == Has(q, s, {"RUN"})
HasPull(q, s) == Has(q, s, Statements)

Bit(b) == IF b THEN 1 ELSE 0
Pointers(q, s) == Bit(HasRun(q, s)) + Bit(HasPull(q, s))

(* The queue holds a request of each of the two kinds of a stream at most;  *)
(* the last one may have been handed out and not yet populated.             *)
Answerable == {"RUN", "ACK"} \cup Statements \cup TxRequests
OfStream(q) == q.type \in {"RUN"} \cup Statements
Blank == Request("BLANK", "nothing", None)

Proper(q, blank) ==
  \A i \in DOMAIN q :
    IF blank /\ i = Len(q) THEN q[i] = Blank
    ELSE q[i].type \in Answerable /\ (OfStream(q[i]) <=> q[i].of \in Streams)

Distinct(q) ==
  \A i, j \in DOMAIN q :
    /\ OfStream(q[i]) /\ OfStream(q[j]) /\ q[i].of = q[j].of
    /\ q[i].type = "RUN" <=> q[j].type = "RUN"
    => i = j

(* What the program itself contributes to the count of a stream: its own    *)
(* pointer, until it closes the stream, and, between the queueing of a      *)
(* request and the release of the lock, the reference it has yet to take.   *)
Taking(s) == call.rs = s /\ ret.rc = 0 /\ pc["app"] \in {"run_unlock", "pull_unlock"}
Own == [s \in Streams |-> Bit(~Closing(s)) - Bit(Taking(s))]

(* A bad record takes its request off the queue and keeps the reference, so *)
(* the count is exact only where there is none.                             *)
Balance(n, r, own) ==
  /\ r.open => /\ r.refcount >= n + own
               /\ "BADRECORD" \notin Faults => r.refcount = n + own
  /\ ~r.open => n = 0

Balanced(q, st, own) ==
  \A s \in Streams : Balance(Pointers(q, s), st[s], own[s])

Counted(r) ==
  /\ {"open", "refcount"} \subseteq DOMAIN r
  /\ r.open \in BOOLEAN /\ r.refcount \in Int
StreamsOK(st) == DOMAIN st = Streams /\ \A s \in Streams : Counted(st[s])

Opening == {"run", "run_unlock", "pull", "pull_unlock", "start", "abandon"}

(* What the program knows of its call at the points where it matters.       *)
Phases ==
  /\ pc["app"] \in {"idle", "crecv", "cend"} => call.rs = None
  /\ pc["app"] \in Opening =>
       call.rs \in Streams /\ call.op = "run" /\ streams[call.rs].open
  /\ pc["app"] \in {"run_unlock", "pull_unlock"} => ret.rc \in {-1, 0}
  /\ pc["app"] = "run" => ~HasRun(request_queue, call.rs)
  /\ pc["app"] \in {"run", "run_unlock", "pull"} => ~HasPull(request_queue, call.rs)
  /\ pc["app"] = "free" => call.rs \in Streams /\ Closing(call.rs)
  /\ pc["app"] = "fill" => inflight_requests < Len(request_queue)
  /\ call.fill.type \in {"ACK"} \cup TxRequests /\ call.fill.of \notin Streams

KnownReplies ==
  {"SUCCESS", "FAILURE", "TIMEOUT", "IGNORED", "RECORD", "BADRECORD", "INVALID",
   "GARBLED"} \ ({"BADRECORD", "GARBLED"} \ Faults)
Messages == [type : KnownReplies, to : Requests, n : Nat]
WireTypes == /\ toServer \in Seq(Requests) /\ toClient \in Seq(Messages)
             /\ server.n \in Nat

Accounts(q, st, own, blank) ==
  StreamsOK(st) /\ Proper(q, blank) /\ Distinct(q) /\ Balanced(q, st, own)
-----------------------------------------------------------------------------
(* What the operations on the queue do to the requests of a stream.         *)
LEMMA HasNothing ==
  ASSUME NEW s, NEW types
  PROVE  ~Has(<<>>, s, types)
  BY DEF Has

LEMMA HasAppend ==
  ASSUME NEW q \in Seq(Requests), NEW x \in Requests, NEW s, NEW types
  PROVE  Has(Append(q, x), s, types) <=>
           Has(q, s, types) \/ (x.of = s /\ x.type \in types)
<1>. DEFINE t == Append(q, x)
<1>1. /\ DOMAIN t = 1 .. Len(q) + 1 /\ DOMAIN q = 1 .. Len(q) /\ Len(q) \in Nat
      /\ t[Len(q) + 1] = x /\ \A i \in 1 .. Len(q) : t[i] = q[i]
  BY AppendProperties
<1>. HIDE DEF t
<1>2. ASSUME Has(t, s, types) PROVE Has(q, s, types) \/ (x.of = s /\ x.type \in types)
  <2>1. PICK i \in 1 .. Len(q) + 1 : t[i].of = s /\ t[i].type \in types
    BY <1>1, <1>2 DEF Has
  <2>2. CASE i = Len(q) + 1
    BY <1>1, <2>1, <2>2
  <2>3. CASE i \in 1 .. Len(q)
    BY <1>1, <2>1, <2>3 DEF Has
  <2>. QED BY <1>1, <2>1, <2>2, <2>3
<1>3. ASSUME Has(q, s, types) PROVE Has(t, s, types)
  <2>1. PICK i \in 1 .. Len(q) : q[i].of = s /\ q[i].type \in types
    BY <1>1, <1>3 DEF Has
  <2>2. i \in DOMAIN t /\ t[i] = q[i]
    BY <1>1, <2>1
  <2>. QED BY <2>1, <2>2 DEF Has
<1>4. ASSUME x.of = s, x.type \in types PROVE Has(t, s, types)
  <2>1. Len(q) + 1 \in DOMAIN t
    BY <1>1
  <2>. QED BY <1>1, <1>4, <2>1 DEF Has
<1>. QED BY <1>2, <1>3, <1>4 DEF t

LEMMA HasTail ==
  ASSUME NEW q \in Seq(Requests), q # <<>>, NEW s, NEW types
  PROVE  Has(q, s, types) <=>
           Has(Tail(q), s, types) \/ (Head(q).of = s /\ Head(q).type \in types)
<1>. DEFINE t == Tail(q)
<1>1. /\ DOMAIN t = 1 .. Len(q) - 1 /\ DOMAIN q = 1 .. Len(q)
      /\ Len(q) \in Nat /\ Len(q) >= 1
      /\ Head(q) = q[1] /\ \A i \in 1 .. Len(q) - 1 : t[i] = q[i + 1]
  BY HeadTailProperties
<1>. HIDE DEF t
<1>2. ASSUME Has(q, s, types)
      PROVE  Has(t, s, types) \/ (Head(q).of = s /\ Head(q).type \in types)
  <2>1. PICK i \in 1 .. Len(q) : q[i].of = s /\ q[i].type \in types
    BY <1>1, <1>2 DEF Has
  <2>2. CASE i = 1
    BY <1>1, <2>1, <2>2
  <2>3. CASE i # 1
    <3>1. i - 1 \in 1 .. Len(q) - 1 /\ (i - 1) + 1 = i
      BY <1>1, <2>1, <2>3
    <3>2. i - 1 \in DOMAIN t /\ t[i - 1] = q[i]
      BY <1>1, <3>1
    <3>. QED BY <2>1, <3>2 DEF Has
  <2>. QED BY <2>2, <2>3
<1>3. ASSUME Has(t, s, types) PROVE Has(q, s, types)
  <2>1. PICK i \in 1 .. Len(q) - 1 : t[i].of = s /\ t[i].type \in types
    BY <1>1, <1>3 DEF Has
  <2>2. i + 1 \in DOMAIN q /\ t[i] = q[i + 1]
    BY <1>1, <2>1
  <2>. QED BY <2>1, <2>2 DEF Has
<1>4. ASSUME Head(q).of = s, Head(q).type \in types PROVE Has(q, s, types)
  <2>1. 1 \in DOMAIN q
    BY <1>1
  <2>. QED BY <1>1, <1>4, <2>1 DEF Has
<1>. QED BY <1>2, <1>3, <1>4 DEF t

(* An unpopulated request belongs to no stream, and neither does what a     *)
(* slot is populated with outside neo4j_session_run.                        *)
LEMMA HasPopulated ==
  ASSUME NEW q \in Seq(Requests), NEW x, NEW s, NEW types,
         q # <<>>, q[Len(q)].of # s, x.of # s
  PROVE  Has([q EXCEPT ![Len(q)] = x], s, types) <=> Has(q, s, types)
<1>. DEFINE t == [q EXCEPT ![Len(q)] = x]
<1>1. DOMAIN t = DOMAIN q /\ \A i \in DOMAIN q : t[i] = IF i = Len(q) THEN x ELSE q[i]
  OBVIOUS
<1>. HIDE DEF t
<1>2. Has(t, s, types) <=> Has(q, s, types)
  BY <1>1 DEF Has
<1>. QED BY <1>2 DEF t
-----------------------------------------------------------------------------
(* The shape of the queue is kept by what is done to it.                    *)
Fits(x) == x.type \in Answerable /\ (OfStream(x) <=> x.of \in Streams)

LEMMA ProperEmpty ==
  ASSUME NEW blank \in BOOLEAN
  PROVE  Proper(<<>>, blank) /\ Distinct(<<>>)
  BY DEF Proper, Distinct

LEMMA ProperAppend ==
  ASSUME NEW q \in Seq(Requests), NEW x \in Requests, Proper(q, FALSE)
  PROVE  /\ Fits(x) => Proper(Append(q, x), FALSE)
         /\ x = Blank => Proper(Append(q, x), TRUE)
<1>. DEFINE t == Append(q, x)
<1>1. /\ DOMAIN t = 1 .. Len(q) + 1 /\ DOMAIN q = 1 .. Len(q) /\ Len(q) \in Nat
      /\ Len(t) = Len(q) + 1
      /\ t[Len(q) + 1] = x /\ \A i \in 1 .. Len(q) : t[i] = q[i]
  BY AppendProperties
<1>. HIDE DEF t
<1>2. \A i \in DOMAIN t : i = Len(t) \/ i \in DOMAIN q
  BY <1>1
<1>3. \A i \in DOMAIN q : Fits(t[i]) /\ i # Len(t)
  BY <1>1 DEF Proper, Fits
<1>4. t[Len(t)] = x
  BY <1>1
<1>5. Fits(x) => Proper(t, FALSE)
  BY <1>2, <1>3, <1>4 DEF Proper, Fits
<1>6. x = Blank => Proper(t, TRUE)
  BY <1>2, <1>3, <1>4 DEF Proper, Fits
<1>. QED BY <1>5, <1>6 DEF t

LEMMA ProperTail ==
  ASSUME NEW q \in Seq(Requests), q # <<>>, NEW blank \in BOOLEAN, Proper(q, blank)
  PROVE  Proper(Tail(q), blank)
<1>. DEFINE t == Tail(q)
<1>1. /\ DOMAIN t = 1 .. Len(q) - 1 /\ DOMAIN q = 1 .. Len(q) /\ Len(t) = Len(q) - 1
      /\ Len(q) \in Nat /\ \A i \in 1 .. Len(q) - 1 : t[i] = q[i + 1]
  BY HeadTailProperties
<1>. HIDE DEF t
<1>2. \A i \in DOMAIN t : i + 1 \in DOMAIN q /\ t[i] = q[i + 1]
                          /\ (i = Len(t) <=> i + 1 = Len(q))
  BY <1>1
<1>3. Proper(t, blank)
  BY <1>2 DEF Proper
<1>. QED BY <1>3 DEF t

LEMMA ProperPopulated ==
  ASSUME NEW q \in Seq(Requests), NEW x, Proper(q, TRUE), Fits(x)
  PROVE  Proper([q EXCEPT ![Len(q)] = x], FALSE)
<1>. DEFINE t == [q EXCEPT ![Len(q)] = x]
<1>1. DOMAIN t = DOMAIN q /\ \A i \in DOMAIN q : t[i] = IF i = Len(q) THEN x ELSE q[i]
  OBVIOUS
<1>. HIDE DEF t
<1>2. Proper(t, FALSE)
  BY <1>1 DEF Proper, Fits
<1>. QED BY <1>2 DEF t

LEMMA DistinctAppend ==
  ASSUME NEW q \in Seq(Requests), NEW x \in Requests, Distinct(q),
         OfStream(x) => /\ x.type = "RUN" => ~HasRun(q, x.of)
                        /\ x.type # "RUN" => ~HasPull(q, x.of)
  PROVE  Distinct(Append(q, x))
<1>. DEFINE t == Append(q, x)
<1>1. /\ DOMAIN t = 1 .. Len(q) + 1 /\ DOMAIN q = 1 .. Len(q) /\ Len(q) \in Nat
      /\ t[Len(q) + 1] = x /\ \A i \in 1 .. Len(q) : t[i] = q[i]
  BY AppendProperties
<1>. HIDE DEF t
<1>. DEFINE Same(y, z) == /\ OfStream(y) /\ OfStream(z) /\ y.of = z.of
                          /\ y.type = "RUN" <=> z.type = "RUN"
<1>2. \A i \in DOMAIN q : ~Same(q[i], x)
  BY DEF Has, HasRun, HasPull, OfStream
<1>3. \A i, j \in DOMAIN q : Same(q[i], q[j]) => i = j
  BY DEF Distinct
<1>4. \A y, z : Same(y, z) => Same(z, y)
  OBVIOUS
<1>5. \A i \in DOMAIN t : i = Len(q) + 1 \/ (i \in DOMAIN q /\ t[i] = q[i])
  BY <1>1
<1>6. ASSUME NEW i \in DOMAIN t, NEW j \in DOMAIN t, Same(t[i], t[j]) PROVE i = j
  <2>. HIDE DEF Same
  <2>1. CASE i = Len(q) + 1 /\ j = Len(q) + 1
    BY <2>1
  <2>2. CASE i = Len(q) + 1 /\ j # Len(q) + 1
    BY <1>1, <1>2, <1>4, <1>5, <1>6, <2>2, Zenon
  <2>3. CASE i # Len(q) + 1 /\ j = Len(q) + 1
    BY <1>1, <1>2, <1>5, <1>6, <2>3, Zenon
  <2>4. CASE i # Len(q) + 1 /\ j # Len(q) + 1
    BY <1>3, <1>5, <1>6, <2>4, Zenon
  <2>. QED BY <2>1, <2>2, <2>3, <2>4
<1>7. Distinct(t)
  BY <1>6 DEF Distinct
<1>. QED BY <1>7 DEF t

(* ... so that the request at the head is the only one of its stream and    *)
(* kind.                                                                    *)
LEMMA DistinctTail ==
  ASSUME NEW q \in Seq(Requests), q # <<>>, Distinct(q)
  PROVE  /\ Distinct(Tail(q))
         /\ OfStream(Head(q)) =>
              /\ Head(q).type = "RUN" => ~HasRun(Tail(q), Head(q).of)
              /\ Head(q).type # "RUN" => ~HasPull(Tail(q), Head(q).of)
<1>. DEFINE t == Tail(q)
<1>1. /\ DOMAIN t = 1 .. Len(q) - 1 /\ DOMAIN q = 1 .. Len(q) /\ Len(q) \in Nat
      /\ Head(q) = q[1] /\ \A i \in 1 .. Len(q) - 1 : t[i] = q[i + 1]
  BY HeadTailProperties
<1>. HIDE DEF t
<1>2. \A i \in DOMAIN t : /\ i + 1 \in DOMAIN q /\ t[i] = q[i + 1] /\ i + 1 # 1
                          /\ i \in Int
  BY <1>1
<1>3. Distinct(t)
  <2>. SUFFICES ASSUME NEW i \in DOMAIN t, NEW j \in DOMAIN t,
                       OfStream(t[i]), OfStream(t[j]), t[i].of = t[j].of,
                       t[i].type = "RUN" <=> t[j].type = "RUN"
                PROVE  i = j
    BY DEF Distinct
  <2>1. i + 1 = j + 1
    BY <1>2 DEF Distinct
  <2>. QED BY <1>2, <2>1
<1>4. 1 \in DOMAIN q
  BY <1>1
<1>5. \A i \in DOMAIN t : OfStream(q[1]) /\ OfStream(t[i]) /\ q[1].of = t[i].of
                          => ~(q[1].type = "RUN" <=> t[i].type = "RUN")
  BY <1>2, <1>4 DEF Distinct
<1>6. \A i \in DOMAIN t : /\ t[i].type = "RUN" => OfStream(t[i])
                          /\ t[i].type \in Statements => OfStream(t[i]) /\ t[i].type # "RUN"
  BY DEF OfStream, Statements
<1>7. OfStream(q[1]) => /\ q[1].type = "RUN" => ~HasRun(t, q[1].of)
                        /\ q[1].type # "RUN" => ~HasPull(t, q[1].of)
  BY <1>5, <1>6 DEF HasRun, HasPull, Has
<1>. QED BY <1>1, <1>3, <1>7 DEF t

LEMMA DistinctPopulated ==
  ASSUME NEW q \in Seq(Requests), NEW x, Distinct(q), ~OfStream(x)
  PROVE  Distinct([q EXCEPT ![Len(q)] = x])
<1>. DEFINE t == [q EXCEPT ![Len(q)] = x]
<1>1. DOMAIN t = DOMAIN q /\ \A i \in DOMAIN q : t[i] = IF i = Len(q) THEN x ELSE q[i]
  OBVIOUS
<1>. HIDE DEF t
<1>2. Distinct(t)
  BY <1>1 DEF Distinct
<1>. QED BY <1>2 DEF t
-----------------------------------------------------------------------------
(* What is done to a stream changes its count by n and neither opens it nor *)
(* closes it.                                                               *)
Counts(r, t, n) ==
  Counted(t) /\ t.open = r.open /\ t.refcount = r.refcount + n

LEMMA Kept ==
  ASSUME NEW r, Counted(r)
  PROVE  /\ Counts(r, r, 0)
         /\ \A e : Counts(r, set_failure(r, e), 0)
         /\ \A type : Counts(r, set_eval_failure(r, type), 0)
         /\ \A e : Counts(r, abort_job(r, e), 0)
         /\ \A n : Counts(r, append_result(r, n), 0)
         /\ Counts(r, Started(r), 0)
         /\ Counts(r, Pop(r), 0)
         /\ \A n : Counts(r, Await(r, n), 0)
         /\ Counts(r, Lost(r), 0)
         /\ Counts(r, Awaited(r), 0)
         /\ Counts(r, Referenced(r), 1)
<1>. USE DEF Counts, Counted
<1>1. Counts(r, r, 0)
  OBVIOUS
<1>2. \A e : Counts(r, set_failure(r, e), 0)
  BY DEF set_failure
<1>3. \A type : Counts(r, set_eval_failure(r, type), 0)
  BY <1>1, <1>2 DEF set_eval_failure
<1>4. \A e : Counts(r, abort_job(r, e), 0)
  BY DEF abort_job, set_failure
<1>5. \A n : Counts(r, append_result(r, n), 0)
  BY DEF append_result
<1>6. Counts(r, Started(r), 0)
  BY DEF Started
<1>7. Counts(r, Pop(r), 0)
  BY DEF Pop
<1>8. \A n : Counts(r, Await(r, n), 0)
  BY DEF Await
<1>9. Counts(r, Lost(r), 0)
  BY DEF Lost
<1>10. Counts(r, Awaited(r), 0)
  BY <1>1, <1>2 DEF Awaited
<1>11. Counts(r, Referenced(r), 1)
  BY DEF Referenced
<1>. QED BY <1>1, <1>2, <1>3, <1>4, <1>5, <1>6, <1>7, <1>8, <1>9, <1>10, <1>11

(* What a callback is given: a reply, or NULL for a request that is drained. *)
ReplyTypes == {"SUCCESS", "FAILURE", "TIMEOUT", "IGNORED", "RECORD", "BADRECORD",
               "INVALID", "NULL"}

LEMMA RunCallback ==
  ASSUME NEW r, Counted(r), NEW type \in ReplyTypes
  PROVE  LET c == run_callback(r, type)
         IN  Counts(r, c.stream, -1) /\ c.rc \in {-1, 0}
<1>. DEFINE t == [r EXCEPT !.starting = FALSE, !.refcount = @ - 1]
            c == run_callback(r, type)
<1>1. Counts(r, t, -1) /\ Counted(t)
  BY DEF Counts, Counted
<1>. HIDE DEF t
<1>2. \E u, rc : c = Result(u, rc) /\ Counts(t, u, 0) /\ rc \in {-1, 0}
  <2>1. CASE type = "NULL" \/ ~t.connection
    BY <1>1, <2>1, Kept DEF run_callback, t
  <2>2. CASE type # "NULL" /\ t.connection
    <3>1. CASE type \in {"FAILURE", "TIMEOUT"}
      <4>1. c = Result(set_eval_failure(t, type), 0)
        BY <2>2, <3>1 DEF run_callback, t, IsFailure
      <4>. QED BY <1>1, <4>1, Kept
    <3>2. CASE type = "IGNORED"
      <4>1. c = Result(IF t.failure = "none" THEN set_failure(t, "PREVIOUS_FAILURE")
                       ELSE t, 0)
        BY <2>2, <3>2 DEF run_callback, t, IsFailure
      <4>. QED BY <1>1, <4>1, Kept
    <3>3. CASE type = "SUCCESS"
      <4>1. c = Result(t, 0)
        BY <2>2, <3>3 DEF run_callback, t, IsFailure
      <4>. QED BY <1>1, <4>1, Kept
    <3>4. CASE type \in {"RECORD", "BADRECORD", "INVALID"}
      <4>1. c = Result(set_failure(t, "EPROTO"), -1)
        BY <2>2, <3>4 DEF run_callback, t, IsFailure
      <4>. QED BY <1>1, <4>1, Kept
    <3>. QED BY <2>2, <3>1, <3>2, <3>3, <3>4 DEF ReplyTypes
  <2>. QED BY <2>1, <2>2
<1>. HIDE DEF c
<1>3. PICK u, rc : c = Result(u, rc) /\ Counts(t, u, 0) /\ rc \in {-1, 0}
  BY <1>2
<1>4. c.stream = u /\ c.rc = rc
  BY <1>3 DEF Result
<1>5. Counts(r, u, -1)
  BY <1>1, <1>3 DEF Counts, Counted
<1>. QED BY <1>3, <1>4, <1>5 DEF c

\* The end of a stream leaves the count alone: the callback has given back its
\* reference before.
LEMMA StreamEnd ==
  ASSUME NEW t, Counted(t), NEW type \in ReplyTypes \ {"RECORD", "BADRECORD"}
  PROVE  LET c == stream_end(t, type)
         IN  Counts(t, c.stream, 0) /\ c.rc \in {-1, 0}
<1>. DEFINE c == stream_end(t, type)
<1>1. CASE type = "NULL" \/ ~t.connection
  <2>1. c = Result(t, 0)
    BY <1>1 DEF stream_end, IsFailure
  <2>. QED BY <2>1, Kept DEF Result
<1>2. CASE type # "NULL" /\ t.connection
  <2>1. CASE type = "IGNORED"
    <3>1. c = IF t.failure = "none" THEN Result(set_failure(t, "EPROTO"), -1)
              ELSE Result(t, 0)
      BY <1>2, <2>1 DEF stream_end, IsFailure
    <3>. QED BY <3>1, Kept DEF Result
  <2>2. CASE type \in {"FAILURE", "TIMEOUT"}
    <3>1. c = [Result(set_eval_failure(t, type), 0) EXCEPT !.assert = t.failure = "none"]
      BY <1>2, <2>2 DEF stream_end, IsFailure
    <3>2. c.stream = set_eval_failure(t, type) /\ c.rc = 0
      BY <3>1 DEF Result
    <3>. QED BY <3>2, Kept
  <2>3. CASE type = "SUCCESS"
    <3>1. c = [Result([t EXCEPT !.statement_type = TRUE], 0)
                 EXCEPT !.assert = t.failure = "none"]
      BY <1>2, <2>3 DEF stream_end, IsFailure
    <3>2. c.stream = [t EXCEPT !.statement_type = TRUE] /\ c.rc = 0
      BY <3>1 DEF Result
    <3>. QED BY <3>2 DEF Counts, Counted
  <2>4. CASE type = "INVALID"
    <3>1. c = [Result(set_failure(t, "EPROTO"), -1) EXCEPT !.assert = t.failure = "none"]
      BY <1>2, <2>4 DEF stream_end, IsFailure
    <3>2. c.stream = set_failure(t, "EPROTO") /\ c.rc = -1
      BY <3>1 DEF Result
    <3>. QED BY <3>2, Kept
  <2>. QED BY <1>2, <2>1, <2>2, <2>3, <2>4 DEF ReplyTypes
<1>. QED BY <1>1, <1>2

(* A record keeps the request and its reference; a bad one gives up only    *)
(* the request; every other reply gives up both.                            *)
LEMMA PullCallback ==
  ASSUME NEW r, Counted(r), NEW type \in ReplyTypes, NEW n
  PROVE  LET c == pull_all_callback(r, type, n)
         IN  /\ type = "RECORD" => Counts(r, c.stream, 0) /\ c.rc = 1
             /\ type = "BADRECORD" => Counts(r, c.stream, 0) /\ c.rc = -1
             /\ type \notin {"RECORD", "BADRECORD"} =>
                  Counts(r, c.stream, -1) /\ c.rc \in {-1, 0}
<1>. DEFINE t == [r EXCEPT !.refcount = @ - 1, !.streaming = FALSE]
            c == pull_all_callback(r, type, n)
<1>1. Counts(r, t, -1) /\ Counted(t)
  BY DEF Counts, Counted
<1>2. CASE type = "RECORD"
  <2>1. c = Result(append_result(r, n), 1)
    BY <1>2 DEF pull_all_callback
  <2>. QED BY <1>2, <2>1, Kept DEF Result
<1>3. CASE type = "BADRECORD"
  <2>1. c = Result(set_failure(r, "EPROTO"), -1)
    BY <1>3 DEF pull_all_callback
  <2>. QED BY <1>3, <2>1, Kept DEF Result
<1>4. CASE type \notin {"RECORD", "BADRECORD"}
  <2>1. c = stream_end(t, type)
    BY <1>4 DEF pull_all_callback
  <2>. HIDE DEF t
  <2>2. Counts(t, c.stream, 0) /\ c.rc \in {-1, 0}
    BY <1>1, <1>4, <2>1, StreamEnd
  <2>3. Counts(r, c.stream, -1)
    BY <1>1, <2>2 DEF Counts, Counted
  <2>. QED BY <1>4, <2>2, <2>3
<1>. QED BY <1>2, <1>3, <1>4

LEMMA DiscardCallback ==
  ASSUME NEW r, Counted(r), NEW type \in ReplyTypes
  PROVE  LET c == discard_all_callback(r, type)
         IN  Counts(r, c.stream, -1) /\ c.rc \in {-1, 0}
<1>. DEFINE t == [r EXCEPT !.refcount = @ - 1, !.streaming = FALSE]
            end == IF type \in {"RECORD", "BADRECORD"} THEN "INVALID" ELSE type
            c == discard_all_callback(r, type)
<1>1. Counts(r, t, -1) /\ Counted(t)
  BY DEF Counts, Counted
<1>2. end \in ReplyTypes \ {"RECORD", "BADRECORD"}
  BY DEF ReplyTypes
<1>3. c = stream_end(t, end)
  BY DEF discard_all_callback
<1>. HIDE DEF t, end, c
<1>4. Counts(t, c.stream, 0) /\ c.rc \in {-1, 0}
  BY <1>1, <1>2, <1>3, StreamEnd
<1>. QED BY <1>1, <1>4 DEF Counts, Counted, c
-----------------------------------------------------------------------------
(* How many queued requests point to a stream, as the queue changes.        *)
LEMMA PointersTyped ==
  ASSUME NEW q, NEW s
  PROVE  Pointers(q, s) \in {0, 1, 2}
  BY DEF Pointers, Bit

LEMMA PointersNone ==
  ASSUME NEW q, NEW s
  PROVE  /\ Pointers(q, s) = 0 <=> ~HasRun(q, s) /\ ~HasPull(q, s)
         /\ Pointers(<<>>, s) = 0
  BY HasNothing DEF Pointers, Bit, HasRun, HasPull

LEMMA PointersAppend ==
  ASSUME NEW q \in Seq(Requests), NEW x \in Requests, NEW s,
         OfStream(x) => /\ x.type = "RUN" => ~HasRun(q, x.of)
                        /\ x.type # "RUN" => ~HasPull(q, x.of)
  PROVE  Pointers(Append(q, x), s) =
           Pointers(q, s) + Bit(OfStream(x) /\ x.of = s)
<1>1. HasRun(Append(q, x), s) <=> HasRun(q, s) \/ (x.of = s /\ x.type = "RUN")
  BY HasAppend DEF HasRun
<1>2. HasPull(Append(q, x), s) <=> HasPull(q, s) \/ (x.of = s /\ x.type \in Statements)
  BY HasAppend DEF HasPull
<1>3. OfStream(x) <=> x.type = "RUN" \/ x.type \in Statements
  BY DEF OfStream
<1>4. "RUN" \notin Statements
  BY DEF Statements
<1>. QED BY <1>1, <1>2, <1>3, <1>4 DEF Pointers, Bit

LEMMA PointersTail ==
  ASSUME NEW q \in Seq(Requests), q # <<>>, Distinct(q), NEW s
  PROVE  Pointers(Tail(q), s) =
           Pointers(q, s) - Bit(OfStream(Head(q)) /\ Head(q).of = s)
<1>. DEFINE h == Head(q)
<1>1. HasRun(q, s) <=> HasRun(Tail(q), s) \/ (h.of = s /\ h.type = "RUN")
  BY HasTail DEF HasRun
<1>2. HasPull(q, s) <=> HasPull(Tail(q), s) \/ (h.of = s /\ h.type \in Statements)
  BY HasTail DEF HasPull
<1>3. OfStream(h) <=> h.type = "RUN" \/ h.type \in Statements
  BY DEF OfStream
<1>4. "RUN" \notin Statements
  BY DEF Statements
<1>5. OfStream(h) => /\ h.type = "RUN" => ~HasRun(Tail(q), h.of)
                     /\ h.type # "RUN" => ~HasPull(Tail(q), h.of)
  BY DistinctTail
<1>. HIDE DEF h
<1>6. Pointers(Tail(q), s) = Pointers(q, s) - Bit(OfStream(h) /\ h.of = s)
  BY <1>1, <1>2, <1>3, <1>4, <1>5 DEF Pointers, Bit
<1>. QED BY <1>6 DEF h

LEMMA OwnTyped == \A s \in Streams : Own[s] \in Int
  BY DEF Own, Bit

(* Draining the queue gives back the references of its requests.            *)
LEMMA Drained ==
  ASSUME NEW q \in Seq(Requests), NEW st, NEW own, StreamsOK(st),
         Balanced(q, st, own), \A s \in Streams : own[s] \in Int
  PROVE  LET d == DrainedStreams(q, st)
         IN  /\ \A blank \in BOOLEAN : Accounts(<<>>, d, own, blank)
             /\ \A s \in Streams : d[s].open = st[s].open
<1>. DEFINE d == DrainedStreams(q, st)
            After(s) == IF HasRun(q, s) THEN run_callback(st[s], "NULL").stream ELSE st[s]
<1>1. DOMAIN d = Streams
  BY DEF DrainedStreams
<1>2. ASSUME NEW s \in Streams
      PROVE  d[s] = IF HasPull(q, s)
                    THEN pull_all_callback(After(s), "NULL", 0).stream ELSE After(s)
  BY DEF DrainedStreams, HasRun, HasPull, Has
<1>. HIDE DEF d
<1>3. "NULL" \in ReplyTypes /\ "NULL" \notin {"RECORD", "BADRECORD"}
  BY DEF ReplyTypes
<1>4. ASSUME NEW s \in Streams
      PROVE  Counts(st[s], After(s), - Bit(HasRun(q, s))) /\ Counted(After(s))
  <2>1. Counted(st[s])
    BY DEF StreamsOK
  <2>2. CASE HasRun(q, s)
    BY <1>3, <2>1, <2>2, RunCallback DEF Bit, Counts
  <2>3. CASE ~HasRun(q, s)
    BY <2>1, <2>3 DEF Bit, Counts, Counted
  <2>. QED BY <2>2, <2>3
<1>. HIDE DEF After
<1>5. ASSUME NEW s \in Streams
      PROVE  Counts(st[s], d[s], - Pointers(q, s))
  <2>1. Counted(st[s]) /\ Counts(st[s], After(s), - Bit(HasRun(q, s))) /\ Counted(After(s))
    BY <1>4 DEF StreamsOK
  <2>2. Counts(After(s), d[s], - Bit(HasPull(q, s)))
    <3>1. CASE HasPull(q, s)
      <4>1. Counts(After(s), pull_all_callback(After(s), "NULL", 0).stream, -1)
        BY <1>3, <2>1, PullCallback
      <4>. QED BY <1>2, <3>1, <4>1 DEF Bit
    <3>2. CASE ~HasPull(q, s)
      <4>1. d[s] = After(s)
        BY <1>2, <3>2
      <4>2. Counts(After(s), After(s), 0)
        BY <2>1, Kept
      <4>. QED BY <3>2, <4>1, <4>2 DEF Bit
    <3>. QED BY <3>1, <3>2
  <2>. QED BY <2>1, <2>2 DEF Counts, Counted, Pointers, Bit
<1>6. StreamsOK(d)
  BY <1>1, <1>5 DEF StreamsOK, Counts
<1>7. ASSUME NEW s \in Streams PROVE Balance(Pointers(<<>>, s), d[s], own[s])
  <2>1. Pointers(q, s) \in Int /\ Pointers(<<>>, s) = 0 /\ own[s] \in Int
    BY PointersTyped, PointersNone
  <2>2. Balance(Pointers(q, s), st[s], own[s]) /\ Counted(st[s])
    BY DEF Balanced, StreamsOK
  <2>3. Counts(st[s], d[s], - Pointers(q, s))
    BY <1>5
  <2>. HIDE DEF d
  <2>4. Balance(0, d[s], own[s])
    BY <2>1, <2>2, <2>3 DEF Balance, Counted, Counts
  <2>. QED BY <2>1, <2>4
<1>8. \A s \in Streams : d[s].open = st[s].open
  BY <1>5 DEF Counts
<1>. QED BY <1>6, <1>7, <1>8, ProperEmpty DEF Accounts, Balanced, d

(* The count of a stream, its requests and its owner change together.       *)
Moves(s, q, st, own, q2, st2, own2) ==
  \E k \in Int :
    /\ Counts(st[s], st2[s], k)
    /\ Pointers(q2, s) + own2[s] <= Pointers(q, s) + own[s] + k
    /\ "BADRECORD" \notin Faults =>
         Pointers(q2, s) + own2[s] = Pointers(q, s) + own[s] + k
    /\ ~st[s].open => Pointers(q2, s) <= Pointers(q, s)

AllMove(q, st, own, q2, st2, own2) ==
  /\ DOMAIN st2 = Streams
  /\ \A s \in Streams : /\ own[s] \in Int /\ own2[s] \in Int
                        /\ Moves(s, q, st, own, q2, st2, own2)

LEMMA BalancedMoved ==
  ASSUME NEW q, NEW q2, NEW st, NEW st2, NEW own, NEW own2, StreamsOK(st),
         Balanced(q, st, own), AllMove(q, st, own, q2, st2, own2)
  PROVE  /\ StreamsOK(st2) /\ Balanced(q2, st2, own2)
         /\ \A s \in Streams : st2[s].open = st[s].open
<1>1. ASSUME NEW s \in Streams
      PROVE  /\ Counted(st2[s]) /\ st2[s].open = st[s].open
             /\ Balance(Pointers(q2, s), st2[s], own2[s])
  <2>1. PICK k \in Int :
            /\ Counts(st[s], st2[s], k)
            /\ Pointers(q2, s) + own2[s] <= Pointers(q, s) + own[s] + k
            /\ "BADRECORD" \notin Faults =>
                  Pointers(q2, s) + own2[s] = Pointers(q, s) + own[s] + k
            /\ ~st[s].open => Pointers(q2, s) <= Pointers(q, s)
    BY DEF AllMove, Moves
  <2>2. /\ Pointers(q, s) \in {0, 1, 2} /\ Pointers(q2, s) \in {0, 1, 2}
        /\ own[s] \in Int /\ own2[s] \in Int
        /\ Counted(st[s]) /\ Balance(Pointers(q, s), st[s], own[s])
    BY PointersTyped DEF StreamsOK, Balanced, AllMove
  <2>. QED BY <2>1, <2>2 DEF Balance, Counts, Counted
<1>. QED BY <1>1 DEF StreamsOK, Balanced, AllMove

(* A reply is given to the request at the head of the queue, which it takes *)
(* off with its reference, or to none.                                      *)
LEMMA ReceivedCounts ==
  ASSUME NEW a \in Actors, NEW blank \in BOOLEAN,
         request_queue \in Seq(Requests), request_queue # <<>>,
         blank => Len(request_queue) # 1,
         toClient \in Seq(Messages), Reply,
         Accounts(request_queue, streams, Own, blank)
  PROVE  LET r == Received(a)
         IN  /\ Accounts(r.queue, r.streams, Own, blank)
             /\ \A s \in Streams : r.streams[s].open = streams[s].open
             /\ r.queue \in {request_queue, Tail(request_queue)}
<1>. DEFINE r == Received(a)
            h == Head(request_queue)
            m == Head(toClient)
            cb == Callback(h, m, streams, txs)
            unexpected == failure[a] /\ m.type # "IGNORED"
<1>. SUFFICES /\ Accounts(r.queue, r.streams, Own, blank)
              /\ \A s \in Streams : r.streams[s].open = streams[s].open
              /\ r.queue \in {request_queue, Tail(request_queue)}
  OBVIOUS
<1>1. /\ r.streams = IF unexpected THEN streams ELSE cb.streams
      /\ r.queue = IF ~unexpected /\ cb.rc <= 0 THEN Tail(request_queue)
                   ELSE request_queue
  BY DEF Received, Pops
<1>2. m.type \in ReplyTypes /\ (m.type = "BADRECORD" => "BADRECORD" \in Faults)
  <2>1. m \in Messages /\ m.type # "GARBLED"
    BY DEF Reply, Garbled
  <2>. HIDE DEF m
  <2>2. m.type \in KnownReplies
    BY <2>1 DEF Messages
  <2>. QED BY <2>1, <2>2 DEF KnownReplies, ReplyTypes
<1>3. h \in Requests /\ Fits(h)
  <2>1. 1 \in DOMAIN request_queue /\ h = request_queue[1] /\ h \in Requests
    OBVIOUS
  <2>. QED BY <2>1 DEF Accounts, Proper, Fits
<1>. HIDE DEF r, m, h, unexpected
<1>4. /\ DOMAIN streams = Streams /\ \A s \in Streams : Counted(streams[s])
      /\ StreamsOK(streams)
  BY DEF Accounts, StreamsOK
<1>5. \A s \in Streams : Own[s] \in Int
  BY OwnTyped
<1>6. \A s : Pointers(Tail(request_queue), s) =
               Pointers(request_queue, s) - Bit(OfStream(h) /\ h.of = s)
  BY PointersTail DEF Accounts, h
<1>7. /\ Proper(Tail(request_queue), blank) /\ Distinct(Tail(request_queue))
      /\ Proper(request_queue, blank) /\ Distinct(request_queue)
  BY ProperTail, DistinctTail DEF Accounts
<1>8. \A s : Pointers(request_queue, s) \in Int
  BY PointersTyped
<1>9. CASE unexpected
  BY <1>1, <1>9 DEF Accounts
<1>10. CASE ~unexpected
  <2>. SUFFICES /\ StreamsOK(r.streams) /\ Balanced(r.queue, r.streams, Own)
                /\ \A s \in Streams : r.streams[s].open = streams[s].open
    BY <1>1, <1>7, <1>10 DEF Accounts
  <2>1. CASE OfStream(h)
    <3>1. h.of \in Streams
      BY <1>3, <2>1 DEF Fits
    <3>2. \E x : \E rc, k \in Int :
             /\ cb.streams = [streams EXCEPT ![h.of] = x] /\ cb.rc = rc
             /\ Counts(streams[h.of], x, k)
             /\ \/ rc > 0 /\ k = 0
                \/ rc <= 0 /\ k = -1
                \/ rc <= 0 /\ k = 0 /\ "BADRECORD" \in Faults
      <4>0. Counted(streams[h.of])
        BY <1>4, <3>1
      <4>1. CASE h.type = "RUN"
        <5>. DEFINE c == run_callback(streams[h.of], m.type)
        <5>1. cb.streams = [streams EXCEPT ![h.of] = c.stream] /\ cb.rc = c.rc
          BY <4>1 DEF cb, Callback, Statements, TxRequests
        <5>2. Counts(streams[h.of], c.stream, -1) /\ c.rc \in {-1, 0}
          BY <1>2, <4>0, RunCallback
        <5>. HIDE DEF c, cb
        <5>. c.rc \in Int /\ c.rc <= 0 /\ -1 \in Int
          BY <5>2
        <5>. WITNESS c.stream
        <5>. WITNESS c.rc \in Int, -1 \in Int
        <5>. QED BY <5>1, <5>2
      <4>2. CASE h.type = "PULL_ALL"
        <5>. DEFINE c == pull_all_callback(streams[h.of], m.type, m.n)
        <5>1. cb.streams = [streams EXCEPT ![h.of] = c.stream] /\ cb.rc = c.rc
          BY <4>2 DEF cb, Callback, Statements, TxRequests
        <5>2. /\ m.type = "RECORD" => Counts(streams[h.of], c.stream, 0) /\ c.rc = 1
              /\ m.type = "BADRECORD" => Counts(streams[h.of], c.stream, 0) /\ c.rc = -1
              /\ m.type \notin {"RECORD", "BADRECORD"} =>
                   Counts(streams[h.of], c.stream, -1) /\ c.rc \in {-1, 0}
          BY <1>2, <4>0, PullCallback
        <5>. HIDE DEF c, cb
        <5>. c.rc \in Int /\ 0 \in Int /\ -1 \in Int
          BY <5>2
        <5>. WITNESS c.stream
        <5>4. CASE m.type = "RECORD"
          <6>. WITNESS c.rc \in Int, 0 \in Int
          <6>. QED BY <5>1, <5>2, <5>4
        <5>5. CASE m.type = "BADRECORD"
          <6>. WITNESS c.rc \in Int, 0 \in Int
          <6>. QED BY <1>2, <5>1, <5>2, <5>5
        <5>6. CASE m.type \notin {"RECORD", "BADRECORD"}
          <6>. WITNESS c.rc \in Int, -1 \in Int
          <6>. QED BY <5>1, <5>2, <5>6
        <5>. QED BY <5>4, <5>5, <5>6
      <4>3. CASE h.type = "DISCARD_ALL"
        <5>. DEFINE c == discard_all_callback(streams[h.of], m.type)
        <5>1. cb.streams = [streams EXCEPT ![h.of] = c.stream] /\ cb.rc = c.rc
          BY <4>3 DEF cb, Callback, Statements, TxRequests
        <5>2. Counts(streams[h.of], c.stream, -1) /\ c.rc \in {-1, 0}
          BY <1>2, <4>0, DiscardCallback
        <5>. HIDE DEF c, cb
        <5>. c.rc \in Int /\ c.rc <= 0 /\ -1 \in Int
          BY <5>2
        <5>. WITNESS c.stream
        <5>. WITNESS c.rc \in Int, -1 \in Int
        <5>. QED BY <5>1, <5>2
      <4>. QED BY <2>1, <4>1, <4>2, <4>3 DEF OfStream, Statements
    <3>. HIDE DEF cb
    <3>3. PICK x : \E rc, k \in Int :
             /\ cb.streams = [streams EXCEPT ![h.of] = x] /\ cb.rc = rc
             /\ Counts(streams[h.of], x, k)
             /\ \/ rc > 0 /\ k = 0
                \/ rc <= 0 /\ k = -1
                \/ rc <= 0 /\ k = 0 /\ "BADRECORD" \in Faults
      BY <3>2
    <3>4. PICK rc \in Int, k \in Int :
             /\ cb.streams = [streams EXCEPT ![h.of] = x] /\ cb.rc = rc
             /\ Counts(streams[h.of], x, k)
             /\ \/ rc > 0 /\ k = 0
                \/ rc <= 0 /\ k = -1
                \/ rc <= 0 /\ k = 0 /\ "BADRECORD" \in Faults
      BY <3>3
    <3>5. /\ DOMAIN r.streams = Streams
          /\ \A s \in Streams : r.streams[s] = IF s = h.of THEN x ELSE streams[s]
      BY <1>1, <1>4, <1>10, <3>4
    <3>6. ASSUME NEW s \in Streams
          PROVE  Moves(s, request_queue, streams, Own, r.queue, r.streams, Own)
      <4>1. CASE s = h.of
        <5>1. Counts(streams[s], r.streams[s], k)
          BY <3>4, <3>5, <4>1
        <5>2. Pointers(r.queue, s) = Pointers(request_queue, s) - (IF rc <= 0 THEN 1 ELSE 0)
          BY <1>1, <1>6, <1>8, <1>10, <2>1, <3>4, <4>1 DEF Bit
        <5>. QED BY <1>5, <1>8, <3>4, <5>1, <5>2 DEF Moves
      <4>2. CASE s # h.of
        <5>1. Counts(streams[s], r.streams[s], 0)
          BY <1>4, <3>5, <4>2, Kept
        <5>2. Pointers(r.queue, s) = Pointers(request_queue, s)
          BY <1>1, <1>6, <1>8, <4>2 DEF Bit
        <5>. QED BY <1>5, <1>8, <5>1, <5>2 DEF Moves
      <4>. QED BY <4>1, <4>2
    <3>7. Balanced(request_queue, streams, Own)
      BY DEF Accounts
    <3>8. AllMove(request_queue, streams, Own, r.queue, r.streams, Own)
      BY <1>5, <3>5, <3>6 DEF AllMove
    <3>. QED BY <1>4, <3>7, <3>8, BalancedMoved
  <2>2. CASE ~OfStream(h)
    <3>1. cb.streams = streams
      BY <1>3, <2>2 DEF Fits, cb, Callback, OfStream, Answerable, Statements, TxRequests
    <3>2. \A s \in Streams : Pointers(r.queue, s) = Pointers(request_queue, s)
      BY <1>1, <1>6, <1>8, <2>2 DEF Bit
    <3>3. r.streams = streams
      BY <1>1, <3>1
    <3>. QED BY <1>4, <3>2, <3>3 DEF Accounts, Balanced
  <2>. QED BY <2>1, <2>2
<1>. QED BY <1>9, <1>10
-----------------------------------------------------------------------------
(* The steps.                                                               *)

\* What is done to the streams leaves their counts alone.
AllKept(st, st2) ==
  DOMAIN st2 = Streams /\ \A s \in Streams : Counts(st[s], st2[s], 0)

LEMMA AllKeptSame ==
  ASSUME NEW st, StreamsOK(st)
  PROVE  /\ AllKept(st, st)
         /\ \A s, t : s \in Streams /\ Counts(st[s], t, 0) =>
                       AllKept(st, [st EXCEPT ![s] = t])
<1>1. AllKept(st, st)
  BY Kept DEF AllKept, StreamsOK
<1>2. ASSUME NEW s \in Streams, NEW t, Counts(st[s], t, 0)
      PROVE  AllKept(st, [st EXCEPT ![s] = t])
  <2>. DEFINE st2 == [st EXCEPT ![s] = t]
  <2>1. DOMAIN st2 = Streams /\ \A x \in Streams : st2[x] = IF x = s THEN t ELSE st[x]
    BY DEF StreamsOK
  <2>. HIDE DEF st2
  <2>2. AllKept(st, st2)
    BY <1>1, <1>2, <2>1 DEF AllKept
  <2>. QED BY <2>2 DEF st2
<1>. QED BY <1>1, <1>2

LEMMA AllKeptAborted ==
  ASSUME NEW e, StreamsOK(streams)
  PROVE  AllKept(streams, AbortedJobs(e))
<1>1. CASE jobs = <<>>
  BY <1>1, AllKeptSame DEF AbortedJobs
<1>2. CASE jobs # <<>>
  <2>. DEFINE j == Head(jobs)
              st2 == [streams EXCEPT ![j] = abort_job(@, e)]
  <2>1. DOMAIN streams = Streams /\ \A x \in Streams : Counted(streams[x])
    BY DEF StreamsOK
  <2>2. /\ DOMAIN st2 = Streams
        /\ \A x \in Streams :
             st2[x] = IF x = j THEN abort_job(streams[x], e) ELSE streams[x]
    BY <2>1
  <2>3. AbortedJobs(e) = st2
    BY <1>2 DEF AbortedJobs
  <2>. HIDE DEF st2, j
  <2>4. \A x \in Streams : Counts(streams[x], st2[x], 0)
    BY <2>1, <2>2, Kept
  <2>. QED BY <2>2, <2>3, <2>4 DEF AllKept
<1>. QED BY <1>1, <1>2

LEMMA AccountsKept ==
  ASSUME NEW q, NEW st, NEW own, NEW blank, NEW st2, Accounts(q, st, own, blank),
         AllKept(st, st2)
  PROVE  Accounts(q, st2, own, blank) /\ \A s \in Streams : st2[s].open = st[s].open
<1>1. ASSUME NEW s \in Streams
      PROVE  Counted(st2[s]) /\ st2[s].open = st[s].open /\ st2[s].refcount = st[s].refcount
  BY DEF AllKept, Accounts, StreamsOK, Counts, Counted
<1>2. StreamsOK(st2)
  BY <1>1 DEF StreamsOK, AllKept
<1>3. Balanced(q, st2, own)
  BY <1>1 DEF Accounts, Balanced, Balance
<1>. QED BY <1>1, <1>2, <1>3 DEF Accounts

Unlocking == {"run_unlock", "pull_unlock"}

LEMMA OwnKept ==
  ASSUME call'.rs = call.rs, call'.op = call.op,
         \/ pc["app"] \notin Unlocking /\ pc'["app"] \notin Unlocking
         \/ pc'["app"] = pc["app"] /\ ret' = ret
  PROVE  Own' = Own
<1>1. ASSUME NEW s \in Streams
      PROVE  (Closing(s)' <=> Closing(s)) /\ (Taking(s)' <=> Taking(s))
  BY DEF Closing, Taking, Unlocking
<1>. QED BY <1>1 DEF Own, Bit

(* At these points nothing in particular is known of the call.              *)
Plain == {"enter", "lock", "loop", "reply", "send", "xmit", "exit", "unlock",
          "unlock_ack", "done", "rrecv", "rfinal", "alloc"}

FillOK(c) == c.fill.type \in {"ACK"} \cup TxRequests /\ c.fill.of \notin Streams

LEMMA PhasesPlain ==
  ASSUME pc'["app"] \in Plain, FillOK(call')
  PROVE  Phases'
  BY DEF Phases, Plain, FillOK, Opening

LEMMA FillAck == Ack.type = "ACK" /\ Ack.of \notin Streams
  BY TargetsAssumption DEF Ack, Request

(* The invariant.                                                           *)
Alive == pc["app"] # "crashed"
Knows == Phases /\ Accounts(request_queue, streams, Own, pc["app"] = "fill")
RefInv ==
  /\ WindowInv /\ WireTypes
  /\ ~Alive => pc["sig"] = "idle"
  /\ Alive => Knows

LEMMA RefInit == Init => RefInv
<1>. SUFFICES ASSUME Init PROVE RefInv
  OBVIOUS
<1>1. WindowInv
  BY WindowInit
<1>2. WireTypes
  BY DEF Init, WireTypes
<1>3. pc["app"] = "idle" /\ pc["sig"] = "idle"
  BY DEF Init, Actors
<1>4. Phases
  BY <1>3, FillAck DEF Init, Phases, Opening, Idle
<1>5. \A s \in Streams : Counted(streams[s]) /\ streams[s].open = FALSE
  <2>1. \A s \in Streams : streams[s] = NoStream
    BY DEF Init
  <2>2. Counted(NoStream) /\ NoStream.open = FALSE
    BY DEF Counted, NoStream
  <2>. QED BY <2>1, <2>2
<1>6. StreamsOK(streams)
  BY <1>5 DEF Init, StreamsOK
<1>7. Balanced(request_queue, streams, Own)
  <2>1. request_queue = <<>>
    BY DEF Init
  <2>. QED BY <1>5, <2>1, PointersNone DEF Balanced, Balance
<1>8. Accounts(request_queue, streams, Own, FALSE)
  BY <1>6, <1>7, ProperEmpty DEF Accounts, Init
<1>. QED BY <1>1, <1>2, <1>3, <1>4, <1>8 DEF RefInv, Alive, Knows

(* The messages on the wire.                                                *)
LEMMA WireReceived ==
  ASSUME WireTypes, toClient # <<>>, toClient' = Tail(toClient), UNCHANGED <<toServer, server>>
  PROVE  WireTypes'
<1>1. Tail(toClient) \in Seq(Messages)
  BY HeadTailProperties DEF WireTypes
<1>. QED BY <1>1 DEF WireTypes

LEMMA WireSent ==
  ASSUME WireTypes, NEW q \in Requests, toServer' \in {toServer, Append(toServer, q)},
         UNCHANGED <<toClient, server>>
  PROVE  WireTypes'
<1>1. Append(toServer, q) \in Seq(Requests)
  BY DEF WireTypes
<1>. QED BY <1>1 DEF WireTypes

LEMMA WireServed ==
  ASSUME WireTypes, NEW q, NEW type \in KnownReplies, NEW n \in Nat, NEW mode, NEW tx,
         Serve(q, type, n, mode, tx)
  PROVE  WireTypes'
<1>1. q \in Requests /\ Tail(toServer) \in Seq(Requests)
  BY HeadTailProperties DEF Serve, WireTypes
<1>2. [type |-> type, to |-> q, n |-> n] \in Messages
  BY <1>1 DEF Messages
<1>3. toServer' \in Seq(Requests) /\ toClient' \in Seq(Messages)
  BY <1>1, <1>2 DEF Serve, WireTypes
<1>4. server'.n = n
  BY DEF Serve
<1>. QED BY <1>3, <1>4 DEF WireTypes

LEMMA WireServer ==
  ASSUME WireTypes, ServerStep
  PROVE  WireTypes'
<1>. DEFINE q == Head(toServer)
<1>1. /\ {"SUCCESS", "FAILURE", "TIMEOUT", "IGNORED", "RECORD"} \subseteq KnownReplies
      /\ "INVALID" \in KnownReplies /\ {"BADRECORD", "GARBLED"} \cap Faults \subseteq KnownReplies
  BY DEF KnownReplies
<1>2. server.n \in Nat /\ server.n + 1 \in Nat /\ 0 \in Nat
  BY DEF WireTypes
<1>3. CASE ServerReset(q)
  BY <1>1, <1>2, <1>3, WireServed DEF ServerReset
<1>4. CASE ServerRefuse(q)
  BY <1>1, <1>2, <1>4, WireServed DEF ServerRefuse
<1>5. CASE ServerIgnore(q)
  BY <1>1, <1>2, <1>5, WireServed DEF ServerIgnore
<1>6. CASE ServerRun(q)
  BY <1>1, <1>2, <1>6, WireServed DEF ServerRun
<1>7. CASE ServerPull(q)
  BY <1>1, <1>2, <1>7, WireServed DEF ServerPull
<1>8. CASE ServerTx(q)
  BY <1>1, <1>2, <1>8, WireServed DEF ServerTx
<1>. QED BY <1>3, <1>4, <1>5, <1>6, <1>7, <1>8 DEF ServerStep

LEMMA WireStep ==
  ASSUME WindowInv, WireTypes, [Next]_vars
  PROVE  WireTypes'
<1>1. CASE UNCHANGED <<toServer, toClient, server>>
  BY <1>1 DEF WireTypes
<1>2. CASE Start
  BY <1>1, <1>2
     DEF Start, run_open, close_results, check_failure, consume, fetch_next, peek, AwaitRecords,
         begin_tx, tx_commit, tx_rollback, free_tx, close_start, unchangedByCall, wireVars
<1>3. CASE \/ sync_enter \/ sync_lock \/ sync_loop \/ send_requests \/ sync_exit
           \/ sync_unlock \/ sync_unlock_ack \/ new_request \/ populate
  BY <1>1, <1>3
     DEF sync_enter, sync_lock, sync_loop, send_requests, sync_exit, sync_unlock,
         sync_unlock_ack, new_request, populate, wireVars
<1>4. CASE Run
  BY <1>1, <1>4
     DEF Run, session_run, session_pull_all, session_unlock, run_start, abandon,
         free_results, return_to_stream, return_to_tx, unchangedByCall, wireVars
<1>5. CASE \/ sync_receive \/ close_receive \/ \E a \in Actors : reset_receive(a) \/ reset_reply(a)
  BY <1>5, WireReceived DEF sync_receive, close_receive, reset_receive, reset_reply, Reply
<1>6. CASE \/ sync_receive_error \/ close_receive_error \/ \E a \in Actors : reset_error(a)
  BY <1>1, <1>6, WireReceived
     DEF sync_receive_error, close_receive_error, reset_error, NoReply, Garbled
<1>7. CASE send_request
  <2>1. CASE toServer' = toServer
    BY <1>1, <1>7, <2>1 DEF send_request
  <2>2. CASE toServer' = Append(toServer, request_queue[inflight_requests + 1])
    <3>1. inflight_requests + 1 \in DOMAIN request_queue
      BY <1>7 DEF send_request, At, WindowInv, WindowTypes, Expecting
    <3>2. request_queue[inflight_requests + 1] \in Requests
      BY <3>1 DEF WindowInv, WindowTypes
    <3>. QED BY <1>7, <2>2, <3>2, WireSent DEF send_request
  <2>. QED BY <1>7, <2>1, <2>2 DEF send_request
<1>8. CASE neo4j_reset
  BY <1>8, RequestsTyped, WireSent DEF neo4j_reset
<1>9. CASE close_end
  BY <1>9, RequestsTyped, WireSent DEF close_end
<1>10. CASE ServerStep
  BY <1>10, WireServer
<1>11. CASE ServerGoodbye
  BY <1>11 DEF ServerGoodbye, WireTypes
<1>12. CASE Drop
  <2>1. <<>> \in Seq(Requests) /\ <<>> \in Seq(Messages)
    OBVIOUS
  <2>2. toServer' = <<>> /\ toClient' \in {toClient, <<>>} /\ server' = server
    BY <1>12 DEF Drop
  <2>. QED BY <2>1, <2>2 DEF WireTypes
<1>13. CASE Terminated \/ UNCHANGED vars
  BY <1>1, <1>13 DEF Terminated, vars, wireVars
<1>. QED BY <1>2, <1>3, <1>4, <1>5, <1>6, <1>7, <1>8, <1>9, <1>10, <1>11, <1>12, <1>13
         DEF Next, Continue, Sync, ResetBy, Close, Actors
-----------------------------------------------------------------------------
(* The calls of the program.                                                *)
LEMMA OwnIdle ==
  ASSUME pc["app"] \in {"idle", "crecv", "cend"}, Phases, NEW s \in Streams
  PROVE  Own[s] = 1
  BY NoneAssumption DEF Phases, Own, Bit, Closing, Taking

\* Calls that take and give back no reference.
LEMMA KnowsCalled ==
  ASSUME Knows, At("idle"), UNCHANGED <<request_queue, inflight_requests>>,
         AllKept(streams, streams'), FillOK(call'),
         \/ pc'["app"] \in Plain /\ call'.op \notin {"close_rs", "abandon"}
         \/ pc'["app"] \in {"idle", "crecv", "cend"} /\ call'.rs = None
  PROVE  Knows'
<1>1. Phases'
  BY PhasesPlain DEF Phases, FillOK, Opening
<1>2. Own' = Own
  <2>1. ASSUME NEW s \in Streams PROVE Own[s] = 1 /\ (Own')[s] = 1
    <3>1. Own[s] = 1
      BY OwnIdle DEF Knows, At
    <3>2. ~Closing(s)' /\ ~Taking(s)'
      BY NoneAssumption DEF Closing, Taking, Plain
    <3>. QED BY <3>1, <3>2 DEF Own, Bit
  <2>. QED BY <2>1 DEF Own
<1>3. (pc["app"] = "fill") = FALSE /\ (pc'["app"] = "fill") = FALSE
  BY DEF At, Plain
<1>4. Accounts(request_queue, streams', Own, FALSE)
  BY <1>3, AccountsKept DEF Knows
<1>. QED BY <1>1, <1>2, <1>3, <1>4 DEF Knows

(* The program gives up its pointer, and the stream with it if no request   *)
(* refers to it.                                                            *)
LEMMA KnowsClosing ==
  ASSUME Knows, pc \in [Actors -> Labels], NEW s \in Streams, NEW c, FillOK(c),
         c.rs = s, c.op \in {"close_rs", "abandon"},
         {"rs", "op", "cond", "fill"} \subseteq DOMAIN c,
         pc["app"] # "fill", \A x \in Streams : Own[x] = 1,
         run_rs_close(s, c), UNCHANGED <<request_queue, inflight_requests>>
  PROVE  Knows'
<1>1. /\ pc'["app"] \in {"enter", "free"} /\ call' = [c EXCEPT !.cond = "refcount"]
      /\ streams' = [streams EXCEPT ![s].streaming = FALSE, ![s].refcount = @ - 1]
  BY DEF run_rs_close, Enter, Goto, Actors
<1>2. call'.rs = s /\ call'.op = c.op /\ call'.fill = c.fill
  BY <1>1
<1>3. StreamsOK(streams) /\ Counted(streams[s])
  BY DEF Knows, Accounts, StreamsOK
<1>4. /\ DOMAIN streams' = Streams
      /\ \A x \in Streams : x # s => streams'[x] = streams[x]
      /\ Counts(streams[s], streams'[s], -1)
  BY <1>1, <1>3 DEF StreamsOK, Counted, Counts
<1>5. \A x \in Streams : (Own')[x] = IF x = s THEN 0 ELSE 1
  <2>1. \A x \in Streams : (Closing(x)' <=> x = s) /\ ~Taking(x)'
    BY <1>1, <1>2 DEF Closing, Taking
  <2>. QED BY <2>1 DEF Own, Bit
<1>6. \A x \in Streams : Counts(streams[x], streams'[x], IF x = s THEN -1 ELSE 0)
  <2>1. \A x \in Streams : Counts(streams[x], streams[x], 0)
    BY <1>3, Kept DEF StreamsOK
  <2>. QED BY <1>4, <2>1
<1>7. ASSUME NEW x \in Streams
      PROVE  Moves(x, request_queue, streams, Own, request_queue, streams', Own')
  <2>1. Pointers(request_queue, x) \in Int
    BY PointersTyped
  <2>. QED BY <1>5, <1>6, <2>1 DEF Moves
<1>8. AllMove(request_queue, streams, Own, request_queue, streams', Own')
  BY <1>4, <1>5, <1>7 DEF AllMove
<1>9. StreamsOK(streams') /\ Balanced(request_queue, streams', Own')
  BY <1>3, <1>8, BalancedMoved DEF Knows, Accounts
<1>10. Accounts(request_queue, streams', Own', FALSE)
  BY <1>9 DEF Knows, Accounts
<1>11. Phases'
  BY <1>1, <1>2 DEF Phases, Opening, FillOK, Closing
<1>. QED BY <1>1, <1>10, <1>11 DEF Knows

LEMMA NotCrashing ==
  ASSUME pc \in [Actors -> Labels], Alive'
  PROVE  ~Crash
  BY DEF Crash, Alive, Actors

LEMMA KnowsStart ==
  ASSUME RefInv, Alive, Start, Alive'
  PROVE  Knows'
<1>0. /\ Knows /\ Phases /\ StreamsOK(streams) /\ AllKept(streams, streams)
      /\ \A s \in Streams : Counted(streams[s])
      /\ pc \in [Actors -> Labels] /\ FillOK(call) /\ FillOK(Idle)
  BY AllKeptSame, FillAck
     DEF RefInv, Knows, Accounts, StreamsOK, WindowInv, LockInv, Phases, FillOK, Idle
<1>1. ASSUME NEW s \in Streams, NEW kind \in Statements, NEW t \in Txs \cup {None},
             run_open(s, kind, t)
      PROVE  Knows'
  <2>1. CASE failed
    BY <1>0, <1>1, <2>1, KnowsCalled
       DEF run_open, Calls, At, unchangedByCall, Phases
  <2>2. CASE ~failed
    <3>1. /\ ~streams[s].open /\ streams' = [streams EXCEPT ![s] = run_rs_open]
          /\ pc' = [pc EXCEPT !["app"] = "run"] /\ pc["app"] = "idle"
          /\ call' = [Idle EXCEPT !.op = "run", !.rs = s, !.tx = t, !.kind = kind,
                                  !.cond = "starting"]
          /\ UNCHANGED <<request_queue, inflight_requests>>
      BY <1>1, <2>2 DEF run_open, Calls, At, Enter, Goto, unchangedByCall
    <3>2. /\ pc'["app"] = "run" /\ call'.rs = s /\ call'.op = "run" /\ call'.fill = Ack
      BY <1>0, <3>1 DEF Actors, Idle
    <3>3. /\ DOMAIN streams' = Streams
          /\ \A x \in Streams : streams'[x] = IF x = s THEN run_rs_open ELSE streams[x]
      BY <1>0, <3>1 DEF StreamsOK
    <3>4. Counted(run_rs_open) /\ run_rs_open.open = TRUE /\ run_rs_open.refcount = 1
      BY DEF run_rs_open, NoStream, Counted
    <3>5. Pointers(request_queue, s) = 0
      BY <1>0, <3>1 DEF Knows, Accounts, Balanced, Balance
    <3>6. ~HasRun(request_queue, s) /\ ~HasPull(request_queue, s)
      BY <3>5, PointersNone
    <3>7. Phases'
      <4>1. request_queue' = request_queue /\ streams'[s].open
        BY <3>1, <3>3, <3>4
      <4>. QED BY <3>2, <3>6, <4>1, FillAck DEF Phases, Opening, HasRun, HasPull, Has
    <3>8. \A x \in Streams : Own[x] = 1
      BY <1>0, <3>1, OwnIdle
    <3>9. \A x \in Streams : (Own')[x] = 1
      <4>1. \A x \in Streams : ~Closing(x)' /\ ~Taking(x)'
        BY <3>2 DEF Closing, Taking
      <4>. QED BY <4>1 DEF Own, Bit
    <3>10. StreamsOK(streams')
      BY <1>0, <3>3, <3>4 DEF StreamsOK
    <3>11. ASSUME NEW x \in Streams
           PROVE  Balance(Pointers(request_queue, x), streams'[x], (Own')[x])
      <4>1. Balance(Pointers(request_queue, x), streams[x], Own[x])
        BY <1>0 DEF Knows, Accounts, Balanced
      <4>. QED BY <3>3, <3>4, <3>5, <3>8, <3>9, <4>1 DEF Balance
    <3>12. Accounts(request_queue, streams', Own', FALSE)
      BY <1>0, <3>1, <3>10, <3>11 DEF Knows, Accounts, Balanced
    <3>. QED BY <3>1, <3>2, <3>7, <3>12 DEF Knows
  <2>. QED BY <2>1, <2>2
<1>2. ASSUME NEW s \in Streams, close_results(s) PROVE Knows'
  <2>1. /\ pc["app"] = "idle"
        /\ run_rs_close(s, [Idle EXCEPT !.op = "close_rs", !.rs = s])
        /\ UNCHANGED <<request_queue, inflight_requests>>
    BY <1>2 DEF close_results, At, unchangedByCall
  <2>2. /\ Own[s] = 1
        /\ \A x \in Streams : x # s => Own[x] = 1
    BY <1>0, <2>1, OwnIdle
  <2>. DEFINE c == [Idle EXCEPT !.op = "close_rs", !.rs = s]
  <2>3. /\ c.rs = s /\ c.op = "close_rs" /\ FillOK(c)
        /\ {"rs", "op", "cond", "fill"} \subseteq DOMAIN c
    BY FillAck DEF Idle, FillOK
  <2>4. run_rs_close(s, c) /\ \A x \in Streams : Own[x] = 1
    BY <2>1, <2>2
  <2>. HIDE DEF c
  <2>. QED BY <1>0, <2>1, <2>3, <2>4, KnowsClosing
<1>3. ASSUME NEW s \in Streams, check_failure(s) PROVE Knows'
  BY <1>0, <1>3, KnowsCalled
     DEF check_failure, Calls, At, Enter, Goto, unchangedByCall, Actors, Plain, Idle, FillOK
<1>4. ASSUME NEW s \in Streams, consume(s) PROVE Knows'
  BY <1>0, <1>4, KnowsCalled
     DEF consume, Calls, At, Enter, Goto, unchangedByCall, Actors, Plain, Idle, FillOK
<1>5. ASSUME NEW s \in Streams, fetch_next(s) PROVE Knows'
  <2>1. CASE streams' = [streams EXCEPT ![s] = Pop(@)] /\ UNCHANGED <<pc, call>>
    <3>1. AllKept(streams, streams')
      BY <1>0, <2>1, Kept, AllKeptSame
    <3>. QED BY <1>0, <1>5, <2>1, <3>1, KnowsCalled
             DEF fetch_next, AwaitRecords, At, unchangedByCall, Phases
  <2>2. CASE /\ streams' = [streams EXCEPT ![s] = Await(@, 1)]
             /\ Enter("enter", [Idle EXCEPT !.op = "fetch", !.rs = s,
                                            !.cond = "awaiting_records"])
    <3>1. AllKept(streams, streams')
      BY <1>0, <2>2, Kept, AllKeptSame
    <3>. QED BY <1>0, <1>5, <2>2, <3>1, KnowsCalled
             DEF fetch_next, AwaitRecords, At, Enter, Goto, unchangedByCall, Actors, Plain,
                 Idle, FillOK
  <2>. QED BY <1>0, <1>5, <2>1, <2>2, NotCrashing DEF fetch_next, AwaitRecords
<1>6. ASSUME NEW s \in Streams, peek(s) PROVE Knows'
  <2>1. /\ streams' = [streams EXCEPT ![s] = Await(@, 2 - Len(streams[s].records))]
        /\ Enter("enter", [Idle EXCEPT !.op = "peek", !.rs = s, !.cond = "awaiting_records"])
    BY <1>0, <1>6, NotCrashing DEF peek, AwaitRecords
  <2>2. AllKept(streams, streams')
    BY <1>0, <2>1, Kept, AllKeptSame
  <2>. QED BY <1>0, <1>6, <2>1, <2>2, KnowsCalled
           DEF peek, Calls, At, Enter, Goto, unchangedByCall, Actors, Plain, Idle, FillOK
<1>7. ASSUME NEW t \in Txs, begin_tx(t) PROVE Knows'
  BY <1>0, <1>7, KnowsCalled, TargetsAssumption
     DEF begin_tx, Calls, At, Enter, Goto, Actors, Plain, Idle, FillOK, Request, TxRequests
<1>8. ASSUME NEW t \in Txs, tx_commit(t) PROVE Knows'
  BY <1>0, <1>8, KnowsCalled, TargetsAssumption
     DEF tx_commit, Calls, At, Enter, Goto, unchangedByCall, Actors, Plain, Idle, FillOK,
         Request, TxRequests
<1>9. ASSUME NEW t \in Txs, tx_rollback(t) PROVE Knows'
  BY <1>0, <1>9, KnowsCalled, TargetsAssumption
     DEF tx_rollback, Calls, At, Enter, Goto, unchangedByCall, Actors, Plain, Idle, FillOK,
         Request, TxRequests
<1>10. ASSUME NEW t \in Txs, free_tx(t) PROVE Knows'
  BY <1>0, <1>10, KnowsCalled
     DEF free_tx, At, unchangedByCall, Phases
<1>11. CASE close_start
  <2>1. AllKept(streams, streams')
    BY <1>0, <1>11, AllKeptAborted DEF close_start
  <2>2. pc'["app"] \in {"crecv", "cend"} /\ call' = call
    BY <1>0, <1>11 DEF close_start, Goto, Actors
  <2>. QED BY <1>0, <1>11, <2>1, <2>2, KnowsCalled DEF close_start, At, Phases
<1>. QED BY <1>1, <1>2, <1>3, <1>4, <1>5, <1>6, <1>7, <1>8, <1>9, <1>10, <1>11 DEF Start
-----------------------------------------------------------------------------
(* The inside of a call: from one of its points to another.                 *)
LEMMA KnowsInside ==
  ASSUME pc["app"] \in Plain, pc'["app"] \in Plain, FillOK(call'),
         call'.rs = call.rs, call'.op = call.op,
         Accounts(request_queue', streams', Own, FALSE)
  PROVE  Knows'
<1>1. Phases'
  BY PhasesPlain
<1>2. Own' = Own
  BY OwnKept DEF Plain, Unlocking
<1>3. (pc'["app"] = "fill") = FALSE
  BY DEF Plain
<1>. QED BY <1>1, <1>2, <1>3 DEF Knows

LEMMA KnowsQuiet ==
  ASSUME Knows, pc["app"] \in Plain, pc'["app"] \in Plain, FillOK(call'),
         call'.rs = call.rs, call'.op = call.op,
         request_queue' = request_queue, AllKept(streams, streams')
  PROVE  Knows'
<1>1. Accounts(request_queue, streams, Own, FALSE)
  BY DEF Knows, Plain
<1>2. Accounts(request_queue, streams', Own, FALSE)
  BY <1>1, AccountsKept
<1>. QED BY <1>2, KnowsInside

LEMMA KnowsDrained ==
  ASSUME pc["app"] \in Plain, pc'["app"] \in Plain, FillOK(call), call' = call,
         NEW q \in Seq(Requests), NEW st, Accounts(q, st, Own, FALSE),
         request_queue' = <<>>, streams' = DrainedStreams(q, st)
  PROVE  Knows'
<1>1. Accounts(<<>>, streams', Own, FALSE)
  BY Drained, OwnTyped DEF Accounts
<1>. QED BY <1>1, KnowsInside

\* What receiving a reply finds, wherever it is received.
LEMMA Receiving ==
  ASSUME RefInv, Knows, NEW a \in Actors, Reply, inflight_requests > 0
  PROVE  LET r == Received(a)
         IN  /\ Accounts(r.queue, r.streams, Own, pc["app"] = "fill")
             /\ \A s \in Streams : r.streams[s].open = streams[s].open
             /\ r.queue \in {request_queue, Tail(request_queue)}
             /\ r.queue \in Seq(Requests)
<1>1. /\ request_queue \in Seq(Requests) /\ inflight_requests \in Nat
      /\ inflight_requests <= Len(request_queue) /\ toClient \in Seq(Messages)
  BY DEF RefInv, WindowInv, WindowTypes, WindowOK, WireTypes
<1>2. request_queue # <<>> /\ Tail(request_queue) \in Seq(Requests)
  BY <1>1
<1>3. pc["app"] = "fill" => Len(request_queue) # 1
  <2>1. pc["app"] = "fill" => inflight_requests < Len(request_queue)
    BY DEF Knows, Phases
  <2>2. Len(request_queue) \in Nat /\ inflight_requests \in Nat /\ inflight_requests > 0
    BY <1>1
  <2>. SUFFICES ASSUME pc["app"] = "fill" PROVE Len(request_queue) # 1
    OBVIOUS
  <2>. QED BY <2>1, <2>2
<1>4. Accounts(request_queue, streams, Own, pc["app"] = "fill")
  BY DEF Knows
<1>. QED BY <1>1, <1>2, <1>3, <1>4, ReceivedCounts

LEMMA KnowsSync ==
  ASSUME RefInv, Alive, Alive', Sync
  PROVE  Knows'
<1>. DEFINE Step(label) == pc' = [pc EXCEPT !["app"] = label]
<1>0. /\ Knows /\ StreamsOK(streams) /\ AllKept(streams, streams)
      /\ pc \in [Actors -> Labels] /\ FillOK(call) /\ "app" \in Actors
      /\ request_queue \in Seq(Requests)
  BY AllKeptSame
     DEF RefInv, Knows, Accounts, WindowInv, WindowTypes, LockInv, Phases, FillOK, Actors
<1>01. Accounts(request_queue, streams, Own, pc["app"] = "fill")
  BY <1>0 DEF Knows
<1>03. ~Crash
  BY <1>0 DEF Crash, Alive
<1>02. \A label : Step(label) => pc'["app"] = label
  BY <1>0 DEF Actors
<1>1. CASE sync_enter
  BY <1>0, <1>1, KnowsQuiet DEF sync_enter, Return, connVars, At, Goto, Plain
<1>2. CASE sync_lock
  BY <1>0, <1>2, KnowsQuiet DEF sync_lock, Return, At, Goto, Plain
<1>3. CASE sync_loop
  BY <1>0, <1>3, KnowsQuiet DEF sync_loop, connVars, At, Goto, Plain
<1>4. CASE sync_receive
  <2>. DEFINE r == Received("app")
  <2>1. /\ pc["app"] = "reply" /\ call' = call /\ Reply /\ inflight_requests > 0
    BY <1>4 DEF sync_receive, At, RefInv, WindowInv, Expecting
  <2>2. pc["app"] \in Plain /\ (pc["app"] = "fill") = FALSE
    BY <2>1 DEF Plain
  <2>3. Accounts(r.queue, r.streams, Own, FALSE) /\ r.queue \in Seq(Requests)
    BY <1>0, <2>1, <2>2, Receiving
  <2>. HIDE DEF r
  <2>4. CASE /\ request_queue' = <<>> /\ streams' = DrainedStreams(r.queue, r.streams)
             /\ (Step("unlock") \/ Step("unlock_ack"))
    <3>1. pc'["app"] \in Plain
      BY <1>02, <2>4 DEF Plain
    <3>. QED BY <1>0, <2>1, <2>2, <2>3, <2>4, <3>1, KnowsDrained
  <2>5. CASE /\ request_queue' = r.queue /\ streams' = r.streams
             /\ (Step("exit") \/ Step("reply") \/ Step("send"))
    <3>1. pc'["app"] \in Plain
      BY <1>02, <2>5 DEF Plain
    <3>. QED BY <1>0, <2>1, <2>2, <2>3, <2>5, <3>1, KnowsInside
  <2>. QED BY <1>03, <1>4, <2>4, <2>5 DEF sync_receive, FailSync, Goto, r
<1>5. CASE sync_receive_error
  <2>1. /\ pc["app"] = "reply" /\ Step("unlock") /\ call' = call /\ request_queue' = <<>>
        /\ streams' = DrainedStreams(request_queue, streams)
    BY <1>03, <1>5 DEF sync_receive_error, FailSync, At, Goto
  <2>2. pc["app"] \in Plain /\ pc'["app"] \in Plain /\ (pc["app"] = "fill") = FALSE
    BY <1>02, <2>1 DEF Plain
  <2>. QED BY <1>0, <1>01, <2>1, <2>2, KnowsDrained
<1>6. CASE send_requests
  BY <1>0, <1>6, KnowsQuiet DEF send_requests, connVars, At, Goto, Plain
<1>7. CASE send_request
  <2>1. CASE Step("send") /\ UNCHANGED <<request_queue, streams>>
    BY <1>0, <1>7, <2>1, KnowsQuiet DEF send_request, At, Plain
  <2>2. CASE /\ Step("unlock") /\ request_queue' = <<>>
             /\ streams' = DrainedStreams(request_queue, streams)
    <3>1. /\ pc["app"] \in Plain /\ pc'["app"] \in Plain /\ (pc["app"] = "fill") = FALSE
          /\ call' = call
      BY <1>02, <1>7, <2>2 DEF send_request, At, Plain
    <3>. QED BY <1>0, <1>01, <2>2, <3>1, KnowsDrained
  <2>. QED BY <1>03, <1>7, <2>1, <2>2 DEF send_request, FailSync, Goto
<1>8. CASE sync_exit
  <2>1. AllKept(streams, streams')
    BY <1>0, <1>8, AllKeptAborted DEF sync_exit
  <2>2. pc["app"] \in Plain /\ pc'["app"] \in Plain /\ call' = call
    BY <1>0, <1>8 DEF sync_exit, At, Goto, ResetFrom, Plain
  <2>. QED BY <1>0, <1>8, <2>1, <2>2, KnowsQuiet DEF sync_exit
<1>9. CASE sync_unlock
  BY <1>0, <1>9, KnowsQuiet DEF sync_unlock, At, Goto, Plain
<1>10. CASE sync_unlock_ack
  <2>1. call' = [call EXCEPT !.cond = "none", !.fill = Ack] /\ call \in Calling
    BY <1>10 DEF sync_unlock_ack, RefInv, WindowInv, WindowTypes
  <2>2. call'.rs = call.rs /\ call'.op = call.op /\ FillOK(call')
    BY <2>1, FillAck DEF Calling, FillOK
  <2>. QED BY <1>0, <1>10, <2>2, KnowsQuiet DEF sync_unlock_ack, At, Goto, Plain
<1>11. CASE new_request
  <2>1. CASE Return(-1, QueueError) /\ UNCHANGED request_queue
    BY <1>0, <1>11, <2>1, KnowsQuiet DEF new_request, Return, At, Goto, Plain
  <2>2. CASE /\ request_queue' = Append(request_queue, Blank) /\ Step("fill")
    <3>1. /\ pc["app"] = "alloc" /\ call' = call /\ streams' = streams
          /\ inflight_requests' = inflight_requests /\ pc'["app"] = "fill"
      BY <1>02, <1>11, <2>2 DEF new_request, At
    <3>2. Blank \in Requests /\ ~OfStream(Blank)
      BY RequestsTyped DEF Blank, Request, OfStream, Statements
    <3>3. \A s : Pointers(request_queue', s) = Pointers(request_queue, s)
      BY <1>0, <2>2, <3>2, PointersAppend, PointersTyped DEF Bit
    <3>4. Accounts(request_queue, streams, Own, FALSE)
      BY <1>01, <3>1
    <3>5. Proper(request_queue', TRUE) /\ Distinct(request_queue')
      BY <1>0, <2>2, <3>2, <3>4, ProperAppend, DistinctAppend DEF Accounts
    <3>6. Accounts(request_queue', streams, Own, TRUE)
      BY <3>3, <3>4, <3>5 DEF Accounts, Balanced
    <3>7. Own' = Own
      BY <3>1, OwnKept DEF Unlocking
    <3>8. inflight_requests' < Len(request_queue')
      <4>1. Len(request_queue') = Len(request_queue) + 1
        BY <1>0, <2>2, <3>2, QueueOperations
      <4>2. inflight_requests <= Len(request_queue) /\ inflight_requests \in Nat
            /\ Len(request_queue) \in Nat
        BY <1>0 DEF RefInv, WindowInv, WindowOK, WindowTypes
      <4>. QED BY <3>1, <4>1, <4>2
    <3>9. Phases'
      BY <1>0, <3>1, <3>8 DEF Phases, FillOK, Opening
    <3>. QED BY <3>1, <3>6, <3>7, <3>9 DEF Knows
  <2>. QED BY <1>11, <2>1, <2>2 DEF new_request, Queue, Blank, Goto
<1>12. CASE populate
  <2>1. /\ pc["app"] = "fill" /\ Step("enter") /\ call' = call /\ streams' = streams
        /\ request_queue' = [request_queue EXCEPT ![Len(request_queue)] = call.fill]
    BY <1>12 DEF populate, At, Goto
  <2>2. pc'["app"] = "enter"
    BY <1>02, <2>1
  <2>3. Accounts(request_queue, streams, Own, TRUE)
    BY <1>01, <2>1
  <2>4. Len(request_queue) \in DOMAIN request_queue
    <3>1. inflight_requests < Len(request_queue) /\ inflight_requests \in Nat
      BY <1>0, <2>1 DEF Knows, Phases, RefInv, WindowInv, WindowTypes
    <3>. QED BY <1>0, <3>1
  <2>5. request_queue[Len(request_queue)] = Blank /\ request_queue # <<>>
    BY <2>3, <2>4 DEF Accounts, Proper
  <2>6. ~OfStream(call.fill) /\ Fits(call.fill) /\ call.fill.of \notin Streams
    BY <1>0 DEF FillOK, OfStream, Fits, Answerable, TxRequests, Statements
  <2>7. \A s \in Streams : Blank.of # s /\ call.fill.of # s
    BY <2>6, TargetsAssumption DEF Blank, Request
  <2>8. \A s \in Streams : Pointers(request_queue', s) = Pointers(request_queue, s)
    <3>1. ASSUME NEW s \in Streams, NEW types
          PROVE  Has(request_queue', s, types) <=> Has(request_queue, s, types)
      <4>1. request_queue[Len(request_queue)].of # s /\ call.fill.of # s
        BY <2>5, <2>7
      <4>. QED BY <1>0, <2>1, <2>5, <4>1, HasPopulated
    <3>. QED BY <3>1 DEF Pointers, HasRun, HasPull, Bit
  <2>9. Proper(request_queue', FALSE) /\ Distinct(request_queue')
    BY <1>0, <2>1, <2>3, <2>6, ProperPopulated, DistinctPopulated DEF Accounts
  <2>10. Accounts(request_queue', streams', Own, FALSE)
    BY <2>1, <2>3, <2>8, <2>9 DEF Accounts, Balanced
  <2>11. Own' = Own
    BY <2>1, <2>2, OwnKept DEF Unlocking
  <2>12. Phases'
    BY <1>0, <2>1, <2>2, PhasesPlain DEF Plain
  <2>. QED BY <2>2, <2>10, <2>11, <2>12 DEF Knows
<1>. QED BY <1>1, <1>2, <1>3, <1>4, <1>5, <1>6, <1>7, <1>8, <1>9, <1>10, <1>11, <1>12
         DEF Sync
-----------------------------------------------------------------------------
(* Running a statement, and closing its stream.                             *)

\* The call of the program ends, and leaves the stream it was about alone.
LEMMA KnowsReturned ==
  ASSUME Knows, pc["app"] # "fill", pc'["app"] = "idle", call' = Idle,
         request_queue' = request_queue, AllKept(streams, streams'),
         \A s \in Streams : Own[s] = 1
  PROVE  Knows'
<1>1. Phases'
  BY FillAck DEF Phases, Opening, Idle
<1>2. \A s \in Streams : (Own')[s] = 1
  BY NoneAssumption DEF Own, Bit, Closing, Taking, Idle
<1>3. Own' = Own
  BY <1>2 DEF Own
<1>4. Accounts(request_queue, streams', Own, FALSE)
  BY AccountsKept DEF Knows
<1>. QED BY <1>1, <1>3, <1>4 DEF Knows

\* Between the queueing of a request and the release of the lock.
LEMMA KnowsEnqueued ==
  ASSUME Knows, pc \in [Actors -> Labels], request_queue \in Seq(Requests),
         NEW q \in Requests, NEW next,
         \/ pc["app"] = "run" /\ next = "run_unlock" /\ q.type = "RUN"
         \/ pc["app"] = "pull" /\ next = "pull_unlock" /\ q.type \in Statements,
         q.of = call.rs, Enqueue(q, next), UNCHANGED <<streams, call>>
  PROVE  Knows'
<1>0. /\ pc'["app"] = next /\ next \in Unlocking
      /\ pc["app"] \in Opening /\ pc["app"] \notin Unlocking /\ pc["app"] # "fill"
  BY DEF Enqueue, Goto, Unlocking, Opening, Actors
<1>1. /\ call.rs \in Streams /\ call.op = "run" /\ streams[call.rs].open
      /\ FillOK(call) /\ ~HasPull(request_queue, call.rs)
      /\ pc["app"] = "run" => ~HasRun(request_queue, call.rs)
  BY <1>0 DEF Knows, Phases, FillOK
<1>2. Accounts(request_queue, streams, Own, FALSE)
  BY <1>0 DEF Knows
<1>3. \A s \in Streams : Own[s] = 1
  BY <1>0, <1>1 DEF Own, Bit, Closing, Taking, Unlocking
<1>4. CASE CanQueue
  <2>1. request_queue' = Append(request_queue, q) /\ ret'.rc = 0
    BY <1>4 DEF Enqueue, Queue
  <2>2. Fits(q) /\ OfStream(q)
    BY <1>1 DEF Fits, OfStream, Answerable, Statements
  <2>3. /\ q.type = "RUN" => ~HasRun(request_queue, q.of)
        /\ q.type # "RUN" => ~HasPull(request_queue, q.of)
    BY <1>1 DEF Statements
  <2>4. Proper(request_queue', FALSE) /\ Distinct(request_queue')
    BY <1>2, <2>1, <2>2, <2>3, ProperAppend, DistinctAppend DEF Accounts
  <2>5. \A s \in Streams : Pointers(request_queue', s) =
           Pointers(request_queue, s) + (IF s = call.rs THEN 1 ELSE 0)
    BY <2>1, <2>2, <2>3, PointersAppend DEF Bit
  <2>6. \A s \in Streams : (Own')[s] = IF s = call.rs THEN 0 ELSE 1
    <3>1. \A s \in Streams : ~Closing(s)' /\ (Taking(s)' <=> s = call.rs)
      BY <1>0, <1>1, <2>1 DEF Closing, Taking, Unlocking
    <3>. QED BY <3>1 DEF Own, Bit
  <2>7. ASSUME NEW s \in Streams
        PROVE  Balance(Pointers(request_queue', s), streams[s], (Own')[s])
    <3>1. /\ Balance(Pointers(request_queue, s), streams[s], Own[s])
          /\ Pointers(request_queue, s) \in {0, 1, 2}
      BY <1>2, PointersTyped DEF Accounts, Balanced
    <3>2. CASE s = call.rs
      BY <1>1, <1>3, <2>5, <2>6, <3>1, <3>2 DEF Balance
    <3>3. CASE s # call.rs
      BY <1>3, <2>5, <2>6, <3>1, <3>3 DEF Balance
    <3>. QED BY <3>2, <3>3
  <2>8. Accounts(request_queue', streams', Own', FALSE)
    BY <1>2, <2>4, <2>7 DEF Accounts, Balanced
  <2>9. pc["app"] = "run" => ~HasPull(request_queue', call.rs)
    BY <1>1, <2>1, HasAppend DEF HasPull, Statements
  <2>10. Phases'
    <3>1. next = "run_unlock" => ~HasPull(request_queue', call.rs)
      BY <2>9
    <3>. QED BY <1>0, <1>1, <2>1, <3>1
             DEF Phases, FillOK, Opening, Unlocking, HasPull, Has
  <2>. QED BY <1>0, <2>8, <2>10 DEF Knows, Unlocking
<1>5. CASE ~CanQueue
  <2>1. request_queue' = request_queue /\ ret'.rc = -1
    BY <1>5 DEF Enqueue
  <2>2. \A s \in Streams : (Own')[s] = 1
    <3>1. \A s \in Streams : ~Closing(s)' /\ ~Taking(s)'
      BY <1>1, <2>1 DEF Closing, Taking
    <3>. QED BY <3>1 DEF Own, Bit
  <2>3. Own' = Own
    BY <1>3, <2>2 DEF Own
  <2>4. Phases'
    BY <1>0, <1>1, <2>1 DEF Phases, FillOK, Opening, Unlocking, HasPull, Has
  <2>. QED BY <1>0, <1>2, <2>1, <2>3, <2>4 DEF Knows, Unlocking
<1>. QED BY <1>4, <1>5

\* The release of the lock: the reference is taken.
LEMMA KnowsUnlocked ==
  ASSUME Knows, pc \in [Actors -> Labels], session_unlock
  PROVE  Knows'
<1>1. /\ pc["app"] \in Unlocking /\ pc["app"] \in Opening /\ pc["app"] # "fill"
      /\ UNCHANGED <<request_queue, call, ret>>
  BY DEF session_unlock, At, Unlocking, Opening
<1>2. /\ call.rs \in Streams /\ call.op = "run" /\ streams[call.rs].open
      /\ FillOK(call) /\ ret.rc \in {-1, 0}
      /\ pc["app"] = "run_unlock" => ~HasPull(request_queue, call.rs)
  BY <1>1 DEF Knows, Phases, FillOK, Unlocking
<1>3. Accounts(request_queue, streams, Own, FALSE) /\ StreamsOK(streams)
  BY <1>1 DEF Knows, Accounts
<1>4. CASE ret.rc < 0
  <2>1. pc'["app"] = "abandon" /\ streams' = streams
    BY <1>4 DEF session_unlock, Goto, Actors
  <2>2. Own' = Own
    <3>1. \A s \in Streams : (Closing(s)' <=> Closing(s)) /\ ~Taking(s) /\ ~Taking(s)'
      BY <1>1, <1>4, <2>1 DEF Closing, Taking
    <3>. QED BY <3>1 DEF Own, Bit
  <2>3. Phases'
    BY <1>1, <1>2, <2>1 DEF Phases, FillOK, Opening
  <2>. QED BY <1>1, <1>3, <2>1, <2>2, <2>3 DEF Knows
<1>5. CASE ~(ret.rc < 0)
  <2>1. /\ streams' = [streams EXCEPT ![call.rs] = Referenced(@)]
        /\ pc'["app"] = IF pc["app"] = "run_unlock" THEN "pull" ELSE "start"
    BY <1>5 DEF session_unlock, Goto, Actors
  <2>2. /\ DOMAIN streams' = Streams
        /\ \A s \in Streams :
             streams'[s] = IF s = call.rs THEN Referenced(streams[s]) ELSE streams[s]
    BY <1>3, <2>1 DEF StreamsOK
  <2>3. \A s \in Streams : /\ Own[s] = IF s = call.rs THEN 0 ELSE 1
                           /\ (Own')[s] = 1
    <3>1. \A s \in Streams : /\ ~Closing(s) /\ ~Closing(s)'
                             /\ Taking(s) <=> s = call.rs
                             /\ ~Taking(s)'
      BY <1>1, <1>2, <1>5, <2>1 DEF Closing, Taking, Unlocking
    <3>. QED BY <3>1 DEF Own, Bit
  <2>4. \A s \in Streams : Counts(streams[s], streams'[s], IF s = call.rs THEN 1 ELSE 0)
    BY <1>3, <2>2, Kept DEF StreamsOK
  <2>5. ASSUME NEW s \in Streams
        PROVE  Moves(s, request_queue, streams, Own, request_queue, streams', Own')
    <3>1. Pointers(request_queue, s) \in Int
      BY PointersTyped
    <3>. QED BY <2>3, <2>4, <3>1 DEF Moves
  <2>6. AllMove(request_queue, streams, Own, request_queue, streams', Own')
    BY <2>2, <2>3, <2>5 DEF AllMove
  <2>7. /\ StreamsOK(streams') /\ Balanced(request_queue, streams', Own')
        /\ streams'[call.rs].open
    BY <1>2, <1>3, <2>6, BalancedMoved DEF Accounts
  <2>8. Accounts(request_queue', streams', Own', FALSE)
    BY <1>1, <1>3, <2>7 DEF Accounts
  <2>9. Phases'
    BY <1>1, <1>2, <2>1, <2>7 DEF Phases, FillOK, Opening, HasPull, Has
  <2>. QED BY <2>1, <2>8, <2>9 DEF Knows
<1>. QED BY <1>4, <1>5

(* The stream is freed: with a count of zero no queued request points to it. *)
LEMMA KnowsFreed ==
  ASSUME Knows, pc["app"] = "free", pc'["app"] = "idle", call' = Idle,
         streams[call.rs].refcount = 0,
         streams' = [streams EXCEPT ![call.rs] = NoStream],
         request_queue' = request_queue
  PROVE  Knows'
<1>1. call.rs \in Streams /\ Closing(call.rs)
  BY DEF Knows, Phases
<1>2. /\ Accounts(request_queue, streams, Own, FALSE) /\ StreamsOK(streams)
      /\ Balanced(request_queue, streams, Own)
  BY DEF Knows, Accounts
<1>3. \A s \in Streams : /\ Own[s] = IF s = call.rs THEN 0 ELSE 1
                         /\ (Own')[s] = 1
  <2>1. \A s \in Streams : /\ Closing(s) <=> s = call.rs
                           /\ ~Taking(s) /\ ~Closing(s)' /\ ~Taking(s)'
    BY <1>1, NoneAssumption DEF Closing, Taking, Idle
  <2>. QED BY <2>1 DEF Own, Bit
<1>4. /\ DOMAIN streams' = Streams
      /\ \A s \in Streams : streams'[s] = IF s = call.rs THEN NoStream ELSE streams[s]
  BY <1>2 DEF StreamsOK
<1>5. Counted(NoStream) /\ NoStream.open = FALSE
  BY DEF NoStream, Counted
<1>6. Pointers(request_queue, call.rs) = 0
  <2>1. /\ Balance(Pointers(request_queue, call.rs), streams[call.rs], 0)
        /\ Pointers(request_queue, call.rs) \in {0, 1, 2}
    BY <1>1, <1>2, <1>3, PointersTyped DEF Balanced
  <2>. QED BY <2>1 DEF Balance
<1>7. StreamsOK(streams')
  BY <1>2, <1>4, <1>5 DEF StreamsOK
<1>8. ASSUME NEW s \in Streams
      PROVE  Balance(Pointers(request_queue, s), streams'[s], (Own')[s])
  <2>1. Balance(Pointers(request_queue, s), streams[s], Own[s])
    BY <1>2 DEF Balanced
  <2>. QED BY <1>3, <1>4, <1>5, <1>6, <2>1 DEF Balance
<1>9. Accounts(request_queue, streams', Own', FALSE)
  BY <1>2, <1>7, <1>8 DEF Accounts, Balanced
<1>10. Phases'
  BY FillAck DEF Phases, Opening, Idle
<1>. QED BY <1>9, <1>10 DEF Knows

LEMMA KnowsRun ==
  ASSUME RefInv, Alive, Alive', Run
  PROVE  Knows'
<1>0. /\ Knows /\ StreamsOK(streams) /\ AllKept(streams, streams)
      /\ pc \in [Actors -> Labels] /\ FillOK(call) /\ "app" \in Actors
      /\ request_queue \in Seq(Requests) /\ call \in Calling
      /\ \A s \in Streams : Counted(streams[s])
  BY AllKeptSame
     DEF RefInv, Knows, Accounts, StreamsOK, WindowInv, WindowTypes, LockInv, Phases,
         FillOK, Actors
<1>00. ~Crash
  BY <1>0 DEF Crash, Alive
<1>01. \A label : Goto(label) => pc'["app"] = label
  BY <1>0 DEF Goto, Actors
<1>02. ASSUME pc["app"] \in Opening
       PROVE  call.rs \in Streams /\ call.op = "run" /\ streams[call.rs].open
  BY <1>0, <1>02 DEF Knows, Phases
<1>03. ASSUME pc["app"] \in Opening \ Unlocking
       PROVE  \A s \in Streams : Own[s] = 1
  <2>1. \A s \in Streams : ~Closing(s) /\ ~Taking(s)
    BY <1>02, <1>03 DEF Closing, Taking, Unlocking
  <2>. QED BY <2>1 DEF Own, Bit
<1>04. ASSUME pc["app"] \in {"run", "pull"}, Goto("abandon"),
              UNCHANGED <<request_queue, streams, call>>
       PROVE  Knows'
  <2>1. pc'["app"] = "abandon" /\ pc["app"] \in Opening
    BY <1>01, <1>04 DEF Opening
  <2>2. Own' = Own
    BY <1>04, <2>1, OwnKept DEF Unlocking
  <2>3. Phases'
    BY <1>0, <1>02, <1>04, <2>1 DEF Phases, FillOK, Opening
  <2>4. (pc["app"] = "fill") = FALSE /\ (pc'["app"] = "fill") = FALSE
    BY <1>04, <2>1
  <2>. QED BY <1>0, <1>04, <2>2, <2>3, <2>4 DEF Knows
<1>1. CASE session_run
  <2>1. CASE Goto("abandon") /\ UNCHANGED request_queue
    BY <1>04, <1>1, <2>1 DEF session_run, At
  <2>2. CASE Enqueue(Request("RUN", call.rs, call.tx), "run_unlock")
    <3>1. /\ Request("RUN", call.rs, call.tx) \in Requests
          /\ Request("RUN", call.rs, call.tx).of = call.rs
          /\ Request("RUN", call.rs, call.tx).type = "RUN"
      BY <1>0, RequestsTyped DEF Calling, Request
    <3>. QED BY <1>0, <1>1, <2>2, <3>1, KnowsEnqueued DEF session_run, At
  <2>. QED BY <1>1, <2>1, <2>2 DEF session_run
<1>2. CASE session_pull_all
  <2>1. CASE Goto("abandon") /\ UNCHANGED request_queue
    BY <1>04, <1>2, <2>1 DEF session_pull_all, At
  <2>2. CASE Enqueue(Request(call.kind, call.rs, call.tx), "pull_unlock")
    <3>1. /\ Request(call.kind, call.rs, call.tx) \in Requests
          /\ Request(call.kind, call.rs, call.tx).of = call.rs
          /\ Request(call.kind, call.rs, call.tx).type \in Statements
      BY <1>0, RequestsTyped DEF Calling, Request
    <3>. QED BY <1>0, <1>2, <2>2, <3>1, KnowsEnqueued DEF session_pull_all, At
  <2>. QED BY <1>2, <2>1, <2>2 DEF session_pull_all
<1>3. CASE session_unlock
  BY <1>0, <1>3, KnowsUnlocked
<1>4. CASE run_start
  <2>1. /\ pc["app"] = "start" /\ UNCHANGED request_queue
        /\ streams' = [streams EXCEPT ![call.rs] = Started(@)]
    BY <1>4 DEF run_start, At, unchangedByCall
  <2>2. pc["app"] \in Opening \ Unlocking
    BY <2>1 DEF Opening, Unlocking
  <2>3. AllKept(streams, streams')
    BY <1>0, <1>02, <2>1, <2>2, Kept, AllKeptSame
  <2>4. CASE Goto("idle") /\ call' = Idle
    BY <1>0, <1>01, <1>03, <2>1, <2>2, <2>3, <2>4, KnowsReturned
  <2>5. CASE Goto("enter") /\ call' = call
    <3>1. pc'["app"] = "enter"
      BY <1>01, <2>5
    <3>2. Own' = Own
      BY <2>1, <2>5, <3>1, OwnKept DEF Unlocking
    <3>3. Phases'
      BY <1>0, <2>5, <3>1, PhasesPlain DEF Plain
    <3>4. Accounts(request_queue, streams', Own, FALSE)
      <4>1. (pc["app"] = "fill") = FALSE
        BY <2>1
      <4>. QED BY <1>0, <2>3, <4>1, AccountsKept DEF Knows
    <3>. QED BY <2>1, <3>1, <3>2, <3>3, <3>4 DEF Knows
  <2>. QED BY <1>4, <2>4, <2>5 DEF run_start
<1>5. CASE abandon
  <2>. DEFINE c == [call EXCEPT !.op = "abandon"]
  <2>1. /\ pc["app"] = "abandon" /\ run_rs_close(call.rs, c)
        /\ UNCHANGED <<request_queue, inflight_requests>>
    BY <1>5 DEF abandon, At, unchangedByCall
  <2>2. pc["app"] \in Opening \ Unlocking /\ pc["app"] # "fill"
    BY <2>1 DEF Opening, Unlocking
  <2>3. /\ c.rs = call.rs /\ c.op = "abandon" /\ FillOK(c)
        /\ {"rs", "op", "cond", "fill"} \subseteq DOMAIN c
    BY <1>0 DEF Calling, FillOK
  <2>4. call.rs \in Streams /\ \A s \in Streams : Own[s] = 1
    BY <1>02, <1>03, <2>2
  <2>. HIDE DEF c
  <2>. QED BY <1>0, <2>1, <2>2, <2>3, <2>4, KnowsClosing
<1>6. CASE free_results
  <2>1. /\ pc["app"] = "free" /\ pc'["app"] = "idle" /\ call' = Idle
        /\ streams[call.rs].refcount = 0
        /\ streams' = [streams EXCEPT ![call.rs] = NoStream]
        /\ request_queue' = request_queue
    BY <1>00, <1>01, <1>6 DEF free_results, At, Enter, unchangedByCall
  <2>. QED BY <1>0, <2>1, KnowsFreed
<1>7. CASE return_to_stream
  <2>. DEFINE s == Awaited(streams[call.rs])
  <2>1. pc["app"] = "done" /\ call.rs \in Streams /\ UNCHANGED request_queue
    BY <1>0, <1>7 DEF return_to_stream, At, Calling, unchangedByCall
  <2>2. Counts(streams[call.rs], s, 0) /\ Counted(s)
    BY <1>0, <2>1, Kept DEF Counts
  <2>. HIDE DEF s
  <2>3. Counts(streams[call.rs], Pop(s), 0) /\ Counts(streams[call.rs], Lost(s), 0)
    <3>1. Counts(s, Pop(s), 0) /\ Counts(s, Lost(s), 0)
      BY <2>2, Kept
    <3>. QED BY <2>2, <3>1 DEF Counts, Counted
  <2>4. AllKept(streams, streams')
    <3>1. PICK t \in {s, Pop(s), Lost(s)} : streams' = [streams EXCEPT ![call.rs] = t]
      BY <1>7 DEF return_to_stream, s
    <3>2. Counts(streams[call.rs], t, 0)
      BY <2>2, <2>3
    <3>. QED BY <1>0, <2>1, <3>1, <3>2, AllKeptSame
  <2>5. CASE Goto("free") /\ call' = call /\ call.op \in {"close_rs", "abandon"}
    <3>1. pc'["app"] = "free"
      BY <1>01, <2>5
    <3>2. Own' = Own
      BY <2>1, <2>5, <3>1, OwnKept DEF Unlocking
    <3>3. Phases'
      BY <1>0, <2>1, <2>5, <3>1 DEF Phases, FillOK, Opening, Closing
    <3>4. Accounts(request_queue, streams', Own, FALSE)
      BY <1>0, <2>1, <2>4, AccountsKept DEF Knows
    <3>. QED BY <2>1, <3>1, <3>2, <3>3, <3>4 DEF Knows
  <2>6. CASE Enter("idle", Idle) /\ call.op \notin {"close_rs", "abandon"}
    <3>1. \A x \in Streams : Own[x] = 1
      <4>1. \A x \in Streams : ~Closing(x) /\ ~Taking(x)
        BY <2>1, <2>6 DEF Closing, Taking
      <4>. QED BY <4>1 DEF Own, Bit
    <3>. QED BY <1>0, <1>01, <2>1, <2>4, <2>6, <3>1, KnowsReturned DEF Enter
  <2>. QED BY <1>00, <1>7, <2>5, <2>6 DEF return_to_stream
<1>8. CASE return_to_tx
  <2>1. /\ pc["app"] = "done" /\ call.rs = None /\ pc'["app"] = "idle" /\ call' = Idle
        /\ UNCHANGED <<request_queue, streams>>
    BY <1>01, <1>8 DEF return_to_tx, At, Enter, unchangedByCall
  <2>2. \A x \in Streams : Own[x] = 1
    <3>1. \A x \in Streams : ~Closing(x) /\ ~Taking(x)
      BY <2>1, NoneAssumption DEF Closing, Taking
    <3>. QED BY <3>1 DEF Own, Bit
  <2>. QED BY <1>0, <2>1, <2>2, KnowsReturned
<1>. QED BY <1>1, <1>2, <1>3, <1>4, <1>5, <1>6, <1>7, <1>8 DEF Run
-----------------------------------------------------------------------------
(* A reset, and what goes on while the program is interrupted.              *)

\* The program stays where it is: requests may leave the queue, none enters it.
LEMMA KnowsAside ==
  ASSUME Phases, pc'["app"] = pc["app"], UNCHANGED <<call, ret>>,
         \A s, types : Has(request_queue', s, types) => Has(request_queue, s, types),
         \A s \in Streams : streams'[s].open = streams[s].open,
         pc["app"] = "fill" => inflight_requests' < Len(request_queue'),
         Accounts(request_queue', streams', Own, pc["app"] = "fill")
  PROVE  Knows'
<1>1. Phases'
  <2>1. call.rs \in Streams => streams'[call.rs].open = streams[call.rs].open
    OBVIOUS
  <2>2. /\ HasRun(request_queue', call.rs) => HasRun(request_queue, call.rs)
        /\ HasPull(request_queue', call.rs) => HasPull(request_queue, call.rs)
    BY DEF HasRun, HasPull
  <2>. QED BY <2>1, <2>2 DEF Phases, Closing, HasRun, HasPull, Has
<1>2. Own' = Own
  BY OwnKept
<1>. QED BY <1>1, <1>2 DEF Knows

LEMMA KnowsEndReset ==
  ASSUME RefInv, Knows, Alive', NEW a \in Actors, NEW errno, NEW q \in Seq(Requests), NEW st,
         Resetting(a, "rrecv") \/ Resetting(a, "rfinal"),
         Accounts(q, st, Own, pc["app"] = "fill"),
         \A s \in Streams : st[s].open = streams[s].open,
         pc["app"] = "fill" => q # <<>>,
         EndReset(a, errno, q, st), call' = call
  PROVE  Knows'
<1>1. /\ pc \in [Actors -> Labels] /\ Phases /\ FillOK(call) /\ "app" \in Actors
      /\ "sig" \in Actors
  BY DEF RefInv, WindowInv, LockInv, Knows, Phases, FillOK, Actors
<1>2. ~Crash
  BY <1>1 DEF Crash, Alive
<1>3. /\ request_queue' = <<>> /\ streams' = DrainedStreams(q, st) /\ ~DrainCrashes(q)
      /\ pc' = [pc EXCEPT ![a] = IF a = "app" THEN "unlock" ELSE "idle"]
      /\ a = "sig" => ret' = ret
  BY <1>2 DEF EndReset, Actors
<1>4. pc["app"] # "fill"
  <2>. SUFFICES ASSUME pc["app"] = "fill" PROVE DrainCrashes(q)
    BY <1>3
  <2>1. Len(q) \in DOMAIN q
    OBVIOUS
  <2>2. q[Len(q)] = Blank
    BY <2>1 DEF Accounts, Proper
  <2>. QED BY <2>1, <2>2 DEF DrainCrashes, Blank, Request
<1>5. Accounts(q, st, Own, FALSE)
  <2>1. (pc["app"] = "fill") = FALSE
    BY <1>4
  <2>. QED BY <2>1
<1>6. CASE a = "app"
  <2>1. pc["app"] \in Plain /\ pc'["app"] \in Plain
    BY <1>1, <1>3, <1>6 DEF Resetting, Plain
  <2>. QED BY <1>1, <1>3, <1>5, <2>1, KnowsDrained
<1>7. CASE a = "sig"
  <2>1. pc'["app"] = pc["app"]
    BY <1>1, <1>3, <1>7
  <2>2. /\ Accounts(<<>>, streams', Own, pc["app"] = "fill")
        /\ \A s \in Streams : streams'[s].open = streams[s].open
    <3>1. \A blank \in BOOLEAN : Accounts(<<>>, streams', Own, blank)
      BY <1>3, <1>5, Drained, OwnTyped DEF Accounts
    <3>2. \A s \in Streams : streams'[s].open = st[s].open
      BY <1>3, <1>5, Drained, OwnTyped DEF Accounts
    <3>. QED BY <3>1, <3>2
  <2>3. \A s, types : ~Has(request_queue', s, types)
    BY <1>3, HasNothing
  <2>. QED BY <1>1, <1>3, <1>4, <1>7, <2>1, <2>2, <2>3, KnowsAside
<1>. QED BY <1>6, <1>7 DEF Actors

LEMMA KnowsReset ==
  ASSUME RefInv, Alive, Alive', NEW a \in Actors, ResetBy(a)
  PROVE  Knows'
<1>1. /\ pc \in [Actors -> Labels] /\ Knows /\ Phases /\ FillOK(call)
      /\ request_queue \in Seq(Requests) /\ inflight_requests \in Nat
      /\ "app" \in Actors /\ "sig" \in Actors
  BY DEF RefInv, WindowInv, WindowTypes, LockInv, Knows, Phases, FillOK, Actors
<1>2. ~Crash
  BY <1>1 DEF Crash, Alive
<1>3. /\ Accounts(request_queue, streams, Own, pc["app"] = "fill")
      /\ pc["app"] = "fill" => inflight_requests < Len(request_queue)
      /\ pc["app"] = "fill" => request_queue # <<>>
  BY <1>1 DEF Knows, Phases
<1>4. CASE reset_receive(a)
  <2>. DEFINE r == Received(a)
  <2>1. Resetting(a, "rrecv") /\ Reply /\ inflight_requests > 0 /\ call' = call
    BY <1>4 DEF reset_receive, Resetting, Expecting, Actors, RefInv, WindowInv
  <2>2. /\ Accounts(r.queue, r.streams, Own, pc["app"] = "fill")
        /\ \A s \in Streams : r.streams[s].open = streams[s].open
        /\ r.queue \in {request_queue, Tail(request_queue)} /\ r.queue \in Seq(Requests)
    BY <1>1, <2>1, Receiving
  <2>3. \/ r.queue = request_queue /\ r.inflight = inflight_requests
        \/ r.queue = Tail(request_queue) /\ r.inflight = inflight_requests - 1
    BY DEF Received, InflightAfter
  <2>4. request_queue # <<>>
    BY <1>1, <2>1 DEF RefInv, WindowInv, WindowOK
  <2>5. pc["app"] = "fill" => r.inflight < Len(r.queue) /\ r.queue # <<>>
    <3>. HIDE DEF r
    <3>1. Len(Tail(request_queue)) = Len(request_queue) - 1 /\ Len(request_queue) \in Nat
      BY <1>1, <2>4, HeadTailProperties
    <3>2. pc["app"] = "fill" => r.inflight < Len(r.queue) /\ r.inflight >= 0
      BY <1>1, <1>3, <2>1, <2>3, <3>1
    <3>3. Len(<<>>) = 0 /\ r.inflight \in Int
      BY <1>1, <2>3
    <3>4. r.queue = <<>> => ~(r.inflight < Len(r.queue) /\ r.inflight >= 0)
      BY <3>3
    <3>. QED BY <3>2, <3>4
  <2>6. CASE EndReset(a, "EPROTO", r.queue, r.streams)
    <3>. HIDE DEF r
    <3>. QED BY <1>1, <2>1, <2>2, <2>5, <2>6, KnowsEndReset
  <2>7. CASE /\ request_queue' = r.queue /\ inflight_requests' = r.inflight
             /\ streams' = r.streams /\ ret' = ret
             /\ pc' = [pc EXCEPT ![a] = IF r.inflight > 0 THEN "rrecv" ELSE "rfinal"]
    <3>. HIDE DEF r
    <3>1. CASE a = "app"
      <4>1. pc["app"] \in Plain /\ pc'["app"] \in Plain /\ (pc["app"] = "fill") = FALSE
        BY <1>1, <2>1, <2>7, <3>1 DEF Resetting, Plain
      <4>. QED BY <1>1, <2>1, <2>2, <2>7, <4>1, KnowsInside
    <3>2. CASE a = "sig"
      <4>1. pc'["app"] = pc["app"]
        BY <1>1, <2>7, <3>2
      <4>2. \A s, types : Has(r.queue, s, types) => Has(request_queue, s, types)
        BY <1>1, <2>2, <2>4, HasTail
      <4>. QED BY <1>1, <2>1, <2>2, <2>5, <2>7, <4>1, <4>2, KnowsAside
    <3>. QED BY <3>1, <3>2 DEF Actors
  <2>. QED BY <1>2, <1>4, <2>6, <2>7 DEF reset_receive
<1>5. CASE reset_reply(a)
  <2>1. PICK errno : EndReset(a, errno, request_queue, streams)
    BY <1>5 DEF reset_reply
  <2>. QED BY <1>1, <1>3, <1>5, <2>1, KnowsEndReset DEF reset_reply
<1>6. CASE reset_error(a)
  BY <1>1, <1>3, <1>6, KnowsEndReset DEF reset_error
<1>. QED BY <1>4, <1>5, <1>6 DEF ResetBy

(* neo4j_close: nobody but the program holds a reference to its streams.    *)
LEMMA KnowsClose ==
  ASSUME RefInv, Alive, Alive', Close
  PROVE  Knows'
<1>1. /\ pc \in [Actors -> Labels] /\ Knows /\ Phases /\ FillOK(call) /\ "app" \in Actors
      /\ request_queue \in Seq(Requests) /\ StreamsOK(streams)
      /\ Accounts(request_queue, streams, Own, pc["app"] = "fill")
  BY DEF RefInv, WindowInv, WindowTypes, LockInv, Knows, Accounts, Phases, FillOK, Actors
<1>2. ~Crash
  BY <1>1 DEF Crash, Alive
<1>3. ASSUME pc["app"] \in {"crecv", "cend"}, pc'["app"] \in {"idle", "crecv", "cend"},
             call' = call, Accounts(request_queue', streams', Own, FALSE)
      PROVE  Knows'
  <2>1. call.rs = None
    BY <1>1, <1>3 DEF Phases
  <2>2. Own' = Own
    BY <1>3, OwnKept DEF Unlocking
  <2>3. Phases'
    BY <1>1, <1>3, <2>1 DEF Phases, FillOK, Opening
  <2>4. (pc'["app"] = "fill") = FALSE
    BY <1>3
  <2>. QED BY <1>3, <2>2, <2>3, <2>4 DEF Knows
<1>4. CASE close_receive
  <2>. DEFINE r == Received("app")
  <2>1. /\ pc["app"] = "crecv" /\ call' = call /\ Reply /\ inflight_requests > 0
        /\ request_queue' = r.queue /\ streams' = r.streams
    BY <1>4 DEF close_receive, At, RefInv, WindowInv, Expecting
  <2>2. (pc["app"] = "fill") = FALSE
    BY <2>1
  <2>3. Accounts(r.queue, r.streams, Own, FALSE)
    BY <1>1, <2>1, <2>2, Receiving
  <2>4. pc'["app"] \in {"crecv", "cend"}
    BY <1>1, <1>2, <1>4 DEF close_receive, Goto
  <2>. HIDE DEF r
  <2>. QED BY <1>3, <2>1, <2>3, <2>4
<1>5. CASE close_receive_error
  <2>1. /\ pc["app"] = "crecv" /\ pc'["app"] = "cend" /\ (pc["app"] = "fill") = FALSE
        /\ UNCHANGED <<call, request_queue, streams>>
    BY <1>1, <1>5 DEF close_receive_error, At, Goto
  <2>. QED BY <1>1, <1>3, <2>1
<1>6. CASE close_end
  <2>1. /\ pc["app"] = "cend" /\ pc'["app"] = "idle" /\ call' = call
        /\ request_queue' = <<>> /\ streams' = DrainedStreams(request_queue, streams)
    BY <1>1, <1>2, <1>6 DEF close_end, At, Goto
  <2>2. Accounts(<<>>, streams', Own, FALSE)
    BY <1>1, <2>1, Drained, OwnTyped DEF Accounts
  <2>. QED BY <1>3, <2>1, <2>2
<1>. QED BY <1>4, <1>5, <1>6 DEF Close

(* The signal handler stops the open jobs at most.                          *)
LEMMA KnowsSignal ==
  ASSUME RefInv, Alive, neo4j_reset
  PROVE  Knows'
<1>1. /\ pc \in [Actors -> Labels] /\ Knows /\ Phases /\ StreamsOK(streams)
      /\ Accounts(request_queue, streams, Own, pc["app"] = "fill")
  BY DEF RefInv, WindowInv, LockInv, Knows, Accounts
<1>2. /\ pc'["app"] = pc["app"]
      /\ UNCHANGED <<call, ret, request_queue, inflight_requests>>
  BY <1>1 DEF neo4j_reset, Actors
<1>3. AllKept(streams, streams')
  BY <1>1, AllKeptAborted, AllKeptSame DEF neo4j_reset
<1>4. /\ Accounts(request_queue, streams', Own, pc["app"] = "fill")
      /\ \A s \in Streams : streams'[s].open = streams[s].open
  <2>. DEFINE blank == pc["app"] = "fill"
  <2>1. Accounts(request_queue, streams, Own, blank)
    BY <1>1
  <2>. HIDE DEF blank
  <2>2. Accounts(request_queue, streams', Own, blank)
    BY <1>3, <2>1, AccountsKept
  <2>3. \A s \in Streams : streams'[s].open = streams[s].open
    BY <1>3 DEF AllKept, Counts
  <2>. QED BY <2>2, <2>3 DEF blank
<1>5. pc["app"] = "fill" => inflight_requests < Len(request_queue)
  BY <1>1 DEF Phases
<1>. QED BY <1>1, <1>2, <1>4, <1>5, KnowsAside
-----------------------------------------------------------------------------
(* Nothing is done by, or to, a process that is gone.                       *)
LEMMA ProgramAlive ==
  ASSUME RefInv,
         \/ Start \/ Sync \/ Close \/ Run \/ neo4j_reset
         \/ \E a \in Actors : ResetBy(a)
  PROVE  Alive
<1>0. pc["app"] = "crashed" => pc["sig"] = "idle"
  BY DEF RefInv, Alive
<1>1. CASE neo4j_reset
  BY <1>1, SignalAssumption DEF neo4j_reset, Alive
<1>2. CASE \E a \in Actors : ResetBy(a)
  BY <1>0, <1>2 DEF ResetBy, reset_receive, reset_reply, reset_error, Resetting,
                    Alive, Actors
<1>3. CASE Start
  BY <1>3 DEF Start, run_open, close_results, check_failure, consume, fetch_next, peek,
              AwaitRecords,
              begin_tx, tx_commit, tx_rollback, free_tx, close_start, Calls, At, Alive
<1>4. CASE Sync
  BY <1>4 DEF Sync, sync_enter, sync_lock, sync_loop, sync_receive,
              sync_receive_error, send_requests, send_request, sync_exit, sync_unlock,
              sync_unlock_ack, new_request, populate, At, Alive
<1>5. CASE Close \/ Run
  BY <1>5 DEF Close, close_receive, close_receive_error, close_end, Run, session_run,
              session_pull_all, session_unlock, run_start, abandon, free_results,
              return_to_stream, return_to_tx, At, Alive
<1>. QED BY <1>1, <1>2, <1>3, <1>4, <1>5

LEMMA RefStep == RefInv /\ [Next]_vars => RefInv'
<1>. SUFFICES ASSUME RefInv, [Next]_vars PROVE RefInv'
  OBVIOUS
<1>1. WindowInv' /\ WireTypes'
  BY WindowStep, WireStep DEF RefInv
<1>2. /\ pc \in [Actors -> Labels] /\ "app" \in Actors /\ "sig" \in Actors
      /\ pc["app"] = "crashed" => pc["sig"] = "idle"
  BY DEF RefInv, Alive, WindowInv, LockInv, Actors
<1>3. CASE \/ ServerStep \/ ServerGoodbye \/ Drop \/ Terminated \/ UNCHANGED vars
  <2>1. UNCHANGED <<request_queue, inflight_requests, streams, call, ret, pc>>
    BY <1>3 DEF ServerStep, ServerGoodbye, Drop, Terminated, vars, connVars, ctlVars
  <2>2. Alive' <=> Alive
    BY <2>1 DEF Alive
  <2>3. Knows => Knows'
    BY <2>1, KnowsAside DEF Knows, Phases
  <2>. QED BY <1>1, <2>1, <2>2, <2>3 DEF RefInv
<1>4. CASE \/ Start \/ Sync \/ Close \/ Run \/ neo4j_reset
           \/ \E a \in Actors : ResetBy(a)
  <2>1. Alive
    BY <1>4, ProgramAlive
  <2>2. Alive' => Knows'
    BY <1>4, <2>1, KnowsStart, KnowsSync, KnowsReset, KnowsClose, KnowsRun, KnowsSignal
  <2>3. ~Alive' => pc'["sig"] = "idle"
    <3>1. CASE neo4j_reset
      BY <1>2, <2>1, <3>1 DEF neo4j_reset, Alive
    <3>2. CASE \E a \in Actors : ResetBy(a)
      BY <1>2, <2>1, <3>2
         DEF ResetBy, reset_receive, reset_reply, reset_error, Resetting, EndReset, Crash,
             Alive, Actors
    <3>3. CASE Start
      BY <1>2, <3>3
         DEF Start, run_open, close_results, check_failure, consume, fetch_next, peek,
             AwaitRecords,
             begin_tx, tx_commit, tx_rollback, free_tx, close_start, Calls, At, Enter,
             Goto, run_rs_close, unchangedByCall, Crash, Actors
    <3>4. CASE Sync
      BY <1>2, <3>4
         DEF Sync, sync_enter, sync_lock, sync_loop, sync_receive, sync_receive_error,
             send_requests, send_request, sync_exit, sync_unlock, sync_unlock_ack,
             new_request, populate, At, Goto, Crash, Return, FailSync
    <3>5. CASE Close \/ Run
      BY <1>2, <3>5
         DEF Close, close_receive, close_receive_error, close_end, Run, session_run,
             session_pull_all, session_unlock, run_start, abandon, free_results,
             return_to_stream, return_to_tx, At, Goto, Crash, Enter, Enqueue,
             run_rs_close, unchangedByCall
    <3>. QED BY <1>4, <3>1, <3>2, <3>3, <3>4, <3>5
  <2>. QED BY <1>1, <2>2, <2>3 DEF RefInv
<1>. QED BY <1>3, <1>4 DEF Next, Continue, Actors

(* A stream is counted once for each of its requests in the queue.          *)
LEMMA QueuedCounted ==
  ASSUME NEW s \in Streams, NEW blank \in BOOLEAN,
         Proper(request_queue, blank), Distinct(request_queue)
  PROVE  Cardinality(Queued(s)) = Pointers(request_queue, s)
<1>. DEFINE Of(types) == {i \in DOMAIN request_queue :
                            request_queue[i].of = s /\ request_queue[i].type \in types}
            R == Of({"RUN"})
            P == Of(Statements)
<1>1. Queued(s) = R \cup P
  <2>1. ASSUME NEW i \in DOMAIN request_queue, request_queue[i].of = s
        PROVE  request_queue[i].type \in {"RUN"} \cup Statements
    <3>1. Blank.of # s
      BY TargetsAssumption DEF Blank, Request
    <3>. QED BY <2>1, <3>1 DEF Proper, OfStream
  <2>. QED BY <2>1 DEF Queued
<1>2. R \cap P = {}
  BY DEF Statements
<1>3. \A i, j \in R : i = j
  BY DEF Distinct, OfStream
<1>4. \A i, j \in P : i = j
  BY DEF Distinct, OfStream, Statements
<1>5. (HasRun(request_queue, s) <=> R # {}) /\ (HasPull(request_queue, s) <=> P # {})
  BY DEF HasRun, HasPull, Has
<1>. HIDE DEF R, P
<1>6. \A x : IsFiniteSet({x}) /\ Cardinality({x}) = 1
  BY FS_Singleton
<1>7. IsFiniteSet({}) /\ Cardinality({}) = 0
  BY FS_EmptySet
<1>8. \A S : (\A i, j \in S : i = j) => S = {} \/ \E x : S = {x}
  OBVIOUS
<1>9. CASE R = {}
  <2>1. Cardinality(P) = IF P = {} THEN 0 ELSE 1
    BY <1>4, <1>6, <1>7, <1>8
  <2>. QED BY <1>1, <1>5, <1>9, <2>1 DEF Pointers, Bit
<1>10. CASE R # {}
  <2>1. PICK x : R = {x}
    BY <1>3, <1>8, <1>10
  <2>2. CASE P = {}
    BY <1>1, <1>5, <1>6, <2>1, <2>2 DEF Pointers, Bit
  <2>3. CASE P # {}
    <3>1. PICK y : P = {y}
      BY <1>4, <1>8, <2>3
    <3>2. y \notin {x} /\ Queued(s) = {x} \cup {y}
      BY <1>1, <1>2, <2>1, <3>1
    <3>3. Cardinality({x} \cup {y}) = Cardinality({x}) + 1
      BY <1>6, <3>2, FS_AddElement
    <3>. QED BY <1>5, <1>6, <2>1, <2>3, <3>2, <3>3 DEF Pointers, Bit
  <2>. QED BY <2>2, <2>3
<1>. QED BY <1>9, <1>10

LEMMA RefInvariant == Spec => []RefInv
  BY RefInit, RefStep, PTL DEF Spec

(* While the process lives, a stream's count covers its requests in the     *)
(* queue and the program's pointer to it, and no request in the queue       *)
(* points to a stream that was freed.                                       *)
Covered ==
  Alive =>
    \A s \in Streams :
      /\ streams[s].open => streams[s].refcount >= Cardinality(Queued(s)) + Own[s]
      /\ ~streams[s].open => Queued(s) = {}

(* Whatever the server answers, malformed records included, and wherever    *)
(* the program is interrupted, the callbacks of result_stream.c find their  *)
(* stream: run_rs_close frees it when nothing in the queue refers to it.    *)
THEOREM CoveredTheorem == Spec => []Covered
<1>1. RefInv => Covered
  <2>. SUFFICES ASSUME RefInv, Alive, NEW s \in Streams
                PROVE  /\ streams[s].open =>
                            streams[s].refcount >= Cardinality(Queued(s)) + Own[s]
                       /\ ~streams[s].open => Queued(s) = {}
    BY DEF Covered
  <2>1. /\ Balance(Pointers(request_queue, s), streams[s], Own[s])
        /\ Cardinality(Queued(s)) = Pointers(request_queue, s)
    BY QueuedCounted DEF RefInv, Knows, Accounts, Balanced
  <2>2. Cardinality(Queued(s)) = 0 => Queued(s) = {}
    <3>1. request_queue \in Seq(Requests)
      BY DEF RefInv, WindowInv, WindowTypes
    <3>2. IsFiniteSet(DOMAIN request_queue) /\ Queued(s) \subseteq DOMAIN request_queue
      BY <3>1, FS_Interval DEF Queued
    <3>. QED BY <3>2, FS_Subset, FS_EmptySet
  <2>. QED BY <2>1, <2>2 DEF Balance
<1>. QED BY <1>1, RefInvariant, PTL

(* A stream counts one reference for the program, until it closes the       *)
(* stream, and one for each request in the queue that points to it.  A      *)
(* malformed record is the exception: pull_all_callback returns an error    *)
(* for it without giving its reference back, so that the count stays one    *)
(* too high.                                                                *)
THEOREM ReferencesTheorem ==
  ASSUME "BADRECORD" \notin Faults
  PROVE  Spec => []RefcountCounts
<1>1. RefInv => RefcountCounts
  <2>. SUFFICES ASSUME RefInv, Alive, NEW s \in Streams, streams[s].open
                PROVE  streams[s].refcount =
                         Cardinality(Queued(s))
                           + (IF Closing(s) THEN 0 ELSE 1)
                           - (IF /\ call.rs = s /\ ret.rc = 0
                                 /\ pc["app"] \in {"run_unlock", "pull_unlock"}
                              THEN 1 ELSE 0)
    BY DEF RefcountCounts, Alive
  <2>1. /\ Balance(Pointers(request_queue, s), streams[s], Own[s])
        /\ Cardinality(Queued(s)) = Pointers(request_queue, s)
        /\ Pointers(request_queue, s) \in {0, 1, 2}
    BY QueuedCounted, PointersTyped DEF RefInv, Knows, Accounts, Balanced
  <2>. QED BY <2>1 DEF Balance, Own, Bit, Taking
<1>. QED BY <1>1, RefInvariant, PTL
-----------------------------------------------------------------------------
(***************************************************************************)
(* The wire of a connection.  Without an identifier in a reply, the next   *)
(* reply is for the request at the head of the queue.                      *)
(***************************************************************************)

Protected == {"run_unlock", "pull_unlock", "loop", "reply", "send", "xmit", "exit",
              "unlock", "unlock_ack", "rrecv", "rfinal", "crecv", "cend"}

(* Either no signal is delivered, and a message may be anything but lost;  *)
(* or one is, not between a test of reset_requested and the request it     *)
(* allowed, or any number while the program is outside the lock, and the   *)
(* transport works and messages are well formed.                           *)
NoSignal == MaxResets = 0 /\ "GARBLED" \notin Faults
Once == MaxResets <= 1 /\ "xmit" \notin SignalAt
Signals == /\ Faults \cap {"DROP", "GARBLED", "INVALID", "BADRECORD"} = {}
           /\ Once \/ SignalAt \cap Protected = {}

(* A connection that has not failed, or that a signal may still revive.    *)
InUse == Alive /\ ~closed /\ ~broken /\ (~failed \/ resets < MaxResets)

Window == SubSeq(request_queue, 1, inflight_requests)
Pending == IF reset_requested THEN <<Reset>> ELSE <<>>
Mirrors == Answered(toClient) \o toServer = Window \o Pending

Resets ==
  /\ resets \in 0 .. MaxResets
  /\ pc["app"] = "xmit" => ~reset_requested
  /\ reset_requested => resets >= 1 /\ (Once \/ SigHolds)
  /\ \A a \in Actors : pc[a] \in {"rrecv", "rfinal"} => reset_requested
  /\ \A a \in Actors : pc[a] = "rfinal" => inflight_requests = 0

(* A record is for a statement whose end is to come.                        *)
Linked(c, b) ==
  \A i \in DOMAIN c :
    c[i] \notin FinalReplies =>
      IF i < Len(c) THEN c[i].to = c[i + 1].to ELSE b # <<>> /\ c[i].to = Head(b)
ForStatement(m) == m \notin FinalReplies => m.to.type = "PULL_ALL"
Records == /\ Linked(toClient, toServer)
           /\ \A i \in DOMAIN toClient : ForStatement(toClient[i])

(* What a connection in order sends: RESET succeeds ...                     *)
Accepted(m) ==
  /\ m.type \in {"SUCCESS", "FAILURE", "TIMEOUT", "IGNORED", "RECORD"}
  /\ IsReset(m.to) => m.type = "SUCCESS"
(* ... and after a failure everything is ignored up to a RESET.             *)
Ignored(c, i, refusing) ==
  /\ \A j \in i .. Len(c) :
       c[j].type = "IGNORED" \/ \E k \in i .. j : IsReset(c[k].to)
  /\ refusing \/ \E k \in i .. Len(c) : IsReset(c[k].to)
Refusing == server.mode = "FAILED"
Refused(c, refusing) ==
  \A i \in DOMAIN c : IsFailure(c[i].type) => Ignored(c, i + 1, refusing)

InOrder ==
  /\ DOMAIN failure = Actors
  /\ \A i \in DOMAIN toClient : Accepted(toClient[i])
  /\ Refused(toClient, Refusing)
  /\ \A a \in Actors : failure[a] /\ pc[a] \in {"reply", "rrecv", "crecv"} =>
       /\ Ignored(toClient, 1, Refusing)
       /\ \A i \in DOMAIN request_queue : request_queue[i].type # "ACK"

Special == {"ACK"} \cup TxRequests
Transacting == {"enter", "lock", "loop", "reply", "send", "xmit", "exit", "rrecv", "rfinal"}
Alone ==
  /\ pc["app"] \in {"alloc", "fill"} => call.cond = "none"
  /\ pc["app"] \in Opening => call.cond # "none"
  /\ pc["app"] \in {"fill", "enter", "lock"} /\ call.cond = "none" => ~failed
  /\ \A i \in DOMAIN request_queue : request_queue[i].type \in Special =>
       /\ i = Len(request_queue)
       /\ call.cond = "none" /\ pc["app"] \in Transacting
       /\ pc["app"] \in {"enter", "lock"} => inflight_requests < i
       /\ request_queue[i].type = "ACK" => i = 1
  /\ pc["app"] = "unlock_ack" => request_queue = <<>>
  /\ pc["app"] = "alloc" /\ call.fill.type = "ACK" => request_queue = <<>>
  /\ pc["app"] = "fill" /\ call.fill.type = "ACK" => Len(request_queue) = 1
  /\ pc["app"] = "exit" /\ call.cond = "none" => reset_requested \/ request_queue = <<>>

Wired == Mirrors /\ Resets /\ Records /\ (Signals => InOrder)
WireInv == InUse => Wired /\ (Signals => Alone)
-----------------------------------------------------------------------------
(* The requests that a sequence of messages answers.                        *)
To(f) == [i \in DOMAIN f |-> f[i].to]

LEMMA ToTyped ==
  ASSUME NEW f \in Seq(Messages)
  PROVE  To(f) \in Seq(Requests) /\ Len(To(f)) = Len(f) /\ \A i \in 1 .. Len(f) : To(f)[i] = f[i].to
<1>1. DOMAIN f = 1 .. Len(f) /\ Len(f) \in Nat /\ \A i \in 1 .. Len(f) : f[i].to \in Requests
  <2>1. DOMAIN f = 1 .. Len(f) /\ Len(f) \in Nat
    BY LenProperties
  <2>2. \A i \in 1 .. Len(f) : f[i] \in Messages
    BY ElementOfSeq
  <2>3. \A m \in Messages : m.to \in Requests
    BY DEF Messages
  <2>. QED BY <2>1, <2>2, <2>3
<1>2. To(f) \in [1 .. Len(f) -> Requests]
  BY <1>1 DEF To
<1>3. To(f) \in Seq(Requests) /\ Len(To(f)) = Len(f)
  BY <1>1, <1>2
<1>. QED BY <1>1, <1>3 DEF To

LEMMA ToAppend ==
  ASSUME NEW f \in Seq(Messages), NEW m \in Messages
  PROVE  To(Append(f, m)) = Append(To(f), m.to)
<1>. DEFINE g == Append(f, m)
<1>1. /\ g \in Seq(Messages) /\ Len(g) = Len(f) + 1 /\ g[Len(f) + 1] = m
      /\ \A i \in 1 .. Len(f) : g[i] = f[i]
  BY AppendProperties
<1>. HIDE DEF g
<1>2. /\ To(f) \in Seq(Requests) /\ Len(To(f)) = Len(f) /\ \A i \in 1 .. Len(f) : To(f)[i] = f[i].to
      /\ To(g) \in Seq(Requests) /\ Len(To(g)) = Len(g) /\ \A i \in 1 .. Len(g) : To(g)[i] = g[i].to
  BY <1>1, ToTyped
<1>3. m.to \in Requests
  BY DEF Messages
<1>. DEFINE h == Append(To(f), m.to)
<1>4. /\ h \in Seq(Requests) /\ Len(h) = Len(To(f)) + 1 /\ h[Len(To(f)) + 1] = m.to
      /\ \A i \in 1 .. Len(To(f)) : h[i] = To(f)[i]
  BY <1>2, <1>3, AppendProperties
<1>. HIDE DEF h
<1>5. Len(f) \in Nat
  BY LenProperties
<1>6. \A i \in 1 .. Len(f) + 1 : i \in 1 .. Len(f) \/ i = Len(f) + 1
  BY <1>5
<1>7. \A i \in 1 .. Len(To(g)) : To(g)[i] = h[i]
  BY <1>1, <1>2, <1>4, <1>6
<1>8. To(g) = h
  BY <1>1, <1>2, <1>4, <1>7, SeqEqual
<1>. QED BY <1>8 DEF g, h

LEMMA ToPrepend ==
  ASSUME NEW m \in Messages, NEW f \in Seq(Messages)
  PROVE  To(<<m>> \o f) = <<m.to>> \o To(f)
<1>. DEFINE g == <<m>> \o f
            h == <<m.to>> \o To(f)
<1>1. m.to \in Requests /\ Len(f) \in Nat
  BY LenProperties DEF Messages
<1>2. <<m>> \in Seq(Messages) /\ <<m.to>> \in Seq(Requests) /\ Len(<<m>>) = 1
      /\ Len(<<m.to>>) = 1 /\ <<m>>[1] = m /\ <<m.to>>[1] = m.to
  BY <1>1
<1>3. To(f) \in Seq(Requests) /\ Len(To(f)) = Len(f) /\ \A i \in 1 .. Len(f) : To(f)[i] = f[i].to
  BY ToTyped
<1>4. /\ g \in Seq(Messages) /\ Len(g) = 1 + Len(f)
      /\ \A i \in 1 .. 1 + Len(f) : g[i] = IF i <= 1 THEN <<m>>[i] ELSE f[i - 1]
  BY <1>2, ConcatProperties
<1>5. /\ h \in Seq(Requests) /\ Len(h) = 1 + Len(f)
      /\ \A i \in 1 .. 1 + Len(f) : h[i] = IF i <= 1 THEN <<m.to>>[i] ELSE To(f)[i - 1]
  BY <1>2, <1>3, ConcatProperties
<1>. HIDE DEF g, h
<1>6. To(g) \in Seq(Requests) /\ Len(To(g)) = Len(g) /\ \A i \in 1 .. Len(g) : To(g)[i] = g[i].to
  BY <1>4, ToTyped
<1>7. ASSUME NEW i \in 1 .. 1 + Len(f) PROVE To(g)[i] = h[i]
  <2>1. CASE i = 1
    BY <1>2, <1>4, <1>5, <1>6, <2>1
  <2>2. CASE i # 1
    <3>1. i - 1 \in 1 .. Len(f) /\ ~(i <= 1)
      BY <1>1, <2>2
    <3>. QED BY <1>3, <1>4, <1>5, <1>6, <3>1
  <2>. QED BY <2>1, <2>2
<1>8. To(g) = h
  BY <1>4, <1>5, <1>6, <1>7, SeqEqual
<1>. QED BY <1>8 DEF g, h

LEMMA AnsweredTyped ==
  ASSUME NEW c \in Seq(Messages)
  PROVE  Answered(c) \in Seq(Requests)
<1>1. Filter(c, FinalReplies) \in Seq(Messages)
  BY FilterElements
<1>. QED BY <1>1, ToTyped DEF Answered, To

LEMMA AnsweredEmpty == Answered(<<>>) = <<>>
<1>1. Filter(<<>>, FinalReplies) = <<>>
  BY FilterEmpty
<1>. QED BY <1>1 DEF Answered

LEMMA AnsweredAppend ==
  ASSUME NEW c \in Seq(Messages), NEW m \in Messages
  PROVE  Answered(Append(c, m)) =
           IF m \in FinalReplies THEN Append(Answered(c), m.to) ELSE Answered(c)
<1>1. Filter(c, FinalReplies) \in Seq(Messages)
  BY FilterElements
<1>2. Filter(Append(c, m), FinalReplies) =
        IF m \in FinalReplies THEN Append(Filter(c, FinalReplies), m)
        ELSE Filter(c, FinalReplies)
  BY FilterAppend
<1>3. \A d : Answered(d) = To(Filter(d, FinalReplies))
  BY DEF Answered, To
<1>. QED BY <1>1, <1>2, <1>3, ToAppend

LEMMA AnsweredHead ==
  ASSUME NEW c \in Seq(Messages), c # <<>>
  PROVE  Answered(c) = IF Head(c) \in FinalReplies
                       THEN <<Head(c).to>> \o Answered(Tail(c)) ELSE Answered(Tail(c))
<1>1. Head(c) \in Messages /\ Tail(c) \in Seq(Messages)
  BY HeadTailProperties
<1>2. Filter(Tail(c), FinalReplies) \in Seq(Messages)
  BY <1>1, FilterElements
<1>3. Filter(c, FinalReplies) =
        IF Head(c) \in FinalReplies THEN <<Head(c)>> \o Filter(Tail(c), FinalReplies)
        ELSE Filter(Tail(c), FinalReplies)
  BY FilterHead
<1>4. \A d : Answered(d) = To(Filter(d, FinalReplies))
  BY DEF Answered, To
<1>. QED BY <1>1, <1>2, <1>3, <1>4, ToPrepend

LEMMA FinalOrRecord ==
  ASSUME NEW m \in Messages
  PROVE  m \in FinalReplies <=> m.type \notin {"RECORD", "BADRECORD"}
<1>1. m.type \in KnownReplies /\ m.to \in Requests /\ m.n \in Nat
      /\ m = [type |-> m.type, to |-> m.to, n |-> m.n]
  BY DEF Messages
<1>2. m \in FinalReplies =>
        m.type \in {"SUCCESS", "FAILURE", "TIMEOUT", "IGNORED", "INVALID", "GARBLED"}
  BY DEF FinalReplies
<1>3. m.type \notin {"RECORD", "BADRECORD"} =>
        m.type \in {"SUCCESS", "FAILURE", "TIMEOUT", "IGNORED", "INVALID", "GARBLED"}
  BY <1>1 DEF KnownReplies
<1>4. m.type \in {"SUCCESS", "FAILURE", "TIMEOUT", "IGNORED", "INVALID", "GARBLED"}
        => m \in FinalReplies
  BY <1>1 DEF FinalReplies
<1>. QED BY <1>2, <1>3, <1>4
-----------------------------------------------------------------------------
(* The wire, the window and a pending RESET, and what is done to them.      *)
Mirror(c, b, q, n, p) == Answered(c) \o b = SubSeq(q, 1, n) \o p

LEMMA FrontOf ==
  ASSUME NEW q \in Seq(Requests), NEW n \in 0 .. Len(q)
  PROVE  /\ SubSeq(q, 1, n) \in Seq(Requests) /\ Len(SubSeq(q, 1, n)) = n
         /\ \A i \in 1 .. n : SubSeq(q, 1, n)[i] = q[i]
<1>1. Len(q) \in Nat /\ n \in Int /\ 1 \in Int /\ \A i \in 1 .. n : q[i] \in Requests
  BY LenProperties, ElementOfSeq
<1>. DEFINE w == SubSeq(q, 1, n)
<1>2. /\ w \in Seq(Requests) /\ Len(w) = (IF 1 <= n THEN n - 1 + 1 ELSE 0)
      /\ \A i \in 1 .. n - 1 + 1 : w[i] = q[1 + i - 1]
  BY <1>1, SubSeqProperties
<1>. HIDE DEF w
<1>3. w \in Seq(Requests) /\ Len(w) = n /\ \A i \in 1 .. n : w[i] = q[i]
  BY <1>1, <1>2
<1>. QED BY <1>3 DEF w

LEMMA SameFront ==
  ASSUME NEW q \in Seq(Requests), NEW r \in Seq(Requests), NEW n \in 0 .. Len(q),
         n <= Len(r), \A i \in 1 .. n : r[i] = q[i]
  PROVE  SubSeq(r, 1, n) = SubSeq(q, 1, n)
<1>1. n \in 0 .. Len(r)
  BY LenProperties
<1>. DEFINE v == SubSeq(q, 1, n)
            w == SubSeq(r, 1, n)
<1>2. v \in Seq(Requests) /\ Len(v) = n /\ \A i \in 1 .. n : v[i] = q[i]
  BY FrontOf
<1>3. w \in Seq(Requests) /\ Len(w) = n /\ \A i \in 1 .. n : w[i] = r[i]
  BY <1>1, FrontOf
<1>. HIDE DEF v, w
<1>4. w = v
  BY <1>2, <1>3, SeqEqual
<1>. QED BY <1>4 DEF v, w

\* A request is sent.
LEMMA MirrorSent ==
  ASSUME NEW c \in Seq(Messages), NEW b \in Seq(Requests), NEW q \in Seq(Requests),
         NEW n \in Nat, n < Len(q), Mirror(c, b, q, n, <<>>)
  PROVE  Mirror(c, Append(b, q[n + 1]), q, n + 1, <<>>)
<1>1. Len(q) \in Nat /\ n \in 0 .. Len(q) /\ n + 1 \in 1 .. Len(q) /\ 1 \in 1 .. Len(q)
  BY LenProperties
<1>2. q[n + 1] \in Requests
  BY <1>1, ElementOfSeq
<1>. DEFINE x == q[n + 1]
            a == Answered(c)
            w == SubSeq(q, 1, n)
            v == SubSeq(q, 1, n + 1)
<1>3. a \in Seq(Requests) /\ w \in Seq(Requests) /\ v \in Seq(Requests) /\ x \in Requests
  BY <1>1, <1>2, AnsweredTyped, FrontOf
<1>4. v = w \o <<x>>
  <2>1. (n + 1) - 1 = n /\ n + 1 \in 1 .. Len(q)
    BY <1>1
  <2>2. SubSeq(q, 1, n + 1) = SubSeq(q, 1, (n + 1) - 1) \o <<q[n + 1]>>
    BY <1>1, SubSeqRecursiveSecond
  <2>. QED BY <2>1, <2>2
<1>5. a \o b = w \o <<>>
  BY DEF Mirror
<1>. HIDE DEF x, a, w, v
<1>6. Append(b, x) = b \o <<x>> /\ <<x>> \in Seq(Requests) /\ a \o b \in Seq(Requests)
  BY <1>3, AppendIsConcat, ConcatProperties
<1>7. a \o (b \o <<x>>) = (a \o b) \o <<x>>
  BY <1>3, <1>6, ConcatAssociative
<1>8. w \o <<>> = w /\ v \o <<>> = v
  BY <1>3, ConcatEmptySeq
<1>9. a \o Append(b, x) = v \o <<>>
  BY <1>4, <1>5, <1>6, <1>7, <1>8
<1>. QED BY <1>9 DEF Mirror, a, v, x

\* A RESET is sent.
LEMMA MirrorReset ==
  ASSUME NEW c \in Seq(Messages), NEW b \in Seq(Requests), NEW q \in Seq(Requests),
         NEW n \in 0 .. Len(q), NEW x \in Requests, Mirror(c, b, q, n, <<>>)
  PROVE  Mirror(c, Append(b, x), q, n, <<x>>)
<1>. DEFINE a == Answered(c)
            w == SubSeq(q, 1, n)
<1>1. a \in Seq(Requests) /\ w \in Seq(Requests)
  BY AnsweredTyped, FrontOf
<1>2. a \o b = w \o <<>>
  BY DEF Mirror
<1>. HIDE DEF a, w
<1>3. Append(b, x) = b \o <<x>> /\ <<x>> \in Seq(Requests)
  BY AppendIsConcat
<1>4. a \o (b \o <<x>>) = (a \o b) \o <<x>>
  BY <1>1, <1>3, ConcatAssociative
<1>5. w \o <<>> = w
  BY <1>1, ConcatEmptySeq
<1>6. a \o Append(b, x) = w \o <<x>>
  BY <1>2, <1>3, <1>4, <1>5
<1>. QED BY <1>6 DEF Mirror, a, w

\* A sequence begins with what is put before it.
LEMMA Prepended ==
  ASSUME NEW x \in Requests, NEW s \in Seq(Requests), NEW t \in Seq(Requests)
  PROVE  /\ (<<x>> \o s) \o t = <<x>> \o (s \o t)
         /\ Head(<<x>> \o s) = x /\ Tail(<<x>> \o s) = s /\ <<x>> \o s # <<>>
         /\ <<x>> \o s \in Seq(Requests)
<1>1. <<x>> \in Seq(Requests) /\ Len(<<x>>) = 1 /\ <<x>>[1] = x
  OBVIOUS
<1>2. (<<x>> \o s) \o t = <<x>> \o (s \o t)
  BY <1>1, ConcatAssociative
<1>. DEFINE u == <<x>> \o s
<1>3. /\ u \in Seq(Requests) /\ Len(u) = 1 + Len(s) /\ Len(s) \in Nat
      /\ \A i \in 1 .. 1 + Len(s) : u[i] = IF i <= 1 THEN <<x>>[i] ELSE s[i - 1]
  BY <1>1, ConcatProperties, LenProperties
<1>. HIDE DEF u
<1>4. u # <<>> /\ Head(u) = u[1] /\ u[1] = x
  <2>1. Len(u) # 0
    BY <1>3
  <2>2. u # <<>>
    BY <2>1
  <2>3. Head(u) = u[1]
    BY <1>3, <2>2
  <2>4. 1 \in 1 .. 1 + Len(s)
    BY <1>3
  <2>. QED BY <1>1, <1>3, <2>2, <2>3, <2>4
<1>5. /\ Tail(u) \in Seq(Requests) /\ Len(Tail(u)) = Len(u) - 1
      /\ \A i \in 1 .. Len(Tail(u)) : Tail(u)[i] = u[i + 1]
  BY <1>3, <1>4, HeadTailProperties
<1>6. ASSUME NEW i \in 1 .. Len(Tail(u)) PROVE Tail(u)[i] = s[i]
  <2>1. i + 1 \in 1 .. 1 + Len(s) /\ ~(i + 1 <= 1) /\ (i + 1) - 1 = i
    BY <1>3, <1>5
  <2>. QED BY <1>3, <1>5, <2>1
<1>7. Len(Tail(u)) = Len(s)
  BY <1>3, <1>5
<1>8. Tail(u) = s
  BY <1>5, <1>6, <1>7, SeqEqual
<1>. QED BY <1>2, <1>3, <1>4, <1>8 DEF u

\* A final reply is received: it is for the request at the head.
LEMMA MirrorReceived ==
  ASSUME NEW c \in Seq(Messages), NEW b \in Seq(Requests), NEW q \in Seq(Requests),
         NEW n \in 1 .. Len(q), NEW p \in Seq(Requests),
         Mirror(c, b, q, n, p), c # <<>>, Head(c) \in FinalReplies
  PROVE  /\ Head(c).to = Head(q)
         /\ Mirror(Tail(c), b, Tail(q), n - 1, p)
<1>1. /\ Len(q) \in Nat /\ q # <<>> /\ Head(q) = q[1] /\ q[1] \in Requests
      /\ Tail(q) \in Seq(Requests) /\ Len(Tail(q)) = Len(q) - 1
      /\ \A i \in 1 .. Len(Tail(q)) : Tail(q)[i] = q[i + 1]
  <2>1. Len(q) \in Nat /\ Len(q) # 0 /\ 1 \in 1 .. Len(q)
    BY LenProperties
  <2>2. q # <<>>
    BY <2>1
  <2>3. q[1] \in Requests
    BY <2>1, ElementOfSeq
  <2>4. Head(q) = q[1]
    BY <2>2
  <2>5. /\ Tail(q) \in Seq(Requests) /\ Len(Tail(q)) = Len(q) - 1
        /\ \A i \in 1 .. Len(Tail(q)) : Tail(q)[i] = q[i + 1]
    BY <2>2, HeadTailProperties
  <2>. QED BY <2>1, <2>2, <2>3, <2>4, <2>5
<1>2. /\ Tail(c) \in Seq(Messages) /\ Head(c).to \in Requests
      /\ Answered(c) = <<Head(c).to>> \o Answered(Tail(c))
  <2>1. Head(c) \in Messages /\ Tail(c) \in Seq(Messages)
    BY HeadTailProperties
  <2>2. Head(c).to \in Requests
    BY <2>1 DEF Messages
  <2>. QED BY <2>1, <2>2, AnsweredHead
<1>. DEFINE x == Head(c).to
            a == Answered(Tail(c))
            w == SubSeq(Tail(q), 1, n - 1)
<1>3. SubSeq(q, 1, n) = <<q[1]>> \o w
  <2>1. n \in 0 .. Len(q) /\ n - 1 \in 0 .. Len(Tail(q)) /\ 1 \in 1 .. Len(q)
    BY <1>1
  <2>2. SubSeq(q, 1, n) = <<q[1]>> \o SubSeq(q, 2, n)
    BY <1>1, <2>1, SubSeqRecursiveFirst
  <2>. DEFINE v == SubSeq(q, 2, n)
  <2>3. \A i \in 2 .. n : q[i] \in Requests
    BY <1>1, ElementOfSeq
  <2>4. /\ v \in Seq(Requests) /\ Len(v) = (IF 2 <= n THEN n - 2 + 1 ELSE 0)
        /\ \A i \in 1 .. n - 2 + 1 : v[i] = q[2 + i - 1]
    BY <2>3, SubSeqProperties
  <2>5. w \in Seq(Requests) /\ Len(w) = n - 1 /\ \A i \in 1 .. n - 1 : w[i] = Tail(q)[i]
    BY <1>1, <2>1, FrontOf
  <2>. HIDE DEF v, w
  <2>6. Len(v) = n - 1
    BY <2>4
  <2>7. \A i \in 1 .. Len(v) : v[i] = w[i]
    <3>1. \A i \in 1 .. n - 1 : 2 + i - 1 = i + 1 /\ i \in 1 .. Len(Tail(q)) /\ i \in 1 .. n - 2 + 1
      BY <1>1
    <3>. QED BY <1>1, <2>4, <2>5, <2>6, <3>1
  <2>8. v = w
    BY <2>4, <2>5, <2>6, <2>7, SeqEqual
  <2>. QED BY <2>2, <2>8 DEF v
<1>4. a \in Seq(Requests) /\ w \in Seq(Requests)
  <2>1. n - 1 \in 0 .. Len(Tail(q))
    BY <1>1
  <2>. QED BY <1>1, <1>2, <2>1, AnsweredTyped, FrontOf
<1>5. (<<x>> \o a) \o b = (<<q[1]>> \o w) \o p
  BY <1>2, <1>3 DEF Mirror
<1>. HIDE DEF x, a, w
<1>6. x \in Requests
  BY <1>2 DEF x
<1>7. a \o b \in Seq(Requests) /\ w \o p \in Seq(Requests)
  BY <1>4, ConcatProperties
<1>8. <<x>> \o (a \o b) = <<q[1]>> \o (w \o p)
  <2>1. (<<x>> \o a) \o b = <<x>> \o (a \o b)
    BY <1>4, <1>6, Prepended
  <2>2. (<<q[1]>> \o w) \o p = <<q[1]>> \o (w \o p)
    BY <1>1, <1>4, Prepended
  <2>. QED BY <1>5, <2>1, <2>2
<1>9. x = q[1] /\ a \o b = w \o p
  <2>. DEFINE s == a \o b
              t == w \o p
  <2>1. s \in Seq(Requests) /\ t \in Seq(Requests) /\ <<x>> \o s = <<q[1]>> \o t
    BY <1>7, <1>8
  <2>. HIDE DEF s, t
  <2>2. Head(<<x>> \o s) = x /\ Tail(<<x>> \o s) = s
    BY <1>6, <2>1, Prepended
  <2>3. Head(<<q[1]>> \o t) = q[1] /\ Tail(<<q[1]>> \o t) = t
    BY <1>1, <2>1, Prepended
  <2>4. x = q[1] /\ s = t
    BY <2>1, <2>2, <2>3
  <2>. QED BY <2>4 DEF s, t
<1>. QED BY <1>1, <1>9 DEF Mirror, x, a, w

\* A record is received.
LEMMA MirrorRecord ==
  ASSUME NEW c \in Seq(Messages), NEW b, NEW q, NEW n, NEW p,
         Mirror(c, b, q, n, p), c # <<>>, Head(c) \notin FinalReplies
  PROVE  Mirror(Tail(c), b, q, n, p)
  BY AnsweredHead DEF Mirror

\* The server answers a request, or sends a record for it.
LEMMA MirrorServed ==
  ASSUME NEW c \in Seq(Messages), NEW b \in Seq(Requests), b # <<>>, NEW q, NEW n, NEW p,
         Mirror(c, b, q, n, p), NEW m \in Messages, m.to = Head(b)
  PROVE  Mirror(Append(c, m), IF m \in FinalReplies THEN Tail(b) ELSE b, q, n, p)
<1>1. Answered(Append(c, m)) =
        IF m \in FinalReplies THEN Append(Answered(c), m.to) ELSE Answered(c)
  BY AnsweredAppend
<1>2. CASE m \in FinalReplies
  <2>. DEFINE a == Answered(c)
              x == Head(b)
              t == Tail(b)
  <2>1. a \in Seq(Requests) /\ x \in Requests /\ t \in Seq(Requests) /\ b = <<x>> \o t
    <3>1. x \in Requests /\ t \in Seq(Requests) /\ Len(b) \in Nat /\ Len(b) >= 1 /\ x = b[1]
      <4>1. Len(b) \in Nat
        BY LenProperties
      <4>2. Len(b) # 0
        BY EmptySeq
      <4>. QED BY <4>1, <4>2, HeadTailProperties
    <3>2. SubSeq(b, 1, Len(b)) = <<b[1]>> \o SubSeq(b, 2, Len(b))
      <4>1. 1 \in 1 .. Len(b) /\ Len(b) \in 1 .. Len(b)
        BY <3>1
      <4>2. SubSeq(b, 1, Len(b)) = <<b[1]>> \o SubSeq(b, 1 + 1, Len(b))
        BY <4>1, SubSeqRecursiveFirst
      <4>. QED BY <4>2
    <3>3. SubSeq(b, 1, Len(b)) = b /\ t = SubSeq(b, 2, Len(b))
      BY SubSeqFull, TailIsSubSeq
    <3>. QED BY <3>1, <3>2, <3>3, AnsweredTyped
  <2>2. Answered(Append(c, m)) = Append(a, x)
    BY <1>1, <1>2
  <2>3. a \o b = SubSeq(q, 1, n) \o p
    BY DEF Mirror
  <2>. HIDE DEF a, x, t
  <2>4. Append(a, x) = a \o <<x>> /\ <<x>> \in Seq(Requests)
    BY <2>1, AppendIsConcat
  <2>5. (a \o <<x>>) \o t = a \o (<<x>> \o t)
    BY <2>1, <2>4, ConcatAssociative
  <2>6. Answered(Append(c, m)) \o t = SubSeq(q, 1, n) \o p
    BY <2>1, <2>2, <2>3, <2>4, <2>5
  <2>. QED BY <1>2, <2>6 DEF Mirror, t
<1>3. CASE m \notin FinalReplies
  BY <1>1, <1>3 DEF Mirror
<1>. QED BY <1>2, <1>3
-----------------------------------------------------------------------------
(* What is known of the messages holds for those that follow the first.     *)
LEMMA TailOf ==
  ASSUME NEW c \in Seq(Messages), c # <<>>
  PROVE  /\ Head(c) \in Messages /\ Head(c) = c[1] /\ Len(c) \in Nat \ {0}
         /\ Tail(c) \in Seq(Messages) /\ Len(Tail(c)) = Len(c) - 1
         /\ \A i \in 1 .. Len(c) - 1 : Tail(c)[i] = c[i + 1]
         /\ DOMAIN c = 1 .. Len(c) /\ DOMAIN Tail(c) = 1 .. Len(c) - 1
<1>1. Len(c) \in Nat \ {0}
  BY EmptySeq
<1>2. /\ Head(c) \in Messages /\ Tail(c) \in Seq(Messages) /\ Len(Tail(c)) = Len(c) - 1
      /\ \A i \in 1 .. Len(Tail(c)) : Tail(c)[i] = c[i + 1]
  BY HeadTailProperties
<1>3. DOMAIN c = 1 .. Len(c) /\ DOMAIN Tail(c) = 1 .. Len(Tail(c))
  BY <1>2, LenProperties
<1>4. Head(c) = c[1]
  OBVIOUS
<1>. QED BY <1>1, <1>2, <1>3, <1>4

LEMMA LinkedTail ==
  ASSUME NEW c \in Seq(Messages), NEW b, Linked(c, b), c # <<>>
  PROVE  Linked(Tail(c), b)
<1>. DEFINE n == Len(c) - 1
            t == Tail(c)
<1>1. /\ n \in Nat /\ Len(c) = n + 1 /\ Len(t) = n
      /\ \A i \in 1 .. n : t[i] = c[i + 1]
      /\ DOMAIN c = 1 .. n + 1 /\ DOMAIN t = 1 .. n
  BY TailOf
<1>. HIDE DEF n, t
<1>2. ASSUME NEW i \in 1 .. n, t[i] \notin FinalReplies
      PROVE  IF i < n THEN t[i].to = t[i + 1].to ELSE b # <<>> /\ t[i].to = Head(b)
  <2>1. i + 1 \in DOMAIN c /\ (i < n <=> i + 1 < Len(c)) /\ c[i + 1] \notin FinalReplies
    BY <1>1, <1>2
  <2>2. IF i + 1 < Len(c) THEN c[i + 1].to = c[(i + 1) + 1].to
        ELSE b # <<>> /\ c[i + 1].to = Head(b)
    BY <2>1 DEF Linked
  <2>3. i < n => i + 1 \in 1 .. n
    BY <1>1
  <2>. QED BY <1>1, <2>1, <2>2, <2>3
<1>3. Linked(t, b)
  BY <1>1, <1>2 DEF Linked
<1>. QED BY <1>3 DEF t

LEMMA LinkedSent ==
  ASSUME NEW c, NEW b \in Seq(Requests), NEW x \in Requests, Linked(c, b)
  PROVE  Linked(c, Append(b, x))
<1>1. b # <<>> => Head(Append(b, x)) = Head(b)
  BY HeadTailAppend
<1>2. Append(b, x) # <<>>
  BY AppendProperties
<1>. QED BY <1>1, <1>2 DEF Linked

LEMMA AppendedTo ==
  ASSUME NEW c \in Seq(Messages), NEW m \in Messages
  PROVE  /\ Append(c, m) \in Seq(Messages) /\ Len(c) \in Nat
         /\ Len(Append(c, m)) = Len(c) + 1 /\ Append(c, m)[Len(c) + 1] = m
         /\ \A i \in 1 .. Len(c) : Append(c, m)[i] = c[i]
         /\ DOMAIN c = 1 .. Len(c) /\ DOMAIN Append(c, m) = 1 .. Len(c) + 1
<1>1. /\ Append(c, m) \in Seq(Messages) /\ Len(Append(c, m)) = Len(c) + 1
      /\ \A i \in 1 .. Len(c) : Append(c, m)[i] = c[i] /\ Append(c, m)[Len(c) + 1] = m
  BY AppendProperties
<1>2. DOMAIN c = 1 .. Len(c) /\ DOMAIN Append(c, m) = 1 .. Len(Append(c, m)) /\ Len(c) \in Nat
  BY <1>1, LenProperties
<1>3. Append(c, m)[Len(c) + 1] = m
  BY AppendProperties
<1>. QED BY <1>1, <1>2, <1>3

LEMMA LinkedServed ==
  ASSUME NEW c \in Seq(Messages), NEW b, b # <<>>, NEW m \in Messages,
         m.to = Head(b), Linked(c, b)
  PROVE  Linked(Append(c, m), IF m \in FinalReplies THEN Tail(b) ELSE b)
<1>. DEFINE n == Len(c)
            d == Append(c, m)
            e == IF m \in FinalReplies THEN Tail(b) ELSE b
<1>1. /\ n \in Nat /\ Len(d) = n + 1 /\ d[n + 1] = m /\ \A i \in 1 .. n : d[i] = c[i]
      /\ DOMAIN c = 1 .. n /\ DOMAIN d = 1 .. n + 1
  BY AppendedTo
<1>2. n = Len(c) /\ (m \notin FinalReplies => e = b)
  OBVIOUS
<1>. HIDE DEF n, d, e
<1>3. ASSUME NEW i \in 1 .. n + 1, d[i] \notin FinalReplies
      PROVE  IF i < n + 1 THEN d[i].to = d[i + 1].to ELSE e # <<>> /\ d[i].to = Head(e)
  <2>1. CASE i = n + 1
    BY <1>1, <1>2, <1>3, <2>1
  <2>2. CASE i = n /\ i \in 1 .. n
    <3>1. c[i].to = Head(b)
      BY <1>1, <1>2, <1>3, <2>2 DEF Linked
    <3>2. i < n + 1 /\ d[i] = c[i] /\ d[i + 1] = m
      BY <1>1, <2>2
    <3>. QED BY <3>1, <3>2
  <2>3. CASE i < n
    <3>1. i \in 1 .. n /\ i + 1 \in 1 .. n /\ i < n + 1 /\ d[i] = c[i] /\ d[i + 1] = c[i + 1]
      BY <1>1, <2>3
    <3>2. c[i].to = c[i + 1].to
      BY <1>1, <1>2, <1>3, <2>3, <3>1 DEF Linked
    <3>. QED BY <3>1, <3>2
  <2>. QED BY <1>1, <2>1, <2>2, <2>3
<1>4. Linked(d, e)
  BY <1>1, <1>3 DEF Linked
<1>. QED BY <1>4 DEF d, e

\* The next reply is for the first request on the wire, a record included.
LEMMA NextReply ==
  ASSUME NEW c \in Seq(Messages), NEW b \in Seq(Requests), Linked(c, b), c # <<>>
  PROVE  Head(c).to = Head(Answered(c) \o b)
<1>. DEFINE First(d) == Linked(d, b) /\ d # <<>> => Head(d).to = Head(Answered(d) \o b)
            P == {n \in Nat : \A d \in Seq(Messages) : Len(d) = n => First(d)}
<1>1. 0 \in P
  <2>1. \A d \in Seq(Messages) : Len(d) = 0 => d = <<>>
    BY EmptySeq
  <2>. QED BY <2>1
<1>2. ASSUME NEW n \in Nat, n \in P PROVE n + 1 \in P
  <2>. n + 1 \in Nat
    OBVIOUS
  <2>. SUFFICES ASSUME NEW d \in Seq(Messages), Len(d) = n + 1
                PROVE  First(d)
    BY Zenon
  <2>. SUFFICES ASSUME Linked(d, b), d # <<>>
                PROVE  Head(d).to = Head(Answered(d) \o b)
    BY Zenon
  <2>1. /\ Head(d) \in Messages /\ Tail(d) \in Seq(Messages) /\ Len(Tail(d)) = n
        /\ \A i \in 1 .. n : Tail(d)[i] = d[i + 1]
        /\ DOMAIN d = 1 .. n + 1 /\ DOMAIN Tail(d) = 1 .. n /\ Head(d) = d[1]
    BY HeadTailProperties, LenProperties
  <2>2. First(Tail(d))
    BY <1>2, <2>1
  <2>3. Answered(d) = IF Head(d) \in FinalReplies
                      THEN <<Head(d).to>> \o Answered(Tail(d)) ELSE Answered(Tail(d))
    BY AnsweredHead
  <2>4. Answered(Tail(d)) \in Seq(Requests) /\ Head(d).to \in Requests
    BY <2>1, AnsweredTyped DEF Messages
  <2>5. CASE Head(d) \in FinalReplies
    <3>. DEFINE x == Head(d).to
                a == Answered(Tail(d))
    <3>1. Answered(d) = <<x>> \o a /\ x \in Requests /\ a \in Seq(Requests)
      BY <2>3, <2>4, <2>5
    <3>. HIDE DEF x, a
    <3>2. (<<x>> \o a) \o b = <<x>> \o (a \o b) /\ a \o b \in Seq(Requests)
      BY <3>1, Prepended, ConcatProperties
    <3>3. Head(<<x>> \o (a \o b)) = x
      BY <3>1, <3>2, Prepended
    <3>. QED BY <3>1, <3>2, <3>3 DEF x
  <2>6. CASE Head(d) \notin FinalReplies /\ n = 0
    <3>1. Tail(d) = <<>>
      BY <2>1, <2>6, EmptySeq
    <3>2. 1 \in DOMAIN d /\ ~(1 < Len(d))
      BY <2>1, <2>6
    <3>3. d[1].to = Head(b)
      BY <2>1, <2>6, <3>2 DEF Linked
    <3>4. Answered(d) \o b = b
      BY <2>3, <2>6, <3>1, AnsweredEmpty, ConcatEmptySeq
    <3>. QED BY <2>1, <3>3, <3>4
  <2>7. CASE Head(d) \notin FinalReplies /\ n > 0
    <3>1. 1 \in DOMAIN d /\ 1 < Len(d) /\ 1 \in 1 .. n
      BY <2>1, <2>7
    <3>2. d[1].to = d[1 + 1].to
      BY <2>1, <2>7, <3>1 DEF Linked
    <3>3. Tail(d) # <<>> /\ Head(Tail(d)) = d[1 + 1]
      <4>1. Tail(d) # <<>>
        <5>1. Len(<<>>) = 0 /\ Len(Tail(d)) # 0
          BY <2>1, <2>7
        <5>. QED BY <5>1, Zenon
      <4>2. Head(Tail(d)) = Tail(d)[1]
        BY <2>1, <4>1
      <4>. QED BY <2>1, <3>1, <4>1, <4>2
    <3>4. Linked(Tail(d), b)
      BY LinkedTail
    <3>. QED BY <2>1, <2>2, <2>3, <2>7, <3>2, <3>3, <3>4
  <2>8. n = 0 \/ n > 0
    OBVIOUS
  <2>. QED BY <2>5, <2>6, <2>7, <2>8, Zenon
<1>. HIDE DEF P
<1>3. Nat \subseteq P
  BY <1>1, <1>2, NaturalsInSet
<1>4. Len(c) \in P
  BY <1>3, LenProperties
<1>. QED BY <1>4 DEF P
-----------------------------------------------------------------------------
(* What is ignored after a failure.                                         *)
LEMMA IgnoredTail ==
  ASSUME NEW c \in Seq(Messages), c # <<>>, NEW i \in Nat, i >= 2, NEW g,
         Ignored(c, i, g)
  PROVE  Ignored(Tail(c), i - 1, g)
<1>. DEFINE n == Len(c) - 1
            t == Tail(c)
<1>1. n \in Nat /\ Len(c) = n + 1 /\ Len(t) = n /\ \A j \in 1 .. n : t[j] = c[j + 1]
  BY TailOf
<1>. HIDE DEF n, t
<1>2. ASSUME NEW j \in i - 1 .. n
      PROVE  t[j].type = "IGNORED" \/ \E k \in i - 1 .. j : IsReset(t[k].to)
  <2>1. j + 1 \in i .. Len(c) /\ t[j] = c[j + 1]
    BY <1>1
  <2>2. c[j + 1].type = "IGNORED" \/ \E k \in i .. j + 1 : IsReset(c[k].to)
    BY <2>1 DEF Ignored
  <2>3. ASSUME NEW k \in i .. j + 1, IsReset(c[k].to)
        PROVE  \E l \in i - 1 .. j : IsReset(t[l].to)
    <3>1. k - 1 \in i - 1 .. j /\ t[k - 1] = c[k]
      BY <1>1
    <3>. QED BY <2>3, <3>1
  <2>. QED BY <2>1, <2>2, <2>3
<1>3. ASSUME NEW k \in i .. Len(c), IsReset(c[k].to)
      PROVE  \E l \in i - 1 .. n : IsReset(t[l].to)
  <2>1. k - 1 \in i - 1 .. n /\ t[k - 1] = c[k]
    BY <1>1
  <2>. QED BY <1>3, <2>1
<1>4. Ignored(t, i - 1, g)
  BY <1>1, <1>2, <1>3 DEF Ignored
<1>. QED BY <1>4 DEF t

\* The first of them may go as well, unless it answers a RESET.
LEMMA IgnoredHead ==
  ASSUME NEW c \in Seq(Messages), c # <<>>, NEW g, Ignored(c, 1, g),
         ~IsReset(Head(c).to)
  PROVE  Head(c).type = "IGNORED" /\ Ignored(Tail(c), 1, g)
<1>. DEFINE n == Len(c)
<1>1. n \in Nat \ {0} /\ Head(c) = c[1]
  BY TailOf
<1>2. Head(c).type = "IGNORED"
  <2>1. 1 \in 1 .. n /\ \A k \in 1 .. 1 : k = 1
    BY <1>1
  <2>. QED BY <1>1, <2>1 DEF Ignored
<1>3. ASSUME NEW j \in Nat, NEW k \in 1 .. j, IsReset(c[k].to)
      PROVE  k \in 2 .. j
  <2>1. k # 1
    BY <1>1, <1>3
  <2>. QED BY <2>1
<1>4. Ignored(c, 2, g)
  <2>1. ASSUME NEW j \in 2 .. n
        PROVE  c[j].type = "IGNORED" \/ \E k \in 2 .. j : IsReset(c[k].to)
    <3>1. j \in 1 .. n /\ j \in Nat
      OBVIOUS
    <3>2. c[j].type = "IGNORED" \/ \E k \in 1 .. j : IsReset(c[k].to)
      BY <3>1 DEF Ignored
    <3>. QED BY <1>3, <3>1, <3>2
  <2>2. g \/ \E k \in 2 .. n : IsReset(c[k].to)
    BY <1>1, <1>3 DEF Ignored
  <2>. QED BY <2>1, <2>2 DEF Ignored
<1>5. Ignored(Tail(c), 2 - 1, g)
  BY <1>4, IgnoredTail
<1>. QED BY <1>2, <1>5

LEMMA RefusedTail ==
  ASSUME NEW c \in Seq(Messages), c # <<>>, NEW g, Refused(c, g)
  PROVE  /\ Refused(Tail(c), g)
         /\ IsFailure(Head(c).type) => Ignored(Tail(c), 1, g)
<1>. DEFINE n == Len(c) - 1
            t == Tail(c)
<1>1. /\ n \in Nat /\ Len(c) = n + 1 /\ \A j \in 1 .. n : t[j] = c[j + 1]
      /\ DOMAIN c = 1 .. n + 1 /\ DOMAIN t = 1 .. n /\ Head(c) = c[1]
  BY TailOf
<1>2. \A i \in 2 .. n + 2 : Ignored(c, i, g) => Ignored(t, i - 1, g)
  BY IgnoredTail
<1>. HIDE DEF n, t
<1>3. ASSUME NEW i \in 1 .. n, IsFailure(t[i].type)
      PROVE  Ignored(t, i + 1, g)
  <2>1. i + 1 \in DOMAIN c /\ t[i] = c[i + 1] /\ (i + 1) + 1 \in 2 .. n + 2
        /\ ((i + 1) + 1) - 1 = i + 1
    BY <1>1
  <2>2. Ignored(c, (i + 1) + 1, g)
    BY <1>3, <2>1 DEF Refused
  <2>. QED BY <1>2, <2>1, <2>2
<1>4. ASSUME IsFailure(Head(c).type) PROVE Ignored(t, 1, g)
  <2>1. 1 \in DOMAIN c /\ 2 \in 2 .. n + 2
    BY <1>1
  <2>2. Ignored(c, 1 + 1, g)
    BY <1>1, <1>4, <2>1 DEF Refused
  <2>. QED BY <1>2, <2>1, <2>2
<1>5. Refused(t, g)
  BY <1>1, <1>3 DEF Refused
<1>. QED BY <1>4, <1>5 DEF t

LEMMA IgnoredServed ==
  ASSUME NEW c \in Seq(Messages), NEW m \in Messages, NEW i \in 1 .. Len(c) + 1, NEW g, NEW h,
         Ignored(c, i, g), g => IsReset(m.to) \/ (m.type = "IGNORED" /\ h)
  PROVE  Ignored(Append(c, m), i, h)
<1>. DEFINE n == Len(c)
            d == Append(c, m)
<1>1. n \in Nat /\ Len(d) = n + 1 /\ d[n + 1] = m /\ \A j \in 1 .. n : d[j] = c[j]
  BY AppendedTo
<1>2. n = Len(c)
  OBVIOUS
<1>. HIDE DEF n, d
<1>3. ASSUME NEW k \in i .. n, IsReset(c[k].to)
      PROVE  k \in i .. n + 1 /\ IsReset(d[k].to)
  BY <1>1, <1>2, <1>3
<1>4. ASSUME NEW j \in i .. n
      PROVE  d[j].type = "IGNORED" \/ \E k \in i .. j : IsReset(d[k].to)
  <2>1. c[j].type = "IGNORED" \/ \E k \in i .. j : IsReset(c[k].to)
    BY <1>2 DEF Ignored
  <2>2. \A k \in i .. j : k \in i .. n /\ d[k] = c[k]
    BY <1>1, <1>2
  <2>. QED BY <1>2, <2>1, <2>2
<1>5. IsReset(m.to) => n + 1 \in i .. n + 1 /\ IsReset(d[n + 1].to)
  BY <1>1, <1>2
<1>6. g \/ \E k \in i .. n : IsReset(c[k].to)
  BY <1>2 DEF Ignored
<1>7. d[n + 1].type = "IGNORED" \/ \E k \in i .. n + 1 : IsReset(d[k].to)
  BY <1>1, <1>3, <1>5, <1>6
<1>8. h \/ \E k \in i .. n + 1 : IsReset(d[k].to)
  BY <1>3, <1>5, <1>6
<1>9. \A j \in i .. n + 1 : j \in i .. n \/ j = n + 1
  BY <1>1, <1>2
<1>10. Ignored(d, i, h)
  BY <1>1, <1>4, <1>7, <1>8, <1>9 DEF Ignored
<1>. QED BY <1>10 DEF d

LEMMA RefusedServed ==
  ASSUME NEW c \in Seq(Messages), NEW m \in Messages, NEW g, NEW h, Refused(c, g),
         g => IsReset(m.to) \/ (m.type = "IGNORED" /\ h),
         IsFailure(m.type) => h
  PROVE  Refused(Append(c, m), h)
<1>. DEFINE n == Len(c)
            d == Append(c, m)
<1>1. /\ n \in Nat /\ Len(d) = n + 1 /\ d[n + 1] = m /\ \A j \in 1 .. n : d[j] = c[j]
      /\ DOMAIN c = 1 .. n /\ DOMAIN d = 1 .. n + 1
  BY AppendedTo
<1>2. \A i \in 1 .. n + 1 : Ignored(c, i, g) => Ignored(d, i, h)
  BY IgnoredServed
<1>. HIDE DEF n, d
<1>3. ASSUME NEW i \in 1 .. n + 1, IsFailure(d[i].type)
      PROVE  Ignored(d, i + 1, h)
  <2>1. CASE i = n + 1
    <3>1. h
      BY <1>1, <1>3, <2>1
    <3>2. \A j \in i + 1 .. n + 1 : FALSE
      BY <1>1, <2>1
    <3>. QED BY <1>1, <3>1, <3>2 DEF Ignored
  <2>2. CASE i \in 1 .. n
    <3>1. Ignored(c, i + 1, g)
      BY <1>1, <1>3, <2>2 DEF Refused
    <3>2. i + 1 \in 1 .. n + 1
      BY <1>1, <2>2
    <3>. QED BY <1>2, <3>1, <3>2
  <2>. QED BY <1>1, <2>1, <2>2
<1>4. Refused(d, h)
  BY <1>1, <1>3 DEF Refused
<1>. QED BY <1>4 DEF d
-----------------------------------------------------------------------------
(* One step of the server is one message to the client.                     *)
Answers(m) ==
  /\ toServer # <<>> /\ m.to = Head(toServer)
  /\ toClient' = Append(toClient, m)
  /\ toServer' = IF m \in FinalReplies THEN Tail(toServer) ELSE toServer
WellMannered(m) ==
  /\ Accepted(m)
  /\ Refusing => IsReset(m.to) \/ (m.type = "IGNORED" /\ Refusing')
  /\ IsFailure(m.type) => Refusing'

LEMMA ServedMessage ==
  ASSUME WireTypes, NEW q, NEW type \in KnownReplies, NEW n \in Nat, NEW mode, NEW tx,
         Serve(q, type, n, mode, tx)
  PROVE  \E m \in Messages : m.type = type /\ m.to = q /\ Answers(m)
<1>. DEFINE m == [type |-> type, to |-> q, n |-> n]
<1>1. q \in Requests /\ toServer # <<>> /\ q = Head(toServer)
  BY HeadTailProperties DEF Serve, WireTypes
<1>2. m \in Messages /\ m.type = type /\ m.to = q
  BY <1>1 DEF Messages
<1>3. toClient' = Append(toClient, m)
  BY DEF Serve
<1>4. toServer' = IF type \in {"RECORD", "BADRECORD"} THEN toServer ELSE Tail(toServer)
  BY DEF Serve
<1>. HIDE DEF m
<1>5. Answers(m)
  BY <1>1, <1>2, <1>3, <1>4, FinalOrRecord DEF Answers
<1>. QED BY <1>2, <1>5

LEMMA ServerAnswers ==
  ASSUME WireTypes, ServerStep
  PROVE  \E m \in Messages : Answers(m) /\ ForStatement(m) /\ (Signals => WellMannered(m))
<1>. DEFINE q == Head(toServer)
            Fit(type) == type \in {"RECORD", "BADRECORD"} => q.type = "PULL_ALL"
            Manners(type) ==
              /\ type \in {"SUCCESS", "FAILURE", "TIMEOUT", "IGNORED", "RECORD"}
              /\ IsReset(q) => type = "SUCCESS"
              /\ Refusing => IsReset(q) \/ (type = "IGNORED" /\ Refusing')
              /\ IsFailure(type) => Refusing'
<1>1. /\ {"SUCCESS", "FAILURE", "TIMEOUT", "IGNORED", "RECORD"} \subseteq KnownReplies
      /\ "INVALID" \in KnownReplies /\ {"BADRECORD", "GARBLED"} \cap Faults \subseteq KnownReplies
  BY DEF KnownReplies
<1>2. server.n \in Nat /\ server.n + 1 \in Nat /\ 0 \in Nat
  BY DEF WireTypes
<1>3. \A type, n, mode, tx : Serve(q, type, n, mode, tx) => (Refusing' <=> mode = "FAILED")
  BY DEF Serve, Refusing
<1>4. Signals => "INVALID" \notin Faults /\ "GARBLED" \notin Faults /\ "BADRECORD" \notin Faults
  BY DEF Signals
<1>5. SUFFICES \E type \in KnownReplies, n \in Nat : \E mode, tx :
                 Serve(q, type, n, mode, tx) /\ Fit(type) /\ (Signals => Manners(type))
  <2>1. PICK type \in KnownReplies, n \in Nat :
               \E mode, tx : Serve(q, type, n, mode, tx) /\ Fit(type) /\ (Signals => Manners(type))
    BY <1>5
  <2>2. PICK mode, tx : Serve(q, type, n, mode, tx) /\ Fit(type) /\ (Signals => Manners(type))
    BY <2>1
  <2>3. PICK m \in Messages : m.type = type /\ m.to = q /\ Answers(m)
    BY <2>2, ServedMessage
  <2>4. Manners(type) => WellMannered(m)
    BY <2>3 DEF WellMannered, Accepted
  <2>5. Fit(type) => ForStatement(m)
    BY <2>3, FinalOrRecord DEF ForStatement, Answers
  <2>. QED BY <2>2, <2>3, <2>4, <2>5
<1>6. CASE ServerReset(q)
  <2>1. Serve(q, "SUCCESS", 0, "READY", None) /\ IsReset(q)
    BY <1>6 DEF ServerReset
  <2>2. Manners("SUCCESS")
    BY <2>1 DEF IsFailure
  <2>. QED BY <1>1, <1>2, <2>1, <2>2
<1>7. ASSUME ~IsReset(q), ServerRefuse(q)
      PROVE  \E type \in KnownReplies, n \in Nat : \E mode, tx :
               Serve(q, type, n, mode, tx) /\ Fit(type) /\ (Signals => Manners(type))
  <2>1. PICK type \in {"FAILURE", "TIMEOUT"} : Serve(q, type, 0, "FAILED", None) /\ ~Refusing
    BY <1>7 DEF ServerRefuse, Refusing
  <2>2. Manners(type)
    BY <1>3, <1>7, <2>1
  <2>. QED BY <1>1, <1>2, <2>1, <2>2
<1>8. ASSUME ~IsReset(q), ServerIgnore(q)
      PROVE  \E type \in KnownReplies, n \in Nat : \E mode, tx :
               Serve(q, type, n, mode, tx) /\ Fit(type) /\ (Signals => Manners(type))
  <2>1. Serve(q, "IGNORED", 0, "FAILED", None)
    BY <1>8 DEF ServerIgnore
  <2>2. Manners("IGNORED")
    BY <1>3, <1>8, <2>1 DEF IsFailure
  <2>. QED BY <1>1, <1>2, <2>1, <2>2
<1>9. ASSUME ~IsReset(q), ServerRun(q)
      PROVE  \E type \in KnownReplies, n \in Nat : \E mode, tx :
               Serve(q, type, n, mode, tx) /\ Fit(type) /\ (Signals => Manners(type))
  <2>1. PICK type \in {"SUCCESS"} \cup ({"INVALID", "GARBLED"} \cap Faults) :
               Serve(q, type, 0, "STREAMING", server.tx) /\ ~Refusing
    BY <1>9 DEF ServerRun, Refusing
  <2>2. Signals => Manners(type)
    BY <1>4, <1>9, <2>1 DEF IsFailure
  <2>3. type \in KnownReplies /\ Fit(type)
    BY <1>1, <2>1
  <2>. QED BY <1>2, <2>1, <2>2, <2>3
<1>10. ASSUME ~IsReset(q), ServerPull(q)
       PROVE  \E type \in KnownReplies, n \in Nat : \E mode, tx :
                Serve(q, type, n, mode, tx) /\ Fit(type) /\ (Signals => Manners(type))
  <2>1. PICK type \in {"SUCCESS", "RECORD"} \cup ({"BADRECORD"} \cap Faults),
             n \in {server.n, server.n + 1} : \E mode :
               Serve(q, type, n, mode, server.tx) /\ Fit(type) /\ ~Refusing
    BY <1>10 DEF ServerPull, Refusing
  <2>2. Signals => Manners(type)
    BY <1>4, <1>10, <2>1 DEF IsFailure
  <2>3. type \in KnownReplies /\ n \in Nat
    BY <1>1, <1>2, <2>1
  <2>. QED BY <2>1, <2>2, <2>3
<1>11. ASSUME ~IsReset(q), ServerTx(q)
       PROVE  \E type \in KnownReplies, n \in Nat : \E mode, tx :
                Serve(q, type, n, mode, tx) /\ Fit(type) /\ (Signals => Manners(type))
  <2>1. ~Refusing /\ \E tx : Serve(q, "SUCCESS", 0, "READY", tx)
    BY <1>11 DEF ServerTx, Refusing
  <2>2. Manners("SUCCESS")
    BY <1>11, <2>1 DEF IsFailure
  <2>. QED BY <1>1, <1>2, <2>1, <2>2
<1>12. IF IsReset(q) THEN ServerReset(q)
       ELSE ServerRefuse(q) \/ ServerIgnore(q) \/ ServerRun(q) \/ ServerPull(q) \/ ServerTx(q)
  BY DEF ServerStep
<1>. QED BY <1>6, <1>7, <1>8, <1>9, <1>10, <1>11, <1>12
-----------------------------------------------------------------------------
(* What the callback of a request makes of a reply to it: only a record     *)
(* leaves it at the head, and of the replies a connection in order sends,   *)
(* only an ignored one, or the failure of a transaction's, is an error.     *)
Tolerated == {"SUCCESS", "FAILURE", "TIMEOUT"}

LEMMA StreamEndTolerates ==
  ASSUME NEW t, NEW type \in Tolerated
  PROVE  stream_end(t, type).rc = 0
<1>1. CASE ~t.connection
  BY <1>1 DEF stream_end, Result, Tolerated, IsFailure
<1>2. CASE t.connection
  BY <1>2 DEF stream_end, Result, Tolerated, IsFailure
<1>. QED BY <1>1, <1>2

LEMMA RunTolerates ==
  ASSUME NEW r, NEW type \in Tolerated
  PROVE  run_callback(r, type).rc = 0
<1>. DEFINE t == [r EXCEPT !.starting = FALSE, !.refcount = @ - 1]
<1>1. CASE ~t.connection
  BY <1>1 DEF run_callback, Result, Tolerated, IsFailure
<1>2. CASE t.connection
  BY <1>2 DEF run_callback, Result, Tolerated, IsFailure
<1>. QED BY <1>1, <1>2

LEMMA CallbackReply ==
  ASSUME NEW h \in Requests, Fits(h), StreamsOK(streams), NEW m \in Messages,
         m.type # "GARBLED", m \notin FinalReplies => h.type = "PULL_ALL"
  PROVE  LET cb == Callback(h, m, streams, txs)
         IN  /\ m \in FinalReplies => cb.rc \in {-1, 0}
             /\ m \notin FinalReplies => cb.rc \in {-1, 1}
             /\ m.type = "RECORD" => cb.rc = 1
             /\ m.type \in Tolerated /\ cb.rc < 0 =>
                  h.type \in TxRequests \/ (h.type = "ACK" /\ m.type # "SUCCESS")
<1>. DEFINE cb == Callback(h, m, streams, txs)
<1>1. m.type \in ReplyTypes \ {"NULL"}
  <2>1. m.type \in KnownReplies
    BY DEF Messages
  <2>. QED BY <2>1 DEF KnownReplies, ReplyTypes
<1>2. m \in FinalReplies <=> m.type \notin {"RECORD", "BADRECORD"}
  BY FinalOrRecord
<1>3. OfStream(h) => Counted(streams[h.of])
  BY DEF Fits, StreamsOK
<1>4. CASE h.type = "RUN"
  <2>. DEFINE c == run_callback(streams[h.of], m.type)
  <2>1. cb.rc = c.rc
    BY <1>4 DEF Callback, Statements, TxRequests
  <2>2. c.rc \in {-1, 0}
    BY <1>1, <1>3, <1>4, RunCallback DEF OfStream
  <2>3. m.type \in Tolerated => c.rc = 0
    BY RunTolerates
  <2>. HIDE DEF c, cb
  <2>. QED BY <1>2, <1>4, <2>1, <2>2, <2>3 DEF cb
<1>5. CASE h.type = "PULL_ALL"
  <2>. DEFINE c == pull_all_callback(streams[h.of], m.type, m.n)
  <2>1. cb.rc = c.rc
    BY <1>5 DEF Callback, Statements, TxRequests
  <2>2. /\ m.type = "RECORD" => c.rc = 1
        /\ m.type = "BADRECORD" => c.rc = -1
        /\ m.type \notin {"RECORD", "BADRECORD"} => c.rc \in {-1, 0}
    BY <1>1, <1>3, <1>5, PullCallback DEF OfStream, Statements
  <2>3. m.type \in Tolerated => c.rc = 0
    BY StreamEndTolerates DEF pull_all_callback, Tolerated
  <2>. HIDE DEF c, cb
  <2>. QED BY <1>2, <2>1, <2>2, <2>3 DEF cb
<1>6. CASE h.type = "DISCARD_ALL"
  <2>. DEFINE c == discard_all_callback(streams[h.of], m.type)
  <2>1. cb.rc = c.rc
    BY <1>6 DEF Callback, Statements, TxRequests
  <2>2. c.rc \in {-1, 0}
    BY <1>1, <1>3, <1>6, DiscardCallback DEF OfStream, Statements
  <2>3. m.type \in Tolerated => c.rc = 0
    BY StreamEndTolerates DEF discard_all_callback, Tolerated
  <2>. HIDE DEF c, cb
  <2>. QED BY <1>2, <1>6, <2>1, <2>2, <2>3 DEF cb
<1>7. CASE h.type \in TxRequests
  <2>1. cb.rc = tx_callback(h.type, txs[h.of], m.type).rc
    BY <1>7 DEF Callback, Statements, TxRequests
  <2>2. tx_callback(h.type, txs[h.of], m.type).rc \in {-1, 0}
    BY <1>1 DEF tx_callback, ReplyTypes
  <2>. HIDE DEF cb
  <2>3. h.type # "PULL_ALL"
    BY <1>7 DEF TxRequests
  <2>. QED BY <1>2, <1>7, <2>1, <2>2, <2>3 DEF cb
<1>8. CASE h.type = "ACK"
  <2>1. cb.rc = IF m.type \in {"SUCCESS", "IGNORED"} THEN 0 ELSE -1
    BY <1>8 DEF Callback, Statements, TxRequests
  <2>. HIDE DEF cb
  <2>. QED BY <1>2, <1>8, <2>1 DEF cb
<1>9. h.type \in {"RUN", "ACK"} \cup Statements \cup TxRequests
  BY DEF Fits, Answerable
<1>. QED BY <1>4, <1>5, <1>6, <1>7, <1>8, <1>9 DEF Statements

(* What is known where a reply is received: the request at the head of the  *)
(* queue is the one it is for, and has a callback.                          *)
LEMMA WindowKnown ==
  ASSUME RefInv
  PROVE  /\ request_queue \in Seq(Requests) /\ Len(request_queue) \in Nat
         /\ inflight_requests \in 0 .. Len(request_queue)
         /\ toServer \in Seq(Requests) /\ toClient \in Seq(Messages)
         /\ pc \in [Actors -> Labels] /\ "app" \in Actors /\ "sig" \in Actors
  BY DEF RefInv, WindowInv, WindowTypes, WindowOK, WireTypes, LockInv, Actors

LEMMA PendingTyped == Pending \in Seq(Requests)
  BY RequestsTyped DEF Pending

LEMMA HeadFits ==
  ASSUME RefInv, Alive, inflight_requests > 0
  PROVE  /\ request_queue # <<>> /\ Head(request_queue) = request_queue[1]
         /\ Head(request_queue) \in Requests /\ Fits(Head(request_queue))
         /\ StreamsOK(streams) /\ 1 \in DOMAIN request_queue
<1>1. /\ request_queue \in Seq(Requests) /\ Len(request_queue) \in Nat
      /\ inflight_requests \in 0 .. Len(request_queue)
  BY WindowKnown
<1>2. /\ 1 \in DOMAIN request_queue /\ request_queue # <<>>
      /\ request_queue[1] \in Requests /\ Head(request_queue) = request_queue[1]
  <2>1. 1 \in 1 .. Len(request_queue) /\ Len(request_queue) # 0
    BY <1>1
  <2>2. 1 \in DOMAIN request_queue /\ request_queue # <<>>
    BY <1>1, <2>1
  <2>3. request_queue[1] \in Requests
    BY <1>1, <2>1, ElementOfSeq
  <2>. QED BY <1>1, <2>2, <2>3
<1>3. /\ Proper(request_queue, pc["app"] = "fill") /\ StreamsOK(streams)
      /\ pc["app"] = "fill" => inflight_requests < Len(request_queue)
  BY DEF RefInv, Knows, Phases, Accounts
<1>4. pc["app"] = "fill" => Len(request_queue) # 1
  <2>. SUFFICES ASSUME pc["app"] = "fill" PROVE Len(request_queue) # 1
    OBVIOUS
  <2>. DEFINE n == Len(request_queue)
              k == inflight_requests
  <2>1. k \in Nat /\ n \in Nat
    BY <1>1
  <2>2. k < n /\ k > 0
    BY <1>3
  <2>. HIDE DEF n, k
  <2>3. n # 1
    BY <2>1, <2>2
  <2>. QED BY <2>3 DEF n
<1>5. Fits(request_queue[1])
  BY <1>2, <1>3, <1>4 DEF Proper, Fits
<1>. QED BY <1>2, <1>3, <1>5

LEMMA FirstOnWire ==
  ASSUME RefInv, Mirrors, inflight_requests > 0
  PROVE  Head(Answered(toClient) \o toServer) = request_queue[1]
<1>1. /\ request_queue \in Seq(Requests) /\ Len(request_queue) \in Nat
      /\ inflight_requests \in 0 .. Len(request_queue)
  BY WindowKnown
<1>. DEFINE w == Window
            p == Pending
            u == w \o p
<1>2. w \in Seq(Requests) /\ Len(w) = inflight_requests /\ w[1] = request_queue[1]
  <2>1. 1 \in 1 .. inflight_requests
    BY <1>1
  <2>. QED BY <1>1, <2>1, FrontOf DEF Window
<1>3. p \in Seq(Requests)
  BY PendingTyped
<1>4. Answered(toClient) \o toServer = u
  BY DEF Mirrors
<1>. HIDE DEF w, p
<1>5. /\ u \in Seq(Requests) /\ Len(u) = Len(w) + Len(p) /\ Len(p) \in Nat
      /\ \A i \in 1 .. Len(w) + Len(p) : u[i] = IF i <= Len(w) THEN w[i] ELSE p[i - Len(w)]
  BY <1>2, <1>3, ConcatProperties, LenProperties
<1>. HIDE DEF u
<1>6. 1 \in 1 .. Len(w) + Len(p) /\ 1 <= Len(w) /\ Len(u) # 0
  BY <1>1, <1>2, <1>5
<1>7. u[1] = request_queue[1] /\ u # <<>>
  BY <1>2, <1>5, <1>6
<1>8. Head(u) = u[1]
  BY <1>5, <1>7
<1>. QED BY <1>4, <1>7, <1>8

LEMMA ReplyIsForHead ==
  ASSUME RefInv, Alive, Mirrors, Records, inflight_requests > 0, toClient # <<>>
  PROVE  Head(toClient).to = Head(request_queue)
<1>1. toServer \in Seq(Requests) /\ toClient \in Seq(Messages)
  BY WindowKnown
<1>2. Head(toClient).to = Head(Answered(toClient) \o toServer)
  BY <1>1, NextReply DEF Records
<1>. QED BY <1>2, HeadFits, FirstOnWire

(* A turn of receive_responses: the wire and the window move together       *)
(* unless the reply is an error.                                            *)
Unexpected(a) == failure[a] /\ Head(toClient).type # "IGNORED"

LEMMA ReceivedReply ==
  ASSUME NEW a \in Actors, RefInv, Alive, Mirrors, Records, inflight_requests > 0, Reply
  PROVE  LET r == Received(a)
             m == Head(toClient)
             h == Head(request_queue)
         IN  /\ m \in Messages /\ m.to = h /\ r.rc \in {-1, 0, 1}
             /\ r.failure = (failure[a] \/ IsFailure(m.type))
             /\ r.rc >= 0 => ~Unexpected(a)
             /\ \/ r.queue = request_queue /\ r.inflight = inflight_requests
                \/ r.queue = Tail(request_queue) /\ r.inflight = inflight_requests - 1
             /\ (m \in FinalReplies \/ r.rc >= 0) /\ ~Unexpected(a) =>
                  Mirror(Tail(toClient), toServer, r.queue, r.inflight, Pending)
             /\ m \in FinalReplies /\ ~Unexpected(a) => r.queue = Tail(request_queue)
             /\ Accepted(m) /\ r.rc < 0 /\ ~r.crash =>
                  \/ Unexpected(a)
                  \/ h.type \in TxRequests /\ m \in FinalReplies
<1>. DEFINE r == Received(a)
            m == Head(toClient)
            h == Head(request_queue)
            cb == Callback(h, m, streams, txs)
<1>1. /\ request_queue \in Seq(Requests) /\ Len(request_queue) \in Nat
      /\ inflight_requests \in 1 .. Len(request_queue)
      /\ toServer \in Seq(Requests) /\ toClient \in Seq(Messages)
  BY WindowKnown
<1>2. h \in Requests /\ Fits(h) /\ StreamsOK(streams)
  BY HeadFits
<1>3. toClient # <<>> /\ m \in Messages /\ m.type # "GARBLED" /\ m = toClient[1]
      /\ 1 \in DOMAIN toClient
  BY <1>1, TailOf DEF Reply, Garbled
<1>4. m.to = h
  BY <1>3, ReplyIsForHead
<1>5. m \notin FinalReplies => h.type = "PULL_ALL"
  BY <1>3, <1>4 DEF Records, ForStatement
<1>. HIDE DEF m, h
<1>6. /\ m \in FinalReplies => cb.rc \in {-1, 0}
      /\ m \notin FinalReplies => cb.rc \in {-1, 1}
      /\ m.type = "RECORD" => cb.rc = 1
      /\ m.type \in Tolerated /\ cb.rc < 0 =>
           h.type \in TxRequests \/ (h.type = "ACK" /\ m.type # "SUCCESS")
  BY <1>2, <1>3, <1>5, CallbackReply
<1>7. /\ r.rc = IF Unexpected(a) THEN -1 ELSE cb.rc
      /\ r.queue = IF ~Unexpected(a) /\ cb.rc <= 0 THEN Tail(request_queue) ELSE request_queue
      /\ r.inflight = IF ~Unexpected(a) /\ cb.rc <= 0 THEN inflight_requests - 1
                      ELSE inflight_requests
      /\ r.failure = (failure[a] \/ IsFailure(m.type))
  BY DEF Received, Pops, InflightAfter, Unexpected, m, h
<1>71. ~Unexpected(a) /\ cb.rc < 0 /\ m.type = "IGNORED" => r.crash
  BY DEF Received, Unexpected, m, h
<1>. HIDE DEF cb, r
<1>8. Mirror(toClient, toServer, request_queue, inflight_requests, Pending)
  BY DEF Mirrors, Mirror, Window
<1>9. CASE m \in FinalReplies
  <2>1. Mirror(Tail(toClient), toServer, Tail(request_queue), inflight_requests - 1, Pending)
    BY <1>1, <1>3, <1>8, <1>9, MirrorReceived, PendingTyped DEF m
  <2>2. ~Unexpected(a) => r.queue = Tail(request_queue) /\ r.inflight = inflight_requests - 1
    BY <1>6, <1>7, <1>9
  <2>3. Accepted(m) /\ r.rc < 0 /\ ~r.crash => Unexpected(a) \/ h.type \in TxRequests
    <3>. SUFFICES ASSUME Accepted(m), r.rc < 0, ~r.crash, ~Unexpected(a)
                  PROVE  h.type \in TxRequests
      OBVIOUS
    <3>1. cb.rc < 0 /\ m.type # "IGNORED" /\ m.type # "RECORD"
      <4>1. cb.rc < 0
        BY <1>7
      <4>2. m.type # "IGNORED"
        BY <1>71, <4>1
      <4>. QED BY <1>6, <4>1, <4>2
    <3>2. m.type \in Tolerated
      BY <3>1 DEF Accepted, Tolerated
    <3>3. h.type = "ACK" => m.type = "SUCCESS"
      BY <1>4 DEF Accepted, IsReset
    <3>. QED BY <1>6, <3>1, <3>2, <3>3
  <2>4. r.rc >= 0 => ~Unexpected(a)
    BY <1>7
  <2>5. /\ m \in Messages /\ m.to = h /\ r.rc \in {-1, 0, 1}
        /\ r.failure = (failure[a] \/ IsFailure(m.type))
        /\ \/ r.queue = request_queue /\ r.inflight = inflight_requests
           \/ r.queue = Tail(request_queue) /\ r.inflight = inflight_requests - 1
    BY <1>3, <1>4, <1>6, <1>7
  <2>. QED BY <1>9, <2>1, <2>2, <2>3, <2>4, <2>5 DEF r, m, h
<1>10. CASE m \notin FinalReplies
  <2>1. Mirror(Tail(toClient), toServer, request_queue, inflight_requests, Pending)
    BY <1>1, <1>3, <1>8, <1>10, MirrorRecord DEF m
  <2>2. r.rc >= 0 => ~Unexpected(a) /\ r.queue = request_queue /\ r.inflight = inflight_requests
    BY <1>6, <1>7, <1>10
  <2>3. Accepted(m) /\ r.rc < 0 => Unexpected(a)
    <3>. SUFFICES ASSUME Accepted(m), ~Unexpected(a) PROVE r.rc = 1
      OBVIOUS
    <3>1. m.type = "RECORD"
      BY <1>3, <1>10, FinalOrRecord DEF Accepted
    <3>. QED BY <1>6, <1>7, <3>1
  <2>4. /\ m \in Messages /\ m.to = h /\ r.rc \in {-1, 0, 1}
        /\ r.failure = (failure[a] \/ IsFailure(m.type))
        /\ \/ r.queue = request_queue /\ r.inflight = inflight_requests
           \/ r.queue = Tail(request_queue) /\ r.inflight = inflight_requests - 1
    BY <1>3, <1>4, <1>6, <1>7
  <2>. QED BY <1>10, <2>1, <2>2, <2>3, <2>4 DEF r, m, h
<1>. QED BY <1>9, <1>10
-----------------------------------------------------------------------------
(* Steps of the program that leave the wire and the window alone.           *)
Still == UNCHANGED <<request_queue, inflight_requests, toServer, toClient, server,
                     reset_requested, resets>>
Aside == {"idle", "run", "run_unlock", "pull", "pull_unlock", "start", "abandon", "free",
          "alloc", "fill", "enter", "lock", "loop", "send", "exit", "unlock",
          "unlock_ack", "done", "cend", "crashed"}
NoSpecial == \A i \in DOMAIN request_queue : request_queue[i].type \notin Special

LEMMA WireStill ==
  ASSUME Mirrors, Records, Still
  PROVE  Mirrors' /\ Records'
  BY DEF Still, Mirrors, Window, Pending, Records

LEMMA WiredAside ==
  ASSUME Wired, Still, pc["sig"] = "idle", pc'["sig"] = "idle", pc'["app"] \in Aside,
         failure' = failure \/ failure' = [failure EXCEPT !["app"] = FALSE]
  PROVE  Wired'
<1>1. Mirrors' /\ Records'
  BY WireStill DEF Wired
<1>2. \A a \in Actors : pc'[a] \notin {"reply", "rrecv", "rfinal", "crecv", "xmit"}
  BY DEF Actors, Aside
<1>3. Resets'
  <2>1. resets \in 0 .. MaxResets
    BY DEF Wired, Resets
  <2>2. reset_requested => resets >= 1 /\ Once
    BY DEF Wired, Resets, SigHolds
  <2>3. pc'["app"] # "xmit"
    BY <1>2 DEF Actors
  <2>. QED BY <1>2, <2>1, <2>2, <2>3 DEF Resets, Still, Once
<1>4. Signals => InOrder'
  BY <1>2 DEF Wired, InOrder, Still, Refusing
<1>. QED BY <1>1, <1>3, <1>4 DEF Wired, Signals, Once

\* The program enters the loop of receive_responses.
LEMMA WiredReading ==
  ASSUME Wired, Still, pc["sig"] = "idle", pc'["sig"] = "idle",
         pc'["app"] \in {"reply", "crecv", "rrecv", "rfinal"},
         pc'["app"] \in {"rrecv", "rfinal"} => reset_requested,
         pc'["app"] = "rfinal" => inflight_requests = 0,
         failure' = [failure EXCEPT !["app"] = FALSE]
  PROVE  Wired'
<1>1. Mirrors' /\ Records'
  BY WireStill DEF Wired
<1>2. Resets'
  <2>1. resets \in 0 .. MaxResets /\ (reset_requested => resets >= 1 /\ Once)
    BY DEF Wired, Resets, SigHolds
  <2>2. \A a \in Actors : a = "sig" \/ a = "app"
    BY DEF Actors
  <2>. QED BY <2>1, <2>2 DEF Resets, Still, Once
<1>3. DOMAIN failure = Actors =>
        DOMAIN failure' = Actors /\ \A a \in Actors : failure'[a] => pc'[a] = "idle"
  BY DEF Actors
<1>4. Signals => InOrder'
  BY <1>3 DEF Wired, InOrder, Still, Refusing
<1>. QED BY <1>1, <1>2, <1>4 DEF Wired, Signals, Once

LEMMA AloneSpecial ==
  ASSUME Alone, call.cond # "none" \/ pc["app"] \notin Transacting
  PROVE  NoSpecial
  BY DEF Alone, NoSpecial

(* Where the program has no request of the special kinds, it has none next, *)
(* and may take its call to any point that does not ask for more.           *)
LEMMA AlonePlain ==
  ASSUME NoSpecial, request_queue' = request_queue,
         pc'["app"] \notin {"alloc", "fill", "unlock_ack"},
         pc'["app"] \in Opening \cup {"enter", "lock", "exit"} => call'.cond # "none"
  PROVE  Alone'
<1>1. \A i \in DOMAIN request_queue' : request_queue'[i].type \notin Special
  BY DEF NoSpecial
<1>2. pc'["app"] \in Opening => call'.cond # "none"
  OBVIOUS
<1>3. pc'["app"] \in {"enter", "lock", "exit"} => call'.cond # "none"
  OBVIOUS
<1>. QED BY <1>1, <1>2, <1>3 DEF Alone

(* What the program starts.                                                 *)
LEMMA WireCalled ==
  ASSUME Wired, Signals => Alone, pc \in [Actors -> Labels], At("idle"), Still,
         UNCHANGED failure, call \in Calling, NEW label, NEW c,
         pc' = [pc EXCEPT !["app"] = label], call' = c,
         \/ label = "enter" /\ c.cond # "none"
         \/ label = "run" /\ c.cond # "none"
         \/ label = "alloc" /\ c.cond = "none" /\ c.fill.type # "ACK"
         \/ label \in {"free", "idle"}
  PROVE  Wired' /\ (Signals => Alone')
<1>1. pc["sig"] = "idle" /\ pc'["sig"] = "idle" /\ pc'["app"] = label /\ pc["app"] = "idle"
  BY DEF At, Actors
<1>2. label \in {"enter", "run", "alloc", "free", "idle"}
  OBVIOUS
<1>3. Wired'
  BY <1>1, <1>2, WiredAside DEF Aside
<1>4. ASSUME Signals PROVE Alone'
  <2>1. NoSpecial
    BY <1>1, <1>4, AloneSpecial DEF Transacting
  <2>2. CASE label # "alloc"
    <3>1. /\ label \notin {"alloc", "fill", "unlock_ack"}
          /\ label \in Opening \cup {"enter", "lock", "exit"} => c.cond # "none"
      BY <1>2, <2>2 DEF Opening
    <3>. QED BY <1>1, <2>1, <3>1, AlonePlain DEF Still
  <2>3. CASE label = "alloc"
    <3>1. c.cond = "none" /\ c.fill.type # "ACK"
      BY <2>3
    <3>2. \A i \in DOMAIN request_queue' : request_queue'[i].type \notin Special
      BY <2>1 DEF NoSpecial, Still
    <3>. QED BY <1>1, <2>3, <3>1, <3>2 DEF Alone, Opening
  <2>. QED BY <2>2, <2>3
<1>. QED BY <1>3, <1>4

LEMMA WireStart ==
  ASSUME RefInv, Alive, Wired, Signals => Alone, Start, ~closed', Alive'
  PROVE  Wired' /\ (Signals => Alone')
<1>0. pc \in [Actors -> Labels] /\ call \in Calling /\ pc = [pc EXCEPT !["app"] = pc["app"]]
  BY DEF RefInv, WindowInv, LockInv, WindowTypes
<1>1. /\ \A c : Enter("enter", c) => pc' = [pc EXCEPT !["app"] = "enter"] /\ call' = c
      /\ \A c : Enter("alloc", c) => pc' = [pc EXCEPT !["app"] = "alloc"] /\ call' = c
      /\ \A c : Enter("run", c) => pc' = [pc EXCEPT !["app"] = "run"] /\ call' = c
      /\ \A c : Enter("free", c) => pc' = [pc EXCEPT !["app"] = "free"] /\ call' = c
  BY DEF Enter, Goto
<1>2. unchangedByCall' = unchangedByCall => Still /\ UNCHANGED failure
  BY DEF unchangedByCall, wireVars, Still
<1>3. At("idle") /\ Still /\ UNCHANGED <<failure, pc, call>> => Wired' /\ (Signals => Alone')
  <2>. SUFFICES ASSUME At("idle"), Still, UNCHANGED <<failure, pc, call>>
                PROVE  Wired' /\ (Signals => Alone')
    OBVIOUS
  <2>1. pc' = [pc EXCEPT !["app"] = "idle"]
    BY <1>0 DEF At
  <2>. QED BY <1>0, <2>1, WireCalled
<1>4. ASSUME NEW s \in Streams, NEW kind \in Statements, NEW t \in Txs \cup {None},
             run_open(s, kind, t)
      PROVE  Wired' /\ (Signals => Alone')
  <2>1. At("idle") /\ Still /\ UNCHANGED failure
    BY <1>2, <1>4 DEF run_open, Calls
  <2>2. CASE failed
    BY <1>3, <1>4, <2>1, <2>2 DEF run_open
  <2>3. CASE ~failed
    <3>. DEFINE c == [Idle EXCEPT !.op = "run", !.rs = s, !.tx = t,
                                  !.kind = kind, !.cond = "starting"]
    <3>1. Enter("run", c)
      BY <1>4, <2>3 DEF run_open
    <3>2. c.cond # "none"
      BY DEF Idle
    <3>. HIDE DEF c
    <3>. QED BY <1>0, <1>1, <2>1, <3>1, <3>2, WireCalled
  <2>. QED BY <2>2, <2>3
<1>5. ASSUME NEW s \in Streams, close_results(s)
      PROVE  Wired' /\ (Signals => Alone')
  <2>. DEFINE c == [Idle EXCEPT !.op = "close_rs", !.rs = s]
              d == [c EXCEPT !.cond = "refcount"]
  <2>1. At("idle") /\ Still /\ UNCHANGED failure
    BY <1>2, <1>5 DEF close_results
  <2>2. Enter("enter", d) \/ Enter("free", d)
    BY <1>5 DEF close_results, run_rs_close
  <2>3. d.cond # "none"
    BY DEF Idle
  <2>. HIDE DEF d
  <2>4. CASE Enter("enter", d)
    BY <1>0, <1>1, <2>1, <2>3, <2>4, WireCalled
  <2>5. CASE Enter("free", d)
    BY <1>0, <1>1, <2>1, <2>5, WireCalled
  <2>. QED BY <2>2, <2>4, <2>5
<1>6. ASSUME NEW s \in Streams, check_failure(s) \/ consume(s) \/ peek(s) \/ fetch_next(s)
      PROVE  Wired' /\ (Signals => Alone')
  <2>1. At("idle") /\ Still /\ UNCHANGED failure
    BY <1>2, <1>6 DEF check_failure, consume, peek, fetch_next, Calls
  <2>. DEFINE Waiting(op, cond) == [Idle EXCEPT !.op = op, !.rs = s, !.cond = cond]
              c == Waiting("check", "starting")
              d == Waiting("consume", "streaming")
              f == Waiting("fetch", "awaiting_records")
              p == Waiting("peek", "awaiting_records")
  <2>2. \/ UNCHANGED <<pc, call>>
        \/ Enter("enter", c) \/ Enter("enter", d) \/ Enter("enter", f) \/ Enter("enter", p)
    BY <1>0, <1>6, NotCrashing DEF check_failure, consume, peek, fetch_next, AwaitRecords
  <2>3. c.cond # "none" /\ d.cond # "none" /\ f.cond # "none" /\ p.cond # "none"
    BY DEF Idle
  <2>4. CASE UNCHANGED <<pc, call>>
    BY <1>3, <2>1, <2>4
  <2>. HIDE DEF c, d, f, p
  <2>5. ASSUME NEW e, Enter("enter", e), e.cond # "none"
        PROVE  Wired' /\ (Signals => Alone')
    BY <1>0, <1>1, <2>1, <2>5, WireCalled
  <2>. QED BY <2>2, <2>3, <2>4, <2>5
<1>7. ASSUME NEW t \in Txs, begin_tx(t) \/ tx_commit(t) \/ tx_rollback(t)
      PROVE  Wired' /\ (Signals => Alone')
  <2>1. At("idle") /\ Still /\ UNCHANGED failure
    BY <1>2, <1>7 DEF begin_tx, tx_commit, tx_rollback, Calls, Still
  <2>. DEFINE Ending(op, type) ==
                [Idle EXCEPT !.op = op, !.tx = t, !.fill = Request(type, t, t)]
              b == Ending("begin", "BEGIN")
              c == Ending("commit", "COMMIT")
              d == Ending("rollback", "ROLLBACK")
              Unacknowledging(e) == e.cond = "none" /\ e.fill.type # "ACK"
  <2>2. Enter("alloc", b) \/ Enter("alloc", c) \/ Enter("alloc", d)
    BY <1>7 DEF begin_tx, tx_commit, tx_rollback
  <2>3. Unacknowledging(b) /\ Unacknowledging(c) /\ Unacknowledging(d)
    BY DEF Idle, Request
  <2>. HIDE DEF b, c, d
  <2>4. ASSUME NEW e, Enter("alloc", e), Unacknowledging(e)
        PROVE  Wired' /\ (Signals => Alone')
    BY <1>0, <1>1, <2>1, <2>4, WireCalled
  <2>. QED BY <2>2, <2>3, <2>4
<1>8. ASSUME NEW t \in Txs, free_tx(t)
      PROVE  Wired' /\ (Signals => Alone')
  BY <1>2, <1>3, <1>8 DEF free_tx
<1>9. ASSUME close_start
      PROVE  Wired' /\ (Signals => Alone')
  <2>1. /\ pc["app"] = "idle" /\ pc["sig"] = "idle" /\ Still
        /\ failure' = [failure EXCEPT !["app"] = FALSE]
        /\ \/ pc' = [pc EXCEPT !["app"] = "crecv"]
           \/ pc' = [pc EXCEPT !["app"] = "cend"]
    BY <1>9 DEF close_start, At, Goto, Still, wireVars
  <2>2. pc'["app"] \in {"crecv", "cend"} /\ pc'["sig"] = "idle"
    BY <1>0, <2>1 DEF Actors
  <2>3. Wired'
    <3>1. CASE pc'["app"] = "cend"
      BY <2>1, <2>2, <3>1, WiredAside DEF Aside
    <3>2. CASE pc'["app"] = "crecv"
      BY <2>1, <2>2, <3>2, WiredReading
    <3>. QED BY <2>2, <3>1, <3>2
  <2>4. ASSUME Signals PROVE Alone'
    <3>1. NoSpecial
      BY <2>1, <2>4, AloneSpecial DEF Transacting
    <3>. QED BY <2>1, <2>2, <3>1, AlonePlain DEF Opening, Still
  <2>. QED BY <2>3, <2>4
<1>. QED BY <1>4, <1>5, <1>6, <1>7, <1>8, <1>9 DEF Start
-----------------------------------------------------------------------------
(* What session_sync does between what it sends and receives.               *)
LEMMA AloneKept ==
  ASSUME Alone, UNCHANGED <<request_queue, inflight_requests, call>>,
         pc["app"] \in Transacting, pc'["app"] \in Transacting \ {"enter"},
         pc'["app"] = "lock" => pc["app"] = "enter" /\ (call.cond = "none" => ~failed'),
         pc'["app"] = "exit" /\ call.cond = "none" => reset_requested' \/ request_queue = <<>>
  PROVE  Alone'
<1>1. ASSUME NEW i \in DOMAIN request_queue, request_queue[i].type \in Special
      PROVE  /\ i = Len(request_queue)
             /\ call.cond = "none" /\ pc'["app"] \in Transacting
             /\ pc'["app"] \in {"enter", "lock"} => inflight_requests < i
             /\ request_queue[i].type = "ACK" => i = 1
  BY <1>1 DEF Alone
<1>2. pc'["app"] \notin {"alloc", "fill", "enter", "unlock_ack"} /\ pc'["app"] \notin Opening
  BY DEF Transacting, Opening
<1>3. pc'["app"] = "lock" /\ call.cond = "none" => ~failed'
  OBVIOUS
<1>. QED BY <1>1, <1>2, <1>3 DEF Alone

LEMMA WireQuiet ==
  ASSUME RefInv, Alive, Wired, Signals => Alone,
         \/ sync_enter \/ sync_lock \/ sync_loop \/ send_requests
         \/ sync_exit \/ sync_unlock \/ sync_unlock_ack
  PROVE  Wired' /\ (Signals => Alone')
<1>. DEFINE Step(label) == pc' = [pc EXCEPT !["app"] = label]
<1>0. pc \in [Actors -> Labels] /\ call \in Calling
  BY DEF RefInv, WindowInv, LockInv, WindowTypes
<1>1. \A label : Step(label) => pc'["app"] = label /\ pc'["sig"] = pc["sig"]
  BY <1>0 DEF Actors
<1>2. {"enter", "lock", "loop", "reply", "send", "xmit", "exit", "rrecv", "rfinal"} = Transacting
      /\ {"done", "unlock", "unlock_ack", "alloc"} \cap Transacting = {}
  BY DEF Transacting
<1>. HIDE DEF Step
<1>3. CASE sync_enter
  <2>1. At("enter") /\ Still /\ UNCHANGED <<failure, failed, call>>
    BY <1>3 DEF sync_enter, connVars, wireVars, Still
  <2>2. \/ Step("done")
        \/ Step("lock") /\ ~failed
    BY <1>3 DEF sync_enter, Return, Goto, Step
  <2>3. pc["app"] = "enter" /\ pc["sig"] = "idle"
    BY <2>1 DEF At
  <2>4. Wired'
    BY <1>1, <2>1, <2>2, <2>3, WiredAside DEF Aside
  <2>5. ASSUME Signals, Step("lock"), ~failed PROVE Alone'
    BY <1>1, <1>2, <2>1, <2>3, <2>5, AloneKept DEF Still
  <2>6. ASSUME Signals, Step("done"), ~(Step("lock") /\ ~failed) PROVE Alone'
    <3>1. failed \/ call.cond # "none"
      BY <1>3, <2>6 DEF sync_enter, Goto, Step
    <3>2. NoSpecial
      <4>1. call.cond # "none"
        BY <2>3, <2>6, <3>1 DEF Alone
      <4>. QED BY <2>6, <4>1, AloneSpecial
    <3>. QED BY <1>1, <2>1, <2>6, <3>2, AlonePlain DEF Still, Opening
  <2>. QED BY <2>2, <2>4, <2>5, <2>6
<1>4. CASE sync_lock
  <2>1. At("lock") /\ Still /\ UNCHANGED <<failure, failed, call>>
    BY <1>4 DEF sync_lock, wireVars, Still
  <2>2. pc["app"] = "lock" /\ pc["sig"] = "idle"
    BY <2>1 DEF At
  <2>3. ~processing
    BY <2>2 DEF RefInv, WindowInv, LockInv, LockOwned, AppHolds, SigHolds
  <2>4. Step("loop")
    BY <1>4, <2>3 DEF sync_lock, Goto, Step
  <2>5. Wired'
    BY <1>1, <2>1, <2>2, <2>4, WiredAside DEF Aside
  <2>6. ASSUME Signals PROVE Alone'
    BY <1>1, <1>2, <2>1, <2>2, <2>4, <2>6, AloneKept DEF Still
  <2>. QED BY <2>5, <2>6
<1>5. CASE sync_loop
  <2>1. At("loop") /\ Still /\ UNCHANGED <<failed, call>> /\ failure' = [failure EXCEPT !["app"] = FALSE]
    BY <1>5 DEF sync_loop, connVars, wireVars, Still
  <2>2. pc["app"] = "loop" /\ pc["sig"] = "idle"
    BY <2>1 DEF At
  <2>3. \/ Step("reply") \/ Step("send")
        \/ Step("exit") /\ ~MoreToDo
    BY <1>5 DEF sync_loop, Goto, Step
  <2>4. Wired'
    <3>1. CASE Step("reply")
      BY <1>1, <2>1, <2>2, <3>1, WiredReading
    <3>2. CASE ~Step("reply")
      BY <1>1, <2>1, <2>2, <2>3, <3>2, WiredAside DEF Aside
    <3>. QED BY <3>1, <3>2
  <2>5. ASSUME Signals PROVE Alone'
    <3>1. call.cond = "none" /\ ~MoreToDo => reset_requested \/ request_queue = <<>>
      BY DEF MoreToDo, CondHolds
    <3>2. pc'["app"] = "exit" /\ call.cond = "none" => reset_requested' \/ request_queue = <<>>
      BY <1>1, <2>1, <2>3, <3>1 DEF Still
    <3>3. pc'["app"] \in Transacting \ {"enter"} /\ pc'["app"] # "lock"
      BY <1>1, <1>2, <2>3
    <3>. QED BY <1>2, <2>1, <2>2, <2>5, <3>2, <3>3, AloneKept DEF Still
  <2>. QED BY <2>4, <2>5
<1>6. CASE send_requests
  <2>1. At("send") /\ Still /\ UNCHANGED <<failure, failed, call>>
    BY <1>6 DEF send_requests, connVars, wireVars, Still
  <2>2. pc["app"] = "send" /\ pc["sig"] = "idle"
    BY <2>1 DEF At
  <2>3. \/ Step("xmit") /\ ~reset_requested
        \/ Step("loop")
    BY <1>6 DEF send_requests, Goto, Step
  <2>4. Wired'
    <3>1. CASE Step("loop")
      BY <1>1, <2>1, <2>2, <3>1, WiredAside DEF Aside
    <3>2. CASE Step("xmit") /\ ~reset_requested
      <4>1. pc'["app"] = "xmit" /\ pc'["sig"] = "idle" /\ ~reset_requested'
        BY <1>1, <2>1, <2>2, <3>2 DEF Still
      <4>2. Mirrors' /\ Records'
        BY <2>1, WireStill DEF Wired
      <4>3. \A a \in Actors : pc'[a] \notin {"reply", "rrecv", "rfinal", "crecv"}
        BY <4>1 DEF Actors
      <4>4. resets' \in 0 .. MaxResets
        BY <2>1 DEF Wired, Resets, Still
      <4>5. Resets'
        BY <4>1, <4>3, <4>4 DEF Resets
      <4>6. Signals => InOrder'
        BY <2>1, <4>3 DEF Wired, InOrder, Still, Refusing
      <4>. QED BY <4>2, <4>5, <4>6 DEF Wired, Signals, Once
    <3>. QED BY <2>3, <3>1, <3>2
  <2>5. ASSUME Signals PROVE Alone'
    <3>1. pc'["app"] \in Transacting \ {"enter"} /\ pc'["app"] \notin {"lock", "exit"}
      BY <1>1, <1>2, <2>3
    <3>. QED BY <1>2, <2>1, <2>2, <2>5, <3>1, AloneKept DEF Still
  <2>. QED BY <2>4, <2>5
<1>7. CASE sync_exit
  <2>1. At("exit") /\ Still /\ UNCHANGED <<failed, call>>
    BY <1>7 DEF sync_exit, wireVars, Still
  <2>2. pc["app"] = "exit" /\ pc["sig"] = "idle"
    BY <2>1 DEF At
  <2>3. \/ /\ reset_requested /\ failure' = [failure EXCEPT !["app"] = FALSE]
           /\ Step(ResetFrom)
        \/ ~reset_requested /\ failure' = failure /\ Step("unlock")
    BY <1>7 DEF sync_exit, Goto, Step
  <2>4. ResetFrom \in {"rrecv", "rfinal"} /\ (ResetFrom = "rfinal" => inflight_requests = 0)
    <3>1. inflight_requests \in Nat
      BY DEF RefInv, WindowInv, WindowTypes
    <3>. QED BY <3>1 DEF ResetFrom
  <2>5. CASE reset_requested
    <3>1. /\ pc'["app"] = ResetFrom /\ pc'["sig"] = "idle"
          /\ failure' = [failure EXCEPT !["app"] = FALSE]
      BY <1>1, <2>2, <2>3, <2>5
    <3>2. Wired'
      BY <2>1, <2>2, <2>4, <2>5, <3>1, WiredReading
    <3>3. ASSUME Signals PROVE Alone'
      <4>1. pc'["app"] \in Transacting \ {"enter"} /\ pc'["app"] \notin {"lock", "exit"}
        BY <1>2, <2>4, <3>1
      <4>. QED BY <1>2, <2>1, <2>2, <3>3, <4>1, AloneKept DEF Still
    <3>. QED BY <3>2, <3>3
  <2>6. CASE ~reset_requested
    <3>1. pc'["app"] = "unlock" /\ pc'["sig"] = "idle" /\ failure' = failure
      BY <1>1, <2>2, <2>3, <2>6
    <3>2. Wired'
      BY <2>1, <2>2, <3>1, WiredAside DEF Aside
    <3>3. ASSUME Signals PROVE Alone'
      <4>1. NoSpecial
        <5>1. CASE call.cond = "none"
          <6>1. request_queue = <<>>
            BY <2>2, <2>6, <3>3, <5>1 DEF Alone
          <6>. QED BY <6>1 DEF NoSpecial
        <5>2. CASE call.cond # "none"
          BY <3>3, <5>2, AloneSpecial
        <5>. QED BY <5>1, <5>2
      <4>. QED BY <2>1, <3>1, <4>1, AlonePlain DEF Still, Opening
    <3>. QED BY <3>2, <3>3
  <2>. QED BY <2>5, <2>6
<1>8. CASE sync_unlock
  <2>1. At("unlock") /\ Still /\ UNCHANGED <<failure, failed, call>> /\ Step("done")
    BY <1>8 DEF sync_unlock, wireVars, Still, Goto, Step
  <2>2. pc["app"] = "unlock" /\ pc["sig"] = "idle" /\ pc'["app"] = "done" /\ pc'["sig"] = "idle"
    BY <1>1, <2>1 DEF At
  <2>3. Wired'
    BY <2>1, <2>2, WiredAside DEF Aside
  <2>4. ASSUME Signals PROVE Alone'
    <3>1. NoSpecial
      BY <1>2, <2>2, <2>4, AloneSpecial
    <3>. QED BY <2>1, <2>2, <3>1, AlonePlain DEF Still, Opening
  <2>. QED BY <2>3, <2>4
<1>9. CASE sync_unlock_ack
  <2>1. /\ At("unlock_ack") /\ Still /\ UNCHANGED <<failure, failed>> /\ Step("alloc")
        /\ call' = [call EXCEPT !.cond = "none", !.fill = Ack]
    BY <1>9 DEF sync_unlock_ack, wireVars, Still, Goto, Step
  <2>2. /\ pc["app"] = "unlock_ack" /\ pc["sig"] = "idle"
        /\ pc'["app"] = "alloc" /\ pc'["sig"] = "idle"
    BY <1>1, <2>1 DEF At
  <2>3. Wired'
    BY <2>1, <2>2, WiredAside DEF Aside
  <2>4. ASSUME Signals PROVE Alone'
    <3>1. request_queue' = <<>>
      BY <2>1, <2>2, <2>4 DEF Alone, Still
    <3>2. call'.cond = "none"
      BY <1>0, <2>1 DEF Calling
    <3>. QED BY <2>2, <3>1, <3>2 DEF Alone, Opening
  <2>. QED BY <2>3, <2>4
<1>. QED BY <1>3, <1>4, <1>5, <1>6, <1>7, <1>8, <1>9
-----------------------------------------------------------------------------
(* Requests that are queued, or populated, are not in flight yet.           *)
LEMMA WiredGrown ==
  ASSUME RefInv, Wired, pc["sig"] = "idle", pc'["sig"] = "idle", pc'["app"] \in Aside,
         UNCHANGED <<inflight_requests, toServer, toClient, server, reset_requested,
                     resets, failure>>,
         request_queue' \in Seq(Requests), Len(request_queue) <= Len(request_queue'),
         \A i \in 1 .. inflight_requests : request_queue'[i] = request_queue[i]
  PROVE  Wired'
<1>1. Mirrors'
  <2>1. /\ request_queue \in Seq(Requests) /\ inflight_requests \in 0 .. Len(request_queue)
        /\ Len(request_queue) \in Nat /\ Len(request_queue') \in Nat
    BY WindowKnown, LenProperties
  <2>2. inflight_requests <= Len(request_queue')
    BY <2>1
  <2>3. SubSeq(request_queue', 1, inflight_requests) = SubSeq(request_queue, 1, inflight_requests)
    BY <2>1, <2>2, SameFront
  <2>4. Window' = Window
    BY <2>3 DEF Window
  <2>5. Pending' = Pending
    BY DEF Pending
  <2>6. Answered(toClient) \o toServer = Window \o Pending
    BY DEF Wired, Mirrors
  <2>. QED BY <2>4, <2>5, <2>6 DEF Mirrors
<1>2. Records'
  BY DEF Wired, Records
<1>3. \A a \in Actors : pc'[a] \notin {"reply", "rrecv", "rfinal", "crecv", "xmit"}
  BY DEF Actors, Aside
<1>4. Resets'
  <2>1. resets \in 0 .. MaxResets /\ (reset_requested => resets >= 1 /\ Once)
    BY DEF Wired, Resets, SigHolds
  <2>2. pc'["app"] # "xmit"
    BY <1>3 DEF Actors
  <2>. QED BY <1>3, <2>1, <2>2 DEF Resets, Once
<1>5. Signals => InOrder'
  BY <1>3 DEF Wired, InOrder, Refusing
<1>. QED BY <1>1, <1>2, <1>4, <1>5 DEF Wired, Signals, Once

LEMMA WiredAppended ==
  ASSUME RefInv, Wired, pc["sig"] = "idle", pc'["sig"] = "idle", pc'["app"] \in Aside,
         UNCHANGED <<inflight_requests, toServer, toClient, server, reset_requested,
                     resets, failure>>,
         NEW x \in Requests, request_queue' = Append(request_queue, x)
  PROVE  Wired'
<1>1. /\ request_queue \in Seq(Requests) /\ inflight_requests \in 0 .. Len(request_queue)
      /\ Len(request_queue) \in Nat
  BY WindowKnown
<1>2. /\ request_queue' \in Seq(Requests) /\ Len(request_queue') = Len(request_queue) + 1
      /\ \A i \in 1 .. Len(request_queue) : request_queue'[i] = request_queue[i]
  BY <1>1, AppendProperties
<1>3. /\ \A i \in 1 .. inflight_requests : i \in 1 .. Len(request_queue)
      /\ Len(request_queue) <= Len(request_queue')
  BY <1>1, <1>2
<1>. QED BY <1>2, <1>3, WiredGrown

LEMMA NoSpecialAppended ==
  ASSUME request_queue \in Seq(Requests), NoSpecial, NEW x \in Requests,
         x.type \notin Special, request_queue' = Append(request_queue, x)
  PROVE  NoSpecial'
<1>1. /\ DOMAIN request_queue' = 1 .. Len(request_queue) + 1
      /\ DOMAIN request_queue = 1 .. Len(request_queue) /\ Len(request_queue) \in Nat
      /\ request_queue'[Len(request_queue) + 1] = x
      /\ \A i \in 1 .. Len(request_queue) : request_queue'[i] = request_queue[i]
  BY AppendProperties
<1>2. \A i \in 1 .. Len(request_queue) + 1 :
        i \in 1 .. Len(request_queue) \/ i = Len(request_queue) + 1
  BY <1>1
<1>. QED BY <1>1, <1>2 DEF NoSpecial

\* What AlonePlain asks, of the queue as it is after the step.
LEMMA AloneAfter ==
  ASSUME NoSpecial', pc'["app"] \notin {"alloc", "fill", "unlock_ack"},
         pc'["app"] \in Opening \cup {"enter", "lock", "exit"} => call'.cond # "none"
  PROVE  Alone'
<1>1. \A i \in DOMAIN request_queue' : request_queue'[i].type \notin Special
  BY DEF NoSpecial
<1>2. pc'["app"] \in Opening => call'.cond # "none"
  OBVIOUS
<1>3. pc'["app"] \in {"enter", "lock", "exit"} => call'.cond # "none"
  OBVIOUS
<1>. QED BY <1>1, <1>2, <1>3 DEF Alone

LEMMA WireNewRequest ==
  ASSUME RefInv, Alive, Wired, Signals => Alone, new_request
  PROVE  Wired' /\ (Signals => Alone')
<1>. DEFINE Step(label) == pc' = [pc EXCEPT !["app"] = label]
<1>0. pc \in [Actors -> Labels] /\ request_queue \in Seq(Requests) /\ Len(request_queue) \in Nat
  BY DEF RefInv, WindowInv, LockInv, WindowTypes
<1>1. \A label : Step(label) => pc'["app"] = label /\ pc'["sig"] = pc["sig"]
  BY <1>0 DEF Actors
<1>. HIDE DEF Step
<1>2. /\ pc["app"] = "alloc" /\ pc["sig"] = "idle"
      /\ UNCHANGED <<inflight_requests, toServer, toClient, server, reset_requested,
                     resets, failure, call, failed>>
  BY DEF new_request, At, wireVars
<1>3. Signals => NoSpecial
  BY <1>2, AloneSpecial DEF Transacting
<1>4. Blank \in Requests /\ Blank.type = "BLANK"
  BY RequestsTyped DEF Blank, Request
<1>5. \/ /\ ~failed /\ request_queue' = Append(request_queue, Blank) /\ Step("fill")
      \/ request_queue' = request_queue /\ Step("done")
  BY DEF new_request, CanQueue, Queue, Return, Goto, Blank, Step
<1>6. CASE request_queue' = request_queue /\ Step("done")
  <2>1. pc'["app"] = "done" /\ pc'["sig"] = "idle" /\ Still
    BY <1>1, <1>2, <1>6 DEF Still
  <2>2. Wired'
    BY <1>2, <2>1, WiredAside DEF Aside
  <2>3. Signals => Alone'
    BY <1>3, <1>6, <2>1, AlonePlain DEF Opening
  <2>. QED BY <2>2, <2>3
<1>7. CASE ~failed /\ request_queue' = Append(request_queue, Blank) /\ Step("fill")
  <2>1. pc'["app"] = "fill" /\ pc'["sig"] = "idle"
    BY <1>1, <1>2, <1>7
  <2>2. Wired'
    BY <1>2, <1>4, <1>7, <2>1, WiredAppended DEF Aside
  <2>3. ASSUME Signals PROVE Alone'
    <3>1. \A i \in DOMAIN request_queue' : request_queue'[i].type \notin Special
      <4>1. Blank.type \notin Special
        BY <1>4 DEF Special, TxRequests
      <4>2. NoSpecial'
        BY <1>0, <1>3, <1>4, <1>7, <2>3, <4>1, NoSpecialAppended
      <4>. QED BY <4>2 DEF NoSpecial
    <3>2. call.cond = "none" /\ (call.fill.type = "ACK" => request_queue = <<>>)
      BY <1>2, <2>3 DEF Alone
    <3>3. call.fill.type = "ACK" => Len(request_queue') = 1
      <4>1. Len(<<>>) = 0 /\ Len(request_queue') = Len(request_queue) + 1
        BY <1>0, <1>4, <1>7, QueueOperations
      <4>. QED BY <3>2, <4>1
    <3>. QED BY <1>2, <1>7, <2>1, <3>1, <3>2, <3>3 DEF Alone, Opening
  <2>. QED BY <2>2, <2>3
<1>. QED BY <1>5, <1>6, <1>7

LEMMA WirePopulate ==
  ASSUME RefInv, Alive, Wired, Signals => Alone, populate
  PROVE  Wired' /\ (Signals => Alone')
<1>. DEFINE q == request_queue
            n == Len(request_queue)
            r == [request_queue EXCEPT ![Len(request_queue)] = call.fill]
<1>0. /\ pc \in [Actors -> Labels] /\ call \in Calling /\ q \in Seq(Requests)
      /\ inflight_requests \in Nat
  BY DEF RefInv, WindowInv, LockInv, WindowTypes
<1>1. /\ pc["app"] = "fill" /\ pc["sig"] = "idle"
      /\ pc'["app"] = "enter" /\ pc'["sig"] = "idle"
      /\ UNCHANGED <<inflight_requests, toServer, toClient, server, reset_requested,
                     resets, failure, call, failed>>
      /\ request_queue' = r
  BY <1>0 DEF populate, At, wireVars, Goto, Actors
<1>2. inflight_requests < n
  BY <1>1 DEF RefInv, Knows, Phases
<1>3. call.fill \in Requests
  BY <1>0 DEF Calling
<1>4. /\ r \in Seq(Requests) /\ Len(r) = n /\ n \in Nat /\ DOMAIN q = 1 .. n /\ DOMAIN r = 1 .. n
      /\ \A i \in 1 .. n : r[i] = IF i = n THEN call.fill ELSE q[i]
  <2>1. r \in Seq(Requests) /\ Len(r) = n /\ n \in Nat
    BY <1>0, <1>3, QueueOperations
  <2>2. DOMAIN q = 1 .. n /\ DOMAIN r = 1 .. n
    BY <1>0, <2>1, LenProperties
  <2>. QED BY <2>1, <2>2
<1>. HIDE DEF r, n, q
<1>5. Wired'
  <2>1. \A i \in 1 .. inflight_requests : r[i] = q[i]
    BY <1>0, <1>2, <1>4
  <2>2. Len(request_queue) = n /\ n <= Len(request_queue')
    BY <1>1, <1>4 DEF n
  <2>3. pc'["app"] \in Aside
    BY <1>1 DEF Aside
  <2>. QED BY <1>1, <1>4, <2>1, <2>2, <2>3, WiredGrown DEF q
<1>6. ASSUME Signals PROVE Alone'
  <2>1. \A i \in 1 .. n : q[i].type \notin Special
    <3>1. NoSpecial
      BY <1>1, <1>6, AloneSpecial DEF Transacting
    <3>. QED BY <1>4, <3>1 DEF NoSpecial, q
  <2>2. call.cond = "none" /\ ~failed /\ (call.fill.type = "ACK" => n = 1)
    BY <1>1, <1>6 DEF Alone, n
  <2>3. ASSUME NEW i \in 1 .. n, r[i].type \in Special
        PROVE  i = n /\ inflight_requests < i /\ (r[i].type = "ACK" => i = 1)
    <3>1. i = n
      BY <1>4, <2>1, <2>3
    <3>2. r[i] = call.fill
      BY <1>4, <3>1
    <3>. QED BY <1>2, <2>2, <3>1, <3>2
  <2>4. "enter" \in Transacting /\ "enter" \notin Opening
    BY DEF Transacting, Opening
  <2>. QED BY <1>1, <1>4, <2>2, <2>3, <2>4 DEF Alone
<1>. QED BY <1>5, <1>6
-----------------------------------------------------------------------------
(* Running a statement, closing its stream, and returning to the program.   *)
LEMMA WireAdded ==
  ASSUME RefInv, Wired, Signals => Alone, pc["app"] \in Opening, pc["sig"] = "idle",
         UNCHANGED <<inflight_requests, toServer, toClient, server, reset_requested,
                     resets, failure, call>>,
         pc'["app"] \in Opening, pc'["sig"] = "idle",
         \/ request_queue' = request_queue
         \/ \E x \in Requests : x.type \notin Special /\ request_queue' = Append(request_queue, x)
  PROVE  Wired' /\ (Signals => Alone')
<1>0. request_queue \in Seq(Requests)
  BY WindowKnown
<1>1. /\ pc'["app"] \in Aside /\ pc["app"] \notin Transacting
      /\ pc'["app"] \notin {"alloc", "fill", "unlock_ack"}
  BY DEF Opening, Aside, Transacting
<1>2. Signals => NoSpecial
  BY <1>1, AloneSpecial
<1>3. Signals => call'.cond # "none"
  BY DEF Alone
<1>4. CASE request_queue' = request_queue
  <2>1. Wired'
    BY <1>1, <1>4, WiredAside DEF Still
  <2>2. Signals => Alone'
    BY <1>1, <1>2, <1>3, <1>4, AlonePlain
  <2>. QED BY <2>1, <2>2
<1>5. ASSUME NEW x \in Requests, x.type \notin Special, request_queue' = Append(request_queue, x)
      PROVE  Wired' /\ (Signals => Alone')
  <2>1. Wired'
    BY <1>1, <1>5, WiredAppended
  <2>2. Signals => NoSpecial'
    BY <1>0, <1>2, <1>5, NoSpecialAppended
  <2>3. Signals => Alone'
    BY <1>1, <1>3, <2>2, AloneAfter
  <2>. QED BY <2>1, <2>3
<1>. QED BY <1>4, <1>5

\* Steps that take a call out of the opening of a stream, or end it.
LEMMA WireLeft ==
  ASSUME Wired, Signals => Alone, Still, UNCHANGED failure,
         pc["sig"] = "idle", pc'["sig"] = "idle", pc["app"] \notin Transacting,
         \/ pc'["app"] \in {"idle", "free", "crashed"}
         \/ pc'["app"] = "enter" /\ (Signals => call'.cond # "none")
  PROVE  Wired' /\ (Signals => Alone')
<1>1. Wired'
  BY WiredAside DEF Aside
<1>2. ASSUME Signals PROVE Alone'
  <2>1. NoSpecial
    BY <1>2, AloneSpecial
  <2>2. pc'["app"] \notin {"alloc", "fill", "unlock_ack"}
    OBVIOUS
  <2>3. pc'["app"] \in Opening \cup {"enter", "lock", "exit"} => call'.cond # "none"
    BY <1>2 DEF Opening
  <2>. QED BY <2>1, <2>2, <2>3, AlonePlain DEF Still
<1>. QED BY <1>1, <1>2

LEMMA WireRun ==
  ASSUME RefInv, Alive, Wired, Signals => Alone, Run
  PROVE  Wired' /\ (Signals => Alone')
<1>. DEFINE Step(label) == pc' = [pc EXCEPT !["app"] = label]
<1>0. pc \in [Actors -> Labels] /\ call \in Calling
  BY DEF RefInv, WindowInv, LockInv, WindowTypes
<1>1. \A label : Step(label) => pc'["app"] = label /\ pc'["sig"] = pc["sig"]
  BY <1>0 DEF Actors
<1>2. unchangedByCall' = unchangedByCall => Still /\ UNCHANGED failure
  BY DEF unchangedByCall, wireVars, Still
<1>3. Crash => pc'["app"] = "crashed" /\ pc'["sig"] = "idle"
  BY <1>0 DEF Crash, Actors
<1>. HIDE DEF Step
<1>4. CASE session_run \/ session_pull_all
  <2>. DEFINE x == IF pc["app"] = "run" THEN Request("RUN", call.rs, call.tx)
                   ELSE Request(call.kind, call.rs, call.tx)
  <2>1. /\ pc["app"] \in {"run", "pull"} /\ pc["sig"] = "idle"
        /\ UNCHANGED <<inflight_requests, toServer, toClient, server, reset_requested,
                       resets, failure, call>>
    BY <1>4 DEF session_run, session_pull_all, At, wireVars
  <2>2. Step("abandon") \/ Step("run_unlock") \/ Step("pull_unlock")
    BY <1>4 DEF session_run, session_pull_all, Enqueue, Goto, Step
  <2>3. x \in Requests /\ x.type \notin Special
    <3>1. call.rs \in Streams \cup {None} /\ call.tx \in Txs \cup {None} /\ call.kind \in Statements
      BY <1>0 DEF Calling
    <3>2. Request("RUN", call.rs, call.tx) \in Requests /\ Request(call.kind, call.rs, call.tx) \in Requests
      BY <3>1, RequestsTyped
    <3>. QED BY <3>1, <3>2 DEF Request, Special, TxRequests, Statements
  <2>4. request_queue' = request_queue \/ request_queue' = Append(request_queue, x)
    BY <1>4 DEF session_run, session_pull_all, Enqueue, Queue, At
  <2>. HIDE DEF x
  <2>5. pc["app"] \in Opening /\ pc'["app"] \in Opening /\ pc'["sig"] = "idle"
    BY <1>1, <2>1, <2>2 DEF Opening
  <2>. QED BY <2>1, <2>3, <2>4, <2>5, WireAdded
<1>5. CASE session_unlock
  <2>1. /\ pc["app"] \in {"run_unlock", "pull_unlock"} /\ pc["sig"] = "idle"
        /\ UNCHANGED <<request_queue, inflight_requests, toServer, toClient, server,
                       reset_requested, resets, failure, call>>
    BY <1>5 DEF session_unlock, At, wireVars
  <2>2. Step("abandon") \/ Step("pull") \/ Step("start")
    BY <1>5 DEF session_unlock, Goto, Step
  <2>3. pc["app"] \in Opening /\ pc'["app"] \in Opening /\ pc'["sig"] = "idle"
    BY <1>1, <2>1, <2>2 DEF Opening
  <2>. QED BY <2>1, <2>3, WireAdded
<1>6. CASE run_start
  <2>1. pc["app"] = "start" /\ pc["sig"] = "idle" /\ Still /\ UNCHANGED failure
    BY <1>2, <1>6 DEF run_start, At
  <2>2. Step("idle") \/ (Step("enter") /\ call' = call)
    BY <1>6 DEF run_start, Goto, Step
  <2>3. Signals => call.cond # "none"
    BY <2>1 DEF Alone, Opening
  <2>4. pc["app"] \notin Transacting
    BY <2>1 DEF Transacting
  <2>. QED BY <1>1, <2>1, <2>2, <2>3, <2>4, WireLeft
<1>7. CASE abandon
  <2>. DEFINE c == [[call EXCEPT !.op = "abandon"] EXCEPT !.cond = "refcount"]
  <2>1. pc["app"] = "abandon" /\ pc["sig"] = "idle" /\ Still /\ UNCHANGED failure
    BY <1>2, <1>7 DEF abandon, At
  <2>2. (Step("free") \/ Step("enter")) /\ call' = c
    BY <1>7 DEF abandon, run_rs_close, Enter, Goto, Step
  <2>3. c.cond # "none"
    BY <1>0 DEF Calling
  <2>. HIDE DEF c
  <2>4. pc["app"] \notin Transacting
    BY <2>1 DEF Transacting
  <2>. QED BY <1>1, <2>1, <2>2, <2>3, <2>4, WireLeft
<1>8. CASE free_results
  <2>1. pc["app"] = "free" /\ pc["sig"] = "idle" /\ Still /\ UNCHANGED failure
    BY <1>2, <1>8 DEF free_results, At
  <2>2. Crash \/ Step("idle")
    BY <1>8 DEF free_results, Enter, Goto, Step
  <2>3. pc["app"] \notin Transacting
    BY <2>1 DEF Transacting
  <2>. QED BY <1>1, <1>3, <2>1, <2>2, <2>3, WireLeft
<1>9. CASE return_to_stream \/ return_to_tx
  <2>1. pc["app"] = "done" /\ pc["sig"] = "idle" /\ Still /\ UNCHANGED failure
    BY <1>2, <1>9 DEF return_to_stream, return_to_tx, At
  <2>2. Crash \/ Step("idle") \/ Step("free")
    BY <1>9 DEF return_to_stream, return_to_tx, Enter, Goto, Step
  <2>3. pc["app"] \notin Transacting
    BY <2>1 DEF Transacting
  <2>. QED BY <1>1, <1>3, <2>1, <2>2, <2>3, WireLeft
<1>. QED BY <1>4, <1>5, <1>6, <1>7, <1>8, <1>9 DEF Run
-----------------------------------------------------------------------------
(* A request is sent.                                                       *)
LEMMA WireSendRequest ==
  ASSUME RefInv, ~broken, Wired, Signals => Alone, send_request
  PROVE  Wired' /\ (Signals => Alone')
<1>. DEFINE n == inflight_requests
            x == request_queue[n + 1]
<1>0. /\ request_queue \in Seq(Requests) /\ Len(request_queue) \in Nat /\ n \in Nat
      /\ toServer \in Seq(Requests) /\ toClient \in Seq(Messages) /\ pc \in [Actors -> Labels]
  BY WindowKnown
<1>1. /\ pc["app"] = "xmit" /\ pc["sig"] = "idle"
      /\ inflight_requests' = n + 1 /\ toServer' = Append(toServer, x)
      /\ pc' = [pc EXCEPT !["app"] = "send"]
      /\ UNCHANGED <<request_queue, toClient, server, reset_requested, resets, failure,
                     call, failed>>
  BY DEF send_request, At, Goto
<1>2. pc'["app"] = "send" /\ pc'["sig"] = "idle"
  BY <1>0, <1>1 DEF Actors
<1>3. n < Len(request_queue)
  BY <1>1 DEF RefInv, WindowInv, Expecting
<1>4. ~reset_requested
  BY <1>1 DEF Wired, Resets
<1>5. x \in Requests
  <2>1. n + 1 \in 1 .. Len(request_queue)
    BY <1>0, <1>3
  <2>. QED BY <1>0, <2>1, ElementOfSeq
<1>6. Mirrors'
  <2>1. Mirror(toClient, toServer, request_queue, n, <<>>)
    BY <1>4 DEF Wired, Mirrors, Window, Pending, Mirror
  <2>2. Mirror(toClient, Append(toServer, request_queue[n + 1]), request_queue, n + 1, <<>>)
    BY <1>0, <1>3, <2>1, MirrorSent
  <2>3. Pending' = <<>>
    BY <1>1, <1>4 DEF Pending
  <2>. QED BY <1>1, <2>2, <2>3 DEF Mirrors, Mirror, Window
<1>7. Records'
  <2>1. Linked(toClient, Append(toServer, x))
    BY <1>0, <1>5, LinkedSent DEF Wired, Records
  <2>. QED BY <1>1, <2>1 DEF Wired, Records
<1>8. \A a \in Actors : pc'[a] \notin {"reply", "rrecv", "rfinal", "crecv", "xmit"}
  BY <1>2 DEF Actors
<1>9. Resets'
  BY <1>1, <1>2, <1>4, <1>8 DEF Wired, Resets
<1>10. Signals => InOrder'
  BY <1>1, <1>8 DEF Wired, InOrder, Refusing
<1>11. ASSUME Signals PROVE Alone'
  <2>1. ASSUME NEW i \in DOMAIN request_queue', request_queue'[i].type \in Special
        PROVE  i = Len(request_queue') /\ call'.cond = "none"
               /\ (request_queue'[i].type = "ACK" => i = 1)
    BY <1>1, <1>11, <2>1 DEF Alone
  <2>2. "send" \in Transacting /\ "send" \notin Opening
    BY DEF Transacting, Opening
  <2>. QED BY <1>2, <2>1, <2>2 DEF Alone
<1>. QED BY <1>6, <1>7, <1>9, <1>10, <1>11 DEF Wired, Signals, Once
-----------------------------------------------------------------------------
(* The server's side.                                                       *)
LEMMA InFlight ==
  ASSUME RefInv, Alive, NEW i \in 1 .. inflight_requests
  PROVE  i \in DOMAIN request_queue /\ request_queue[i] \in Requests /\ Fits(request_queue[i])
<1>1. /\ request_queue \in Seq(Requests) /\ Len(request_queue) \in Nat
      /\ inflight_requests \in 0 .. Len(request_queue)
  BY WindowKnown
<1>2. i \in 1 .. Len(request_queue) /\ i \in DOMAIN request_queue
  BY <1>1
<1>3. request_queue[i] \in Requests
  BY <1>1, <1>2, ElementOfSeq
<1>4. /\ Proper(request_queue, pc["app"] = "fill")
      /\ pc["app"] = "fill" => inflight_requests < Len(request_queue)
  BY DEF RefInv, Knows, Phases, Accounts
<1>5. pc["app"] = "fill" => i # Len(request_queue)
  <2>. SUFFICES ASSUME pc["app"] = "fill" PROVE i # Len(request_queue)
    OBVIOUS
  <2>. DEFINE n == Len(request_queue)
              k == inflight_requests
  <2>1. k \in Nat /\ n \in Nat /\ i \in 1 .. k
    BY <1>1
  <2>2. k < n
    BY <1>4
  <2>. HIDE DEF n, k
  <2>3. i # n
    BY <2>1, <2>2
  <2>. QED BY <2>3 DEF n
<1>6. Fits(request_queue[i])
  BY <1>2, <1>4, <1>5 DEF Proper, Fits
<1>. QED BY <1>2, <1>3, <1>6

\* No GOODBYE is on the wire of a connection in use.
LEMMA NoGoodbye ==
  ASSUME RefInv, Alive, Mirrors, toServer # <<>>
  PROVE  Head(toServer).type # "GOODBYE"
<1>. DEFINE a == Answered(toClient)
            w == Window
            p == Pending
            u == a \o toServer
            v == w \o p
<1>1. /\ request_queue \in Seq(Requests) /\ inflight_requests \in 0 .. Len(request_queue)
      /\ toServer \in Seq(Requests) /\ toClient \in Seq(Messages)
  BY WindowKnown
<1>2. /\ a \in Seq(Requests) /\ p \in Seq(Requests)
      /\ w \in Seq(Requests) /\ Len(w) = inflight_requests
      /\ \A i \in 1 .. inflight_requests : w[i] = request_queue[i]
  BY <1>1, AnsweredTyped, PendingTyped, FrontOf DEF Window
<1>3. \A i \in 1 .. Len(p) : p[i] = Reset
  BY DEF Pending
<1>4. u = v
  BY DEF Mirrors
<1>. HIDE DEF a, w, p
<1>5. /\ Len(u) = Len(a) + Len(toServer)
      /\ \A i \in 1 .. Len(a) + Len(toServer) :
           u[i] = IF i <= Len(a) THEN a[i] ELSE toServer[i - Len(a)]
  BY <1>1, <1>2, ConcatProperties
<1>6. /\ Len(v) = Len(w) + Len(p)
      /\ \A i \in 1 .. Len(w) + Len(p) : v[i] = IF i <= Len(w) THEN w[i] ELSE p[i - Len(w)]
  BY <1>2, ConcatProperties
<1>7. /\ Len(a) \in Nat /\ Len(w) \in Nat /\ Len(p) \in Nat /\ Len(toServer) \in Nat \ {0}
      /\ Head(toServer) = toServer[1]
  <2>1. Len(a) \in Nat /\ Len(w) \in Nat /\ Len(p) \in Nat /\ Len(toServer) \in Nat
    BY <1>1, <1>2, LenProperties
  <2>2. Len(toServer) # 0
    BY <1>1, EmptySeq
  <2>. QED BY <2>1, <2>2
<1>. DEFINE k == Len(a) + 1
<1>8. k \in 1 .. Len(w) + Len(p) /\ v[k] = Head(toServer)
  <2>1. k \in 1 .. Len(a) + Len(toServer) /\ ~(k <= Len(a)) /\ k - Len(a) = 1
    BY <1>7
  <2>2. u[k] = toServer[1]
    BY <1>5, <2>1
  <2>. HIDE DEF u, v, k
  <2>3. Len(w) + Len(p) = Len(a) + Len(toServer)
    BY <1>4, <1>5, <1>6
  <2>. QED BY <1>4, <1>7, <2>1, <2>2, <2>3
<1>. HIDE DEF u, v, k
<1>9. CASE k <= Len(w)
  <2>1. k \in 1 .. inflight_requests /\ v[k] = w[k]
    BY <1>2, <1>6, <1>7, <1>8, <1>9
  <2>2. Fits(request_queue[k]) /\ v[k] = request_queue[k]
    BY <1>2, <2>1, InFlight
  <2>. QED BY <1>8, <2>2 DEF Fits, Answerable, Statements, TxRequests
<1>10. CASE ~(k <= Len(w))
  <2>1. k - Len(w) \in 1 .. Len(p) /\ v[k] = p[k - Len(w)]
    BY <1>6, <1>7, <1>8, <1>10
  <2>2. v[k] = Reset
    BY <1>3, <2>1
  <2>. QED BY <1>8, <2>2 DEF Reset, Request
<1>. QED BY <1>9, <1>10

LEMMA WireServerStep ==
  ASSUME RefInv, Alive, Wired, Signals => Alone, ServerStep
  PROVE  Wired' /\ (Signals => Alone')
<1>0. WireTypes /\ toClient \in Seq(Messages) /\ toServer \in Seq(Requests)
  BY DEF RefInv, WireTypes
<1>1. PICK m \in Messages : Answers(m) /\ ForStatement(m) /\ (Signals => WellMannered(m))
  BY <1>0, ServerAnswers
<1>2. /\ toServer # <<>> /\ m.to = Head(toServer) /\ toClient' = Append(toClient, m)
      /\ toServer' = IF m \in FinalReplies THEN Tail(toServer) ELSE toServer
  BY <1>1 DEF Answers
<1>3. UNCHANGED <<request_queue, inflight_requests, reset_requested, resets, pc, failure,
                  call, failed>>
  BY DEF ServerStep, connVars, ctlVars
<1>4. Mirrors'
  <2>1. Mirror(toClient, toServer, request_queue, inflight_requests, Pending)
    BY DEF Wired, Mirrors, Mirror, Window
  <2>2. Mirror(Append(toClient, m), IF m \in FinalReplies THEN Tail(toServer) ELSE toServer,
               request_queue, inflight_requests, Pending)
    BY <1>0, <1>2, <2>1, MirrorServed
  <2>3. Pending' = Pending
    BY <1>3 DEF Pending
  <2>. QED BY <1>2, <1>3, <2>2, <2>3 DEF Mirrors, Mirror, Window
<1>5. /\ Len(toClient) \in Nat /\ toClient'[Len(toClient) + 1] = m
      /\ \A i \in 1 .. Len(toClient) : toClient'[i] = toClient[i]
      /\ DOMAIN toClient = 1 .. Len(toClient) /\ DOMAIN toClient' = 1 .. Len(toClient) + 1
  BY <1>0, <1>2, AppendedTo
<1>6. \A i \in DOMAIN toClient' : i \in DOMAIN toClient \/ i = Len(toClient) + 1
  BY <1>5
<1>7. Records'
  <2>1. Linked(toClient', toServer')
    BY <1>0, <1>2, LinkedServed DEF Wired, Records
  <2>2. \A i \in DOMAIN toClient' : ForStatement(toClient'[i])
    BY <1>1, <1>5, <1>6 DEF Wired, Records
  <2>. QED BY <2>1, <2>2 DEF Records
<1>8. Resets'
  BY <1>3 DEF Wired, Resets, SigHolds, Once
<1>9. ASSUME Signals PROVE InOrder'
  <2>1. /\ Accepted(m) /\ (IsFailure(m.type) => Refusing')
        /\ Refusing => IsReset(m.to) \/ (m.type = "IGNORED" /\ Refusing')
    BY <1>1, <1>9 DEF WellMannered
  <2>2. \A i \in DOMAIN toClient' : Accepted(toClient'[i])
    BY <1>5, <1>6, <1>9, <2>1 DEF Wired, InOrder
  <2>3. Refused(toClient', Refusing')
    BY <1>0, <1>2, <1>9, <2>1, RefusedServed DEF Wired, InOrder
  <2>4. ASSUME Ignored(toClient, 1, Refusing)
        PROVE  Ignored(toClient', 1, Refusing')
    <3>1. 1 \in 1 .. Len(toClient) + 1
      BY <1>5
    <3>. QED BY <1>0, <1>2, <2>1, <2>4, <3>1, IgnoredServed
  <2>. QED BY <1>3, <1>9, <2>2, <2>3, <2>4 DEF Wired, InOrder
<1>10. Signals => Alone'
  BY <1>3 DEF Alone
<1>. QED BY <1>4, <1>7, <1>8, <1>9, <1>10 DEF Wired, Signals, Once
-----------------------------------------------------------------------------
(* A signal is delivered.                                                   *)
LEMMA ResetIsNew ==
  ASSUME RefInv, Resets, NoSignal \/ Signals, neo4j_reset
  PROVE  Signals /\ ~reset_requested
<1>1. resets \in 0 .. MaxResets /\ MaxResets \in Nat /\ resets < MaxResets /\ pc["sig"] = "idle"
  BY SizeAssumption DEF Resets, neo4j_reset
<1>2. Signals
  <2>1. MaxResets # 0
    BY <1>1
  <2>. QED BY <2>1 DEF NoSignal
<1>3. ASSUME reset_requested PROVE FALSE
  <2>1. Once /\ resets >= 1
    BY <1>1, <1>3 DEF Resets, SigHolds
  <2>2. MaxResets <= 1
    BY <2>1 DEF Once
  <2>. QED BY <1>1, <2>1, <2>2
<1>. QED BY <1>2, <1>3

LEMMA WireSignal ==
  ASSUME RefInv, Alive, ~broken, Wired, Signals => Alone, NoSignal \/ Signals, neo4j_reset
  PROVE  Wired' /\ (Signals => Alone')
<1>1. Signals /\ ~reset_requested
  BY ResetIsNew DEF Wired
<1>2. /\ pc["sig"] = "idle" /\ pc["app"] \in SignalAt
      /\ resets < MaxResets /\ resets' = resets + 1
      /\ failed' = FALSE /\ reset_requested' = TRUE /\ toServer' = Append(toServer, Reset)
      /\ UNCHANGED <<request_queue, inflight_requests, call, toClient, server>>
  BY DEF neo4j_reset
<1>3. \/ processing /\ UNCHANGED <<failure, pc>>
      \/ /\ ~processing /\ pc' = [pc EXCEPT !["sig"] = ResetFrom]
         /\ failure' = [failure EXCEPT !["sig"] = FALSE]
  BY <1>1 DEF neo4j_reset
<1>4. /\ request_queue \in Seq(Requests) /\ inflight_requests \in 0 .. Len(request_queue)
      /\ inflight_requests \in Nat
      /\ toServer \in Seq(Requests) /\ toClient \in Seq(Messages)
      /\ pc \in [Actors -> Labels] /\ Reset \in Requests
  <2>1. inflight_requests \in Nat
    BY DEF RefInv, WindowInv, WindowTypes
  <2>. QED BY <2>1, WindowKnown, RequestsTyped
<1>5. ResetFrom \in {"rrecv", "rfinal"} /\ (ResetFrom = "rfinal" => inflight_requests = 0)
  BY <1>4 DEF ResetFrom
<1>6. pc'["app"] = pc["app"] /\ pc'["sig"] \in {"idle", ResetFrom}
  BY <1>2, <1>3, <1>4 DEF Actors
<1>7. Mirrors'
  <2>1. Mirror(toClient, toServer, request_queue, inflight_requests, <<>>)
    BY <1>1 DEF Wired, Mirrors, Mirror, Window, Pending
  <2>2. Mirror(toClient, Append(toServer, Reset), request_queue, inflight_requests, <<Reset>>)
    BY <1>4, <2>1, MirrorReset
  <2>3. Pending' = <<Reset>>
    BY <1>2 DEF Pending
  <2>. QED BY <1>2, <2>2, <2>3 DEF Mirrors, Mirror, Window
<1>8. Records'
  <2>1. Linked(toClient, Append(toServer, Reset))
    BY <1>4, LinkedSent DEF Wired, Records
  <2>. QED BY <1>2, <2>1 DEF Wired, Records
<1>9. Resets'
  <2>1. resets' \in 0 .. MaxResets /\ resets' >= 1
    BY <1>2, SizeAssumption DEF Wired, Resets
  <2>2. Once \/ pc["app"] \notin Protected
    BY <1>1, <1>2 DEF Signals
  <2>3. pc["app"] # "xmit"
    BY <1>2, <2>2 DEF Once, Protected
  <2>4. pc["app"] \notin Protected => ~processing
    BY <1>2 DEF RefInv, WindowInv, LockInv, LockOwned, AppHolds, SigHolds, Protected, Alive
  <2>5. Once \/ pc'["sig"] # "idle"
    <3>1. ~processing => pc'["sig"] = ResetFrom
      BY <1>3, <1>4 DEF Actors
    <3>. QED BY <1>5, <2>2, <2>4, <3>1
  <2>6. pc["app"] = "rfinal" => inflight_requests = 0
    BY DEF Wired, Resets, Actors
  <2>7. \A a \in Actors : pc'[a] = "rfinal" => inflight_requests = 0
    BY <1>5, <1>6, <2>6 DEF Actors
  <2>8. Once' <=> Once
    BY DEF Once
  <2>. QED BY <1>2, <1>6, <2>1, <2>3, <2>5, <2>7, <2>8 DEF Resets, SigHolds
<1>10. InOrder'
  <2>1. DOMAIN failure = Actors
    BY <1>1 DEF Wired, InOrder
  <2>2. /\ DOMAIN failure' = Actors
        /\ \A a \in Actors : failure'[a] => failure[a]
    BY <1>3, <2>1
  <2>3. \A a \in Actors : failure'[a] => pc'[a] = pc[a]
    BY <1>3, <1>4, <2>1 DEF Actors
  <2>. QED BY <1>1, <1>2, <2>2, <2>3 DEF Wired, InOrder, Refusing
<1>11. Alone'
  BY <1>1, <1>2, <1>6 DEF Alone
<1>. QED BY <1>1, <1>7, <1>8, <1>9, <1>10, <1>11 DEF Wired, Signals, Once
-----------------------------------------------------------------------------
(* Replies are received.  A transport that works has one, sooner or later.  *)
LEMMA NoErrors ==
  ASSUME RefInv, ~broken, NoSignal \/ Signals
  PROVE  ~NoReply
<1>1. "GARBLED" \notin Faults
  BY DEF NoSignal, Signals
<1>2. "GARBLED" \notin KnownReplies
  BY <1>1 DEF KnownReplies
<1>3. ASSUME Garbled PROVE FALSE
  <2>1. Head(toClient) \in Messages
    BY <1>3, WindowKnown, HeadTailProperties DEF Garbled
  <2>2. Head(toClient).type \in KnownReplies
    BY <2>1 DEF Messages
  <2>. QED BY <1>2, <1>3, <2>2 DEF Garbled
<1>. QED BY <1>3 DEF NoReply

(* What the tail of the wire keeps.                                         *)
LEMMA RecordsTail ==
  ASSUME RefInv, Records, toClient # <<>>, toClient' = Tail(toClient), toServer' = toServer
  PROVE  Records'
<1>1. /\ toClient \in Seq(Messages) /\ Len(toClient) \in Nat
      /\ \A i \in 1 .. Len(toClient) - 1 : Tail(toClient)[i] = toClient[i + 1]
      /\ DOMAIN toClient = 1 .. Len(toClient) /\ DOMAIN Tail(toClient) = 1 .. Len(toClient) - 1
  BY WindowKnown, TailOf
<1>2. Linked(Tail(toClient), toServer)
  BY <1>1, LinkedTail DEF Records
<1>3. \A i \in 1 .. Len(toClient) - 1 : i + 1 \in 1 .. Len(toClient)
  BY <1>1
<1>4. \A i \in DOMAIN Tail(toClient) : ForStatement(Tail(toClient)[i])
  BY <1>1, <1>3 DEF Records
<1>. QED BY <1>2, <1>4 DEF Records

LEMMA OrderTail ==
  ASSUME RefInv, InOrder, toClient # <<>>, toClient' = Tail(toClient), server' = server
  PROVE  /\ Accepted(Head(toClient))
         /\ \A i \in DOMAIN toClient' : Accepted(toClient'[i])
         /\ Refused(toClient', Refusing')
         /\ IsFailure(Head(toClient).type) => Ignored(toClient', 1, Refusing')
<1>1. /\ toClient \in Seq(Messages) /\ Len(toClient) \in Nat \ {0} /\ Head(toClient) = toClient[1]
      /\ \A i \in 1 .. Len(toClient) - 1 : Tail(toClient)[i] = toClient[i + 1]
      /\ DOMAIN toClient = 1 .. Len(toClient) /\ DOMAIN Tail(toClient) = 1 .. Len(toClient) - 1
  BY WindowKnown, TailOf
<1>2. 1 \in DOMAIN toClient /\ \A i \in 1 .. Len(toClient) - 1 : i + 1 \in 1 .. Len(toClient)
  BY <1>1
<1>3. Accepted(Head(toClient)) /\ \A i \in DOMAIN Tail(toClient) : Accepted(Tail(toClient)[i])
  BY <1>1, <1>2 DEF InOrder
<1>4. /\ Refused(Tail(toClient), Refusing)
      /\ IsFailure(Head(toClient).type) => Ignored(Tail(toClient), 1, Refusing)
  BY <1>1, RefusedTail DEF InOrder
<1>. QED BY <1>3, <1>4 DEF Refusing

\* With nothing in flight and a reset requested, the next reply is to RESET.
LEMMA ResetIsAnswered ==
  ASSUME RefInv, Mirrors, Resets, Records, NEW a \in Actors, pc[a] = "rfinal", toClient # <<>>
  PROVE  /\ Head(toClient).to = Reset /\ Head(toClient) \in FinalReplies
         /\ Mirror(Tail(toClient), toServer, <<>>, 0, <<>>)
<1>1. reset_requested /\ inflight_requests = 0
  BY DEF Resets
<1>2. /\ request_queue \in Seq(Requests) /\ toServer \in Seq(Requests)
      /\ toClient \in Seq(Messages) /\ Reset \in Requests
      /\ Head(toClient) \in Messages /\ Head(toClient) = toClient[1] /\ 1 \in DOMAIN toClient
  <2>1. /\ request_queue \in Seq(Requests) /\ toServer \in Seq(Requests)
        /\ toClient \in Seq(Messages) /\ Reset \in Requests
    BY WindowKnown, RequestsTyped
  <2>2. /\ Head(toClient) \in Messages /\ Head(toClient) = toClient[1]
        /\ Len(toClient) \in Nat \ {0} /\ DOMAIN toClient = 1 .. Len(toClient)
    BY <2>1, TailOf
  <2>. QED BY <2>1, <2>2
<1>. DEFINE q == <<Reset>>
<1>3. /\ q \in Seq(Requests) /\ Len(q) = 1 /\ q # <<>> /\ Head(q) = Reset /\ Tail(q) = <<>>
      /\ SubSeq(q, 1, 1) = q
  <2>1. q \in Seq(Requests) /\ Len(q) = 1 /\ q # <<>> /\ Head(q) = Reset /\ Tail(q) = <<>>
    BY <1>2
  <2>2. SubSeq(q, 1, Len(q)) = q
    BY <2>1, SubSeqFull
  <2>. QED BY <2>1, <2>2
<1>4. Window = <<>>
  BY <1>1, <1>2, FrontOf, EmptySeq DEF Window
<1>5. <<>> \o q = q /\ q \o <<>> = q
  BY <1>3, ConcatEmptySeq
<1>6. Answered(toClient) \o toServer = q
  BY <1>1, <1>4, <1>5 DEF Mirrors, Pending
<1>7. Mirror(toClient, toServer, q, 1, <<>>)
  BY <1>3, <1>5, <1>6 DEF Mirror
<1>. HIDE DEF q
<1>8. Head(toClient).to = Reset
  BY <1>2, <1>3, <1>6, NextReply DEF Records
<1>9. Head(toClient) \in FinalReplies
  <2>1. Head(toClient) \notin FinalReplies => Reset.type = "PULL_ALL"
    BY <1>2, <1>8 DEF Records, ForStatement
  <2>. QED BY <2>1 DEF Reset, Request
<1>10. Mirror(Tail(toClient), toServer, Tail(q), 1 - 1, <<>>)
  <2>1. 1 \in 1 .. Len(q) /\ <<>> \in Seq(Requests)
    BY <1>3
  <2>. QED BY <1>2, <1>3, <1>7, <1>9, <2>1, MirrorReceived
<1>11. 1 - 1 = 0 /\ Tail(q) = <<>>
  BY <1>3
<1>12. Mirror(Tail(toClient), toServer, <<>>, 0, <<>>)
  BY <1>10, <1>11, Zenon
<1>. QED BY <1>8, <1>9, <1>12

\* Who is in a reset is alone in the lock.
LEMMA OneInLock ==
  ASSUME RefInv, Alive
  PROVE  pc["sig"] # "idle" => pc["app"] \notin Protected
  BY DEF RefInv, WindowInv, LockInv, LockOwned, AppHolds, SigHolds, Protected, Alive

\* The handler that drains a slot not yet populated dereferences NULL.
LEMMA FillCrashes ==
  ASSUME RefInv, Alive, pc["app"] = "fill"
  PROVE  DrainCrashes(request_queue)
<1>1. Proper(request_queue, TRUE) /\ inflight_requests < Len(request_queue)
  BY DEF RefInv, Knows, Phases, Accounts
<1>2. Len(request_queue) \in DOMAIN request_queue
  <2>1. /\ request_queue \in Seq(Requests) /\ Len(request_queue) \in Nat
        /\ inflight_requests \in 0 .. Len(request_queue)
    BY WindowKnown
  <2>. QED BY <1>1, <2>1
<1>3. request_queue[Len(request_queue)] = Blank
  BY <1>1, <1>2 DEF Proper
<1>. QED BY <1>2, <1>3 DEF DrainCrashes, Blank, Request

LEMMA WireResetReply ==
  ASSUME RefInv, Alive, Alive', Wired, Signals => Alone, NEW a \in Actors, reset_reply(a)
  PROVE  Wired' /\ (Signals => Alone')
<1>0. toClient # <<>> /\ toClient' = Tail(toClient) /\ pc[a] = "rfinal" /\ pc \in [Actors -> Labels]
      /\ (a = "app" => pc["sig"] = "idle")
      /\ UNCHANGED <<toServer, server, resets, failure, call>>
  BY WindowKnown DEF reset_reply, Resetting, Reply
<1>1. /\ Head(toClient).to = Reset /\ Head(toClient) \in FinalReplies
      /\ Mirror(Tail(toClient), toServer, <<>>, 0, <<>>)
  BY <1>0, ResetIsAnswered DEF Wired
<1>2. ~Crash
  BY <1>0 DEF Crash, Alive, Actors
<1>3. /\ request_queue' = <<>> /\ inflight_requests' = 0 /\ reset_requested' = FALSE
      /\ pc' = [pc EXCEPT ![a] = IF a = "app" THEN "unlock" ELSE "idle"]
      /\ ~DrainCrashes(request_queue)
  BY <1>2 DEF reset_reply, EndReset
<1>4. Head(toClient).type = "SUCCESS" => failed' = failed
  BY DEF reset_reply
<1>5. \A b \in Actors : pc'[b] \notin Protected \ {"unlock"}
  <2>1. CASE a = "app"
    BY <1>0, <1>3, <2>1 DEF Actors, Protected
  <2>2. CASE a = "sig"
    <3>1. pc["app"] \notin Protected
      BY <1>0, <2>2, OneInLock
    <3>2. pc'["app"] = pc["app"] /\ pc'["sig"] = "idle"
      BY <1>0, <1>3, <2>2 DEF Actors
    <3>. QED BY <3>1, <3>2 DEF Actors, Protected
  <2>. QED BY <2>1, <2>2 DEF Actors
<1>6. Mirrors'
  <2>1. Pending' = <<>>
    BY <1>3 DEF Pending
  <2>. QED BY <1>0, <1>1, <1>3, <2>1 DEF Mirrors, Mirror, Window
<1>7. Records'
  BY <1>0, RecordsTail DEF Wired
<1>8. Resets'
  <2>1. resets' \in 0 .. MaxResets
    BY <1>0 DEF Wired, Resets
  <2>2. pc'["app"] # "xmit" /\ \A b \in Actors : pc'[b] \notin {"rrecv", "rfinal"}
    BY <1>5 DEF Protected, Actors
  <2>. QED BY <1>3, <2>1, <2>2 DEF Resets
<1>9. ASSUME Signals PROVE InOrder'
  <2>1. \A b \in Actors : pc'[b] \notin {"reply", "rrecv", "crecv"}
    BY <1>5 DEF Protected
  <2>2. DOMAIN failure' = Actors
    BY <1>0, <1>9 DEF Wired, InOrder
  <2>3. (\A i \in DOMAIN toClient' : Accepted(toClient'[i])) /\ Refused(toClient', Refusing')
    BY <1>0, <1>9, OrderTail DEF Wired
  <2>. QED BY <2>1, <2>2, <2>3 DEF InOrder
<1>10. ASSUME Signals PROVE Alone'
  <2>1. Accepted(Head(toClient))
    BY <1>0, <1>10, OrderTail DEF Wired, reset_reply
  <2>2. failed' = failed
    <3>1. IsReset(Reset)
      BY DEF IsReset, Reset, Request
    <3>. QED BY <1>1, <1>4, <2>1, <3>1 DEF Accepted
  <2>3. DOMAIN request_queue' = {}
    BY <1>3
  <2>4. pc["app"] # "fill"
    BY <1>3, FillCrashes
  <2>5. pc'["app"] = "unlock" \/ (pc'["app"] = pc["app"] /\ pc["app"] \notin Protected)
    <3>1. a = "app" => pc'["app"] = "unlock"
      BY <1>0, <1>3 DEF Actors
    <3>2. a = "sig" => pc'["app"] = pc["app"] /\ pc["app"] \notin Protected
      <4>1. a = "sig" => pc'["app"] = pc["app"]
        BY <1>0, <1>3 DEF Actors
      <4>2. a = "sig" => pc["sig"] # "idle"
        BY <1>0
      <4>. QED BY <4>1, <4>2, OneInLock
    <3>. QED BY <3>1, <3>2 DEF Actors
  <2>6. CASE pc'["app"] = "unlock"
    BY <1>3, <2>3, <2>6 DEF Alone, Opening
  <2>7. CASE pc'["app"] = pc["app"] /\ pc["app"] \notin Protected
    <3>1. pc'["app"] \notin {"fill", "unlock_ack", "exit"}
      BY <2>4, <2>7 DEF Protected
    <3>2. /\ pc'["app"] \in {"alloc", "fill"} => call'.cond = "none"
          /\ pc'["app"] \in Opening => call'.cond # "none"
          /\ pc'["app"] \in {"fill", "enter", "lock"} /\ call'.cond = "none" => ~failed'
      BY <1>0, <1>10, <2>2, <2>7 DEF Alone
    <3>. QED BY <1>3, <2>3, <3>1, <3>2 DEF Alone
  <2>. QED BY <2>5, <2>6, <2>7
<1>. QED BY <1>6, <1>7, <1>8, <1>9, <1>10 DEF Wired, Signals, Once
-----------------------------------------------------------------------------
(* Replies to the requests in flight.                                       *)
Reading == {"reply", "rrecv", "crecv"}
Receives(a) == /\ pc[a] \in Reading /\ (a = "app" => pc["sig"] = "idle")
               /\ Reply /\ toClient' = Tail(toClient) /\ inflight_requests > 0

LEMMA ReadingAlone ==
  ASSUME RefInv, Alive, NEW a \in Actors, Receives(a), NEW b \in Actors, b # a
  PROVE  pc[b] \notin Protected /\ pc[b] \notin Reading
<1>1. a = "app" => pc["sig"] = "idle"
  BY DEF Receives
<1>2. a = "sig" => pc["app"] \notin Protected
  <2>1. a = "sig" => pc["sig"] # "idle"
    BY DEF Receives, Reading
  <2>. QED BY <2>1, OneInLock
<1>. QED BY <1>1, <1>2 DEF Actors, Protected, Reading

LEMMA FailureFollowed ==
  ASSUME RefInv, Alive, Mirrors, Records, InOrder, NEW a \in Actors, Receives(a), failure[a],
         server' = server
  PROVE  /\ Head(toClient).type = "IGNORED"
         /\ Ignored(toClient', 1, Refusing')
         /\ \A i \in DOMAIN request_queue : request_queue[i].type # "ACK"
<1>1. toClient # <<>> /\ toClient \in Seq(Messages) /\ toClient' = Tail(toClient)
      /\ inflight_requests > 0 /\ pc[a] \in {"reply", "rrecv", "crecv"}
  BY WindowKnown DEF Receives, Reply, Reading
<1>2. /\ Ignored(toClient, 1, Refusing)
      /\ \A i \in DOMAIN request_queue : request_queue[i].type # "ACK"
  BY <1>1 DEF InOrder
<1>3. ~IsReset(Head(toClient).to)
  <2>1. Head(toClient).to = Head(request_queue)
    BY <1>1, ReplyIsForHead
  <2>2. /\ Head(request_queue) = request_queue[1] /\ 1 \in DOMAIN request_queue
        /\ Fits(Head(request_queue))
    BY <1>1, HeadFits
  <2>3. Head(request_queue).type # "RESET"
    BY <2>2 DEF Fits, Answerable, Statements, TxRequests
  <2>. QED BY <1>2, <2>1, <2>2, <2>3 DEF IsReset
<1>4. Head(toClient).type = "IGNORED" /\ Ignored(Tail(toClient), 1, Refusing)
  BY <1>1, <1>2, <1>3, IgnoredHead
<1>. QED BY <1>1, <1>2, <1>4 DEF Refusing

(* Of a connection in order, only the last request of a transaction call    *)
(* is answered with an error, to the program that awaits it.                *)
LEMMA NoReject ==
  ASSUME RefInv, Alive, Mirrors, Records, InOrder, Alone, NEW a \in Actors, Receives(a),
         server' = server,
         Received(a).rc < 0, ~Received(a).crash
  PROVE  /\ a = "app" /\ pc["app"] \in {"reply", "rrecv"}
         /\ Received(a).queue = <<>> /\ Received(a).inflight = 0
         /\ Mirror(Tail(toClient), toServer, Received(a).queue, Received(a).inflight, Pending)
<1>. DEFINE r == Received(a)
            m == Head(toClient)
            h == Head(request_queue)
<1>1. Reply /\ inflight_requests > 0
  BY DEF Receives
<1>2. /\ m \in Messages /\ m.to = h
      /\ \/ r.queue = request_queue /\ r.inflight = inflight_requests
         \/ r.queue = Tail(request_queue) /\ r.inflight = inflight_requests - 1
      /\ (m \in FinalReplies \/ r.rc >= 0) /\ ~Unexpected(a) =>
           Mirror(Tail(toClient), toServer, r.queue, r.inflight, Pending)
      /\ m \in FinalReplies /\ ~Unexpected(a) => r.queue = Tail(request_queue)
      /\ Accepted(m) /\ r.rc < 0 /\ ~r.crash =>
           \/ Unexpected(a)
           \/ h.type \in TxRequests /\ m \in FinalReplies
  BY <1>1, ReceivedReply
<1>3. ~Unexpected(a)
  BY FailureFollowed DEF Unexpected
<1>4. Accepted(m)
  BY OrderTail DEF Receives, Reply
<1>5. r.rc < 0 /\ ~r.crash
  OBVIOUS
<1>. HIDE DEF r, m
<1>6. h.type \in TxRequests /\ m \in FinalReplies
  BY <1>2, <1>3, <1>4, <1>5
<1>7. /\ r.queue = Tail(request_queue)
      /\ Mirror(Tail(toClient), toServer, r.queue, r.inflight, Pending)
  BY <1>2, <1>3, <1>6
<1>8. /\ request_queue # <<>> /\ h = request_queue[1] /\ 1 \in DOMAIN request_queue
  BY <1>1, HeadFits
<1>9. /\ 1 = Len(request_queue) /\ pc["app"] \in Transacting
      /\ pc["app"] \in {"enter", "lock"} => inflight_requests < 1
  BY <1>6, <1>8 DEF Alone, Special
<1>10. /\ request_queue \in Seq(Requests) /\ inflight_requests \in 0 .. Len(request_queue)
  BY WindowKnown
<1>11. inflight_requests = 1 /\ pc["app"] \notin {"enter", "lock"}
  <2>. DEFINE k == inflight_requests
              n == Len(request_queue)
  <2>1. k \in 0 .. n /\ n = 1 /\ k > 0
    BY <1>1, <1>9, <1>10
  <2>2. pc["app"] \in {"enter", "lock"} => k < 1
    BY <1>9
  <2>. HIDE DEF k, n
  <2>3. k = 1 /\ ~(k < 1)
    BY <2>1
  <2>. QED BY <2>2, <2>3 DEF k
<1>12. Tail(request_queue) = <<>> /\ Tail(request_queue) # request_queue
  <2>1. Tail(request_queue) \in Seq(Requests) /\ Len(Tail(request_queue)) = Len(request_queue) - 1
    BY <1>8, <1>10, HeadTailProperties
  <2>2. Len(Tail(request_queue)) = 0
    BY <1>9, <2>1
  <2>. QED BY <1>8, <2>1, <2>2, EmptySeq
<1>13. r.queue = <<>> /\ r.inflight = 0
  BY <1>2, <1>7, <1>11, <1>12
<1>14. pc["app"] \in Protected
  BY <1>9, <1>11 DEF Transacting, Protected
<1>15. a = "app"
  <2>1. CASE a = "sig"
    BY <1>14, <2>1, ReadingAlone DEF Actors
  <2>. QED BY <2>1 DEF Actors
<1>16. pc["app"] \in {"reply", "rrecv"}
  BY <1>9, <1>15 DEF Receives, Reading, Transacting
<1>. QED BY <1>7, <1>13, <1>15, <1>16 DEF r

(* What receiving a reply leaves of the queue and the wire.                 *)
LEMMA OrderReceived ==
  ASSUME RefInv, Alive, Mirrors, Records, InOrder, Alone, NEW a \in Actors, Receives(a),
         server' = server, failure' = [failure EXCEPT ![a] = Received(a).failure],
         request_queue' \in {request_queue, Tail(request_queue), <<>>},
         \A b \in Actors : b # a => pc'[b] = pc[b]
  PROVE  InOrder'
<1>. DEFINE m == Head(toClient)
            NoAck(q) == \A i \in DOMAIN q : q[i].type # "ACK"
<1>1. /\ toClient # <<>> /\ toClient' = Tail(toClient) /\ Reply
      /\ inflight_requests > 0 /\ pc[a] \in Reading
  BY DEF Receives, Reply
<1>2. /\ Accepted(m) /\ \A i \in DOMAIN toClient' : Accepted(toClient'[i])
      /\ Refused(toClient', Refusing')
      /\ IsFailure(m.type) => Ignored(toClient', 1, Refusing')
  BY <1>1, OrderTail
<1>3. m.to = Head(request_queue) /\ Received(a).failure = (failure[a] \/ IsFailure(m.type))
  BY <1>1, ReceivedReply
<1>. HIDE DEF m
<1>4. DOMAIN failure = Actors /\ DOMAIN failure' = Actors
  BY DEF InOrder
<1>5. failure'[a] => failure[a] \/ IsFailure(m.type)
  BY <1>3, <1>4
<1>6. failure[a] => Ignored(toClient', 1, Refusing') /\ NoAck(request_queue)
  BY FailureFollowed
<1>7. /\ request_queue \in Seq(Requests) /\ request_queue # <<>>
      /\ Head(request_queue) = request_queue[1]
  BY <1>1, WindowKnown, HeadFits
<1>8. IsFailure(m.type) => NoAck(request_queue)
  <2>. SUFFICES ASSUME NEW i \in DOMAIN request_queue, request_queue[i].type = "ACK"
                PROVE  ~IsFailure(m.type)
    OBVIOUS
  <2>1. i = 1
    BY DEF Alone, Special
  <2>2. m.type = "SUCCESS"
    BY <1>2, <1>3, <1>7, <2>1 DEF Accepted, IsReset
  <2>. QED BY <2>2 DEF IsFailure
<1>9. NoAck(request_queue) => NoAck(request_queue')
  <2>1. /\ Len(request_queue) \in Nat
        /\ \A i \in 1 .. Len(request_queue) - 1 :
             Tail(request_queue)[i] = request_queue[i + 1]
        /\ DOMAIN request_queue = 1 .. Len(request_queue)
        /\ DOMAIN Tail(request_queue) = 1 .. Len(request_queue) - 1
    BY <1>7, HeadTailProperties
  <2>2. \A i \in 1 .. Len(request_queue) - 1 : i + 1 \in 1 .. Len(request_queue)
    BY <2>1
  <2>3. NoAck(request_queue) => NoAck(Tail(request_queue))
    BY <2>1, <2>2
  <2>4. NoAck(<<>>)
    OBVIOUS
  <2>. QED BY <2>3, <2>4
<1>10. failure'[a] => Ignored(toClient', 1, Refusing') /\ NoAck(request_queue')
  BY <1>2, <1>5, <1>6, <1>8, <1>9
<1>11. \A b \in Actors : b # a => pc'[b] \notin {"reply", "rrecv", "crecv"}
  BY ReadingAlone DEF Reading
<1>. QED BY <1>2, <1>4, <1>10, <1>11 DEF InOrder

LEMMA SpecialTail ==
  ASSUME RefInv, Alone, request_queue # <<>>, NEW i \in DOMAIN Tail(request_queue),
         Tail(request_queue)[i].type \in Special
  PROVE  /\ i = Len(Tail(request_queue)) /\ i + 1 = Len(request_queue) /\ i \in Nat \ {0}
         /\ call.cond = "none" /\ pc["app"] \in Transacting
         /\ pc["app"] \in {"enter", "lock"} => inflight_requests < i + 1
         /\ Tail(request_queue)[i].type # "ACK"
<1>. DEFINE n == Len(request_queue)
            t == Tail(request_queue)
<1>1. /\ n \in Nat /\ Len(t) = n - 1 /\ \A j \in 1 .. n - 1 : t[j] = request_queue[j + 1]
      /\ DOMAIN request_queue = 1 .. n /\ DOMAIN t = 1 .. n - 1
  BY WindowKnown, HeadTailProperties
<1>2. n = Len(request_queue)
  OBVIOUS
<1>. HIDE DEF n, t
<1>3. i \in 1 .. n - 1
  BY <1>1 DEF t
<1>4. i + 1 \in DOMAIN request_queue /\ t[i] = request_queue[i + 1] /\ i + 1 # 1
  BY <1>1, <1>3
<1>5. request_queue[i + 1].type \in Special
  BY <1>4 DEF t
<1>6. /\ i + 1 = n
      /\ call.cond = "none" /\ pc["app"] \in Transacting
      /\ pc["app"] \in {"enter", "lock"} => inflight_requests < i + 1
      /\ request_queue[i + 1].type = "ACK" => i + 1 = 1
  BY <1>2, <1>4, <1>5 DEF Alone
<1>7. i = Len(t) /\ i \in Nat \ {0}
  BY <1>1, <1>3, <1>6
<1>. QED BY <1>2, <1>4, <1>6, <1>7 DEF t

LEMMA AloneReceived ==
  ASSUME RefInv, Alive, Alone, inflight_requests > 0, UNCHANGED call,
         \/ request_queue' = request_queue /\ inflight_requests' = inflight_requests
         \/ /\ request_queue' = Tail(request_queue)
            /\ inflight_requests' = inflight_requests - 1,
         \/ /\ pc["app"] \in Transacting
            /\ pc'["app"] \in {"reply", "send", "exit", "rrecv", "rfinal"}
            /\ pc'["app"] = "exit" => reset_requested'
         \/ pc["app"] = "crecv" /\ pc'["app"] \in {"crecv", "cend"}
         \/ pc["app"] \notin Protected /\ pc'["app"] = pc["app"] /\ failed' = failed
  PROVE  Alone'
<1>. DEFINE k == inflight_requests
            n == Len(request_queue)
            AtEnd(i) == /\ i = Len(request_queue')
                        /\ call.cond = "none" /\ pc["app"] \in Transacting
                        /\ pc["app"] \in {"enter", "lock"} => inflight_requests' < i
                        /\ request_queue'[i].type = "ACK" => i = 1
<1>1. request_queue # <<>> /\ k \in 0 .. n /\ n \in Nat /\ k > 0
  BY WindowKnown, HeadFits
<1>2. ASSUME NEW i \in DOMAIN request_queue', request_queue'[i].type \in Special
      PROVE  AtEnd(i)
  <2>1. CASE request_queue' = request_queue /\ inflight_requests' = inflight_requests
    BY <1>2, <2>1 DEF Alone
  <2>2. CASE request_queue' = Tail(request_queue) /\ inflight_requests' = inflight_requests - 1
    <3>1. /\ i = Len(Tail(request_queue)) /\ i \in Nat \ {0}
          /\ call.cond = "none" /\ pc["app"] \in Transacting
          /\ pc["app"] \in {"enter", "lock"} => k < i + 1
          /\ Tail(request_queue)[i].type # "ACK"
      BY <1>1, <1>2, <2>2, SpecialTail
    <3>2. inflight_requests' = k - 1
      BY <2>2
    <3>. HIDE DEF k, n
    <3>3. k < i + 1 => k - 1 < i
      BY <1>1, <3>1
    <3>. QED BY <2>2, <3>1, <3>2, <3>3
  <2>. QED BY <2>1, <2>2
<1>3. CASE /\ pc["app"] \in Transacting
           /\ pc'["app"] \in {"reply", "send", "exit", "rrecv", "rfinal"}
           /\ pc'["app"] = "exit" => reset_requested'
  <2>1. /\ pc'["app"] \in Transacting
        /\ pc'["app"] \notin {"alloc", "fill", "enter", "lock", "unlock_ack"}
        /\ pc'["app"] \notin Opening
    BY <1>3 DEF Transacting, Opening
  <2>. HIDE DEF AtEnd
  <2>2. \A i \in DOMAIN request_queue' : request_queue'[i].type \in Special =>
          /\ i = Len(request_queue') /\ call'.cond = "none"
          /\ request_queue'[i].type = "ACK" => i = 1
    BY <1>2 DEF AtEnd
  <2>. QED BY <1>3, <2>1, <2>2 DEF Alone
<1>4. CASE pc["app"] = "crecv" /\ pc'["app"] \in {"crecv", "cend"}
  <2>1. \A i \in DOMAIN request_queue' : request_queue'[i].type \notin Special
    BY <1>2, <1>4 DEF Transacting
  <2>. QED BY <1>4, <2>1 DEF Alone, Opening
<1>5. CASE pc["app"] \notin Protected /\ pc'["app"] = pc["app"] /\ failed' = failed
  <2>1. pc["app"] \notin {"unlock_ack", "exit"}
    BY <1>5 DEF Protected
  <2>2. ~(pc["app"] = "alloc" /\ call.fill.type = "ACK")
    BY <1>1 DEF Alone
  <2>3. ~(pc["app"] = "fill" /\ call.fill.type = "ACK")
    <3>. SUFFICES ASSUME pc["app"] = "fill", call.fill.type = "ACK" PROVE FALSE
      OBVIOUS
    <3>1. n = 1
      BY DEF Alone
    <3>2. k < n
      BY DEF RefInv, Knows, Phases
    <3>. HIDE DEF k, n
    <3>. QED BY <1>1, <3>1, <3>2
  <2>4. /\ pc["app"] \in {"alloc", "fill"} => call.cond = "none"
        /\ pc["app"] \in Opening => call.cond # "none"
        /\ pc["app"] \in {"fill", "enter", "lock"} /\ call.cond = "none" => ~failed
    BY DEF Alone
  <2>. HIDE DEF AtEnd
  <2>5. \A i \in DOMAIN request_queue' : request_queue'[i].type \in Special =>
          /\ i = Len(request_queue') /\ call'.cond = "none" /\ pc'["app"] \in Transacting
          /\ pc'["app"] \in {"enter", "lock"} => inflight_requests' < i
          /\ request_queue'[i].type = "ACK" => i = 1
    BY <1>2, <1>5 DEF AtEnd
  <2>. QED BY <1>5, <2>1, <2>2, <2>3, <2>4, <2>5 DEF Alone
<1>. QED BY <1>3, <1>4, <1>5

(* A reply is received that is not an error.                                *)
LEMMA WireTurn ==
  ASSUME RefInv, Alive, Wired, Signals => Alone, NEW a \in Actors, Receives(a),
         Received(a).rc >= 0, UNCHANGED <<toServer, server, reset_requested, resets, call>>,
         failure' = [failure EXCEPT ![a] = Received(a).failure],
         request_queue' = Received(a).queue, inflight_requests' = Received(a).inflight,
         NEW label, pc' = [pc EXCEPT ![a] = label],
         \/ /\ a = "app" /\ pc[a] = "reply" /\ label \in {"reply", "send", "exit"}
            /\ label = "exit" => reset_requested
         \/ /\ pc[a] = "rrecv" /\ label \in {"rrecv", "rfinal"} /\ failed' = failed
            /\ label = "rfinal" => inflight_requests' = 0
         \/ a = "app" /\ pc[a] = "crecv" /\ label \in {"crecv", "cend"}
  PROVE  Wired' /\ (Signals => Alone')
<1>. DEFINE r == Received(a)
<1>1. /\ toClient # <<>> /\ toClient' = Tail(toClient) /\ Reply /\ inflight_requests > 0
      /\ (a = "app" => pc["sig"] = "idle") /\ pc \in [Actors -> Labels]
  BY WindowKnown DEF Receives, Reply
<1>2. /\ \/ r.queue = request_queue /\ r.inflight = inflight_requests
         \/ r.queue = Tail(request_queue) /\ r.inflight = inflight_requests - 1
      /\ Mirror(Tail(toClient), toServer, r.queue, r.inflight, Pending)
  BY <1>1, ReceivedReply DEF Wired
<1>3. pc'[a] = label /\ \A b \in Actors : b # a => pc'[b] = pc[b]
  BY <1>1
<1>4. \A b \in Actors : b # a => pc[b] \notin Protected /\ pc[b] \notin Reading
  BY ReadingAlone
<1>. HIDE DEF r
<1>5. Mirrors'
  <2>1. Pending' = Pending
    BY DEF Pending
  <2>. QED BY <1>1, <1>2, <2>1 DEF Mirrors, Mirror, Window, r
<1>6. Records'
  BY <1>1, RecordsTail DEF Wired
<1>7. Resets'
  <2>1. /\ resets' \in 0 .. MaxResets
        /\ reset_requested' => resets' >= 1 /\ (Once \/ SigHolds)
        /\ \A b \in Actors : pc[b] \in {"rrecv", "rfinal"} => reset_requested
        /\ \A b \in Actors : pc[b] = "rfinal" => inflight_requests = 0
    BY DEF Wired, Resets
  <2>2. pc'["app"] # "xmit"
    <3>1. a = "app" => pc'["app"] # "xmit"
      BY <1>3
    <3>2. a # "app" => pc'["app"] # "xmit"
      BY <1>3, <1>4 DEF Actors, Protected
    <3>. QED BY <3>1, <3>2
  <2>3. SigHolds => SigHolds'
    <3>1. a = "app" => pc'["sig"] = pc["sig"]
      BY <1>3 DEF Actors
    <3>2. a # "app" => pc'["sig"] # "idle"
      BY <1>3 DEF Actors
    <3>. QED BY <3>1, <3>2 DEF SigHolds
  <2>4. \A b \in Actors : pc'[b] \in {"rrecv", "rfinal"} => reset_requested'
    <3>1. pc'[a] \in {"rrecv", "rfinal"} => pc[a] = "rrecv"
      BY <1>3
    <3>. QED BY <1>3, <2>1, <3>1
  <2>5. \A b \in Actors : pc'[b] = "rfinal" => inflight_requests' = 0
    <3>1. \A b \in Actors : b # a => pc'[b] # "rfinal"
      BY <1>3, <1>4 DEF Protected
    <3>2. pc'[a] = "rfinal" => inflight_requests' = 0
      BY <1>3
    <3>. QED BY <3>1, <3>2
  <2>6. Once' <=> Once
    BY DEF Once
  <2>. QED BY <2>1, <2>2, <2>3, <2>4, <2>5, <2>6 DEF Resets
<1>8. ASSUME Signals PROVE InOrder'
  <2>1. request_queue' \in {request_queue, Tail(request_queue), <<>>}
    BY <1>2 DEF r
  <2>. QED BY <1>3, <1>8, <2>1, OrderReceived DEF Wired
<1>9. ASSUME Signals PROVE Alone'
  <2>1. \/ request_queue' = request_queue /\ inflight_requests' = inflight_requests
        \/ /\ request_queue' = Tail(request_queue)
           /\ inflight_requests' = inflight_requests - 1
    BY <1>2 DEF r
  <2>2. CASE a = "app"
    <3>1. pc'["app"] = label
      BY <1>3, <2>2
    <3>2. pc["app"] \in {"reply", "rrecv"} => pc["app"] \in Transacting
      BY DEF Transacting
    <3>. QED BY <1>1, <1>9, <2>1, <2>2, <3>1, <3>2, AloneReceived
  <2>3. CASE a = "sig"
    <3>1. pc["app"] \notin Protected /\ pc'["app"] = pc["app"]
      BY <1>3, <1>4, <2>3 DEF Actors
    <3>2. failed' = failed
      BY <2>3
    <3>. QED BY <1>1, <1>9, <2>1, <3>1, <3>2, AloneReceived
  <2>. QED BY <2>2, <2>3 DEF Actors
<1>. QED BY <1>5, <1>6, <1>7, <1>8, <1>9 DEF Wired, Signals, Once

(* The queue is drained when what is on the wire is for none of it.         *)
LEMMA WireDrained ==
  ASSUME RefInv, Alive, Wired, Receives("app"), UNCHANGED <<toServer, server, resets>>,
         UNCHANGED reset_requested,
         NEW q \in Seq(Requests), Mirror(Tail(toClient), toServer, q, 0, Pending),
         failure' = [failure EXCEPT !["app"] = Received("app").failure],
         request_queue' = <<>>, inflight_requests' = 0,
         NEW label \in {"unlock", "unlock_ack"}, pc' = [pc EXCEPT !["app"] = label],
         Signals => Alone
  PROVE  Wired' /\ (Signals => Alone')
<1>1. /\ toClient # <<>> /\ toClient' = Tail(toClient) /\ pc["sig"] = "idle"
      /\ pc \in [Actors -> Labels]
  BY WindowKnown DEF Receives, Reply
<1>2. pc'["app"] = label /\ pc'["sig"] = "idle"
  BY <1>1 DEF Actors
<1>3. \A b \in Actors : pc'[b] \notin {"reply", "rrecv", "rfinal", "crecv", "xmit"}
  BY <1>2 DEF Actors
<1>4. Mirrors'
  <2>1. SubSeq(q, 1, 0) = <<>>
    <3>1. 0 \in 0 .. Len(q)
      BY LenProperties
    <3>2. SubSeq(q, 1, 0) \in Seq(Requests) /\ Len(SubSeq(q, 1, 0)) = 0
      BY <3>1, FrontOf
    <3>. QED BY <3>2, EmptySeq
  <2>2. SubSeq(<<>>, 1, 0) = <<>>
    OBVIOUS
  <2>3. Mirror(Tail(toClient), toServer, <<>>, 0, Pending)
    BY <2>1, <2>2 DEF Mirror
  <2>4. Pending' = Pending
    BY DEF Pending
  <2>. QED BY <1>1, <2>3, <2>4 DEF Mirrors, Mirror, Window
<1>5. Records'
  BY <1>1, RecordsTail DEF Wired
<1>6. Resets'
  <2>1. /\ resets' \in 0 .. MaxResets
        /\ reset_requested' => resets' >= 1 /\ Once
    BY <1>1 DEF Wired, Resets, SigHolds
  <2>2. pc'["app"] # "xmit"
    BY <1>2
  <2>3. Once' <=> Once
    BY DEF Once
  <2>. QED BY <1>3, <2>1, <2>2, <2>3 DEF Resets
<1>7. ASSUME Signals PROVE InOrder'
  <2>1. \A b \in Actors : b # "app" => pc'[b] = pc[b]
    BY <1>1
  <2>2. request_queue' \in {request_queue, Tail(request_queue), <<>>}
    OBVIOUS
  <2>. QED BY <1>7, <2>1, <2>2, OrderReceived DEF Wired, Actors
<1>8. Alone'
  <2>1. DOMAIN request_queue' = {} /\ request_queue' = <<>>
    OBVIOUS
  <2>. QED BY <1>2, <2>1 DEF Alone, Opening
<1>. QED BY <1>4, <1>5, <1>6, <1>7, <1>8 DEF Wired, Signals, Once

LEMMA ReceivingTyped ==
  ASSUME RefInv, NEW a \in Actors, inflight_requests > 0
  PROVE  Received(a).queue \in Seq(Requests) /\ Received(a).inflight \in Nat
  BY ReceivedMoves DEF RefInv, WindowInv

\* Where nobody signals, a connection that fails is not used again.
LEMMA FailedForGood ==
  ASSUME NoSignal, resets' \in Nat, failed'
  PROVE  ~InUse'
<1>1. ~(resets' < 0)
  OBVIOUS
<1>. QED BY <1>1 DEF NoSignal, InUse

LEMMA WireSyncReceive ==
  ASSUME RefInv, Alive, Wired, Signals => Alone, NoSignal \/ Signals, sync_receive, InUse'
  PROVE  Wired' /\ (Signals => Alone')
<1>. DEFINE r == Received("app")
            Step(label) == pc' = [pc EXCEPT !["app"] = label]
<1>0. /\ pc \in [Actors -> Labels] /\ pc["app"] = "reply" /\ pc["sig"] = "idle"
      /\ toClient' = Tail(toClient) /\ Reply /\ inflight_requests > 0 /\ "app" \in Actors
  BY WindowKnown DEF sync_receive, At, RefInv, WindowInv, Expecting
<1>1. Receives("app")
  BY <1>0 DEF Receives, Reading
<1>2. pc'["app"] # "crashed"
  BY DEF InUse, Alive
<1>3. ~Crash
  BY <1>0, <1>2 DEF Crash, Actors
<1>4. /\ UNCHANGED <<toServer, server, reset_requested, resets, call>>
      /\ failure' = [failure EXCEPT !["app"] = r.failure]
  BY DEF sync_receive
<1>. DEFINE more == (r.failure \/ CondHolds(r.streams)) /\ r.inflight > 0
<1>5. \/ /\ ~r.crash /\ r.rc < 0 /\ failed' = TRUE
         /\ Step("unlock") /\ request_queue' = <<>> /\ inflight_requests' = 0
      \/ /\ r.rc >= 0 /\ r.failure /\ ~more
         /\ Step("unlock_ack") /\ request_queue' = <<>> /\ inflight_requests' = 0
      \/ /\ r.rc >= 0 /\ request_queue' = r.queue /\ inflight_requests' = r.inflight
         /\ \/ Step("exit") /\ reset_requested
            \/ Step("reply") \/ Step("send")
  BY <1>3 DEF sync_receive, FailSync, Goto
<1>6. r.failure /\ ~more => ~(r.inflight > 0)
  OBVIOUS
<1>7. r.queue \in Seq(Requests) /\ r.inflight \in Nat
  BY <1>0, ReceivingTyped
<1>8. r.rc >= 0 => Mirror(Tail(toClient), toServer, r.queue, r.inflight, Pending)
  BY <1>0, ReceivedReply DEF Wired
<1>. HIDE DEF r, more, Step
<1>9. CASE /\ ~r.crash /\ r.rc < 0 /\ failed' = TRUE
           /\ Step("unlock") /\ request_queue' = <<>> /\ inflight_requests' = 0
  <2>1. resets' \in Nat
    BY <1>4, SizeAssumption DEF Wired, Resets
  <2>2. Signals
    BY <1>9, <2>1, FailedForGood
  <2>3. r.inflight = 0 /\ Mirror(Tail(toClient), toServer, r.queue, r.inflight, Pending)
    BY <1>0, <1>1, <1>4, <1>9, <2>2, NoReject DEF Wired, r
  <2>. QED BY <1>1, <1>4, <1>7, <1>9, <2>2, <2>3, WireDrained DEF r, Step
<1>10. CASE /\ r.rc >= 0 /\ r.failure /\ ~more
            /\ Step("unlock_ack") /\ request_queue' = <<>> /\ inflight_requests' = 0
  <2>1. r.inflight = 0
    BY <1>6, <1>7, <1>10
  <2>. QED BY <1>1, <1>4, <1>7, <1>8, <1>10, <2>1, WireDrained DEF r, Step
<1>11. CASE /\ r.rc >= 0 /\ request_queue' = r.queue /\ inflight_requests' = r.inflight
            /\ \/ Step("exit") /\ reset_requested
               \/ Step("reply") \/ Step("send")
  <2>1. PICK label \in {"exit", "reply", "send"} :
               Step(label) /\ (label = "exit" => reset_requested)
    BY <1>11
  <2>2. /\ r.rc >= 0 /\ request_queue' = r.queue /\ inflight_requests' = r.inflight
        /\ pc' = [pc EXCEPT !["app"] = label]
    BY <1>11, <2>1 DEF Step
  <2>. QED BY <1>0, <1>1, <1>4, <2>1, <2>2, WireTurn DEF r
<1>. QED BY <1>5, <1>9, <1>10, <1>11

LEMMA WireResetReceive ==
  ASSUME RefInv, Alive, Wired, Signals => Alone, NoSignal \/ Signals, NEW a \in Actors,
         reset_receive(a), InUse'
  PROVE  Wired' /\ (Signals => Alone')
<1>. DEFINE r == Received(a)
<1>0. /\ pc \in [Actors -> Labels] /\ pc[a] = "rrecv" /\ (a = "app" => pc["sig"] = "idle")
      /\ toClient' = Tail(toClient) /\ Reply /\ inflight_requests > 0
  BY WindowKnown DEF reset_receive, Resetting, RefInv, WindowInv, Expecting, Actors
<1>1. Receives(a)
  BY <1>0 DEF Receives, Reading
<1>2. pc'["app"] # "crashed"
  BY DEF InUse, Alive
<1>3. ~Crash
  BY <1>0, <1>2 DEF Crash, Actors
<1>4. /\ UNCHANGED <<toServer, server, resets, call>>
      /\ failure' = [failure EXCEPT ![a] = r.failure]
  BY DEF reset_receive
<1>5. \/ /\ ~r.crash /\ r.rc < 0 /\ failed' = TRUE /\ reset_requested' = FALSE
      \/ /\ r.rc >= 0 /\ request_queue' = r.queue /\ inflight_requests' = r.inflight
         /\ pc' = [pc EXCEPT ![a] = IF r.inflight > 0 THEN "rrecv" ELSE "rfinal"]
         /\ UNCHANGED <<reset_requested, failed>>
  BY <1>3 DEF reset_receive, EndReset
<1>6. r.inflight \in Nat
  BY <1>0, ReceivingTyped
<1>. HIDE DEF r
<1>7. reset_requested /\ resets \in 1 .. MaxResets /\ (Once \/ SigHolds)
  BY <1>0, SizeAssumption DEF Wired, Resets
<1>8. Signals
  BY <1>7 DEF NoSignal
<1>9. ~(r.rc < 0 /\ ~r.crash /\ failed')
  <2>. SUFFICES ASSUME r.rc < 0, ~r.crash, failed' PROVE FALSE
    OBVIOUS
  <2>1. a = "app"
    BY <1>1, <1>4, <1>8, NoReject DEF Wired, r
  <2>2. ~SigHolds
    BY <1>0, <2>1 DEF SigHolds
  <2>3. MaxResets <= 1
    BY <1>7, <2>2 DEF Once
  <2>4. ~(resets' < MaxResets)
    BY <1>4, <1>7, <2>3, SizeAssumption
  <2>. QED BY <2>4 DEF InUse
<1>10. /\ r.rc >= 0 /\ request_queue' = r.queue /\ inflight_requests' = r.inflight
       /\ pc' = [pc EXCEPT ![a] = IF r.inflight > 0 THEN "rrecv" ELSE "rfinal"]
       /\ UNCHANGED <<reset_requested, failed>>
  BY <1>5, <1>9
<1>11. PICK label \in {"rrecv", "rfinal"} :
              pc' = [pc EXCEPT ![a] = label] /\ (label = "rfinal" => inflight_requests' = 0)
  <2>1. CASE r.inflight > 0
    BY <1>10, <2>1
  <2>2. CASE ~(r.inflight > 0)
    <3>1. r.inflight = 0
      BY <1>6, <2>2
    <3>. QED BY <1>10, <2>2, <3>1
  <2>. QED BY <2>1, <2>2
<1>. QED BY <1>0, <1>1, <1>4, <1>10, <1>11, WireTurn DEF r

LEMMA WireCloseReceive ==
  ASSUME RefInv, Alive, Wired, Signals => Alone, NoSignal \/ Signals, close_receive, InUse'
  PROVE  Wired' /\ (Signals => Alone')
<1>. DEFINE r == Received("app")
<1>0. /\ pc \in [Actors -> Labels] /\ pc["app"] = "crecv" /\ pc["sig"] = "idle"
      /\ toClient' = Tail(toClient) /\ Reply /\ inflight_requests > 0 /\ "app" \in Actors
  BY WindowKnown DEF close_receive, At, RefInv, WindowInv, Expecting
<1>1. Receives("app")
  BY <1>0 DEF Receives, Reading
<1>2. pc'["app"] # "crashed"
  BY DEF InUse, Alive
<1>3. ~Crash
  BY <1>0, <1>2 DEF Crash, Actors
<1>4. /\ UNCHANGED <<toServer, server, reset_requested, resets, call>>
      /\ failure' = [failure EXCEPT !["app"] = r.failure]
      /\ request_queue' = r.queue /\ inflight_requests' = r.inflight
  BY DEF close_receive
<1>5. /\ ~r.crash /\ (r.rc < 0 => failed')
      /\ \/ pc' = [pc EXCEPT !["app"] = "crecv"]
         \/ pc' = [pc EXCEPT !["app"] = "cend"]
  BY <1>3 DEF close_receive, Goto
<1>. HIDE DEF r
<1>6. ~(r.rc < 0)
  <2>. SUFFICES ASSUME r.rc < 0 PROVE FALSE
    OBVIOUS
  <2>1. resets' \in Nat
    BY <1>4, SizeAssumption DEF Wired, Resets
  <2>2. Signals
    BY <1>5, <2>1, FailedForGood
  <2>3. pc["app"] \in {"reply", "rrecv"}
    BY <1>0, <1>1, <1>4, <1>5, <2>2, NoReject DEF Wired, r
  <2>. QED BY <1>0, <2>3
<1>7. r.rc >= 0
  <2>1. r.rc \in {-1, 0, 1}
    BY <1>0, ReceivedReply DEF Wired, r
  <2>. QED BY <1>6, <2>1
<1>. QED BY <1>0, <1>1, <1>4, <1>5, <1>7, WireTurn DEF r
-----------------------------------------------------------------------------
(* A connection that is not in use is never used again.                     *)
Reviving == neo4j_reset /\ UNCHANGED <<closed, broken>>
NeverBack == /\ UNCHANGED resets
             /\ failed => failed'
             /\ closed => closed'
             /\ Drop \/ broken' = broken

LEMMA NotRevived ==
  ASSUME [Next]_vars
  PROVE  Reviving \/ NeverBack
<1>1. CASE Start
  BY <1>1 DEF Start, run_open, close_results, check_failure, consume, fetch_next, peek,
              AwaitRecords,
              begin_tx, tx_commit, tx_rollback, free_tx, close_start, unchangedByCall,
              wireVars, NeverBack
<1>2. CASE Sync
  BY <1>2 DEF Sync, sync_enter, sync_lock, sync_loop, sync_receive, sync_receive_error,
              send_requests, send_request, sync_exit, sync_unlock, sync_unlock_ack,
              new_request, populate, connVars, wireVars, NeverBack
<1>3. CASE Close
  BY <1>3 DEF Close, close_receive, close_receive_error, close_end, NeverBack
<1>4. CASE Run
  BY <1>4 DEF Run, session_run, session_pull_all, session_unlock, run_start, abandon,
              free_results, return_to_stream, return_to_tx, unchangedByCall, wireVars,
              NeverBack
<1>5. CASE \E a \in Actors : ResetBy(a)
  BY <1>5 DEF ResetBy, reset_receive, reset_reply, reset_error, NeverBack
<1>6. CASE neo4j_reset
  BY <1>6 DEF neo4j_reset, Reviving
<1>7. CASE ServerStep \/ ServerGoodbye \/ Drop \/ Terminated \/ UNCHANGED vars
  BY <1>7 DEF ServerStep, ServerGoodbye, Drop, Terminated, vars, connVars, wireVars, NeverBack
<1>. QED BY <1>1, <1>2, <1>3, <1>4, <1>5, <1>6, <1>7 DEF Next, Continue, Actors

LEMMA InUseBefore ==
  ASSUME RefInv, [Next]_vars, InUse'
  PROVE  InUse
<1>1. Alive
  <2>1. CASE \/ Start \/ Sync \/ Close \/ Run \/ neo4j_reset
             \/ \E a \in Actors : ResetBy(a)
    BY <2>1, ProgramAlive
  <2>2. CASE ServerStep \/ ServerGoodbye \/ Drop \/ Terminated \/ UNCHANGED vars
    <3>1. pc' = pc
      BY <2>2 DEF ServerStep, ServerGoodbye, Drop, Terminated, vars, ctlVars
    <3>. QED BY <3>1 DEF InUse, Alive
  <2>. QED BY <2>1, <2>2 DEF Next, Continue, Actors
<1>2. CASE Reviving
  BY <1>1, <1>2 DEF InUse, Reviving, neo4j_reset
<1>3. CASE NeverBack
  BY <1>1, <1>3 DEF InUse, NeverBack, Drop
<1>. QED BY <1>2, <1>3, NotRevived

LEMMA WireInit == Init => WireInv
<1>. SUFFICES ASSUME Init PROVE WireInv
  OBVIOUS
<1>1. /\ toClient = <<>> /\ toServer = <<>> /\ request_queue = <<>> /\ inflight_requests = 0
      /\ ~reset_requested /\ resets = 0 /\ pc["app"] = "idle" /\ pc["sig"] = "idle"
      /\ failure = [a \in Actors |-> FALSE] /\ pc = [a \in Actors |-> "idle"]
  BY DEF Init, Actors
<1>2. Mirrors
  <2>1. Answered(toClient) = <<>>
    BY <1>1, AnsweredEmpty
  <2>2. SubSeq(<<>>, 1, 0) = <<>>
    OBVIOUS
  <2>. QED BY <1>1, <2>1, <2>2 DEF Mirrors, Window, Pending
<1>3. Resets
  BY <1>1, SizeAssumption DEF Resets
<1>4. Records
  BY <1>1 DEF Records, Linked
<1>5. InOrder
  <2>1. DOMAIN failure = Actors /\ \A a \in Actors : ~failure[a]
    BY <1>1
  <2>2. \A i \in DOMAIN toClient : FALSE
    BY <1>1
  <2>. QED BY <2>1, <2>2 DEF InOrder, Refused
<1>6. Alone
  <2>1. \A i \in DOMAIN request_queue : FALSE
    BY <1>1
  <2>. QED BY <1>1, <2>1 DEF Alone, Opening
<1>. QED BY <1>2, <1>3, <1>4, <1>5, <1>6 DEF WireInv, Wired

LEMMA WireKept ==
  ASSUME NoSignal \/ Signals, RefInv, WireInv, [Next]_vars
  PROVE  WireInv'
<1>. SUFFICES ASSUME InUse' PROVE Wired' /\ (Signals => Alone')
  BY DEF WireInv, Signals, Once
<1>1. InUse
  BY InUseBefore
<1>2. Wired /\ (Signals => Alone)
  BY <1>1 DEF WireInv
<1>3. Alive /\ ~broken /\ Alive' /\ ~closed' /\ ~broken'
  BY <1>1 DEF InUse
<1>4. CASE Start
  BY <1>2, <1>3, <1>4, WireStart
<1>5. CASE Sync
  <2>1. CASE \/ sync_enter \/ sync_lock \/ sync_loop \/ send_requests
             \/ sync_exit \/ sync_unlock \/ sync_unlock_ack
    BY <1>2, <1>3, <2>1, WireQuiet
  <2>2. ~sync_receive_error
    BY <1>3, NoErrors DEF sync_receive_error
  <2>3. CASE sync_receive
    BY <1>2, <1>3, <2>3, WireSyncReceive
  <2>4. CASE send_request
    BY <1>2, <1>3, <2>4, WireSendRequest
  <2>5. CASE new_request
    BY <1>2, <1>3, <2>5, WireNewRequest
  <2>6. CASE populate
    BY <1>2, <1>3, <2>6, WirePopulate
  <2>. QED BY <1>5, <2>1, <2>2, <2>3, <2>4, <2>5, <2>6 DEF Sync
<1>6. CASE Close
  <2>1. ~close_receive_error
    BY <1>3, NoErrors DEF close_receive_error
  <2>2. ~close_end
    BY <1>3 DEF close_end
  <2>. QED BY <1>2, <1>3, <1>6, <2>1, <2>2, WireCloseReceive DEF Close
<1>7. CASE Run
  BY <1>2, <1>3, <1>7, WireRun
<1>8. ASSUME NEW a \in Actors, ResetBy(a)
      PROVE  Wired' /\ (Signals => Alone')
  <2>1. ~reset_error(a)
    BY <1>3, NoErrors DEF reset_error
  <2>2. CASE reset_receive(a)
    BY <1>2, <1>3, <2>2, WireResetReceive
  <2>3. CASE reset_reply(a)
    BY <1>2, <1>3, <2>3, WireResetReply
  <2>. QED BY <1>8, <2>1, <2>2, <2>3 DEF ResetBy
<1>9. CASE neo4j_reset
  BY <1>2, <1>3, <1>9, WireSignal
<1>10. CASE ServerStep
  BY <1>2, <1>3, <1>10, WireServerStep
<1>11. ~ServerGoodbye
  BY <1>2, <1>3, NoGoodbye DEF ServerGoodbye, Wired
<1>12. ~Drop
  BY <1>3 DEF Drop
<1>13. CASE UNCHANGED vars
  <2>1. UNCHANGED <<request_queue, inflight_requests, toServer, toClient, server,
                    reset_requested, resets, pc, failure, call, failed>>
    BY <1>13 DEF vars, connVars, ctlVars, wireVars
  <2>2. Mirrors' /\ Records'
    BY <1>2, <2>1, WireStill DEF Wired, Still
  <2>3. Resets'
    BY <1>2, <2>1 DEF Wired, Resets, SigHolds, Once
  <2>4. Signals => InOrder'
    BY <1>2, <2>1 DEF Wired, InOrder, Refusing
  <2>5. Signals => Alone'
    BY <1>2, <2>1 DEF Alone
  <2>. QED BY <2>2, <2>3, <2>4, <2>5 DEF Wired, Signals, Once
<1>14. Terminated => UNCHANGED vars
  BY DEF Terminated
<1>. QED BY <1>4, <1>5, <1>6, <1>7, <1>8, <1>9, <1>10, <1>11, <1>12, <1>13, <1>14
         DEF Next, Continue, Actors

(* On the wire there is the window alone, but for a RESET.                  *)
LEMMA WindowOnWire ==
  ASSUME RefInv, Alive, Mirrors
  PROVE  OnTheWire = Window
<1>. DEFINE w == Window
            S == Requests \ {Reset}
            n == inflight_requests
<1>1. request_queue \in Seq(Requests) /\ n \in 0 .. Len(request_queue)
  BY WindowKnown
<1>2. w \in Seq(Requests) /\ Len(w) = n /\ \A i \in 1 .. n : w[i] = request_queue[i]
  BY <1>1, FrontOf DEF Window
<1>3. \A i \in 1 .. n : request_queue[i] \in S
  <2>1. \A i \in 1 .. n : request_queue[i] \in Requests /\ Fits(request_queue[i])
    BY InFlight
  <2>2. ~Fits(Reset)
    BY DEF Fits, Answerable, Statements, TxRequests, Reset, Request
  <2>. QED BY <2>1, <2>2
<1>4. OnTheWire = Filter(w \o Pending, S)
  BY DEF OnTheWire, Mirrors
<1>. HIDE DEF w
<1>5. w \in Seq(S)
  <2>1. Len(w) \in Nat /\ w \in [1 .. Len(w) -> Requests]
    BY <1>2
  <2>2. w \in [1 .. Len(w) -> S]
    BY <1>2, <1>3, <2>1
  <2>. HIDE DEF S
  <2>. QED BY <2>1, <2>2
<1>6. Filter(w, S) = w
  BY <1>5, FilterAll
<1>7. CASE Pending = <<>>
  <2>1. w \o <<>> = w
    BY <1>2, ConcatEmptySeq
  <2>. QED BY <1>4, <1>6, <1>7, <2>1 DEF w
<1>8. CASE Pending = <<Reset>>
  <2>1. Reset \in Requests /\ Reset \notin S
    BY RequestsTyped
  <2>. HIDE DEF S
  <2>2. w \o <<Reset>> = Append(w, Reset)
    BY <1>2, <2>1, AppendIsConcat
  <2>3. Filter(Append(w, Reset), S) = Filter(w, S)
    BY <1>2, <2>1, FilterAppend
  <2>. QED BY <1>4, <1>6, <1>8, <2>2, <2>3 DEF w
<1>. QED BY <1>7, <1>8 DEF Pending

(* The wire is the window: the next reply is for the request at the head of *)
(* the queue ...                                                            *)
THEOREM WireTheorem ==
  ASSUME NoSignal \/ Signals
  PROVE  Spec => []WireIsWindow
<1>1. RefInv /\ WireInv => WireIsWindow
  <2>. SUFFICES ASSUME RefInv, WireInv, ~broken, ~failed, ~closed, pc["app"] # "crashed"
                PROVE  OnTheWire = SubSeq(request_queue, 1, inflight_requests)
    BY DEF WireIsWindow
  <2>1. Alive /\ Mirrors
    BY DEF WireInv, Wired, InUse, Alive
  <2>. QED BY <2>1, WindowOnWire DEF Window
<1>2. RefInv /\ WireInv /\ [Next]_vars => WireInv'
  BY WireKept
<1>. QED BY <1>1, <1>2, WireInit, RefInvariant, PTL DEF Spec

(* ... and the reply that ends a reset is the reply to RESET.  A connection *)
(* that has failed has nobody in the loop of session_sync or in a reset.    *)
Looping == {"lock", "loop", "reply", "send", "xmit", "exit", "rrecv", "rfinal"}
OutOfLoop == pc["sig"] = "idle" /\ pc["app"] \notin Looping
Serving == ~broken /\ (failed /\ ~closed => OutOfLoop)

\* A failure takes who meets it out of both.
LEMMA FailedLeaves ==
  ASSUME Signals, RefInv, Alive, ~broken, Wired, Alone, ~failed, failed',
         \/ Start \/ Sync \/ Close \/ Run \/ neo4j_reset
         \/ \E a \in Actors : ResetBy(a)
  PROVE  OutOfLoop'
<1>0. /\ pc \in [Actors -> Labels] /\ "app" \in Actors /\ "sig" \in Actors
      /\ ~NoReply
  BY WindowKnown, NoErrors
<1>1. ~Start
  BY DEF Start, run_open, close_results, check_failure, consume, fetch_next, peek, AwaitRecords,
         begin_tx, tx_commit, tx_rollback, free_tx, close_start, unchangedByCall
<1>2. ~Run
  BY DEF Run, session_run, session_pull_all, session_unlock, run_start, abandon,
         free_results, return_to_stream, return_to_tx, unchangedByCall
<1>3. CASE Sync
  <2>1. sync_receive
    BY <1>3 DEF Sync, sync_enter, sync_lock, sync_loop, sync_receive_error, send_requests,
                send_request, sync_exit, sync_unlock, sync_unlock_ack, new_request,
                populate, connVars
  <2>2. /\ pc["sig"] = "idle"
        /\ pc' = [pc EXCEPT !["app"] = "unlock"] \/ Crash
    BY <2>1 DEF sync_receive, FailSync, Goto, At
  <2>. QED BY <1>0, <2>2 DEF OutOfLoop, Looping, Crash
<1>4. CASE Close
  <2>1. close_receive \/ close_end
    BY <1>0, <1>4 DEF Close, close_receive_error
  <2>2. pc["sig"] = "idle" /\ \/ pc' = [pc EXCEPT !["app"] = "crecv"]
                              \/ pc' = [pc EXCEPT !["app"] = "cend"]
                              \/ pc' = [pc EXCEPT !["app"] = "idle"]
                              \/ Crash
    BY <2>1 DEF close_receive, close_end, Goto, At
  <2>. QED BY <1>0, <2>2 DEF OutOfLoop, Looping, Crash
<1>5. ~neo4j_reset
  BY DEF neo4j_reset
<1>6. ASSUME NEW a \in Actors, ResetBy(a) PROVE OutOfLoop'
  <2>1. ~reset_error(a)
    BY <1>0 DEF reset_error
  <2>2. ~reset_reply(a)
    <3>. SUFFICES ASSUME reset_reply(a) PROVE FALSE
      OBVIOUS
    <3>1. pc[a] = "rfinal" /\ toClient # <<>> /\ toClient' = Tail(toClient) /\ server' = server
      BY DEF reset_reply, Resetting, Reply
    <3>2. Head(toClient).to = Reset
      BY <3>1, ResetIsAnswered DEF Wired
    <3>3. Accepted(Head(toClient))
      BY <3>1, OrderTail DEF Wired
    <3>4. Head(toClient).type = "SUCCESS"
      BY <3>2, <3>3 DEF Accepted, IsReset, Reset, Request
    <3>. QED BY <3>4 DEF reset_reply
  <2>3. reset_receive(a)
    BY <1>6, <2>1, <2>2 DEF ResetBy
  <2>4. /\ pc[a] = "rrecv" /\ (a = "app" => pc["sig"] = "idle") /\ Reply
        /\ toClient' = Tail(toClient) /\ server' = server
        /\ Received(a).rc < 0 /\ ~Received(a).crash
        /\ \/ Crash
           \/ pc' = [pc EXCEPT ![a] = IF a = "app" THEN "unlock" ELSE "idle"]
    BY <2>3 DEF reset_receive, Resetting, EndReset
  <2>5. inflight_requests > 0
    BY <2>4 DEF RefInv, WindowInv, Expecting, Actors
  <2>6. a = "app"
    BY <2>4, <2>5, NoReject DEF Receives, Reading, Wired
  <2>. QED BY <1>0, <2>4, <2>6 DEF OutOfLoop, Looping, Crash
<1>. QED BY <1>1, <1>2, <1>3, <1>4, <1>5, <1>6

\* Of a connection that has failed, neither is entered.
LEMMA FailedStays ==
  ASSUME RefInv, ~broken, failed, failed', OutOfLoop,
         \/ Start \/ Sync \/ Close \/ Run \/ neo4j_reset
         \/ \E a \in Actors : ResetBy(a)
  PROVE  OutOfLoop'
<1>. DEFINE Step(label) == pc' = [pc EXCEPT !["app"] = label]
<1>0. pc \in [Actors -> Labels] /\ pc["sig"] = "idle" /\ pc["app"] \notin Looping
  BY WindowKnown DEF OutOfLoop
<1>1. \A label \in Labels \ Looping : Step(label) => OutOfLoop'
  BY <1>0 DEF OutOfLoop, Actors
<1>2. Crash => OutOfLoop'
  BY <1>0 DEF Crash, OutOfLoop, Looping, Actors
<1>3. {"idle", "run", "run_unlock", "pull", "pull_unlock", "start", "abandon", "free",
       "alloc", "fill", "enter", "unlock", "unlock_ack", "done", "crecv", "cend"}
        \subseteq Labels \ Looping
  BY DEF Labels, Looping
<1>4. pc' = pc => OutOfLoop'
  BY <1>0 DEF OutOfLoop
<1>5. CASE Start
  <2>1. \/ pc' = pc
        \/ Step("run") \/ Step("enter") \/ Step("free") \/ Step("alloc")
        \/ Step("crecv") \/ Step("cend") \/ Crash
    BY <1>5 DEF Start, run_open, close_results, check_failure, consume, fetch_next, peek,
                AwaitRecords,
                begin_tx, tx_commit, tx_rollback, free_tx, close_start, Enter, Goto,
                run_rs_close
  <2>. HIDE DEF Step
  <2>. QED BY <1>1, <1>2, <1>3, <1>4, <2>1
<1>6. CASE Sync
  <2>1. sync_enter \/ sync_unlock \/ sync_unlock_ack \/ new_request \/ populate
    BY <1>0, <1>6 DEF Sync, sync_lock, sync_loop, sync_receive, sync_receive_error,
                      send_requests, send_request, sync_exit, At, Looping
  <2>2. \/ Step("done") \/ Step("alloc") \/ Step("fill") \/ Step("enter")
    BY <2>1 DEF sync_enter, sync_unlock, sync_unlock_ack, new_request, populate, Return, Goto
  <2>. HIDE DEF Step
  <2>. QED BY <1>1, <1>3, <2>2
<1>7. CASE Close
  <2>1. Crash \/ Step("crecv") \/ Step("cend") \/ Step("idle")
    BY <1>7 DEF Close, close_receive, close_receive_error, close_end, Goto
  <2>. HIDE DEF Step
  <2>. QED BY <1>1, <1>2, <1>3, <2>1
<1>8. CASE Run
  <2>1. \/ Crash
        \/ Step("abandon") \/ Step("run_unlock") \/ Step("pull_unlock") \/ Step("pull")
        \/ Step("start") \/ Step("idle") \/ Step("enter") \/ Step("free")
    BY <1>8 DEF Run, session_run, session_pull_all, session_unlock, run_start, abandon,
                free_results, return_to_stream, return_to_tx, Enqueue, Enter, Goto,
                run_rs_close
  <2>. HIDE DEF Step
  <2>. QED BY <1>1, <1>2, <1>3, <2>1
<1>9. ~neo4j_reset
  BY DEF neo4j_reset
<1>10. \A a \in Actors : ~ResetBy(a)
  BY <1>0 DEF ResetBy, reset_receive, reset_reply, reset_error, Resetting, Actors, Looping
<1>. QED BY <1>5, <1>6, <1>7, <1>8, <1>9, <1>10

LEMMA ServingKept ==
  ASSUME Signals, RefInv, WireInv, Serving, [Next]_vars
  PROVE  Serving'
<1>1. ~broken /\ ~broken' /\ (closed => closed')
  <2>1. ~Drop
    BY DEF Drop, Signals
  <2>. QED BY <2>1, NotRevived DEF Serving, Reviving, NeverBack
<1>2. SUFFICES ASSUME failed', ~closed' PROVE OutOfLoop'
  BY <1>1 DEF Serving
<1>3. ~closed
  BY <1>1, <1>2
<1>4. CASE \/ Start \/ Sync \/ Close \/ Run \/ neo4j_reset
           \/ \E a \in Actors : ResetBy(a)
  <2>1. CASE failed
    BY <1>1, <1>2, <1>3, <1>4, <2>1, FailedStays DEF Serving
  <2>2. CASE ~failed
    <3>1. Alive
      BY <1>4, ProgramAlive
    <3>2. Wired /\ Alone
      BY <1>1, <1>3, <2>2, <3>1 DEF WireInv, InUse
    <3>. QED BY <1>1, <1>2, <1>4, <2>2, <3>1, <3>2, FailedLeaves
  <2>. QED BY <2>1, <2>2
<1>5. CASE ServerStep \/ ServerGoodbye \/ Drop \/ Terminated \/ UNCHANGED vars
  <2>1. UNCHANGED <<pc, failed>>
    BY <1>5 DEF ServerStep, ServerGoodbye, Drop, Terminated, vars, connVars, ctlVars
  <2>. QED BY <1>2, <1>3, <2>1 DEF Serving, OutOfLoop
<1>. QED BY <1>4, <1>5 DEF Next, Continue, Actors

\* What session_reset takes for the reply to RESET is one, while the
\* connection has not been closed.
LEMMA ResetOpen ==
  ASSUME Signals
  PROVE  Spec => [](~closed => ResetAnswered)
<1>1. Init => Serving
  BY DEF Init, Serving
<1>2. RefInv /\ WireInv /\ [Next]_vars => WireInv'
  BY WireKept
<1>3. RefInv /\ WireInv /\ Serving /\ [Next]_vars => Serving'
  BY ServingKept
<1>4. RefInv /\ WireInv /\ Serving => (~closed => ResetAnswered)
  <2>. SUFFICES ASSUME RefInv, WireInv, Serving, ~closed,
                       NEW a \in Actors, pc[a] = "rfinal", toClient # <<>>
                PROVE  Head(toClient).to = Reset
    BY DEF ResetAnswered
  <2>1. Alive
    BY DEF RefInv, Alive, Actors
  <2>2. ~failed /\ ~broken
    BY DEF Serving, OutOfLoop, Looping, Actors
  <2>3. Wired
    BY <2>1, <2>2 DEF WireInv, InUse
  <2>. QED BY <2>3, ResetIsAnswered DEF Wired
<1>. QED BY <1>1, <1>2, <1>3, <1>4, WireInit, RefInvariant, PTL DEF Spec
=============================================================================
