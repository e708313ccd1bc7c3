---------------------------- MODULE RequestQueue ----------------------------
(***************************************************************************)
(* The circular request queue of struct neo4j_connection (connection.c):   *)
(* request_queue is an array of request_queue_size slots, request_queue_   *)
(* head the slot of the oldest request, request_queue_depth the number of  *)
(* queued requests and inflight_requests how many of them, counted from    *)
(* the head, have been sent and not answered.                              *)
(***************************************************************************)
EXTENDS Naturals, Sequences

CONSTANTS Requests,              \* what a caller populates a slot with
          NoRequest,             \* a slot zeroed by pop_request
          request_queue_size,
          max_pipelined_requests

ASSUME QueueSizeAssumption == request_queue_size \in Nat \ {0}
ASSUME PipelineAssumption == max_pipelined_requests \in Nat
ASSUME NoRequestAssumption == NoRequest \notin Requests

VARIABLES request_queue, request_queue_head, request_queue_depth,
          inflight_requests,
          sent,      \* the request the last step passed to neo4j_connection_send
          answered   \* the request whose callback the last step ran

vars == <<request_queue, request_queue_head, request_queue_depth,
          inflight_requests, sent, answered>>

Slots == 0 .. request_queue_size - 1

Init ==
  /\ request_queue = [i \in Slots |-> NoRequest]
  /\ request_queue_head = 0
  /\ request_queue_depth = 0
  /\ inflight_requests = 0
  /\ sent = NoRequest
  /\ answered = NoRequest

\* Fault: the test for wrapping is off by one.
TailWrapsLate ==
  LET request_queue_free == request_queue_size - request_queue_depth
  IN  IF request_queue_free >= request_queue_head
      THEN request_queue_head + request_queue_depth
      ELSE request_queue_head - request_queue_free

(* The slot new_request hands out, computed without letting head + depth   *)
(* run past the end of the array.                                          *)
request_queue_tail ==
  LET request_queue_free == request_queue_size - request_queue_depth
  IN  IF request_queue_free > request_queue_head
      THEN request_queue_head + request_queue_depth
      ELSE request_queue_head - request_queue_free

new_request(r) ==
  /\ request_queue_depth < request_queue_size
  /\ request_queue' = [request_queue EXCEPT ![request_queue_tail] = r]
  /\ request_queue_depth' = request_queue_depth + 1
  /\ sent' = NoRequest
  /\ answered' = NoRequest
  /\ UNCHANGED <<request_queue_head, inflight_requests>>

\* Fault: the offset is counted from the start of the array.
SendFromSlotZero ==
  /\ inflight_requests < request_queue_depth
  /\ inflight_requests < max_pipelined_requests
  /\ sent' = request_queue[inflight_requests % request_queue_size]
  /\ inflight_requests' = inflight_requests + 1
  /\ answered' = NoRequest
  /\ UNCHANGED <<request_queue, request_queue_head, request_queue_depth>>

(* One turn of the loop of send_requests, whose index i always equals      *)
(* inflight_requests.                                                      *)
send_request ==
  LET offset == (request_queue_head + inflight_requests) % request_queue_size
  IN  /\ inflight_requests < request_queue_depth
      /\ inflight_requests < max_pipelined_requests
      /\ sent' = request_queue[offset]
      /\ inflight_requests' = inflight_requests + 1
      /\ answered' = NoRequest
      /\ UNCHANGED <<request_queue, request_queue_head, request_queue_depth>>

\* Fault: the head is allowed to reach the size of the array.
NextHeadWrapsLate ==
  IF request_queue_head + 1 > request_queue_size
  THEN 0 ELSE request_queue_head + 1

(* The head of the queue after pop_request.                                *)
NextHead ==
  IF request_queue_head + 1 >= request_queue_size
  THEN 0 ELSE request_queue_head + 1

(* receive_responses: the reply to the oldest request has been given to    *)
(* its callback, which returned 0 or less; pop_request then zeroes the     *)
(* slot and advances the head.                                             *)
receive_response ==
  /\ inflight_requests > 0
  /\ answered' = request_queue[request_queue_head]
  /\ request_queue' = [request_queue EXCEPT ![request_queue_head] = NoRequest]
  /\ request_queue_depth' = request_queue_depth - 1
  /\ request_queue_head' = NextHead
  /\ inflight_requests' = inflight_requests - 1
  /\ sent' = NoRequest

\* Fault: the requests in flight are not forgotten with the queue.
DrainKeepsInflight ==
  /\ request_queue' = [i \in Slots |-> NoRequest]
  /\ request_queue_head' =
       (request_queue_head + request_queue_depth) % request_queue_size
  /\ request_queue_depth' = 0
  /\ sent' = NoRequest
  /\ answered' = NoRequest
  /\ UNCHANGED inflight_requests

(* drain_queued_requests pops until the queue is empty, whatever is in     *)
(* flight: the head ends where the tail was and every slot is zeroed.      *)
drain_queued_requests ==
  /\ request_queue' = [i \in Slots |-> NoRequest]
  /\ request_queue_head' =
       IF request_queue_head + request_queue_depth >= request_queue_size
       THEN request_queue_head + request_queue_depth - request_queue_size
       ELSE request_queue_head + request_queue_depth
  /\ request_queue_depth' = 0
  /\ inflight_requests' = 0
  /\ sent' = NoRequest
  /\ answered' = NoRequest

Next ==
  \/ \E r \in Requests : new_request(r)
  \/ send_request
  \/ receive_response
  \/ drain_queued_requests

Spec == Init /\ [][Next]_vars
-----------------------------------------------------------------------------
TypeOK ==
  /\ request_queue \in [Slots -> Requests \cup {NoRequest}]
  /\ request_queue_head \in Slots
  /\ request_queue_depth \in 0 .. request_queue_size
  /\ inflight_requests \in Nat
  /\ sent \in Requests \cup {NoRequest}
  /\ answered \in Requests \cup {NoRequest}

(* The slot of the i-th oldest request, i counted from 0.                  *)
SlotOf(i) ==
  IF request_queue_head + i < request_queue_size
  THEN request_queue_head + i
  ELSE request_queue_head + i - request_queue_size

(* The requests in flight are queued, and no more than the configured      *)
(* number of them: the bound neo4j_config_set_max_pipelined_requests sets  *)
(* on the loop of send_requests.                                           *)
WindowBounded ==
  /\ inflight_requests <= request_queue_depth
  /\ inflight_requests <= max_pipelined_requests

(* Exactly the slots between head and tail hold a request: new_request     *)
(* never hands out a slot whose request has not been answered, and         *)
(* receive_responses never runs the callback of a zeroed slot.             *)
LiveSlots ==
  \A i \in 0 .. request_queue_size - 1 :
     (request_queue[SlotOf(i)] # NoRequest) <=> (i < request_queue_depth)

(* The queue as a sequence, oldest request first.                          *)
Contents == [i \in 1 .. request_queue_depth |-> request_queue[SlotOf(i - 1)]]

Fifo == INSTANCE RequestFifo
          WITH Capacity <- request_queue_size,
               MaxPipelined <- max_pipelined_requests,
               queue <- Contents,
               unanswered <- inflight_requests

(* The circular array implements the queue of module RequestFifo: send_    *)
(* requests sends, and receive_responses answers, the requests in the      *)
(* order new_request handed them out, across every wrap of the array.      *)
ImplementsFifo == Fifo!FifoSpec
=============================================================================
