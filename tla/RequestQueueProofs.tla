------------------------- MODULE RequestQueueProofs -------------------------
(***************************************************************************)
(* Proofs about the circular request queue, for every array size and       *)
(* pipelining limit: its invariants, and that it implements RequestFifo.   *)
(***************************************************************************)
EXTENDS RequestQueue, SequenceTheorems, TLAPS

Inv == TypeOK /\ WindowBounded /\ LiveSlots

(* A position counted from any head is a slot of the array.                *)
LEMMA SlotInRange ==
  ASSUME NEW h \in Slots, NEW i \in 0 .. request_queue_size - 1
  PROVE  (IF h + i < request_queue_size
          THEN h + i ELSE h + i - request_queue_size) \in Slots
  BY QueueSizeAssumption DEF Slots

(* new_request hands out the slot just past the newest request.            *)
LEMMA TailIsSlotOfDepth ==
  ASSUME TypeOK, request_queue_depth < request_queue_size
  PROVE  request_queue_tail = SlotOf(request_queue_depth)
  BY QueueSizeAssumption DEF TypeOK, request_queue_tail, SlotOf, Slots

(* Distinct positions of the queue are distinct slots of the array.        *)
LEMMA SlotsDistinct ==
  ASSUME TypeOK,
         NEW i \in 0 .. request_queue_size - 1,
         NEW j \in 0 .. request_queue_size - 1
  PROVE  /\ SlotOf(i) \in Slots
         /\ SlotOf(i) = SlotOf(j) => i = j
  BY QueueSizeAssumption DEF TypeOK, SlotOf, Slots

(* Every slot other than the one new_request writes keeps its position.    *)
LEMMA NewRequestInv ==
  ASSUME Inv, NEW r \in Requests, new_request(r)
  PROVE  Inv'
<1>. DEFINE t == SlotOf(request_queue_depth)
<1>1. request_queue_tail = t /\ t \in Slots
  BY TailIsSlotOfDepth, SlotsDistinct, QueueSizeAssumption
     DEF Inv, TypeOK, new_request
<1>2. TypeOK'
  BY <1>1, QueueSizeAssumption DEF Inv, TypeOK, new_request, Slots
<1>3. WindowBounded'
  BY QueueSizeAssumption DEF Inv, TypeOK, WindowBounded, new_request
<1>4. LiveSlots'
  <2>. SUFFICES ASSUME NEW i \in 0 .. request_queue_size - 1
                PROVE  (request_queue'[SlotOf(i)] # NoRequest)
                         <=> (i < request_queue_depth')
    BY DEF LiveSlots, SlotOf, new_request
  <2>1. SlotOf(i) \in Slots /\ (SlotOf(i) = t => i = request_queue_depth)
    BY SlotsDistinct, QueueSizeAssumption DEF Inv, TypeOK, new_request
  <2>2. request_queue' = [request_queue EXCEPT ![t] = r]
    BY <1>1 DEF new_request
  <2>3. CASE i = request_queue_depth
    <3>1. request_queue'[SlotOf(i)] = r
      BY <1>1, <2>2, <2>3 DEF Inv, TypeOK
    <3>. QED BY <2>3, <3>1, NoRequestAssumption DEF Inv, TypeOK, new_request
  <2>4. CASE i # request_queue_depth
    <3>1. request_queue'[SlotOf(i)] = request_queue[SlotOf(i)]
      BY <2>1, <2>2, <2>4 DEF Inv, TypeOK
    <3>. QED
      BY <2>4, <3>1, QueueSizeAssumption DEF Inv, TypeOK, LiveSlots, new_request
  <2>. QED BY <2>3, <2>4
<1>. QED BY <1>2, <1>3, <1>4 DEF Inv

(* Popping the head moves every other request one position forward.        *)
LEMMA SlotAfterPop ==
  ASSUME TypeOK, request_queue_head' = NextHead,
         NEW i \in 0 .. request_queue_size - 1
  PROVE  SlotOf(i)' = IF i + 1 < request_queue_size
                      THEN SlotOf(i + 1) ELSE SlotOf(0)
  BY QueueSizeAssumption DEF TypeOK, SlotOf, NextHead, Slots

LEMMA ReceiveResponseInv ==
  ASSUME Inv, receive_response
  PROVE  Inv'
<1>1. 0 < request_queue_depth /\ SlotOf(0) = request_queue_head
  BY QueueSizeAssumption
     DEF Inv, TypeOK, WindowBounded, receive_response, SlotOf, Slots
<1>2. TypeOK'
  BY <1>1, QueueSizeAssumption
     DEF Inv, TypeOK, receive_response, NextHead, Slots
<1>3. WindowBounded'
  BY QueueSizeAssumption, PipelineAssumption
     DEF Inv, TypeOK, WindowBounded, receive_response
<1>4. LiveSlots'
  <2>. SUFFICES ASSUME NEW i \in 0 .. request_queue_size - 1
                PROVE  (request_queue'[SlotOf(i)'] # NoRequest)
                         <=> (i < request_queue_depth')
    BY DEF LiveSlots
  <2>1. CASE i + 1 < request_queue_size
    <3>1. SlotOf(i)' = SlotOf(i + 1)
      BY <2>1, SlotAfterPop DEF Inv, receive_response
    <3>2. SlotOf(i + 1) \in Slots /\ SlotOf(i + 1) # SlotOf(0)
      BY <2>1, SlotsDistinct, QueueSizeAssumption DEF Inv
    <3>3. request_queue'[SlotOf(i + 1)] = request_queue[SlotOf(i + 1)]
      BY <1>1, <3>2 DEF Inv, TypeOK, receive_response
    <3>4. (request_queue[SlotOf(i + 1)] # NoRequest)
             <=> (i + 1 < request_queue_depth)
      BY <2>1, QueueSizeAssumption DEF Inv, LiveSlots
    <3>. QED
      BY <3>1, <3>3, <3>4, QueueSizeAssumption DEF Inv, TypeOK, receive_response
  <2>2. CASE ~(i + 1 < request_queue_size)
    <3>1. SlotOf(i)' = request_queue_head
      BY <1>1, <2>2, SlotAfterPop DEF Inv, receive_response
    <3>2. request_queue'[request_queue_head] = NoRequest
      BY DEF Inv, TypeOK, receive_response
    <3>. QED
      BY <2>2, <3>1, <3>2, QueueSizeAssumption DEF Inv, TypeOK, receive_response
  <2>. QED BY <2>1, <2>2
<1>. QED BY <1>2, <1>3, <1>4 DEF Inv

LEMMA DrainInv ==
  ASSUME Inv, drain_queued_requests
  PROVE  Inv'
<1>1. TypeOK'
  BY QueueSizeAssumption DEF Inv, TypeOK, drain_queued_requests, Slots
<1>2. WindowBounded'
  BY PipelineAssumption DEF WindowBounded, drain_queued_requests
<1>3. request_queue_head' \in Slots
  BY <1>1 DEF TypeOK
<1>4. LiveSlots'
  <2>. SUFFICES ASSUME NEW i \in 0 .. request_queue_size - 1
                PROVE  (request_queue'[SlotOf(i)'] # NoRequest)
                         <=> (i < request_queue_depth')
    BY DEF LiveSlots
  <2>1. SlotOf(i)' = IF request_queue_head' + i < request_queue_size
                     THEN request_queue_head' + i
                     ELSE request_queue_head' + i - request_queue_size
    BY DEF SlotOf
  <2>2. SlotOf(i)' \in Slots
    BY <1>3, <2>1, SlotInRange
  <2>. QED BY <2>2 DEF drain_queued_requests
<1>. QED BY <1>1, <1>2, <1>4 DEF Inv

(* send_requests' modulo is the position of the first unsent request.       *)
LEMMA SendOffset ==
  ASSUME TypeOK, inflight_requests < request_queue_depth
  PROVE  (request_queue_head + inflight_requests) % request_queue_size
           = SlotOf(inflight_requests)
<1>1. /\ request_queue_size \in Nat \ {0}
      /\ request_queue_head \in Nat
      /\ inflight_requests \in Nat
      /\ request_queue_head + inflight_requests < 2 * request_queue_size
  BY QueueSizeAssumption DEF TypeOK, Slots
<1>2. (request_queue_head + inflight_requests) % request_queue_size
        = IF request_queue_head + inflight_requests < request_queue_size
          THEN request_queue_head + inflight_requests
          ELSE request_queue_head + inflight_requests - request_queue_size
  BY ONLY <1>1, Z3
<1>. QED BY <1>2 DEF SlotOf

LEMMA SendRequestInv ==
  ASSUME Inv, send_request
  PROVE  Inv'
<1>1. (request_queue_head + inflight_requests) % request_queue_size
         = SlotOf(inflight_requests)
  BY SendOffset DEF Inv, send_request
<1>2. SlotOf(inflight_requests) \in Slots
  BY SlotsDistinct, QueueSizeAssumption
     DEF Inv, TypeOK, send_request
<1>3. TypeOK'
  BY <1>1, <1>2 DEF Inv, TypeOK, send_request
<1>4. WindowBounded'
  BY QueueSizeAssumption, PipelineAssumption
     DEF Inv, TypeOK, WindowBounded, send_request
<1>5. LiveSlots'
  BY DEF Inv, LiveSlots, SlotOf, send_request
<1>. QED BY <1>3, <1>4, <1>5 DEF Inv

(* The three invariants hold in every state of the queue, whatever the     *)
(* size of the array and the pipelining limit.                             *)
THEOREM QueueInvariant == Spec => []Inv
<1>1. Init => Inv
  <2>. SUFFICES ASSUME Init PROVE Inv
    OBVIOUS
  <2>1. TypeOK
    BY QueueSizeAssumption DEF Init, TypeOK, Slots
  <2>2. WindowBounded
    BY PipelineAssumption DEF Init, WindowBounded
  <2>3. LiveSlots
    BY QueueSizeAssumption DEF Init, LiveSlots, SlotOf, Slots
  <2>. QED BY <2>1, <2>2, <2>3 DEF Inv
<1>2. Inv /\ [Next]_vars => Inv'
  <2>. SUFFICES ASSUME Inv, [Next]_vars PROVE Inv'
    OBVIOUS
  <2>1. ASSUME NEW r \in Requests, new_request(r) PROVE Inv'
    BY <2>1, NewRequestInv
  <2>2. CASE send_request
    BY <2>2, SendRequestInv
  <2>3. CASE receive_response
    BY <2>3, ReceiveResponseInv
  <2>4. CASE drain_queued_requests
    BY <2>4, DrainInv
  <2>5. CASE UNCHANGED vars
    BY <2>5 DEF Inv, TypeOK, WindowBounded, LiveSlots, SlotOf, vars
  <2>. QED BY <2>1, <2>2, <2>3, <2>4, <2>5 DEF Next
<1>. QED BY <1>1, <1>2, PTL DEF Spec

(* Every counter stays within the array, whatever is queued, sent, answered *)
(* or given up: no index of request_queue is out of bounds.                *)
THEOREM TypeTheorem == Spec => []TypeOK
<1>1. Inv => TypeOK
  BY DEF Inv
<1>. QED BY <1>1, QueueInvariant, PTL

(* No more requests are in flight than are queued, nor than the pipelining *)
(* limit allows.                                                           *)
THEOREM WindowTheorem == Spec => []WindowBounded
<1>1. Inv => WindowBounded
  BY DEF Inv
<1>. QED BY <1>1, QueueInvariant, PTL

(* A slot handed out by new_request holds no unanswered request.           *)
THEOREM LiveSlotsTheorem == Spec => []LiveSlots
<1>1. Inv => LiveSlots
  BY DEF Inv
<1>. QED BY <1>1, QueueInvariant, PTL
-----------------------------------------------------------------------------
(* The abstract queue is a sequence of requests, one for each position.    *)
Shape ==
  /\ Contents \in Seq(Requests)
  /\ Len(Contents) = request_queue_depth
  /\ \A k \in 1 .. request_queue_depth :
        Contents[k] = request_queue[SlotOf(k - 1)]

LEMMA ContentsShape == Inv => Shape
<1>. SUFFICES ASSUME Inv PROVE Shape
  OBVIOUS
<1>1. ASSUME NEW k \in 1 .. request_queue_depth
      PROVE  request_queue[SlotOf(k - 1)] \in Requests
  <2>1. k - 1 \in 0 .. request_queue_size - 1 /\ k - 1 < request_queue_depth
    BY QueueSizeAssumption DEF Inv, TypeOK
  <2>2. SlotOf(k - 1) \in Slots
    BY <2>1, SlotsDistinct DEF Inv
  <2>3. request_queue[SlotOf(k - 1)] # NoRequest
    BY <2>1 DEF Inv, LiveSlots
  <2>. QED BY <2>2, <2>3 DEF Inv, TypeOK
<1>2. request_queue_depth \in Nat
  BY DEF Inv, TypeOK
<1>3. Contents \in Seq(Requests)
  BY <1>1, <1>2 DEF Contents
<1>4. Len(Contents) = request_queue_depth
  BY <1>2, <1>3 DEF Contents
<1>. QED BY <1>3, <1>4 DEF Contents, Shape

LEMMA NewRequestRefines ==
  ASSUME Inv, Shape, Shape', NEW r \in Requests, new_request(r)
  PROVE  Fifo!Enqueue(r)
<1>. DEFINE t == SlotOf(request_queue_depth)
<1>1. request_queue_tail = t
  BY TailIsSlotOfDepth DEF Inv, new_request
<1>2. Contents' = Append(Contents, r)
  <2>1. /\ Append(Contents, r) \in Seq(Requests)
        /\ Len(Append(Contents, r)) = request_queue_depth + 1
        /\ \A k \in 1 .. request_queue_depth :
              Append(Contents, r)[k] = request_queue[SlotOf(k - 1)]
        /\ Append(Contents, r)[request_queue_depth + 1] = r
    <3>. DEFINE c == Contents
    <3>1. /\ c \in Seq(Requests) /\ Len(c) = request_queue_depth
          /\ \A k \in 1 .. request_queue_depth : c[k] = request_queue[SlotOf(k - 1)]
      BY DEF Shape
    <3>. HIDE DEF c
    <3>2. /\ Append(c, r) \in Seq(Requests)
          /\ Len(Append(c, r)) = Len(c) + 1
          /\ \A k \in 1 .. Len(c) : Append(c, r)[k] = c[k]
          /\ Append(c, r)[Len(c) + 1] = r
      BY <3>1, AppendProperties
    <3>3. /\ Append(c, r) \in Seq(Requests)
          /\ Len(Append(c, r)) = request_queue_depth + 1
          /\ \A k \in 1 .. request_queue_depth :
                Append(c, r)[k] = request_queue[SlotOf(k - 1)]
          /\ Append(c, r)[request_queue_depth + 1] = r
      BY <3>1, <3>2
    <3>. QED BY <3>3 DEF c
  <2>2. /\ Contents' \in Seq(Requests)
        /\ Len(Contents') = request_queue_depth + 1
        /\ \A k \in 1 .. request_queue_depth + 1 :
              Contents'[k] = request_queue'[SlotOf(k - 1)]
    BY DEF Shape, new_request, SlotOf
  <2>3. ASSUME NEW k \in 1 .. request_queue_depth + 1
        PROVE  Contents'[k] = Append(Contents, r)[k]
    <3>1. /\ k - 1 \in 0 .. request_queue_size - 1
          /\ request_queue_depth \in 0 .. request_queue_size - 1
      BY QueueSizeAssumption DEF Inv, TypeOK, new_request
    <3>2. /\ SlotOf(k - 1) \in Slots
          /\ SlotOf(k - 1) = t => k - 1 = request_queue_depth
      BY <3>1, SlotsDistinct DEF Inv
    <3>3. request_queue' = [request_queue EXCEPT ![t] = r]
      BY <1>1 DEF new_request
    <3>4. CASE k = request_queue_depth + 1
      <4>1. request_queue'[SlotOf(k - 1)] = r
        BY <3>1, <3>2, <3>3, <3>4 DEF Inv, TypeOK
      <4>. QED BY <2>1, <2>2, <3>4, <4>1
    <3>5. CASE k # request_queue_depth + 1
      <4>1. k \in 1 .. request_queue_depth
        BY <3>1, <3>5
      <4>2. request_queue'[SlotOf(k - 1)] = request_queue[SlotOf(k - 1)]
        BY <3>1, <3>2, <3>3, <4>1 DEF Inv, TypeOK
      <4>. QED BY <2>1, <2>2, <4>1, <4>2
    <3>. QED BY <3>4, <3>5
  <2>. HIDE DEF t
  <2>. QED BY <2>1, <2>2, <2>3, SeqEqual
<1>3. Len(Contents) < request_queue_size
  BY DEF Shape, new_request
<1>. QED BY <1>2, <1>3 DEF Fifo!Enqueue, new_request

LEMMA ReceiveResponseRefines ==
  ASSUME Inv, Shape, Shape', receive_response
  PROVE  Fifo!Answer
<1>1. 0 < request_queue_depth /\ SlotOf(0) = request_queue_head
  BY QueueSizeAssumption
     DEF Inv, TypeOK, WindowBounded, receive_response, SlotOf, Slots
<1>2. Contents # <<>>
  BY <1>1, EmptySeq DEF Shape
<1>3. Head(Contents) = request_queue[request_queue_head]
  BY <1>1, <1>2 DEF Shape, Inv, TypeOK
<1>4. /\ Tail(Contents) \in Seq(Requests)
      /\ Len(Tail(Contents)) = request_queue_depth - 1
      /\ \A k \in 1 .. request_queue_depth - 1 :
            Tail(Contents)[k] = request_queue[SlotOf(k)]
  <2>1. /\ Tail(Contents) \in Seq(Requests)
        /\ Len(Tail(Contents)) = request_queue_depth - 1
        /\ \A k \in 1 .. request_queue_depth - 1 :
              Tail(Contents)[k] = Contents[k + 1]
    BY <1>2, HeadTailProperties DEF Shape
  <2>2. ASSUME NEW k \in 1 .. request_queue_depth - 1
        PROVE  Contents[k + 1] = request_queue[SlotOf(k)]
    <3>1. k + 1 \in 1 .. request_queue_depth /\ (k + 1) - 1 = k
      BY <1>1 DEF Inv, TypeOK
    <3>. QED BY <3>1 DEF Shape
  <2>. QED BY <2>1, <2>2
<1>5. Contents' = Tail(Contents)
  <2>1. /\ Contents' \in Seq(Requests)
        /\ Len(Contents') = request_queue_depth - 1
        /\ \A k \in 1 .. request_queue_depth - 1 :
              Contents'[k] = request_queue'[SlotOf(k - 1)']
    BY DEF Shape, receive_response
  <2>2. ASSUME NEW k \in 1 .. request_queue_depth - 1
        PROVE  Contents'[k] = Tail(Contents)[k]
    <3>1. /\ k - 1 \in 0 .. request_queue_size - 1
          /\ (k - 1) + 1 = k
          /\ k < request_queue_size
          /\ k \in 0 .. request_queue_size - 1
          /\ 0 \in 0 .. request_queue_size - 1
      BY <1>1, QueueSizeAssumption DEF Inv, TypeOK
    <3>2. SlotOf(k - 1)' = SlotOf(k)
      BY <3>1, SlotAfterPop DEF Inv, receive_response
    <3>3. SlotOf(k) \in Slots /\ SlotOf(k) # SlotOf(0)
      BY <3>1, SlotsDistinct DEF Inv
    <3>4. request_queue'[SlotOf(k)] = request_queue[SlotOf(k)]
      BY <1>1, <3>3 DEF Inv, TypeOK, receive_response
    <3>. QED BY <1>4, <2>1, <3>2, <3>4
  <2>. QED BY <1>4, <2>1, <2>2, SeqEqual
<1>. QED BY <1>3, <1>5 DEF Fifo!Answer, receive_response

LEMMA SendRequestRefines ==
  ASSUME Inv, Shape, send_request
  PROVE  Fifo!Transmit
<1>1. (request_queue_head + inflight_requests) % request_queue_size
         = SlotOf(inflight_requests)
  BY SendOffset DEF Inv, send_request
<1>2. /\ inflight_requests + 1 \in 1 .. request_queue_depth
      /\ (inflight_requests + 1) - 1 = inflight_requests
  BY DEF Inv, TypeOK, send_request
<1>3. sent' = Contents[inflight_requests + 1]
  BY <1>1, <1>2 DEF Shape, send_request
<1>4. Contents' = Contents
  BY DEF Contents, SlotOf, send_request
<1>. QED BY <1>3, <1>4 DEF Fifo!Transmit, Shape, send_request

LEMMA DrainRefines ==
  ASSUME Shape', drain_queued_requests
  PROVE  Fifo!Abandon
<1>1. Contents' = <<>>
  BY EmptySeq DEF Shape, drain_queued_requests
<1>. QED BY <1>1 DEF Fifo!Abandon, drain_queued_requests

(* The circular array implements the abstract request queue.               *)
THEOREM QueueImplementsFifo == Spec => ImplementsFifo
<1>1. Init => Fifo!FifoInit
  <2>. SUFFICES ASSUME Init PROVE Fifo!FifoInit
    OBVIOUS
  <2>1. Contents = <<>>
    BY DEF Init, Contents
  <2>. QED BY <2>1 DEF Init, Fifo!FifoInit
<1>2. /\ Inv /\ Shape /\ Inv' /\ Shape'
      /\ [Next]_vars
      => [Fifo!FifoNext]_(Fifo!fifoVars)
  <2>. SUFFICES ASSUME Inv, Shape, Inv', Shape', [Next]_vars
                PROVE  [Fifo!FifoNext]_(Fifo!fifoVars)
    OBVIOUS
  <2>1. ASSUME NEW r \in Requests, new_request(r)
        PROVE  Fifo!FifoNext
    BY <2>1, NewRequestRefines DEF Fifo!FifoNext
  <2>2. CASE send_request
    BY <2>2, SendRequestRefines DEF Fifo!FifoNext
  <2>3. CASE receive_response
    BY <2>3, ReceiveResponseRefines DEF Fifo!FifoNext
  <2>4. CASE drain_queued_requests
    BY <2>4, DrainRefines DEF Fifo!FifoNext
  <2>5. CASE UNCHANGED vars
    BY <2>5 DEF vars, Fifo!fifoVars, Contents, SlotOf
  <2>. QED BY <2>1, <2>2, <2>3, <2>4, <2>5 DEF Next
<1>. QED
  BY <1>1, <1>2, QueueInvariant, ContentsShape, PTL DEF Spec, Fifo!FifoSpec, ImplementsFifo
=============================================================================
