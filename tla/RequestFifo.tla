----------------------------- MODULE RequestFifo -----------------------------
(***************************************************************************)
(* What the request queue of a connection promises: requests are put on    *)
(* the wire in the order they were queued, answered in that same order,    *)
(* and never more than MaxPipelined of them are unanswered at once.  The   *)
(* circular array that implements it is in module RequestQueue.            *)
(***************************************************************************)
EXTENDS Naturals, Sequences

CONSTANTS Requests,      \* the requests a caller can queue
          NoRequest,     \* an empty slot, or nothing sent or answered yet
          Capacity,      \* requests the queue holds at most
          MaxPipelined   \* requests that may be unanswered at once

VARIABLES queue,     \* queued requests, oldest first
          unanswered,\* how many of them, from the front, are on the wire
          sent,      \* the request the last step put on the wire
          answered   \* the request the last step took off the queue

fifoVars == <<queue, unanswered, sent, answered>>

FifoInit ==
  /\ queue = <<>>
  /\ unanswered = 0
  /\ sent = NoRequest
  /\ answered = NoRequest

Enqueue(r) ==
  /\ Len(queue) < Capacity
  /\ queue' = Append(queue, r)
  /\ sent' = NoRequest
  /\ answered' = NoRequest
  /\ UNCHANGED unanswered

Transmit ==
  /\ unanswered < Len(queue)
  /\ unanswered < MaxPipelined
  /\ sent' = queue[unanswered + 1]
  /\ unanswered' = unanswered + 1
  /\ answered' = NoRequest
  /\ UNCHANGED queue

Answer ==
  /\ unanswered > 0
  /\ answered' = Head(queue)
  /\ queue' = Tail(queue)
  /\ unanswered' = unanswered - 1
  /\ sent' = NoRequest

\* Every queued request is given up, those on the wire included.
Abandon ==
  /\ queue' = <<>>
  /\ unanswered' = 0
  /\ sent' = NoRequest
  /\ answered' = NoRequest

FifoNext == (\E r \in Requests : Enqueue(r)) \/ Transmit \/ Answer \/ Abandon

FifoSpec == FifoInit /\ [][FifoNext]_fifoVars
=============================================================================
