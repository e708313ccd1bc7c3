SPECIFICATION Spec
CONSTANTS
  Requests = {r1, r2}
  NoRequest = NoRequest
  request_queue_size = 5
  max_pipelined_requests = 3
INVARIANTS TypeOK WindowBounded LiveSlots
PROPERTIES ImplementsFifo
