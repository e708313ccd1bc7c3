# A verification project for libneo4j-client

libneo4j-client is a C client library for Neo4j, with a shell, `neo4j-client`,
built on it. A program opens a *connection*, queues statements on it, and reads
*result streams*; explicit *transactions* group statements. Everything happens
in the thread of the program, except that a signal handler may call
`neo4j_reset` in the middle of any of its calls: the shell does so on SIGINT
(`shell/src/neo4j-client.c:578`). File names below are relative to
`lib/src` of the repository unless they start with `shell`.

## 1. The system

| Component | State | Operations | What makes it correct |
|---|---|---|---|
| Request queue (`connection.c`) | circular array, head, depth, number in flight | `new_request`, `send_requests`, `pop_request`, `drain_queued_requests` | requests leave and are answered in the order they were queued, through every wrap; the window never outgrows queue or limit |
| Session (`connection.c`, `job.h`) | `processing`, `reset_requested`, `failed`, `poison_tx`, the queue, the list of jobs | `neo4j_session_sync`, `_run`, `_pull_all`, `_discard_all`, `_transact`, `ack_failure`, `neo4j_reset`, `neo4j_close` | replies carry no identifier, so the window must mirror the wire; the program and the handler exclude each other; every call returns |
| Result streams (`result_stream.c`) | references, `starting`, `streaming`, `awaiting_records`, records, failure | open, close, `fetch_next`, `peek`, accessors, the callbacks, `abort_job` | freed only when no request refers to it; records complete and in order; an end without failure means the statement was executed |
| Transactions (`transaction.c`) | open, expired, failed | begin, commit, rollback, run, send, free | what the client believes of the transaction is what the server has |
| Extra map of RUN (`result_stream.c`) | one static map | `neo4j_run_in_db`, `neo4j_set_extra_map` | a statement is sent with the map its caller chose |
| Connecting (`connection.c`, `network.c`, `openssl.c`, `uri.c`) | descriptor, streams on each other, duplicated configuration, URI | `neo4j_connect`, `establish_connection`, `std_tcp_connect`, `neo4j_openssl_new_bio`, negotiation, INIT/HELLO | what fails releases what was acquired, once; a connection that is called secure was verified |
| Trust on first use (`tofu.c`) | known-hosts file, shared with other processes | look-up, update | nothing is recorded that nobody trusted, nothing is lost |
| Client configuration (`client_config.c`) | fields, strings it owns, the versions all configurations share | duplicate, free, set | the original survives its copies |
| Values (`values.c`) | none: immutable | constructors, equality, accessors | what a constructor accepts the accessors can use |
| Messages, serialization (`messages.c`, `serialization.c`, `deserialization.c`) | a memory pool | encode, decode | what is read means what was written; what cannot be read leaves nothing behind |
| Printing (`print.c`) | the caller's buffer | `neo4j_ntostring` | a prefix of the text, closed, within the buffer |
| Chunking, buffering, ring buffer | buffers, pointers | read, write, flush, close | bytes come out in the order they went in, none lost at a boundary |
| Memory pools (`memory.c`) | blocks of pointers | add, merge, drain | each pointer is released exactly once |
| Metadata, rendering, logging, utilities | fields, strings | extraction, layout | - |
| Shell (`shell/src`) | connection, transaction, queue of statements of each input, exports, output | read, evaluate, render, commands, SIGINT | each statement is rendered once, in its turn; what is acquired is released |

The program calls streams and transactions; they queue requests with the
session, each with a callback and a pointer to themselves, and call
`neo4j_session_sync` with the counter they wait for. The sync sends requests,
receives replies, and runs the callback of the request at the head of the queue
for each reply. A failure drains the queue and queues an acknowledgement. A
reset, from the handler, aborts the streams, takes the replies to what is in
flight and drains the rest.

What is hard about it: the match between replies and requests is by position
alone; the handler may run between any two steps; the drains run callbacks with
no message; streams outlive their connection; and several flags
(`failed`, `reset_requested`, `poison_tx`) are set and cleared on different
paths. Around it: every step of connecting may fail, and its verdict on a
certificate is spread over four functions; the known-hosts file has other writers;
values arrive in every width, malformed or cut off, and are printed into what room
there is; and the shell sends statements ahead while commands, nested inputs,
failures and signals change what they run on. `PROJECT.json` lists these hazards at
their lines.

## 2. The modules

**RequestFifo** is what the queue promises: a bounded first-in first-out queue
with a window at its front.

**RequestQueue** is the circular array of `struct neo4j_connection`.
Variables have the names of the fields; `sent` and `answered` record the request
the last step passed to `neo4j_connection_send` or whose callback it ran. Its
actions are `new_request` (with the caller's population of the slot), one turn of
`send_requests`, one pop by `receive_responses`, and `drain_queued_requests`.

**RequestQueueProofs** proves its invariants and that it implements RequestFifo.

**ResultStream** and **Transaction** are values and operators without state: what
each callback and helper does to a stream or a transaction, what it returns, and
whether an assertion in it fails.

**Session** composes them: a connection, its streams and transactions, the
program, the handler, the server and the wire. `pc["app"]` is where the program
is and `pc["sig"]` where the handler is:

| points of `pc["app"]` | code |
|---|---|
| `idle` | between two calls of the library |
| `run`, `run_unlock`, `pull`, `pull_unlock`, `start`, `abandon` | `neo4j_run`, `neo4j_send` and the two queueing functions under them |
| `alloc`, `fill` | `neo4j_session_transact` and `ack_failure` take and populate a slot |
| `enter`, `lock`, `loop`, `exit`, `unlock`, `unlock_ack` | `neo4j_session_sync` |
| `reply` | `receive_responses`, waiting for a message |
| `send`, `xmit` | `send_requests`, before its test and before the transmission |
| `rrecv`, `rfinal` | `session_reset`, receiving what is in flight, then the reply to RESET (also for `pc["sig"]`) |
| `crecv`, `cend` | `neo4j_close` |
| `done`, `free` | the caller of `session_sync` goes on; `run_rs_close` frees |
| `crashed` | an assertion failed or a NULL pointer was dereferenced |

An action is the stretch of code from one point to the next: a signal within the
stretch has the outcome of one before or after it. The handler runs in the thread
it interrupts, so program steps require `pc["sig"] = "idle"`.
Session abstracts RequestQueue to a sequence, which the proof of
`QueueImplementsFifo` justifies.

The server and the transport (`ServerStep`, `Drop`) are external: requests
are answered in order, a failure rolls back the transaction and makes the server
ignore what follows until RESET, as Bolt 3 and later do. `Faults` names what may
go wrong: `FAILURE`, `TIMEOUT` (of a transaction), `BADRECORD`, `INVALID`
(metadata the client refuses), `GARBLED` (a message it does not know), `DROP` (of
the connection) and `INTERRUPT` (RESET overtakes what is before it).

**RingBuffer** has the operations of `ring_buffer.c` on a record of size, pointer,
used count and cells, with the vectors they pass around. **ByteStreams** has the
effect of one call of `chunking_iostream.c` and of `buffering_iostream.c`: how a
message is cut into chunks, what a short last chunk leaves in the buffer, and what
a partial write or a long read leaves in the ring.

**Transport** is the machine over them: `neo4j_message_send` and
`neo4j_message_recv`, the loops of `iostream.c`, the streams and a socket.

| points of `pc` | code |
|---|---|
| `sender`, `receiver` | between two messages |
| `serialize`, `deserialize` | `neo4j_serialize` and `neo4j_deserialize`, between two of their writes or reads |
| `write`, `close` | `neo4j_ios_writev_all` under `chunking_writev` and `chunking_close` |
| `flush` | `buffering_flush` |
| `chunk`, `readv` | a turn of `chunking_read`, and `neo4j_ios_readv_all` under it |
| `failed` | the error is returned |
| `rb_assert`, `too many vectors` | an assertion has failed (section 5) |

The socket takes or gives any number of bytes, and may fail or end after any of
them; a socket that has failed stays so. The values that are serialized are
numbered bytes, so that a byte lost, repeated or moved shows. A behaviour is a
sequence of sends or of receives: the directions share no state. Left out:
`EINTR`, which the loops answer with another turn; failed allocations of vectors;
vectors of more than IOV_MAX - 2 parts, which `buffering_writev` cuts, so that a
turn hands over less; `chunking_readv`, `rb_read` and `rb_write`, which nothing in
the library calls; a buffering stream without one of its rings; and the handshake,
which is over, and flushed, before the first message.

**PointerStacks** is what memory pools promise; **MemoryPool** is `memory.c`:
blocks, the debounce region, `neo4j_mpool_add`, `_drainto` and `_merge` with its
three ways (resizing, shifting blocks together, concatenating). The loops over blocks are
recursive functions from the number of turns to what the code has then. Shown to
implement PointerStacks under the mapping `Contents`, and proved to in
**MemoryPoolProofs**.

Session uses Transport by its effect (a request is sent or the connection fails),
and a result stream's pools are not part of its state.

**TransportProofs** proves what the run of Transport checks, from lemmas about the ring
and the chunks. **SessionProofs** proves the lock and the window of Session, the
references of its streams, and that what is on the wire is the window; **StreamProofs**
that its streams get their records and are not left waiting, what failure they keep, and
that the client does not crash. **MCSession** gives
TLC the values of its constants, and **MCScenarios** instantiates Session three
times, with streams, calls, faults and points for signals of its own each, and
chooses one in the initial state.

**Values** has the constructors of `values.c` with their checks, `neo4j_eq` and the
accessors; **PackStream** the bytes that `serialization.c` writes, the
deserializer of each marker, with the memory pool it drains on failure, and
`neo4j_message_recv`; **Printing** `neo4j_ntostring`, which writes a value of any
type into cells of a buffer of n, and `Text`, what `neo4j_fprint` writes, which is the
reference. **ValueTrip** composes them: a server sends a value in a RECORD, all or
some of the bytes arrive (`Receive`), the program prints what it got (`Show`).
**MCValues** has the values. Scaled: a byte of a length or an integer has `Byte`
values, 6, and a half byte 2, so that a list of 36 needs the third class of length;
markers and signatures keep their codes. Opaque: the digits of floats, dates and
times, of which only the length matters. Left out: structures with more fields than
their type has, and the memory the pool refers to.

**KnownHosts** has the lines of the known-hosts file, their look-up and update, the
verdict of `verify` on a certificate and the decision of `neo4j_check_known_hosts`;
**Versions** the array of proposed versions, `parse_version_string` and the server's
choice. **Connect** composes them in several threads of a process: each step of
`neo4j_connect` that acquires something, or may fail, is an action; `held` is what
the call has acquired, `fds` whose each descriptor is.

| points of a call | code |
|---|---|
| `uri`, `establish` | `neo4j_connect` up to the allocations of `establish_connection` |
| `socket`, `connecting` | `neo4j_connect_tcp_socket`, one address after the other |
| `stream`, `handshake`, `tls`, `buffer` | `std_tcp_connect` and the TLS handshake under it |
| `look up`, `decide`, `read file`, `rename` | `neo4j_check_known_hosts`, called by `verify` |
| `negotiate`, `initialize`, `leaving` | `negotiate_protocol_version`, `initialize`, the return |
| `closing both`, `close again`, `closing`, `failing` | the labels `failure` of `std_tcp_connect` and its callers |

INIT and HELLO are one step here, accepted or not; Session has what follows. Outcomes
of the system, of OpenSSL and of allocation are free choices. A crash loses all
but the file. `MCConnect` has plans, certificates and files. **Filters** has the one
operator on sequences that the update of the file needs, and the replies of Session, a
recursive function rather than `SelectSeq`; **SequenceLemmas** has what is proved of it
and of the functions on sequences that the community modules define so, and
**ConnectProofs** what is proved of Connect.

**Shell** is `neo4j-client`: a stack of inputs (the prompt, batches, what
`:source` nests), each batch with its ring of statements whose results are not
rendered yet (`batch.c`), the connection, transaction (the operators of Transaction),
exports with their storage, and output. `doing.at` says what comes next:

| `doing.at` | code |
|---|---|
| `main`, `leave`, `ended` | `main` between inputs, `shell_state_destroy`, the end |
| `read` | the loop of `process` or `interact` |
| `room`, `prepare` | `evaluate` makes room, `prepare_statement` |
| `drain`, `run` | `evaluate` before a command, the command |
| `last`, `abort` | the end of `process`: `finalize` or `abort_outstanding` |
| `closing`, `connecting` | `db_disconnect` after `neo4j_close`, `attempt_db_connect` |

Statements succeed or fail as they like; their results have an owner and a place,
not a content. Numbers stand for names, connections and segments of input. Left out:
settings of the display, the selected database, rendering, editing and history.
**ShellProofs** proves its two properties.

What Session leaves out: protocol versions before 3 (their acknowledgement is
ACK_FAILURE, and they have no GOODBYE), INIT/HELLO, the contents of messages,
memory, and `NEO4J_SESSION_BUSY` returned to a second thread: the library is not
used by two threads at a time. Of the accessors, one is modelled for each counter
they await. The program frees a transaction only after it has ended, as the
documentation of `neo4j_free_tx` asks, and has one at a time.

## 3. The runs

| Run | Question | Bounds |
|---|---|---|
| `RequestQueue` | does the array stay within its bounds and behave as a queue? | 5 slots, window 3, two requests: every head, depth and window |
| `SessionPipeline` | do replies, references and records stay matched when statements fail in a pipeline? | 3 streams, 5 slots (an odd number: RUN can be queued without PULL_ALL), window 3, up to 2 records |
| `SessionScenarios` | is the client right about its transaction; do window, references and server stay in step when a signal interrupts; what do streams tell after a malformed reply or a dropped connection? | one stream and a transaction begun again after it has ended, one reset between calls; two streams and one signal at any of the safe points; one stream and one signal at a point inside and outside the lock and between failure and acknowledgement |
| `SessionLiveness` | does every call return, are lock and window in step at every point, does the reply to RESET go to whoever waits for it, and is no freed connection pointed to? | one stream, one transaction, one signal, drops and failures |
| `Transport` | can the server read what is sent, and does the deserializer get its message, however the socket cuts them? | rings of 4 and 3 bytes, chunks of 2 to 3, two messages of up to 6 bytes sent and up to 3 received in any chunks, input cut off anywhere |
| `MemoryPool` | are pools stacks, each pointer freed once? | two pools, 6 pointers, blocks of 2 or 3 pointers, a debounce region of 1, two allocators |
| `Values` | does a value arrive as it was sent, or not at all, and print? | 79 values: both sides of each limit of length and width, nested lists, maps, nodes, relationships and paths of old and new servers, temporals, points, and twelve malformed ones; every cut of the bytes; buffers of 0 to 45 |
| `Connect` | is everything released, and only what was verified called secure? | two threads, two calls, one crash, two descriptors; five plans, four certificates, an empty file and one with a truncated, a foreign and an indented line |
| `Shell` | is each statement rendered once, in its turn, and each resource released? | six segments of input, a ring of two, two nested inputs, three names, two connections, one signal |
| `JobsNotNotified`, `CommitIgnored`, `MergeReturns` | do three statements of the documentation hold? They do not (section 5) | the smallest instance |

The properties:

* `WireIsWindow`: the unanswered requests on the wire are the first
  `inflight_requests` of the queue. All matching of replies rests on it.
* `WindowOK`, `WindowBounded`: the window within queue, array and limit.
* `LockOwned`: `processing` is held exactly in protected sections, by one actor.
* `ResetAnswered`: while the connection lasts, what `session_reset` takes for the
  reply to RESET is one.
* `RefcountCounts`: references of a stream are its owner and its queued requests.
* `RecordsInOrder`, `FirstFailureKept`, `CompleteOrFailed`: what the program sees
  of a result is complete and in order, or it is told the first reason why not.
* `CommitHonest`, `OpenMeansOpen`, `InTransaction`: transactions.
* `InPlace`: requests reach the server in a state that has a place for them.
* `NoDanglingConnection`, `NotCrashed`: no pointer to a freed connection is kept,
  no assertion fails and no NULL is dereferenced.
* `CallsReturn`: every call and the handler return.
* `WireFramed`, `ChunksBounded`, `SentIsFlushed`: the bytes the socket has taken are
  chunks of the messages in order, of the configured sizes, and when a send has
  returned and the socket works, nothing of the message is left behind.
* `DeliveredInOrder`, `AtBoundary`: the deserializer gets the bytes of its message
  only, and the next message starts where the stream then is.
* `Progress`: each turn of a loop over a vector moves a byte.
* `FreedOnce`, `ImplementsStacks`: memory pools.
* `WireAndReferences`: `WireIsWindow` and `RefcountCounts` with a signal.
* `Delivered`, `NothingLeft`: a record that arrived means what was sent, one that is
  malformed or cut off is refused, and leaves nothing in the memory pool.
* `PrintsPrefix`: a buffer gets the part of the text it has room for, and its NUL.
* `PathsWalkable`: every path that is accepted can be walked by the accessors.
* `NothingLeaks`, `OnlyVerified`: connecting releases what it does not return, and
  returns a secure connection only to a host that was verified, known or accepted.
* `TrustKept`: whatever is interrupted, the known-hosts file says nothing of a host
  that was not there at first or trusted, and has lost none that was there.
* `InTurn`: the statements of the shell are completed or aborted once each, in their
  order; only the innermost input has statements that wait, a prompt has none, and
  they are of the connection it has.
* `NothingKept`: result streams, exports' storage and output files are in use or
  released.

Two pipelined statements show every mix of sent, unsent, failed and drained
requests; a third adds one in the middle of the pipeline. Two records separate
the first, the last and a record to wait for. One signal shows each single
interleaving of handler and program; what two do is in section 5. Streams are
interchangeable, hence the symmetry set; the liveness run does without it.
A ring of 4 is full before a message of 6 bytes is framed, and a second message
finds it wrapped; chunks of 3 end before, at and after the ends of reads; with
two bytes of length, a read can end inside one. Two threads are enough for
one to update the file between the other's reading and renaming, and two descriptors for
one to get what the other has closed. A ring of two statements wraps with the third, and
six segments suffice to fill it, source a file from it, and fail in that. Six pointers fill two blocks of
one pool and one of the other, in both block sizes.

*Fairness* (`FairSpec`): the program and the handler go on inside a call (they are
sequential code; they wait only for the server), and the server answers. Nothing
is assumed about the program making calls, about signals or about drops. Records
of a statement are bounded by `MaxRecords`, so a result ends.

Each property has a mutant, an operator marked `Fault` beside the definition it
replaces, under which TLC finds it violated.

## 4. What is proved

Each theorem holds for every value of the constants that the assumptions named in its
module allow. Every invariant below was checked by TLC on an instance before it was
proved.

**The queue** (RequestQueueProofs), for every array size, limit and set of requests:
`TypeTheorem`, `WindowTheorem`, `LiveSlotsTheorem` and `QueueImplementsFifo`, the last
by a step simulation under the mapping `Contents`, the slots from the head on.
`QueueInvariant` is why: types, window and live slots together are inductive, as the
slot `new_request` hands out is free only because exactly the slots from head to tail
hold requests.

**The session** (SessionProofs), for every number of streams,
transactions, signals and points they are delivered at, and all faults together:

* `LockTheorem`: `Spec => []LockOwned`. The invariant is `LockInv`, which adds the
  types of the program counters and of `processing`. `neo4j_reset` starts serving
  only if `processing` was free; each exit of a protected section gives it back.
* `WindowTheorem`: `Spec => []WindowOK`. `WindowInv` adds types of the queue and
  of `call`, and `Expecting`: at `xmit` there is a request to send and room in the
  window, at the receiving points there is one in flight. Expecting is stable under the handler only because
  of the lock, so the invariant includes `LockInv`.
* `CoveredTheorem`: the count of a stream covers the queued requests that point to it
  and the program's own pointer, and no queued request points to a stream that was
  freed. No fault and no signal is excepted.
* `ReferencesTheorem`: `Spec => []RefcountCounts`, if no record is malformed. For a
  malformed one `pull_all_callback` returns an error before it gives the reference
  back, while its request leaves the queue: the count stays one too high, and closing
  the stream ends in the assertion of section 5. Equality is false then, and the
  theorem says where.

The invariant of the last two, `RefInv`, adds to `WindowInv` that a queue holds at most
one RUN and one PULL_ALL or DISCARD_ALL of a stream (`Distinct`), that requests of
other kinds point to no stream (`Proper`; the slot handed out and not yet populated is
the last), what the program knows of its call at the points where it opens or closes a
stream (`Phases`), and the balance of each stream with its requests (`Balanced`). `Own`
is what the program itself contributes: its pointer, less the reference it has yet to
take between queueing a request and releasing the lock. The balance alone is not
inductive: that a stream can be given one RUN only, and that a drained queue has given
back just what it held, rest on the other parts. A reply, a drain, and a signal are each
shown to move requests and count together (`AllMove`), once for all callbacks.

**The wire** (SessionProofs), for the same constants, as far as it is true of them. A reply
has no identifier: the client hands it to the request at the head of its queue, and the
reply to RESET to whoever waits for one.

* `WireTheorem`: `Spec => []WireIsWindow`, if `NoSignal` or `Signals`.
* `ResetTheorem` (in StreamProofs): `Spec => []ResetAnswered`, if `Signals`.

`NoSignal` allows every fault but a message that cannot be read, and no signal; it is
what `SessionPipeline` runs. `Signals` allows the faults of a transport that works and
of a server that keeps to the protocol, and either one signal at any point but `xmit`, or
any number of them while the program is outside the lock; the scenario of
SessionScenarios with a reset is one. Section 5 has what goes wrong beyond: a signal at
`xmit`, two inside the lock, an unreadable message.

The invariant `WireInv` is of a connection in use: one that has not failed or may still be
revived by a reset. `Mirrors` says that what the server has answered and not yet been
read, followed by what it has not answered, is the window followed by a RESET that was
sent. `Resets` says when that is, `Records` that a record is for the statement whose end
comes next (so the next *message* is for the head too, `NextReply`). That suffices without
signals. With them, `session_reset` gives up its wait when a callback reports an error,
and then a RESET would remain on the wire; so `InOrder` says that after a failure
everything is ignored up to the RESET, and `Alone` that the requests whose callbacks do
report an error, those of transactions and acknowledgements, are the last of the queue
and awaited by the program, so that a handler meets them only before they are sent or
ignored. `ResetTheorem` adds `Serving`: a connection that has failed has nobody in the
loop of `session_sync` or in a reset; and, of a connection that was closed, `LateInv`
below.

**The streams** (StreamProofs), on top of that:

* `RecordsTheorem`: `Spec => []RecordsInOrder`, if `Signals`.

The invariant `StreamInv` follows the numbers of the records along the wire (`Numbers`):
each record on it is the successor of the one before, the first of the last that the
stream at the head of the queue has received, and the end of a result says how many there
were; the server goes on from there. What keeps it so when a request is popped is that a
statement behind the head has received nothing (`FreshIn`), and that a stream being
opened has no request in flight, so that `run_start` may set it up while the handler reads
replies (`OpeningIn`). `AtRest` says where everybody is once the connection is closed. All
that the program and the callbacks do to a stream is one of four things to its records:
nothing, fetching the first, clearing, appending the next (`Tame`, `Taken`).

**Who is waited for** (StreamProofs), for all values of the constants and any faults and
signals:

* `DanglingTheorem`: `Spec => []NoDanglingConnection`, if the program has one stream (at
  a time). With two it is false: section 5, `JobsNotNotified`.

The invariant `AttendInv` says that a stream that points to the connection and still
expects records has its PULL_ALL or DISCARD_ALL in the queue (`Attended`): nobody waits
for a reply that cannot come. Nothing but `run_start` makes a stream wait, so the rest of
the program only lets streams fade (`Tends`: they lose their connection or stop waiting),
which is shown once for all callbacks, the drain and the abort. What `run_start` needs is
that the stream being opened still has its request, or was cut off by the handler in the
meantime (`LatestJob`: it is the newest job, and only the newest is cut off). The same fact
makes one stream safe when the list of jobs is dropped (`Listed`). Once the connection is
closed its queue is empty; so nothing waits any more, counts are 1, and every call returns
before it gets into `session_sync` (`LateInv`, if no record is malformed).

**The types of a connection** (StreamProofs) rest on both:

* `TypesTheorem`: `Spec => []TypeOK`, if `Signals`: all variables of Session.

Most of `TypeOK` is not a matter of types. That a stream counts from -1 to 3 references
follows from the balance with its requests, of which a queue holds at most two, as long as
it is open; one that is not counts nothing, since a request points to no stream that was
freed. That a list of records has no more than `MaxRecords`, numbered from 1, follows
from `Numbers`: what is appended is the successor of what was received. `TypeInv` says
the rest: what is queued and on the wire is well formed (`WireTyped`: BEGIN names the
transaction it opens, a record has a number), so the server is in one of its states and
commits only what was begun; jobs are streams (`FlagsTyped`); a call returns 0 or -1
(`ReturnTyped`).

**Failures and assertions** (StreamProofs), of a connection that is `Undisturbed`: it is
not reset and not closed, it has no transactions, and its transport and messages are as
`Signals` has them; the server may refuse or ignore what it likes within the protocol.
That is what `SessionPipeline` runs. Section 5 has a crash for each that is dropped.

* `FailureTheorem`: `Spec => FirstFailureKept`.
* `SoundTheorem`: `Spec => []NotCrashed`.

`WorkInv` says that such a program calls only on streams it has open, over a connection
that works, and that no call on a stream returns an error, so that nothing overwrites a
failure from outside; what callbacks make of it is `Told`, shown for each.

That the client does not crash needs to know who fails, and when. `Sound` adds four
things. `Blamed`: the server ignores requests only because of a failure it has reported,
which the program has yet to read, or is dealing with, or is about to acknowledge; so an
IGNORED is never the first bad reply. `Prompt`: a statement in the queue is right behind
the RUN of its stream, or its RUN has been answered, and then the stream has failed
exactly if the failure is being dealt with; so the assertion of `stream_end` that a stream
has not failed holds when a result ends, and `receive_responses` never fails on a reply
without arguments. `Fetching`: the records a stream has and those its call still awaits
are at least as many as the call needs, while there are more to come; with `AttendInv`
(the loop of `session_sync` does not run out of requests before) the assertions of
`neo4j_fetch_next` and `neo4j_peek` hold. `Freeing`: a call that closes a stream returns
when nothing in the queue points to it; with the balance of references its count is then
0, as `run_rs_close` asserts. Beside it stands `Fresh`: a stream that waits for its
statement has not failed, as `neo4j_fetch_next` and `neo4j_peek` assert before they wait;
whatever fails a stream ends its waiting, and a stream starts behind its own RUN, which
nothing has answered.

**The transport** (TransportProofs), for all sizes of rings, chunks, messages, writes and
reads, and all that the socket takes, gives and fails at: all the properties of its run.

* `TypeTheorem`: `Spec => []TypeOK`, by `TypeInv`.
* `DeliveredTheorem` and `BoundaryTheorem`: `Spec => []DeliveredInOrder` and
  `Spec => []AtBoundary`, if `Excess = 0`: no message lacks what its values announce
  (section 5 says what happens when one does).
* `WireFramedTheorem`, `ChunksBoundedTheorem`, `SentIsFlushedTheorem`: `Spec => []...` of
  `WireFramed`, `ChunksBounded` and `SentIsFlushed`.
* `ProgressTheorem`: `Spec => Progress`, from `TypeInv`.

First come facts about the operators. The ring is a bounded queue of bytes: `RingAppend`,
`RingDiscard`, `RingClear` and `RingExtract` say what each operation does to `RbData`,
through every wrap and also when `rb_discard` leaves the pointer one past the end;
`RingAfterRead` and `RingAfterWrite` say the same of a call of the buffering stream.
`FlattenSeq` and the sums of chunk sizes are computed by recursive functions, and what
they compute is proved by induction on the number of pieces, a set of naturals standing for
the property (`FlattenAppend`, `FlattenFrom`, `SumsRecursion`).

`RecvInv` follows the stream the receiver reads (`Ahead`: what it has of its read, the
ring, the socket): it is the beginning of what is left of the server's messages, from the
chunk on that `rem` and `read` point into (`Where`), and `Promised`: what was given of each
message is its first bytes, and behind them at most what a failed read left unwritten.
It is needed because `DeliveredInOrder` alone says nothing of what the ring has in store.

`SendInv` has two cases. As long as the socket is up and no error was returned (`Live`),
what the socket has, followed by what is pending in the ring and the loop (`Fed`), is
framed: `Given` says that its data are the bytes of the messages in order up to those that
the chunking stream keeps, and that a chunk begins exactly where the one before it ends.
After a failure the socket has the beginning of such a sequence (`OnTheWire`), and that is
enough for the three properties; it is not inductive before the failure, as the flush
could then write anything.

**The memory pools** (MemoryPoolProofs), for any number of pools and pointers, all block
sizes and every size of the debounce region:

* `TypeTheorem`: `Spec => []TypeOK`, by `PoolsInv`.
* `FreedOnceTheorem`: `Spec => []FreedOnce`, by `PointersInv`.
* `PoolsAreStacks`: `Spec => ImplementsStacks`, the refinement of PointerStacks.

The order of the cells comes first. `PoolOK` says of a pool that its blocks below the first
are full and its depth is the length of `Contents`, and each operation is shown to keep it
and to do to `Contents` what a stack does: `PutAdds` and `DebounceAdds` append,
`RemoveDebounceKeeps` and `ResizedKeeps` change nothing, `MergedStacks` and
`ConcatenatedStacks` concatenate, `DrainedKeeps` cuts off an end and frees just that. The
loops are proved by induction on their turns, with the invariant a programmer would write
at them: `Recopying` for `resize_pool` (what is still to be copied, then the filled cells of
the last new block, then the blocks above it, are the contents), `Draining` for
`neo4j_mpool_drainto`, `ShiftLoop` for `merge_pools`. That the loop of `resize_pool` ends
with its last block full, as the assertion behind it wants, is that the space left in it
and what is still to be copied are equal up to multiples of a block; and that it ends, that
blocks and pointers left become fewer.

`PointersInv` is needed because `FreedOnce` is not inductive: that a pointer is not freed
again rests on its being in one pool, at one place, so that the pools are disjoint, hold
what was added, and nothing of what was freed. A merge that fails, or a process that
ends at one of the three defects of section 5, is a step in which the stacks stutter.

**Connecting** (ConnectProofs), for every number of threads, descriptors, plans, hosts
and certificates:

* `NothingLeaksTheorem`: `Spec => []NothingLeaks`. The invariant says which parts a
  call may hold at each of its points, and that a descriptor which is a thread's own is
  the one its call names: that holds although a descriptor closed twice may by then be
  another thread's, which is left without, and not with one too many.
* `OnlyVerifiedTheorem`: `Spec => []OnlyVerified`. What was found out about the
  certificate is carried from `verify` through look-up, decision and update to the
  connection.
* `TrustKeptTheorem`: `Spec => []TrustKept`. Every line that a look-up can find is in
  `known`, also in the new file a thread has written and not yet renamed, and every
  host known at first is in both: so it matters not who renames last, or dies before.
  `Updated` is reasoned about by the elements of `Filter` (SequenceLemmas), which are
  those of the sequence that are in the set.

**The shell** (ShellProofs), for every length of the pipeline, set of names and input:

* `InTurnTheorem`: `Spec => []InTurn`. The invariant says of each input in the stack
  whether its ring has anything, of the ring that it holds the statements that wait in
  their order, and of each that it is of the present connection; sourcing drains first.
* `NothingKeptTheorem`: `Spec => []NothingKept`. Each stream, storage and file has one
  holder: a statement that waits, an export, the output, or the step under way.

SequenceLemmas has its inductions over sequences (`SequencesInSet`) by a least
counterexample: a set of naturals that is not empty has a least element
(`WellFoundedInduction`), and a sequence that is not empty is another with one element
appended. So facts about recursive functions, `Filter` and `FlattenSeq`, are proved for
every input: the property is a set of sequences there, as no prover takes it as an
operator.

Only model-checked, and why:

* `CallsReturn`, as liveness under fairness, which needs ENABLED.
* `ValueTrip`: values are nested, and what serializes, reads and prints them are
  recursive operators.
* Of Session, `CompleteOrFailed`, `CommitHonest`, `OpenMeansOpen`, `InTransaction` and
  `InPlace`, which hold of some instances only and rest on the state of the server, which
  the window mirrors; and `FirstFailureKept` and `NotCrashed` of programs with
  transactions.

Assumed: sizes are natural numbers, queue and window not empty; `None`, the connection
and transactions are no streams; no signal is delivered to a process that has ended
(Session). Descriptors are natural numbers other than 0, which stands for none, plans,
certificates and files have their types, and two names are no thread's (Connect).
Of Transport, sizes are not 0, and the chunking stream's buffer is no larger than a chunk.
Of MemoryPool, the debounce region is not empty.
The assumptions of Shell are named there.

## 5. Where the code and its documentation differ

Three runs show a counterexample:

* `JobsNotNotified`: the loop that aborts the open streams in `neo4j_close` and
  `session_reset` reads `job->next` after `abort_job` has cleared it, so only the
  newest stream is aborted; the others keep a pointer to a connection that is
  freed. The comment says all jobs are notified.
* `CommitIgnored`: `neo4j_commit` returns 0 when the server ignored COMMIT.
* `MergeReturns`: `concat_pools` dereferences NULL when the second pool has only
  debounced pointers. `pull_all_callback` merges its pools so when the reply to RUN
  has left a multiple of 127 pointers (block size 128) and the reply to PULL_ALL at
  most eight: the number of columns decides.

The passing runs are set so as not to meet those, nor the following, which TLC
finds when the constants are changed as stated (one stream, a queue of two or three):

| Property | Constants | Cause |
|---|---|---|
| `NotCrashed` | `Ops` begin, close; `Faults` DROP | `begin_callback` dereferences the NULL type of a drained request (`transaction.c:118`); `commit_callback` does so (`:189`) when a statement queued before COMMIT fails |
| `NotCrashed` | one signal at `reply`, `Faults` INTERRUPT | `receive_responses` reads `argv[0]` of a reply without arguments (`connection.c:1055`) |
| `NotCrashed` | `Faults` BADRECORD | `pull_all_callback` fails without giving back its reference; the assertion of `run_rs_close` fails |
| `NotCrashed` | one signal at `run` | the stream is aborted between RUN and PULL_ALL; same assertion |
| `NotCrashed` | one signal at `idle`, `Faults` DROP | RESET cannot be sent with requests queued; same assertion |
| `InTransaction` | `run_in_tx`, begin, rollback; `Faults` FAILURE | a failed statement does not mark its transaction: the next runs outside it |
| `OpenMeansOpen` | transaction, one signal at `reply` | `session_sync` serves a reset without setting `poison_tx` |
| `OpenMeansOpen` | two transactions, one signal at `idle` | `new_transaction` clears `poison_tx`, reviving an older transaction |
| `ResetAnswered` | one signal at `xmit` | RESET overtakes a request that was about to be sent |
| `WireIsWindow` | two signals at `reply` | two RESETs are sent, one reply is awaited |
| `WireIsWindow` | `Faults` GARBLED | a message that cannot be read drains the window, the connection stays in use |
| `CompleteOrFailed` | `Ops` run, send, fetch, check, close_rs; two streams, a queue of four, `MaxPipelined` 2, `Faults` FAILURE | statements queued, not sent, when an earlier one failed are drained with a NULL type rather than the IGNORED of the comment (`connection.c:1079`): their streams end without a failure and without a result |
| `InPlace` | three streams, a queue of five | RUN stays queued without its PULL_ALL when the queue is full; the server refuses the next RUN |

Of Transport and MemoryPool, likewise, under the constants of their run unless
stated; in the passing run these states end the behaviour:

| Property | Constants | Cause |
|---|---|---|
| `RingAsserted` | - | `rb_discard` leaves the pointer one past the end when it stops exactly there with data left (`ring_buffer.c:253`); after a partial write, the next operation of the ring aborts in a build with assertions |
| `OnlyBytesRead` | - | `neo4j_ios_readv_all` returns without setting the count when its first read fails (`iostream.c:90`), and `chunking_read` counts up to a chunk as received; `buffering_flush` does the same with a failed write (`buffering_iostream.c:377`) |
| `VectorsAsserted` | - | a write that needs more than IOV_MAX vectors (a string of some 33 megabytes) asks `chunk_iovec` again with a count it has already raised (`chunking_iostream.c:329`) |
| `DeliveredInOrder` | `Excess` 1 | `chunking_read` after the end of a message reads on in the next, without limit; `test/check_chunking_iostream.c:61` expects 0 |
| `EmptiedIsUsable` | - | `resize_pool` leaves the offset of the pool it empties (`memory.c:288`); adding to it writes to NULL |
| `AllocatorsMix` | - | `neo4j_mpool_merge` resizes a pool of another allocator, then asserts that they have one |

Of Values, Connect and Shell, stated in the modules and failing under the constants
of their runs, unless stated; the runs go on past them:

| Property | Module | Cause |
|---|---|---|
| `NothingLeft` and `Delivered`, with a list of 36 | ValueTrip | `list32_deserialize` reads two of the four bytes of the length (`deserialization.c:592`) and what it keeps of them is zero |
| `PrintsAll` | ValueTrip | temporal values that do not fit leave what `strftime` leaves behind them, and temporals, durations and points for which no room is left write a NUL behind the buffer |
| `PathsWalkable`, with `hops` = length | ValueTrip | `neo4j_path_get_relationship` tests `hops > length`, then asserts that it is less; a path without nodes is accepted by `neo4j_path` and refused by an assertion of its accessor |
| `StaysOpen` | Connect | the label `failure` of `std_tcp_connect` closes the stream, and with it the descriptor, and then the descriptor again (`connection.c:418`), which another thread may have got |
| `ConfigKept` | Connect | `neo4j_config_dup` frees its copy with the strings of the original when a string cannot be copied, and tests `config` where it means `dup` (`client_config.c:133`) |
| `NeverCrashes` | Shell | `:begin`, `:commit` and `:rollback` dereference the connection before asking whether there is one (`shell/src/commands.c:136`); a transaction survives `:disconnect` and keeps a pointer to its connection; SIGINT between `neo4j_close` and the assignment behind it (`shell/src/connect.c:300`); `display_schema` closes its results twice |
| `TransactionOfConnection` | Shell | as above |
| `ExportedOnce` | Shell | `shell_state_unexport` moves the last entry, `shell_state_add_export` searches as if they were sorted |

Read, and modelled as they are without a property of their own: a version range from a
major version alone ("3-4") is read as its first part; `supported_versions` is one array
for all configurations, and with fewer than three versions the last of the old ones stay
(`client_config.c:733`); an unbound relationship gets the signature of one with
its ends; the legacy signature of a date and time becomes the new one; `map_eq`
is not symmetric when a key occurs twice, `string_eq` ends at a NUL; texts of
identities from servers before version 5 are allocated outside of the pool; the user is
asked for credentials four times where the constant says three; `:quit` ends a batch
with a failure and does not leave the prompt that sourced it; a descriptor is lost when
an address has no number or `select` fails (`network.c`).

Read, not modelled: `connection.c:400` passes the sizes of the send and receive
buffers in the other order than `neo4j_buffering_iostream` takes them;
`update_socket_flags` masks with the flags it was to clear, so that connecting never
times out (`network.c:257`); `neo4j_run_in_db` clears a map the program had set by
`neo4j_set_extra_map` (`result_stream.c:288`); the callback of the program for
the password of its private key is never called, a test for NULL being the wrong way
round (`openssl.c:302`); an update of the
known-hosts file drops no line with leading spaces, which a look-up accepts, and
appends to a last line that has no end.

## 6. Plan

Done: RequestFifo, RequestQueue and its proofs; ResultStream, Transaction,
Session; proofs of lock and window; RingBuffer, ByteStreams, Transport;
PointerStacks, MemoryPool; Values, PackStream, Printing, ValueTrip; KnownHosts,
Versions, Connect; Shell.

Not modelled:

* Metadata and rendering (`metadata.c`, `render*.c`, `u8.c`): extraction of fields and
  layout of columns, from one call's arguments to its result, without state,
  interleaving or failure to recover from.
* Utilities, logging and error texts; of URIs, only whether one is accepted.
* `g_extra_map`: one static variable that a call sets and clears; section 5 says
  what is wrong with it.
* Protocol versions before 3 in Session, and of HELLO what its metadata say.
* A signal between two writes of one message: Session hands a request to the transport in
  one step, and Transport has no handler.
* In Printing, a time the C library cannot break down (`localtime_r` and `gmtime_r` fail
  for years that do not fit an `int`).
* Reading passwords, options, history and line editing of the shell.

Proved: the queue and its refinement; lock, window, references, wire and streams of
Session; Transport; the memory pools and their refinement; Connect and Shell. What
remains: `CommitHonest` and `InPlace`, from `WireInv` and the state of the server, and
`NotCrashed` and `FirstFailureKept` for a program that has transactions and resets its
connection at the points that are safe.
