------------------------------- MODULE Transport ------------------------------
(***************************************************************************)
(* The way of a message to the socket and from it: neo4j_message_send and  *)
(* neo4j_message_recv (messages.c), the loops of iostream.c, the chunking  *)
(* stream made for each message, the buffering stream of the connection,   *)
(* and a socket that takes and gives as many bytes as it likes.  One step  *)
(* is one call of the buffering stream, with the socket's answer.          *)
(*                                                                         *)
(* The two directions share nothing but the socket, and the client runs    *)
(* one at a time: a behaviour is a sequence of sends or of receives.       *)
(***************************************************************************)
EXTENDS ByteStreams

CONSTANTS
    SndSize, RcvSize,   \* sizes of the two rings
    MinChunk,           \* snd_min_chunk_size: size of the chunking buffer
    MaxChunk,           \* snd_max_chunk_size
    IovMax,             \* IOV_MAX
    MaxMessages,        \* messages of a behaviour
    MaxLength,          \* bytes of a message that is sent
    MaxReply,           \* bytes of a message that is received
    Excess              \* bytes a message may lack of what its values announce

ASSUME TransportAssumption ==
    /\ {SndSize, RcvSize, MaxChunk, IovMax, MaxMessages, MaxLength, MaxReply} \subseteq Nat \ {0}
    /\ MinChunk \in Nat /\ Excess \in Nat
    /\ MinChunk <= MaxChunk

VARIABLES
    pc,        \* where the call is
    ndebug,    \* built without assertions
    up,        \* the socket takes bytes; when receiving, the peer closes behind what it sent
    out,       \* bytes the socket has taken
    in,        \* bytes the socket has for the client, before it ends or fails
    snd, rcv,  \* the rings
    sent,      \* lengths of the messages given to neo4j_message_send
    chunk,     \* snd_buffer of the chunking stream, and data_sent
    todo,      \* bytes neo4j_ios_writev_all has not handed over
    keep,      \* tail that is buffered when they are
    flushed,   \* bytes of the ring that a flush has written
    reply,     \* what the server sent: for each message the sizes of its chunks
    want,      \* lengths that the messages' values announce
    got,       \* bytes given to the deserializer, for each message
    rem,       \* rcv_chunk_remaining
    need,      \* bytes neo4j_ios_read_all still wants
    read,      \* what chunking_read has returned so far
    iov,       \* what is being read: bytes, and whether a length follows
    part       \* what neo4j_ios_readv_all has so far

sendVars == <<snd, out, sent, chunk, todo, keep, flushed>>
recvVars == <<rcv, in, got, rem, need, read, iov, part>>
vars == <<pc, ndebug, up, reply, want, sendVars, recvVars>>

Nothing == <<"h", 0, 0>>    \* what malloc leaves in a cell

Current == Len(sent)

\* How many bytes the first n of the chunks have.
Sums(sizes) ==
    LET sum[n \in 0..Len(sizes)] == IF n = 0 THEN 0 ELSE sum[n - 1] + sizes[n]
    IN  sum

SumOf(sizes) == Sums(sizes)[Len(sizes)]

\* The server's side of the wire: messages in chunks, each with an end.
Chunk(sizes, m, j) ==
    Header(sizes[j]) \o Payload(m, Sums(sizes)[j - 1] + 1, Sums(sizes)[j])

Framed(sizes, m) == FlattenSeq([j \in DOMAIN sizes |-> Chunk(sizes, m, j)]) \o Header(0)

Stream(messages) == FlattenSeq([m \in DOMAIN messages |-> Framed(messages[m], m)])

\* The ways a server may cut a message.
Cuts == {s \in SeqOf(1..MaxChunk, MaxReply) : SumOf(s) \in 1..MaxReply}

Init ==
    /\ snd = NewRing(SndSize, Nothing) /\ rcv = NewRing(RcvSize, Nothing)
    /\ out = << >> /\ sent = << >> /\ todo = << >> /\ keep = << >> /\ flushed = 0
    /\ chunk = [buffer |-> << >>, dataSent |-> FALSE]
    /\ got = << >> /\ rem = 0 /\ need = 0 /\ read = 0 /\ part = << >>
    /\ iov = [data |-> 0, length |-> FALSE]
    /\ \/ pc = "sender" /\ ndebug \in BOOLEAN /\ up = TRUE /\ reply = << >> /\ want = << >> /\ in = << >>
       \/ /\ pc = "receiver" /\ ndebug = FALSE /\ up \in BOOLEAN
          /\ reply \in [1..MaxMessages -> Cuts]
          /\ want \in [1..MaxMessages -> 1..(MaxReply + Excess)]
          /\ \A m \in DOMAIN want : want[m] - SumOf(reply[m]) \in 0..Excess
          /\ \E cut \in 0..Len(Stream(reply)) : in = SubSeq(Stream(reply), 1, cut)

-------------------------------------------------------------------------------
(* Sending *)

\* neo4j_message_send: a chunking stream for the message.
StartMessage ==
    /\ pc = "sender"
    /\ Len(sent) < MaxMessages
    /\ sent' = Append(sent, 0)
    /\ chunk' = [buffer |-> << >>, dataSent |-> FALSE]
    /\ pc' = "serialize"
    /\ UNCHANGED <<ndebug, up, reply, want, snd, out, todo, keep, flushed, recvVars>>

\* neo4j_serialize writes the next n bytes: chunking_writev up to its loop.
Serialize(n) ==
    LET first == sent[Current] + 1
        data  == chunk.buffer \o Payload(Current, first, first + n - 1)
        plan  == ChunkPlan(data, MinChunk, MaxChunk)
    IN  /\ pc = "serialize"
        /\ sent[Current] + n <= MaxLength
        /\ IF VectorsFor(Len(chunk.buffer), n, MaxChunk) > IovMax
             THEN pc' = "too many vectors" /\ UNCHANGED <<sent, chunk, todo, keep>>
             ELSE /\ sent' = [sent EXCEPT ![Current] = @ + n]
                  /\ IF Len(data) < MinChunk
                       THEN /\ chunk' = [chunk EXCEPT !.buffer = data]
                            /\ UNCHANGED <<pc, todo, keep>>
                       ELSE /\ todo' = plan.out /\ keep' = plan.keep
                            /\ pc' = "write"
                            /\ UNCHANGED chunk
        /\ UNCHANGED <<ndebug, up, reply, want, snd, out, flushed, recvVars>>

\* neo4j_ios_close of the chunking stream: chunking_close up to its write.
CloseMessage ==
    /\ pc = "serialize"
    /\ sent[Current] > 0
    /\ todo' = ClosePlan(chunk.buffer)
    /\ pc' = "close"
    /\ UNCHANGED <<ndebug, up, reply, want, snd, out, sent, chunk, keep, flushed, recvVars>>

\* The operations of the ring start with rb_assert.
RingUsable == ndebug \/ RbAssert(snd)

RingAssertFails ==
    /\ pc \in {"write", "close", "flush"} /\ (pc = "flush" \/ todo # << >>)
    /\ ~RingUsable
    /\ pc' = "rb_assert"
    /\ UNCHANGED <<ndebug, up, reply, want, sendVars, recvVars>>

\* One turn of neo4j_ios_writev_all: the bytes fit in the ring.
WriteBuffered ==
    /\ pc \in {"write", "close"}
    /\ todo # << >> /\ Len(todo) <= RbSpace(snd)
    /\ RingUsable
    /\ snd' = RbAppend(snd, todo)
    /\ todo' = << >>
    /\ UNCHANGED <<pc, ndebug, up, reply, want, out, sent, chunk, keep, flushed, recvVars>>

\* One turn of neo4j_ios_writev_all: the ring's data and the bytes are given
\* to the socket, which takes w of them.  Appending the rest is an operation
\* of the ring of its own.
WriteThrough(w) ==
    LET after == AfterWrite(snd, todo, w)
    IN  /\ pc \in {"write", "close"}
        /\ Len(todo) > RbSpace(snd)
        /\ up /\ RingUsable /\ w <= snd.used + Len(todo)
        /\ IF ndebug \/ after.ok
             THEN /\ snd' = after.rb
                  /\ todo' = From(todo, after.n + 1)
                  /\ UNCHANGED pc
             ELSE pc' = "rb_assert" /\ UNCHANGED <<snd, todo>>
        /\ out' = out \o SubSeq(RbData(snd) \o todo, 1, w)
        /\ UNCHANGED <<ndebug, up, reply, want, sent, chunk, keep, flushed, recvVars>>

\* The socket fails: neo4j_message_send fails while it serializes, and goes on
\* to the flush while it closes.
WriteFails ==
    /\ pc \in {"write", "close"}
    /\ Len(todo) > RbSpace(snd) /\ ~up /\ RingUsable
    /\ todo' = << >> /\ keep' = << >>
    /\ pc' = IF pc = "write" THEN "failed" ELSE "flush"
    /\ flushed' = 0
    /\ UNCHANGED <<ndebug, up, reply, want, snd, out, sent, chunk, recvVars>>

\* The end of neo4j_ios_writev_all: the rest of chunking_writev, or the flush
\* of chunking_close.
Written ==
    /\ pc \in {"write", "close"} /\ todo = << >>
    /\ IF pc = "write"
         THEN /\ chunk' = [buffer |-> keep, dataSent |-> TRUE]
              /\ pc' = "serialize" /\ keep' = << >>
              /\ UNCHANGED flushed
         ELSE pc' = "flush" /\ flushed' = 0 /\ UNCHANGED <<chunk, keep>>
    /\ UNCHANGED <<ndebug, up, reply, want, snd, out, sent, todo, recvVars>>

\* buffering_flush, with nothing to flush.
FlushNothing ==
    /\ pc = "flush" /\ snd.used = 0
    /\ pc' = "sender"
    /\ UNCHANGED <<ndebug, up, reply, want, sendVars, recvVars>>

\* Fault: the socket is asked once.
FlushOnce(w) ==
    /\ pc = "flush" /\ snd.used > 0 /\ up
    /\ RingUsable
    /\ w <= snd.used
    /\ out' = out \o SubSeq(RbData(snd), 1, w)
    /\ snd' = RbClear(snd) /\ pc' = "sender"
    /\ UNCHANGED <<ndebug, up, reply, want, sent, chunk, todo, keep, flushed, recvVars>>

\* buffering_flush: a turn of its neo4j_ios_writev_all, of which the socket
\* takes w bytes.
Flush(w) ==
    /\ pc = "flush" /\ snd.used > 0 /\ up
    /\ RingUsable
    /\ w <= snd.used - flushed
    /\ out' = out \o SubSeq(RbData(snd), flushed + 1, flushed + w)
    /\ IF flushed + w = snd.used
         THEN snd' = RbClear(snd) /\ flushed' = 0 /\ pc' = "sender"
         ELSE flushed' = flushed + w /\ UNCHANGED <<snd, pc>>
    /\ UNCHANGED <<ndebug, up, reply, want, sent, chunk, todo, keep, recvVars>>

\* buffering_flush fails: it discards what was written, and when the first
\* write failed that is a number nobody has set.  neo4j_message_send does not
\* look at the result.
FlushFails(w) ==
    /\ pc = "flush" /\ snd.used > 0 /\ ~up
    /\ RingUsable
    /\ flushed > 0 => w = flushed
    /\ snd' = RbDiscard(snd, w)
    /\ pc' = "sender"
    /\ flushed' = 0
    /\ UNCHANGED <<ndebug, up, reply, want, out, sent, chunk, todo, keep, recvVars>>

\* The peer is gone, and no write will succeed.
SocketFails ==
    /\ up /\ sent # << >>
    /\ up' = FALSE
    /\ UNCHANGED <<pc, ndebug, reply, want, sendVars, recvVars>>

-------------------------------------------------------------------------------
(* Receiving *)

\* neo4j_message_recv: a chunking stream for the message.
NextMessage ==
    /\ pc = "receiver" /\ Len(got) < MaxMessages
    /\ got' = Append(got, << >>)
    /\ rem' = 0
    /\ pc' = "deserialize"
    /\ UNCHANGED <<ndebug, up, reply, want, sendVars, rcv, in, need, read, iov, part>>

Message == Len(got)

\* neo4j_deserialize reads the next n bytes with neo4j_ios_read_all.
ReadAll(n) ==
    /\ pc = "deserialize"
    /\ Len(got[Message]) + n <= want[Message]
    /\ need' = n /\ read' = 0
    /\ pc' = "chunk"
    /\ UNCHANGED <<ndebug, up, reply, want, sendVars, rcv, in, got, rem, iov, part>>

\* Fault: the length behind a chunk is left when no more than the chunk is wanted.
ChunkReadLeavesLength ==
    /\ pc = "chunk"
    /\ iov' = IF rem < 0 \/ need <= rem THEN [data |-> need, length |-> FALSE]
                                        ELSE [data |-> rem, length |-> TRUE]
    /\ part' = << >>
    /\ pc' = "readv"
    /\ UNCHANGED <<ndebug, up, reply, want, sendVars, rcv, in, got, rem, need, read>>

\* A turn of the loop of chunking_read: the end of a chunk is read together
\* with the next length.  Converted to size_t, -1 is no limit.
ChunkRead ==
    /\ pc = "chunk"
    /\ iov' = IF rem < 0 \/ need < rem THEN [data |-> need, length |-> FALSE]
                                       ELSE [data |-> rem, length |-> TRUE]
    /\ part' = << >>
    /\ pc' = "readv"
    /\ UNCHANGED <<ndebug, up, reply, want, sendVars, rcv, in, got, rem, need, read>>

Total == iov.data + (IF iov.length THEN 2 ELSE 0)
Missing == Total - Len(part)

\* A turn of neo4j_ios_readv_all that the ring can serve.
ReadBuffered ==
    LET ext == RbExtract(rcv, Missing)
    IN  /\ pc = "readv" /\ Missing > 0 /\ rcv.used >= Missing
        /\ rcv' = ext.rb /\ part' = part \o ext.bytes
        /\ UNCHANGED <<pc, ndebug, up, reply, want, sendVars, in, got, rem, need, read, iov>>

\* A turn of neo4j_ios_readv_all for which the socket gives n bytes, to the
\* reader and to the ring.
ReadThrough(n) ==
    LET after == AfterRead(rcv, Missing, SubSeq(in, 1, n))
    IN  /\ pc = "readv" /\ rcv.used < Missing
        /\ n <= Lesser(Len(in), Missing - rcv.used + rcv.size)
        /\ rcv' = after.rb /\ part' = part \o after.bytes
        /\ in' = From(in, n + 1)
        /\ UNCHANGED <<pc, ndebug, up, reply, want, sendVars, got, rem, need, read, iov>>

\* Fault: neo4j_ios_read_all does not look for the end of the stream.
ReadEndsAgain(k) ==
    LET bytes == SubSeq(part, 1, Lesser(Len(part), iov.data))
    IN  /\ pc = "readv" /\ rcv.used < Missing /\ in = << >> /\ k = 0
        /\ IF rcv.used > 0
             THEN /\ part' = part \o RbData(rcv) /\ rcv' = RbDiscard(rcv, rcv.used)
                  /\ UNCHANGED <<pc, got, rem, need, read>>
             ELSE /\ got' = [got EXCEPT ![Message] = @ \o bytes]
                  /\ need' = need - Len(bytes)
                  /\ rem' = -1 /\ read' = 0
                  /\ pc' = IF need' = 0 THEN "deserialize" ELSE "chunk"
                  /\ UNCHANGED <<part, rcv>>
        /\ UNCHANGED <<ndebug, up, reply, want, sendVars, in, iov>>

\* The socket has no more.  buffering_readv returns what is in the ring, and
\* when that is nothing neo4j_ios_readv_all fails and chunking_read returns what
\* it has; neo4j_ios_read_all calls it again, unless that was nothing.  When the
\* peer has not closed and it is the first read that fails, nobody has set the
\* number of bytes that were read, and chunking_read counts up to k of them.
ReadEnds(k) ==
    LET bytes == SubSeq(part, 1, Lesser(Len(part), iov.data))
                    \o [i \in 1..k |-> Nothing]
    IN  /\ pc = "readv" /\ rcv.used < Missing /\ in = << >>
        /\ k > 0 => ~up /\ part = << >> /\ rcv.used = 0
        /\ IF rcv.used > 0
             THEN /\ part' = part \o RbData(rcv) /\ rcv' = RbDiscard(rcv, rcv.used)
                  /\ UNCHANGED <<pc, got, rem, need, read>>
             ELSE /\ got' = [got EXCEPT ![Message] = @ \o bytes]
                  /\ need' = need - Len(bytes)
                  /\ rem' = -1
                  /\ read' = 0
                  /\ pc' = IF read + Len(bytes) = 0 THEN "failed"
                           ELSE IF need' = 0 THEN "deserialize" ELSE "chunk"
                  /\ UNCHANGED <<part, rcv>>
        /\ UNCHANGED <<ndebug, up, reply, want, sendVars, in, iov>>

\* What two bytes are as a length, when they need not be one.
LengthsOf(b) == IF b[1][1] = "h" /\ b[2] = <<"h", b[1][2], 2>> THEN {b[1][2]} ELSE 0..MaxChunk

\* The end of neo4j_ios_readv_all: the rest of the turn of chunking_read, and
\* when it returns, of the turn of neo4j_ios_read_all.
ChunkDone(length) ==
    LET total == read + iov.data
        left  == need - iov.data
    IN  /\ pc = "readv" /\ Missing = 0
        /\ got' = [got EXCEPT ![Message] = @ \o SubSeq(part, 1, iov.data)]
        /\ need' = left
        /\ part' = << >>
        /\ IF ~iov.length
             THEN /\ rem' = rem - iov.data
                  /\ pc' = "deserialize" /\ read' = 0
             ELSE /\ length \in LengthsOf(From(part, iov.data + 1))
                  /\ rem' = IF length = 0 THEN -1 ELSE length
                  /\ read' = IF length > 0 /\ left > 0 THEN total ELSE 0
                  /\ pc' = IF left = 0 THEN "deserialize"
                           ELSE IF length = 0 /\ total = 0 THEN "failed"
                           ELSE "chunk"
        /\ UNCHANGED <<ndebug, up, reply, want, sendVars, rcv, in, iov>>

\* neo4j_message_recv returns; closing the chunking stream reads nothing.
MessageDone ==
    /\ pc = "deserialize" /\ Len(got[Message]) = want[Message]
    /\ pc' = "receiver"
    /\ UNCHANGED <<ndebug, up, reply, want, sendVars, recvVars>>

-------------------------------------------------------------------------------
Send ==
    \/ StartMessage \/ CloseMessage \/ RingAssertFails \/ WriteBuffered \/ WriteFails \/ Written \/ FlushNothing
    \/ \E n \in 1..MaxLength : Serialize(n)
    \/ \E w \in 1..(snd.used + Len(todo)) : WriteThrough(w)
    \/ \E w \in 1..(snd.used - flushed) : Flush(w)
    \/ \E w \in 0..snd.used : FlushFails(w)

Receive ==
    \/ NextMessage \/ ChunkRead \/ ReadBuffered \/ MessageDone
    \/ \E n \in 1..(MaxReply + Excess) : ReadAll(n)
    \/ \E n \in 1..Len(in) : ReadThrough(n)
    \/ \E k \in 0..iov.data : ReadEnds(k)
    \/ \E length \in 0..MaxChunk : ChunkDone(length)

Next == Send \/ Receive \/ SocketFails

Spec == Init /\ [][Next]_vars

-------------------------------------------------------------------------------
TypeOK ==
    /\ pc \in {"sender", "serialize", "write", "close", "flush", "receiver",
               "deserialize", "chunk", "readv", "failed", "rb_assert", "too many vectors"}
    /\ ndebug \in BOOLEAN /\ up \in BOOLEAN
    /\ snd.ptr \in 0..SndSize /\ snd.used \in 0..SndSize
    /\ rcv.ptr \in 0..(RcvSize - 1) /\ rcv.used \in 0..RcvSize
    /\ Len(chunk.buffer) <= MinChunk /\ chunk.dataSent \in BOOLEAN
    /\ flushed \in 0..SndSize
    /\ rem \in -(MaxReply + Excess + 1)..MaxChunk
    /\ need \in 0..(MaxReply + Excess) /\ read \in 0..(MaxReply + Excess)
    /\ Len(part) <= Total

IsData(b) == b[1] = "p"
LengthStarts(s) == {i \in DOMAIN s : s[i][1] = "h" /\ s[i][3] = 1}

\* The server can read what the socket has taken: it is chunk lengths, each
\* followed by as many bytes, the bytes are those of the messages in order, and
\* the length 0 is exactly where a message ends.
WireFramed ==
    LET data == {i \in DOMAIN out : IsData(out[i])}
        adjacent(i, j) == i < j /\ \A k \in (i + 1)..(j - 1) : k \notin data
        ended(b) == b[3] = sent[b[2]] /\ (b[2] = Current => pc # "serialize")
        first(b) == IF ended(b) THEN <<"p", b[2] + 1, 1>> ELSE <<"p", b[2], b[3] + 1>>
    IN  /\ \A j \in data :
              /\ out[j][2] <= Current /\ out[j][3] <= sent[out[j][2]]
              /\ adjacent(0, j) => out[j] = <<"p", 1, 1>>
              /\ \A i \in data : adjacent(i, j) => out[j] = first(out[i])
        /\ out # << >> => 1 \in LengthStarts(out)
        /\ \A i \in LengthStarts(out) :
              LET n == out[i][2]
                  next == i + 2 + n
              IN  /\ i + 1 \in DOMAIN out => out[i + 1] = <<"h", n, 2>>
                  /\ \A j \in (i + 2)..(next - 1) : j \in DOMAIN out => IsData(out[j])
                  /\ next \in DOMAIN out => next \in LengthStarts(out)
                  /\ n = 0 => i > 1 /\ IsData(out[i - 1]) /\ ended(out[i - 1])
                  /\ (n > 0 /\ i > 1 /\ IsData(out[i - 1])) =>
                        \A j \in {i + 2} \cap DOMAIN out : out[j][2] = out[i - 1][2]

\* When neo4j_message_send has returned without an error and the socket is up,
\* the whole message, with its end, is with the socket: nothing of it waits for
\* a later call.
SentIsFlushed ==
    pc = "sender" /\ up =>
        /\ snd.used = 0
        /\ sent # << >> =>
              LET n == Len(out)
              IN  out[n] = <<"h", 0, 2>> /\ out[n - 2] = <<"p", Current, sent[Current]>>

\* The bounds of the configuration: no chunk is longer than snd_max_chunk_size,
\* and only the last chunk of a message is shorter than snd_min_chunk_size.
ChunksBounded ==
    \A i \in LengthStarts(out) :
        LET n == out[i][2]
        IN  /\ n <= MaxChunk
            /\ (n > 0 /\ n < MinChunk /\ i + 2 + n \in DOMAIN out) => out[i + 2 + n][2] = 0

\* The deserializer is given the bytes of its message, in order and once, and
\* never those of another or of a chunk length.
DeliveredInOrder ==
    \A m \in DOMAIN got : \E n \in 0..Len(got[m]) :
        /\ SubSeq(got[m], 1, n) = Payload(m, 1, n)
        /\ \A i \in (n + 1)..Len(got[m]) : got[m][i] = Nothing

\* iostream.h:91: what is reported as received has been written to the buffer.
OnlyBytesRead == \A m \in DOMAIN got : \A i \in DOMAIN got[m] : got[m][i] # Nothing

\* When a message has been received, what is left in the ring and in the socket
\* starts with the next one: its end has been taken from the stream, no matter
\* where the server cut the message and where the reads did.
AtBoundary ==
    LET left == RbData(rcv) \o in
    IN  pc = "receiver" /\ got # << >> /\ left # << >> =>
            /\ left[1] = <<"h", reply[Message + 1][1], 1>>
            /\ Len(left) > 2 => left[3] = <<"p", Message + 1, 1>>

\* No loop turns for ever: a turn of neo4j_ios_writev_all, neo4j_ios_readv_all
\* or buffering_flush that is followed by another has moved at least one byte,
\* and so has a call of chunking_read that neo4j_ios_read_all repeats.
Progress ==
    [][/\ (pc' = pc /\ up' = up) =>
             /\ pc \in {"write", "close"} => Len(todo') < Len(todo)
             /\ pc = "flush" => flushed' > flushed
             /\ pc = "readv" => Len(part') > Len(part)
       /\ (pc = "readv" /\ pc' = "chunk") => (need' < need \/ read > 0 \/ rem' > 0)]_vars

\* ring_buffer.c:35: the assertion every operation of the ring starts with.
RingAsserted == pc # "rb_assert"

\* chunking_iostream.c:525: what is buffered is less than a chunk.
VectorsAsserted == pc # "too many vectors"
===============================================================================
