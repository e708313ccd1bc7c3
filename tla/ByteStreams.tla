----------------------------- MODULE ByteStreams ------------------------------
(***************************************************************************)
(* The two streams a message goes through between the serializer and the  *)
(* socket: chunking_iostream.c, which cuts a message into chunks with a    *)
(* length before each, and buffering_iostream.c, which keeps bytes in a    *)
(* ring on their way out and in.  These are the effects of one call; the   *)
(* loops that make the calls are actions of Transport.                     *)
(*                                                                         *)
(* A byte is <<"p", m, k>>, the k-th of the bytes that message m is        *)
(* serialized to, or <<"h", n, 1>> and <<"h", n, 2>>, the two bytes of a   *)
(* chunk length n.                                                         *)
(***************************************************************************)
EXTENDS RingBuffer, SequencesExt

Payload(m, first, last) == [i \in 1..(last + 1 - first) |-> <<"p", m, first + i - 1>>]

Header(n) == <<<<"h", n, 1>>, <<"h", n, 2>>>>

From(s, i) == SubSeq(s, i, Len(s))

-------------------------------------------------------------------------------
(* chunking_iostream.c, writing *)

\* chunk_iovec, for one vector of n bytes behind b buffered ones: how many
\* vectors the chunks and their lengths take.
VectorsFor(b, n, max) ==
    (IF b > 0 THEN 1 ELSE 0) + (IF b < max THEN 1 ELSE 0)
        + 2 * ((b + n - 1) \div max) + 1

\* Fault: no tail is kept.
ChunkPlanKeepsNothing(data, min, max) ==
    LET nchunks == ((Len(data) - 1) \div max) + 1
        body(k) == SubSeq(data, (k - 1) * max + 1, Lesser(k * max, Len(data)))
    IN  [out  |-> FlattenSeq([k \in 1..nchunks |-> Header(Len(body(k))) \o body(k)]),
         keep |-> << >>]

\* chunking_writev, of data that is not left in the buffer as a whole: every
\* chunk but the last is max long; a last one shorter than min is kept.
ChunkPlan(data, min, max) ==
    LET nchunks == ((Len(data) - 1) \div max) + 1
        tailLen == ((Len(data) - 1) % max) + 1
        body(k) == SubSeq(data, (k - 1) * max + 1, Lesser(k * max, Len(data)))
        chunk(k) == Header(IF k < nchunks THEN max ELSE tailLen) \o body(k)
        written == IF tailLen < min THEN nchunks - 1 ELSE nchunks
    IN  [out  |-> FlattenSeq([k \in 1..written |-> chunk(k)]),
         keep |-> IF tailLen < min THEN body(nchunks) ELSE << >>]

\* chunking_close: the chunk that was kept, and the end of the message.
ClosePlan(buffered) ==
    (IF buffered = << >> THEN << >> ELSE Header(Len(buffered)) \o buffered) \o Header(0)

-------------------------------------------------------------------------------
(* buffering_iostream.c *)

\* Faults: what the delegate took of the bytes is appended again; what is
\* appended is not counted as taken.
AfterWriteRepeats(rb, bytes, w) ==
    LET ring  == IF w < rb.used THEN RbDiscard(rb, w) ELSE RbClear(rb)
        final == RbAppend(ring, bytes)
    IN  [rb |-> final, n |-> Lesser(final.used - ring.used, Len(bytes)), ok |-> RbAssert(ring)]

AfterWriteCountsWritten(rb, bytes, w) ==
    LET ring  == IF w < rb.used THEN RbDiscard(rb, w) ELSE RbClear(rb)
        taken == IF w < rb.used THEN 0 ELSE w - rb.used
        rest  == From(bytes, taken + 1)
    IN  [rb |-> RbAppend(ring, rest), n |-> taken, ok |-> rest # << >> => RbAssert(ring)]

\* buffering_write and buffering_writev, when the bytes do not fit and the
\* delegate has taken w of the ring's data and the bytes together: the ring,
\* how many of the bytes are taken, and whether rb_assert holds when the rest
\* is appended.
AfterWrite(rb, bytes, w) ==
    LET buffered == rb.used
        ring  == IF w < buffered THEN RbDiscard(rb, w) ELSE RbClear(rb)
        taken == IF w < buffered THEN 0 ELSE w - buffered
        rest  == From(bytes, taken + 1)
        final == RbAppend(ring, rest)
    IN  [rb |-> final,
         n  |-> taken + (final.used - ring.used),
         ok |-> rest # << >> => RbAssert(ring)]

\* Fault: what the ring has given is not counted.
AfterReadSkips(rb, n, data) ==
    LET got == RbExtract(rb, n)
    IN  [rb    |-> RbAppend(got.rb, From(data, n + 1)),
         bytes |-> got.bytes \o SubSeq(data, 1, Lesser(n - Len(got.bytes), Len(data)))]

\* buffering_read and buffering_readv of n bytes, when the ring has fewer and
\* the delegate gives data: what exceeds the n bytes goes to the ring.
AfterRead(rb, n, data) ==
    LET got    == RbExtract(rb, n)
        needed == n - Len(got.bytes)
    IN  [rb    |-> RbAppend(got.rb, From(data, needed + 1)),
         bytes |-> got.bytes \o SubSeq(data, 1, Lesser(needed, Len(data)))]
===============================================================================
