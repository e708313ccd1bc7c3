------------------------------ MODULE RingBuffer ------------------------------
(***************************************************************************)
(* The ring buffer of ring_buffer.c, as operators on a record.  The cells  *)
(* are numbered from 0; ptr is rb->ptr - rb->buffer, so it is size when    *)
(* the pointer is one past the last cell.  An iovec is a sequence of at    *)
(* most two segments of cells.                                             *)
(***************************************************************************)
EXTENDS Naturals, Sequences

Lesser(m, n) == IF m < n THEN m ELSE n

\* rb_alloc; what malloc leaves in the cells is fill.
NewRing(size, fill) ==
    [size |-> size, ptr |-> 0, used |-> 0, cells |-> [c \in 0..(size - 1) |-> fill]]

\* rb_assert.
RbAssert(rb) == rb.ptr < rb.size /\ rb.used <= rb.size

RbSpace(rb) == rb.size - rb.used

Seg(base, len) == [base |-> base, len |-> len]

IovLen(iov) ==
    CASE Len(iov) = 0 -> 0
      [] Len(iov) = 1 -> iov[1].len
      [] OTHER -> iov[1].len + iov[2].len

\* The cells of an iovec, in order.
CellsOf(iov) ==
    [i \in 1..IovLen(iov) |->
        IF i <= iov[1].len THEN iov[1].base + i - 1
                           ELSE iov[2].base + i - 1 - iov[1].len]

\* rb_data_iovec: where the first n bytes of the data are.
DataIovec(rb, n) ==
    LET m    == Lesser(n, rb.used)
        tail == rb.size - rb.ptr
    IN  IF rb.used = 0 THEN << >>
        ELSE IF tail >= m THEN <<Seg(rb.ptr, m)>>
        ELSE <<Seg(rb.ptr, tail), Seg(0, m - tail)>>

\* rb_space_iovec: where the next n bytes go.
SpaceIovec(rb, n) ==
    LET m    == Lesser(n, RbSpace(rb))
        tail == rb.size - (rb.ptr + rb.used)
    IN  IF rb.used = rb.size THEN << >>
        ELSE IF rb.used = 0 THEN <<Seg(0, m)>>
        ELSE IF rb.ptr + rb.used >= rb.size
             THEN <<Seg(rb.ptr - (rb.size - rb.used), m)>>
        ELSE IF tail > m THEN <<Seg(rb.ptr + rb.used, m)>>
        ELSE <<Seg(rb.ptr + rb.used, tail), Seg(0, m - tail)>>

\* memcpy_from_iov.
Gather(rb, iov) ==
    LET at == CellsOf(iov) IN [i \in DOMAIN at |-> rb.cells[at[i]]]

\* memcpy_to_iov: as many of the bytes as the iovec has cells.
Scatter(rb, iov, bytes) ==
    LET at    == CellsOf(iov)
        put   == {i \in DOMAIN at : i <= Len(bytes)}
        of(c) == {i \in put : at[i] = c}
    IN  [rb EXCEPT !.cells =
            [c \in DOMAIN @ |-> IF of(c) = {} THEN @[c] ELSE bytes[CHOOSE i \in of(c) : TRUE]]]

\* rb_advance.
RbAdvance(rb, n) == [rb EXCEPT !.used = @ + Lesser(n, RbSpace(rb))]

\* rb_append and rb_appendv: what does not fit is not taken.
RbAppend(rb, bytes) ==
    LET iov == SpaceIovec(rb, Len(bytes))
    IN  RbAdvance(Scatter(rb, iov, bytes), IovLen(iov))

\* Fault: the pointer is not moved back when the ring becomes empty.
RbDiscardKeepsPointer(rb, n) ==
    LET m    == Lesser(n, rb.used)
        tail == rb.size - rb.ptr
    IN  [rb EXCEPT !.used = @ - m, !.ptr = IF tail >= m THEN @ + m ELSE m - tail]

\* rb_discard.  When what is discarded ends exactly with the last cell and
\* data remains, the pointer is left one past the end.
RbDiscard(rb, n) ==
    LET m    == Lesser(n, rb.used)
        tail == rb.size - rb.ptr
    IN  [rb EXCEPT !.used = @ - m,
                   !.ptr  = IF rb.used = m THEN 0
                            ELSE IF tail >= m THEN @ + m
                            ELSE m - tail]

\* rb_clear.
RbClear(rb) == [rb EXCEPT !.ptr = 0, !.used = 0]

\* The bytes in the ring, in order.
RbData(rb) == Gather(rb, DataIovec(rb, rb.used))

\* rb_extract and rb_extractv: the bytes taken and the ring that is left.
RbExtract(rb, n) ==
    LET iov == DataIovec(rb, n)
    IN  [bytes |-> Gather(rb, iov), rb |-> RbDiscard(rb, IovLen(iov))]
===============================================================================
