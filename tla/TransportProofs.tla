--------------------------- MODULE TransportProofs ---------------------------
(***************************************************************************)
(* A message on its way to the socket and from it, for all sizes of rings, *)
(* chunks, messages and writes:                                            *)
(*   - parts of sequences, the ring as a bounded queue of bytes, FlattenSeq *)
(*     and the sums of chunk sizes, by induction on how many there are;    *)
(*   - types (TypeInv);                                                     *)
(*   - receiving: what is left of the stream is the rest of what the server *)
(*     sent (RecvInv), so the bytes are delivered in order, and a message   *)
(*     ends at the beginning of the next;                                   *)
(*   - sending: what the socket has, followed by what the ring and the loop *)
(*     have, is framed (SendInv), so the server can read it;                *)
(*   - progress: no loop turns without moving a byte.                       *)
(***************************************************************************)
EXTENDS Transport, SequenceLemmas

-----------------------------------------------------------------------------
(* Parts of sequences.                                                      *)
LEMMA FromTyped ==
  ASSUME NEW S, NEW s \in Seq(S), NEW m \in 1 .. Len(s) + 1
  PROVE  /\ From(s, m) \in Seq(S)
         /\ Len(From(s, m)) = Len(s) + 1 - m
         /\ \A i \in 1 .. Len(s) + 1 - m : From(s, m)[i] = s[m + i - 1]
<1>1. Len(s) \in Nat /\ Len(s) \in 0 .. Len(s)
  OBVIOUS
<1>2. /\ SubSeq(s, m, Len(s)) \in Seq(S)
      /\ Len(SubSeq(s, m, Len(s))) = IF m <= Len(s) THEN Len(s) - m + 1 ELSE 0
      /\ \A i \in 1 .. Len(s) - m + 1 : SubSeq(s, m, Len(s))[i] = s[m + i - 1]
  BY <1>1, SubSeqTyped
<1>. DEFINE t == SubSeq(s, m, Len(s))
            n == Len(s)
<1>3. From(s, m) = t
  BY DEF From
<1>. HIDE DEF t, n
<1>4. n \in Nat /\ m \in 1 .. n + 1
  BY <1>1 DEF n
<1>5. n + 1 - m = n - m + 1 /\ Len(t) = n + 1 - m
  BY <1>2, <1>4 DEF n, t
<1>. QED BY <1>2, <1>3, <1>5 DEF n, t

LEMMA FromAll ==
  ASSUME NEW S, NEW s \in Seq(S)
  PROVE  From(s, 1) = s /\ From(s, Len(s) + 1) = <<>>
<1>1. Len(s) \in Nat
  OBVIOUS
<1>2. From(s, 1) = s
  BY SubSeqFull DEF From
<1>3. From(s, Len(s) + 1) = <<>>
  BY <1>1, SubSeqEmpty DEF From
<1>. QED BY <1>2, <1>3

\* A sequence is what has been taken from it and what has not.
LEMMA TakeAndFrom ==
  ASSUME NEW S, NEW s \in Seq(S), NEW n \in 0 .. Len(s)
  PROVE  SubSeq(s, 1, n) \o From(s, n + 1) = s
<1>. DEFINE a == SubSeq(s, 1, n)
            b == From(s, n + 1)
            k == Len(s)
<1>0. k \in Nat /\ n \in 0 .. k /\ n \in Nat
  OBVIOUS
<1>1. a \in Seq(S) /\ Len(a) = n /\ \A i \in 1 .. n : a[i] = s[i]
  <2>1. n - 1 + 1 = n /\ (1 <= n \/ n = 0) /\ \A i \in 1 .. n : 1 + i - 1 = i
    BY <1>0
  <2>. HIDE DEF k
  <2>2. 1 \in 1 .. Len(s) + 1
    BY <1>0 DEF k
  <2>. QED BY <2>1, <2>2, SubSeqTyped
<1>2. b \in Seq(S) /\ Len(b) = k - n /\ \A i \in 1 .. k - n : b[i] = s[n + i]
  <2>1. n + 1 \in 1 .. k + 1 /\ k + 1 - (n + 1) = k - n /\ \A i \in Nat : n + 1 + i - 1 = n + i
    BY <1>0
  <2>2. /\ b \in Seq(S) /\ Len(b) = k + 1 - (n + 1)
        /\ \A i \in 1 .. k + 1 - (n + 1) : b[i] = s[n + 1 + i - 1]
    BY <2>1, FromTyped
  <2>. HIDE DEF b, k
  <2>3. ASSUME NEW i \in 1 .. k - n PROVE b[i] = s[n + i]
    <3>1. i \in 1 .. k + 1 - (n + 1) /\ n + 1 + i - 1 = n + i
      BY <1>0
    <3>. QED BY <2>2, <3>1
  <2>. QED BY <1>0, <2>1, <2>2, <2>3
<1>. HIDE DEF a, b
<1>3. /\ a \o b \in Seq(S) /\ Len(a \o b) = Len(a) + Len(b)
      /\ \A i \in 1 .. Len(a) + Len(b) : (a \o b)[i] = IF i <= Len(a) THEN a[i] ELSE b[i - Len(a)]
  BY <1>1, <1>2, ConcatProperties
<1>. DEFINE c == a \o b
<1>. HIDE DEF c
<1>4. Len(c) = k /\ \A i \in 1 .. k : c[i] = IF i <= n THEN a[i] ELSE b[i - n]
  <2>1. n + (k - n) = k
    BY <1>0
  <2>. QED BY <1>1, <1>2, <1>3, <2>1 DEF c
<1>5. ASSUME NEW i \in 1 .. k PROVE c[i] = s[i]
  <2>1. CASE i <= n
    BY <1>1, <1>4, <2>1
  <2>2. CASE i > n
    <3>1. i - n \in 1 .. k - n /\ n + (i - n) = i
      BY <1>0, <2>2
    <3>. QED BY <1>0, <1>2, <1>4, <2>2, <3>1
  <2>. QED BY <1>0, <2>1, <2>2
<1>6. c = s
  BY <1>3, <1>4, <1>5, SeqEqual DEF c, k
<1>. QED BY <1>6 DEF a, b, c

LEMMA FromOfConcat ==
  ASSUME NEW S, NEW s \in Seq(S), NEW t \in Seq(S), NEW n \in 0 .. Len(s) + Len(t)
  PROVE  From(s \o t, n + 1) = IF n <= Len(s) THEN From(s, n + 1) \o t
                               ELSE From(t, n - Len(s) + 1)
<1>. DEFINE c == s \o t
            k == Len(s)
            l == Len(t)
<1>0. k \in Nat /\ l \in Nat /\ n \in Nat /\ n <= k + l
  BY LenProperties
<1>1. /\ c \in Seq(S) /\ Len(c) = k + l
      /\ \A i \in 1 .. k + l : c[i] = IF i <= k THEN s[i] ELSE t[i - k]
  BY ConcatProperties
<1>. HIDE DEF c, k, l
<1>5. \A i \in 1 .. k + l : ~(i <= k) => c[i] = t[i - k]
  BY <1>1
<1>. DEFINE d == From(c, n + 1)
<1>2. /\ d \in Seq(S) /\ Len(d) = k + l - n
      /\ \A i \in 1 .. k + l - n : d[i] = c[n + i]
  <2>1. n + 1 \in 1 .. Len(c) + 1 /\ Len(c) + 1 - (n + 1) = k + l - n
    BY <1>0, <1>1
  <2>2. \A i \in Nat : n + 1 + i - 1 = n + i
    BY <1>0
  <2>3. /\ d \in Seq(S) /\ Len(d) = Len(c) + 1 - (n + 1)
        /\ \A i \in 1 .. Len(c) + 1 - (n + 1) : d[i] = c[n + 1 + i - 1]
    BY <1>1, <2>1, FromTyped
  <2>. HIDE DEF d
  <2>4. ASSUME NEW i \in 1 .. k + l - n PROVE d[i] = c[n + i]
    <3>1. i \in 1 .. Len(c) + 1 - (n + 1) /\ n + 1 + i - 1 = n + i
      BY <1>0, <2>1
    <3>. QED BY <2>3, <3>1
  <2>. QED BY <2>1, <2>3, <2>4
<1>. HIDE DEF d
<1>3. CASE n <= k
  <2>. DEFINE a == From(s, n + 1)
              e == a \o t
  <2>1. a \in Seq(S) /\ Len(a) = k - n
    <3>1. n + 1 \in 1 .. Len(s) + 1 /\ Len(s) + 1 - (n + 1) = k - n
      BY <1>0, <1>3 DEF k
    <3>. QED BY <3>1, FromTyped
  <2>2. \A i \in 1 .. k - n : a[i] = s[n + i]
    <3>1. n + 1 \in 1 .. Len(s) + 1 /\ Len(s) + 1 - (n + 1) = k - n
      BY <1>0, <1>3 DEF k
    <3>2. \A i \in 1 .. Len(s) + 1 - (n + 1) : a[i] = s[n + 1 + i - 1]
      BY <3>1, FromTyped
    <3>. HIDE DEF a
    <3>. TAKE i \in 1 .. k - n
    <3>3. i \in 1 .. Len(s) + 1 - (n + 1) /\ n + 1 + i - 1 = n + i
      BY <1>0, <1>3, <3>1
    <3>. QED BY <3>2, <3>3
  <2>. HIDE DEF a
  <2>3. /\ e \in Seq(S) /\ Len(e) = Len(a) + l
        /\ \A i \in 1 .. Len(a) + l : e[i] = IF i <= Len(a) THEN a[i] ELSE t[i - Len(a)]
    BY <2>1, ConcatProperties DEF l
  <2>. HIDE DEF e
  <2>4. Len(e) = Len(d) /\ Len(d) = k + l - n
    BY <1>0, <1>2, <2>1, <2>3
  <2>5. ASSUME NEW i \in 1 .. Len(d) PROVE e[i] = d[i]
    <3>1. i \in 1 .. k + l - n /\ i \in 1 .. Len(a) + l /\ d[i] = c[n + i] /\ n + i \in 1 .. k + l
      BY <1>0, <1>2, <2>1, <2>4
    <3>2. CASE i <= k - n
      <4>1. i \in 1 .. k - n /\ n + i <= k
        BY <1>0, <3>2
      <4>2. e[i] = a[i]
        BY <2>1, <2>3, <3>1, <3>2
      <4>3. c[n + i] = s[n + i]
        BY <1>1, <3>1, <4>1
      <4>. QED BY <2>2, <3>1, <4>1, <4>2, <4>3
    <3>3. CASE i > k - n
      <4>1. ~(n + i <= k) /\ ~(i <= k - n) /\ n + i - k = i - (k - n)
        BY <1>0, <3>3
      <4>2. e[i] = t[i - (k - n)]
        BY <2>1, <2>3, <3>1, <4>1
      <4>3. c[n + i] = t[n + i - k]
        <5>1. PICK j \in 1 .. k + l : j = n + i /\ j - k = n + i - k /\ ~(j <= k)
          BY <1>0, <3>1, <4>1
        <5>2. c[j] = t[j - k]
          BY <1>5, <5>1
        <5>. QED BY <5>1, <5>2
      <4>. QED BY <3>1, <4>1, <4>2, <4>3
    <3>. QED BY <1>0, <3>2, <3>3
  <2>6. e = d
    BY <1>2, <2>3, <2>4, <2>5, SeqEqual
  <2>. QED BY <1>3, <2>6 DEF a, e, d, c, k
<1>4. CASE ~(n <= k)
  <2>. DEFINE a == From(t, n - k + 1)
  <2>1. n - k + 1 \in 1 .. Len(t) + 1 /\ Len(t) + 1 - (n - k + 1) = k + l - n
    BY <1>0, <1>4 DEF l
  <2>2. /\ a \in Seq(S) /\ Len(a) = Len(t) + 1 - (n - k + 1)
        /\ \A i \in 1 .. Len(t) + 1 - (n - k + 1) : a[i] = t[n - k + 1 + i - 1]
    BY <2>1, FromTyped
  <2>. HIDE DEF a
  <2>3. Len(a) = Len(d)
    BY <1>2, <2>1, <2>2
  <2>4. ASSUME NEW i \in 1 .. Len(d) PROVE a[i] = d[i]
    <3>1. i \in 1 .. k + l - n /\ n - k + 1 + i - 1 = n + i - k /\ ~(n + i <= k)
          /\ n + i \in 1 .. k + l
      BY <1>0, <1>2, <1>4
    <3>2. c[n + i] = t[n + i - k]
      <4>1. PICK j \in 1 .. k + l : j = n + i /\ j - k = n + i - k /\ ~(j <= k)
        BY <1>0, <3>1
      <4>2. c[j] = t[j - k]
        BY <1>5, <4>1
      <4>. QED BY <4>1, <4>2
    <3>3. i \in 1 .. Len(t) + 1 - (n - k + 1)
      BY <2>1, <3>1
    <3>4. a[i] = t[n - k + 1 + i - 1]
      BY <2>2, <3>3
    <3>. QED BY <1>2, <3>1, <3>2, <3>4
  <2>5. a = d
    BY <1>2, <2>2, <2>3, <2>4, SeqEqual
  <2>. QED BY <1>4, <2>5 DEF a, d, c, k
<1>. QED BY <1>3, <1>4
-----------------------------------------------------------------------------
(* The ring.  Its data starts at the pointer and goes on in the first cell. *)
Ring(S, size) ==
  {rb \in [size : {size}, ptr : 0 .. size, used : 0 .. size, cells : [0 .. size - 1 -> S]] :
     rb.used = 0 => rb.ptr = 0}

Wrap(rb, c) == IF c < rb.size THEN c ELSE c - rb.size

LEMMA RingTyped ==
  ASSUME NEW S, NEW size \in Nat \ {0}, NEW rb \in Ring(S, size)
  PROVE  /\ rb.size = size /\ rb.ptr \in 0 .. size /\ rb.used \in 0 .. size
         /\ rb.cells \in [0 .. size - 1 -> S]
         /\ rb.used = 0 => rb.ptr = 0
         /\ rb = [size |-> rb.size, ptr |-> rb.ptr, used |-> rb.used, cells |-> rb.cells]
         /\ \A i \in 1 .. rb.used : Wrap(rb, rb.ptr + i - 1) \in 0 .. size - 1
BY DEF Ring, Wrap

LEMMA RingMade ==
  ASSUME NEW S, NEW size \in Nat \ {0}, NEW p \in 0 .. size, NEW u \in 0 .. size,
         NEW c \in [0 .. size - 1 -> S], u = 0 => p = 0
  PROVE  [size |-> size, ptr |-> p, used |-> u, cells |-> c] \in Ring(S, size)
BY DEF Ring

\* Where the first n bytes are.
LEMMA DataCells ==
  ASSUME NEW S, NEW size \in Nat \ {0}, NEW rb \in Ring(S, size), NEW n \in Nat
  PROVE  /\ IovLen(DataIovec(rb, n)) = Lesser(n, rb.used)
         /\ \A i \in 1 .. Lesser(n, rb.used) :
              CellsOf(DataIovec(rb, n))[i] = Wrap(rb, rb.ptr + i - 1)
<1>. DEFINE m == Lesser(n, rb.used)
            tail == rb.size - rb.ptr
            vec == DataIovec(rb, n)
<1>1. /\ rb.size = size /\ rb.ptr \in 0 .. size /\ rb.used \in 0 .. size
      /\ rb.used = 0 => rb.ptr = 0
  BY RingTyped
<1>2. m \in Nat /\ m <= rb.used /\ tail \in Nat
  BY <1>1 DEF Lesser
<1>3. CASE rb.used = 0
  <2>1. vec = <<>> /\ m = 0
    BY <1>2, <1>3 DEF DataIovec
  <2>2. IovLen(vec) = 0
    BY <2>1 DEF IovLen
  <2>. QED BY <2>1, <2>2
<1>4. CASE rb.used # 0 /\ tail >= m
  <2>1. vec = <<Seg(rb.ptr, m)>>
    BY <1>4 DEF DataIovec
  <2>2. Len(vec) = 1 /\ vec[1].len = m /\ vec[1].base = rb.ptr
    BY <2>1 DEF Seg
  <2>. HIDE DEF vec, m, tail
  <2>3. IovLen(vec) = m
    BY <2>2 DEF IovLen
  <2>4. ASSUME NEW i \in 1 .. m PROVE CellsOf(vec)[i] = Wrap(rb, rb.ptr + i - 1)
    <3>1. CellsOf(vec)[i] = rb.ptr + i - 1
      BY <1>2, <2>2, <2>3 DEF CellsOf
    <3>2. rb.ptr + i - 1 < rb.size
      BY <1>1, <1>2, <1>4 DEF tail
    <3>. QED BY <3>1, <3>2 DEF Wrap
  <2>. QED BY <2>3, <2>4 DEF vec, m
<1>5. CASE rb.used # 0 /\ ~(tail >= m)
  <2>1. vec = <<Seg(rb.ptr, tail), Seg(0, m - tail)>>
    BY <1>5 DEF DataIovec
  <2>2. /\ Len(vec) = 2 /\ vec[1].len = tail /\ vec[1].base = rb.ptr
        /\ vec[2].len = m - tail /\ vec[2].base = 0
    BY <2>1 DEF Seg
  <2>. HIDE DEF vec, m
  <2>3. IovLen(vec) = m
    BY <1>1, <1>2, <2>2 DEF IovLen
  <2>4. ASSUME NEW i \in 1 .. m PROVE CellsOf(vec)[i] = Wrap(rb, rb.ptr + i - 1)
    <3>1. CellsOf(vec)[i] = IF i <= tail THEN rb.ptr + i - 1 ELSE 0 + i - 1 - tail
      BY <1>2, <2>2, <2>3 DEF CellsOf
    <3>. QED BY <1>1, <1>2, <3>1 DEF Wrap
  <2>. QED BY <2>3, <2>4 DEF vec, m
<1>. QED BY <1>3, <1>4, <1>5

\* Where the next n bytes go.
LEMMA SpaceCells ==
  ASSUME NEW S, NEW size \in Nat \ {0}, NEW rb \in Ring(S, size), NEW n \in Nat
  PROVE  /\ IovLen(SpaceIovec(rb, n)) = Lesser(n, RbSpace(rb))
         /\ \A i \in 1 .. Lesser(n, RbSpace(rb)) :
              CellsOf(SpaceIovec(rb, n))[i] = Wrap(rb, Wrap(rb, rb.ptr + rb.used) + i - 1)
<1>. DEFINE m == Lesser(n, RbSpace(rb))
            end == rb.ptr + rb.used
            tail == rb.size - end
            vec == SpaceIovec(rb, n)
<1>1. /\ rb.size = size /\ rb.ptr \in 0 .. size /\ rb.used \in 0 .. size
      /\ rb.used = 0 => rb.ptr = 0
  BY RingTyped
<1>2. m \in Nat /\ m <= rb.size - rb.used /\ tail \in Int /\ end \in Nat
  BY <1>1 DEF Lesser, RbSpace
<1>. HIDE DEF m
<1>3. CASE rb.used = rb.size
  <2>1. vec = <<>> /\ m = 0
    BY <1>1, <1>2, <1>3 DEF SpaceIovec, m
  <2>2. IovLen(vec) = 0
    BY <2>1 DEF IovLen
  <2>. QED BY <2>1, <2>2 DEF m
<1>4. CASE rb.used # rb.size /\ rb.used = 0
  <2>1. vec = <<Seg(0, m)>>
    BY <1>4 DEF SpaceIovec, m
  <2>2. Len(vec) = 1 /\ vec[1].len = m /\ vec[1].base = 0
    BY <2>1 DEF Seg
  <2>. HIDE DEF vec
  <2>3. IovLen(vec) = m
    BY <2>2 DEF IovLen
  <2>4. ASSUME NEW i \in 1 .. m PROVE CellsOf(vec)[i] = Wrap(rb, Wrap(rb, end) + i - 1)
    <3>1. CellsOf(vec)[i] = 0 + i - 1
      BY <1>2, <2>2, <2>3 DEF CellsOf
    <3>2. Wrap(rb, end) = 0 /\ i - 1 < rb.size
      BY <1>1, <1>2, <1>4 DEF Wrap
    <3>. QED BY <3>1, <3>2 DEF Wrap
  <2>. QED BY <2>3, <2>4 DEF vec, m
<1>5. CASE rb.used # rb.size /\ rb.used # 0 /\ end >= rb.size
  <2>1. vec = <<Seg(rb.ptr - (rb.size - rb.used), m)>>
    BY <1>5 DEF SpaceIovec, m
  <2>2. Len(vec) = 1 /\ vec[1].len = m /\ vec[1].base = rb.ptr - (rb.size - rb.used)
    BY <2>1 DEF Seg
  <2>. HIDE DEF vec
  <2>3. IovLen(vec) = m
    BY <2>2 DEF IovLen
  <2>4. ASSUME NEW i \in 1 .. m PROVE CellsOf(vec)[i] = Wrap(rb, Wrap(rb, end) + i - 1)
    <3>1. CellsOf(vec)[i] = rb.ptr - (rb.size - rb.used) + i - 1
      BY <1>2, <2>2, <2>3 DEF CellsOf
    <3>2. Wrap(rb, end) = rb.ptr - (rb.size - rb.used)
      BY <1>1, <1>5 DEF Wrap
    <3>3. rb.ptr - (rb.size - rb.used) + i - 1 < rb.size
      BY <1>1, <1>2
    <3>. QED BY <3>1, <3>2, <3>3 DEF Wrap
  <2>. QED BY <2>3, <2>4 DEF vec, m
<1>6. CASE rb.used # rb.size /\ rb.used # 0 /\ ~(end >= rb.size) /\ tail > m
  <2>1. vec = <<Seg(end, m)>>
    BY <1>6 DEF SpaceIovec, m
  <2>2. Len(vec) = 1 /\ vec[1].len = m /\ vec[1].base = end
    BY <2>1 DEF Seg
  <2>. HIDE DEF vec
  <2>3. IovLen(vec) = m
    BY <2>2 DEF IovLen
  <2>4. ASSUME NEW i \in 1 .. m PROVE CellsOf(vec)[i] = Wrap(rb, Wrap(rb, end) + i - 1)
    <3>1. CellsOf(vec)[i] = end + i - 1
      BY <1>2, <2>2, <2>3 DEF CellsOf
    <3>2. Wrap(rb, end) = end /\ end + i - 1 < rb.size
      BY <1>1, <1>2, <1>6 DEF Wrap
    <3>. QED BY <3>1, <3>2 DEF Wrap
  <2>. QED BY <2>3, <2>4 DEF vec, m
<1>7. CASE rb.used # rb.size /\ rb.used # 0 /\ ~(end >= rb.size) /\ ~(tail > m)
  <2>1. vec = <<Seg(end, tail), Seg(0, m - tail)>>
    BY <1>7 DEF SpaceIovec, m
  <2>2. /\ Len(vec) = 2 /\ vec[1].len = tail /\ vec[1].base = end
        /\ vec[2].len = m - tail /\ vec[2].base = 0
    BY <2>1 DEF Seg
  <2>. HIDE DEF vec
  <2>3. IovLen(vec) = m
    BY <1>1, <1>2, <2>2 DEF IovLen
  <2>4. ASSUME NEW i \in 1 .. m PROVE CellsOf(vec)[i] = Wrap(rb, Wrap(rb, end) + i - 1)
    <3>1. CellsOf(vec)[i] = IF i <= tail THEN end + i - 1 ELSE 0 + i - 1 - tail
      BY <1>2, <2>2, <2>3 DEF CellsOf
    <3>2. Wrap(rb, end) = end
      BY <1>1, <1>7 DEF Wrap
    <3>. QED BY <1>1, <1>2, <1>7, <3>1, <3>2 DEF Wrap
  <2>. QED BY <2>3, <2>4 DEF vec, m
<1>. QED BY <1>3, <1>4, <1>5, <1>6, <1>7

LEMMA GatherTyped ==
  ASSUME NEW S, NEW size \in Nat \ {0}, NEW rb \in Ring(S, size), NEW n \in Nat
  PROVE  /\ Gather(rb, DataIovec(rb, n)) \in Seq(S)
         /\ Len(Gather(rb, DataIovec(rb, n))) = Lesser(n, rb.used)
         /\ \A i \in 1 .. Lesser(n, rb.used) :
              Gather(rb, DataIovec(rb, n))[i] = rb.cells[Wrap(rb, rb.ptr + i - 1)]
<1>. DEFINE m == Lesser(n, rb.used)
            at == CellsOf(DataIovec(rb, n))
            g == Gather(rb, DataIovec(rb, n))
<1>1. /\ IovLen(DataIovec(rb, n)) = m
      /\ \A i \in 1 .. m : at[i] = Wrap(rb, rb.ptr + i - 1)
  BY DataCells
<1>2. DOMAIN at = 1 .. m
  BY <1>1 DEF CellsOf
<1>3. g = [i \in 1 .. m |-> rb.cells[at[i]]]
  BY <1>2 DEF Gather
<1>4. /\ \A i \in 1 .. rb.used : Wrap(rb, rb.ptr + i - 1) \in 0 .. size - 1
      /\ rb.cells \in [0 .. size - 1 -> S] /\ rb.used \in Nat
  BY RingTyped
<1>5. m \in Nat /\ m <= rb.used
  BY <1>4 DEF Lesser
<1>. HIDE DEF m, at, g
<1>6. ASSUME NEW i \in 1 .. m
      PROVE  rb.cells[at[i]] = rb.cells[Wrap(rb, rb.ptr + i - 1)] /\ rb.cells[at[i]] \in S
  <2>1. i \in 1 .. rb.used
    BY <1>4, <1>5
  <2>2. at[i] = Wrap(rb, rb.ptr + i - 1)
    BY <1>1
  <2>. QED BY <1>4, <2>1, <2>2
<1>7. g \in [1 .. m -> S]
  BY <1>3, <1>6
<1>8. g \in Seq(S) /\ Len(g) = m
  BY <1>5, <1>7
<1>9. \A i \in 1 .. m : g[i] = rb.cells[Wrap(rb, rb.ptr + i - 1)]
  BY <1>3, <1>6
<1>. QED BY <1>8, <1>9 DEF m, g

\* The data of a ring.
LEMMA RingData ==
  ASSUME NEW S, NEW size \in Nat \ {0}, NEW rb \in Ring(S, size)
  PROVE  /\ RbData(rb) \in Seq(S) /\ Len(RbData(rb)) = rb.used
         /\ \A i \in 1 .. rb.used : RbData(rb)[i] = rb.cells[Wrap(rb, rb.ptr + i - 1)]
<1>1. rb.used \in Nat
  BY RingTyped
<1>2. Lesser(rb.used, rb.used) = rb.used
  BY DEF Lesser
<1>. QED BY <1>1, <1>2, GatherTyped DEF RbData

\* What is read of it, and what is left.
LEMMA RingTake ==
  ASSUME NEW S, NEW size \in Nat \ {0}, NEW rb \in Ring(S, size), NEW n \in Nat
  PROVE  Gather(rb, DataIovec(rb, n)) = SubSeq(RbData(rb), 1, Lesser(n, rb.used))
<1>. DEFINE m == Lesser(n, rb.used)
            g == Gather(rb, DataIovec(rb, n))
            d == RbData(rb)
            t == SubSeq(d, 1, m)
<1>1. rb.used \in Nat
  BY RingTyped
<1>2. m \in 0 .. rb.used
  BY <1>1 DEF Lesser
<1>3. /\ g \in Seq(S) /\ Len(g) = m
      /\ \A i \in 1 .. m : g[i] = rb.cells[Wrap(rb, rb.ptr + i - 1)]
  BY GatherTyped
<1>4. /\ d \in Seq(S) /\ Len(d) = rb.used
      /\ \A i \in 1 .. rb.used : d[i] = rb.cells[Wrap(rb, rb.ptr + i - 1)]
  BY RingData
<1>. HIDE DEF m, g, d
<1>5. t \in Seq(S) /\ Len(t) = m /\ \A i \in 1 .. m : t[i] = d[i]
  <2>1. 1 \in 1 .. Len(d) + 1 /\ m \in 0 .. Len(d) /\ m - 1 + 1 = m /\ (1 <= m \/ m = 0)
    BY <1>1, <1>2, <1>4
  <2>2. \A i \in 1 .. m : 1 + i - 1 = i
    OBVIOUS
  <2>3. /\ t \in Seq(S) /\ Len(t) = IF 1 <= m THEN m - 1 + 1 ELSE 0
        /\ \A i \in 1 .. m - 1 + 1 : t[i] = d[1 + i - 1]
    BY <1>4, <2>1, SubSeqTyped
  <2>. HIDE DEF t
  <2>. QED BY <2>1, <2>2, <2>3
<1>. HIDE DEF t
<1>6. ASSUME NEW i \in 1 .. Len(g) PROVE g[i] = t[i]
  <2>1. i \in 1 .. m /\ i \in 1 .. rb.used
    BY <1>1, <1>2, <1>3
  <2>. QED BY <1>3, <1>4, <1>5, <2>1
<1>7. g = t
  BY <1>3, <1>5, <1>6, SeqEqual
<1>. QED BY <1>7 DEF g, d, m, t

LEMMA RingDiscard ==
  ASSUME NEW S, NEW size \in Nat \ {0}, NEW rb \in Ring(S, size), NEW n \in Nat
  PROVE  /\ RbDiscard(rb, n) \in Ring(S, size)
         /\ RbDiscard(rb, n).used = rb.used - Lesser(n, rb.used)
         /\ RbDiscard(rb, n).ptr = IF rb.used = Lesser(n, rb.used) THEN 0
              ELSE IF rb.ptr + Lesser(n, rb.used) <= size THEN rb.ptr + Lesser(n, rb.used)
              ELSE Lesser(n, rb.used) - (size - rb.ptr)
         /\ RbData(RbDiscard(rb, n)) = From(RbData(rb), Lesser(n, rb.used) + 1)
<1>. DEFINE m == Lesser(n, rb.used)
            p == IF rb.used = m THEN 0
                 ELSE IF size - rb.ptr >= m THEN rb.ptr + m ELSE m - (size - rb.ptr)
            r == RbDiscard(rb, n)
            d == RbData(rb)
            e == RbData(r)
            f == From(d, m + 1)
<1>1. /\ rb.size = size /\ rb.ptr \in 0 .. size /\ rb.used \in 0 .. size
      /\ rb.cells \in [0 .. size - 1 -> S]
      /\ rb \in [size : {size}, ptr : 0 .. size, used : 0 .. size, cells : [0 .. size - 1 -> S]]
  BY DEF Ring
<1>2. m \in 0 .. rb.used
  BY <1>1 DEF Lesser
<1>3. r = [rb EXCEPT !.used = rb.used - m, !.ptr = p]
  BY <1>1 DEF RbDiscard
<1>. HIDE DEF m
<1>4. p \in 0 .. size /\ rb.used - m \in 0 .. size /\ (rb.used - m = 0 => p = 0)
  BY <1>1, <1>2
<1>6. /\ r.used = rb.used - m /\ r.ptr = p /\ r.cells = rb.cells /\ r.size = size
      /\ r \in [size : {size}, ptr : 0 .. size, used : 0 .. size, cells : [0 .. size - 1 -> S]]
  <2>. DEFINE u == rb.used - m
              q == p
  <2>. HIDE DEF u, q
  <2>1. r = [rb EXCEPT !.used = u, !.ptr = q] /\ u \in 0 .. size /\ q \in 0 .. size
    BY <1>3, <1>4 DEF u, q
  <2>2. /\ r.used = u /\ r.ptr = q /\ r.cells = rb.cells /\ r.size = size
        /\ r \in [size : {size}, ptr : 0 .. size, used : 0 .. size, cells : [0 .. size - 1 -> S]]
    BY <1>1, <2>1
  <2>. QED BY <2>2 DEF u, q
<1>5. r \in Ring(S, size)
  BY <1>4, <1>6 DEF Ring
<1>. HIDE DEF r
<1>7. /\ e \in Seq(S) /\ Len(e) = rb.used - m
      /\ \A i \in 1 .. rb.used - m : e[i] = r.cells[Wrap(r, r.ptr + i - 1)]
  BY <1>5, <1>6, RingData
<1>8. /\ d \in Seq(S) /\ Len(d) = rb.used
      /\ \A i \in 1 .. rb.used : d[i] = rb.cells[Wrap(rb, rb.ptr + i - 1)]
  BY RingData
<1>. HIDE DEF d, e
<1>9. /\ f \in Seq(S) /\ Len(f) = rb.used - m
      /\ \A i \in 1 .. rb.used - m : f[i] = d[m + 1 + i - 1]
  <2>1. m + 1 \in 1 .. Len(d) + 1 /\ Len(d) + 1 - (m + 1) = rb.used - m
    BY <1>1, <1>2, <1>8
  <2>2. /\ f \in Seq(S) /\ Len(f) = Len(d) + 1 - (m + 1)
        /\ \A i \in 1 .. Len(d) + 1 - (m + 1) : f[i] = d[m + 1 + i - 1]
    BY <1>8, <2>1, FromTyped
  <2>. HIDE DEF f
  <2>. QED BY <2>1, <2>2
<1>. HIDE DEF f
<1>10. ASSUME NEW i \in 1 .. rb.used - m PROVE e[i] = f[i]
  <2>1. PICK j \in 1 .. rb.used : j = m + i /\ m + 1 + i - 1 = j
    BY <1>1, <1>2
  <2>2. f[i] = d[j]
    BY <1>9, <2>1
  <2>3. d[j] = rb.cells[Wrap(rb, rb.ptr + j - 1)]
    BY <1>8
  <2>4. Wrap(r, r.ptr + i - 1) = Wrap(rb, rb.ptr + j - 1)
    <3>1. CASE size - rb.ptr >= m
      <4>1. r.ptr + i - 1 = rb.ptr + j - 1
        BY <1>1, <1>2, <1>6, <2>1, <3>1
      <4>. QED BY <1>1, <1>6, <4>1 DEF Wrap
    <3>2. CASE ~(size - rb.ptr >= m)
      <4>1. r.ptr + i - 1 = rb.ptr + j - 1 - size /\ r.ptr + i - 1 < size /\ ~(rb.ptr + j - 1 < size)
        <5>1. ~(rb.used = m) /\ r.ptr = m - (size - rb.ptr)
          BY <1>1, <1>2, <1>6, <3>2
        <5>. QED BY <1>1, <1>2, <2>1, <3>2, <5>1
      <4>. QED BY <1>1, <1>6, <4>1 DEF Wrap
    <3>. QED BY <3>1, <3>2
  <2>. QED BY <1>6, <1>7, <2>2, <2>3, <2>4
<1>11. e = f
  BY <1>7, <1>9, <1>10, SeqEqual
<1>12. r.ptr = IF rb.used = m THEN 0
               ELSE IF rb.ptr + m <= size THEN rb.ptr + m ELSE m - (size - rb.ptr)
  BY <1>1, <1>2, <1>6
<1>. QED BY <1>5, <1>6, <1>11, <1>12 DEF r, e, d, f, m

LEMMA RingClear ==
  ASSUME NEW S, NEW size \in Nat \ {0}, NEW rb \in Ring(S, size)
  PROVE  /\ RbClear(rb) \in Ring(S, size) /\ RbClear(rb).used = 0
         /\ RbData(RbClear(rb)) = <<>>
<1>. DEFINE r == RbClear(rb)
<1>1. /\ rb.size = size /\ rb.cells \in [0 .. size - 1 -> S]
      /\ rb \in [size : {size}, ptr : 0 .. size, used : 0 .. size, cells : [0 .. size - 1 -> S]]
  BY DEF Ring
<1>2. /\ r.ptr = 0 /\ r.used = 0
      /\ r \in [size : {size}, ptr : 0 .. size, used : 0 .. size, cells : [0 .. size - 1 -> S]]
  <2>. DEFINE z == 0
  <2>1. r = [rb EXCEPT !.ptr = z, !.used = z] /\ z \in 0 .. size
    BY DEF RbClear
  <2>. HIDE DEF z, r
  <2>2. /\ r.ptr = z /\ r.used = z
        /\ r \in [size : {size}, ptr : 0 .. size, used : 0 .. size, cells : [0 .. size - 1 -> S]]
    BY <1>1, <2>1
  <2>. QED BY <2>2 DEF z
<1>3. r \in Ring(S, size) /\ r.used = 0
  BY <1>2 DEF Ring
<1>. HIDE DEF r
<1>4. RbData(r) \in Seq(S) /\ Len(RbData(r)) = 0
  BY <1>3, RingData
<1>5. RbData(r) = <<>>
  BY <1>4, EmptySeq
<1>. QED BY <1>3, <1>5 DEF r

\* Two cells of the ring less than a round apart are not the same.
LEMMA WrapApart ==
  ASSUME NEW S, NEW size \in Nat \ {0}, NEW rb \in Ring(S, size),
         NEW i \in 1 .. size, NEW j \in 1 .. size
  PROVE  /\ Wrap(rb, rb.ptr + i - 1) = Wrap(rb, rb.ptr + j - 1) => i = j
         /\ Wrap(rb, rb.ptr + i - 1) \in 0 .. size - 1
<1>1. rb.size = size /\ rb.ptr \in 0 .. size
  BY RingTyped
<1>. QED BY <1>1 DEF Wrap

LEMMA SpaceWraps ==
  ASSUME NEW S, NEW size \in Nat \ {0}, NEW rb \in Ring(S, size), NEW i \in 1 .. size - rb.used
  PROVE  /\ Wrap(rb, Wrap(rb, rb.ptr + rb.used) + i - 1) = Wrap(rb, rb.ptr + (rb.used + i) - 1)
         /\ rb.used + i \in 1 .. size
<1>1. rb.size = size /\ rb.ptr \in 0 .. size /\ rb.used \in 0 .. size
  BY RingTyped
<1>2. i \in Nat /\ i >= 1 /\ rb.used + i <= size
  BY <1>1
<1>3. CASE rb.ptr + rb.used < size
  <2>1. Wrap(rb, rb.ptr + rb.used) = rb.ptr + rb.used
    BY <1>1, <1>3 DEF Wrap
  <2>2. rb.ptr + rb.used + i - 1 = rb.ptr + (rb.used + i) - 1
    BY <1>1, <1>2
  <2>. QED BY <1>1, <1>2, <2>1, <2>2
<1>4. CASE ~(rb.ptr + rb.used < size)
  <2>1. Wrap(rb, rb.ptr + rb.used) = rb.ptr + rb.used - size
    BY <1>1, <1>4 DEF Wrap
  <2>2. Wrap(rb, rb.ptr + (rb.used + i) - 1) = rb.ptr + (rb.used + i) - 1 - size
    BY <1>1, <1>2, <1>4 DEF Wrap
  <2>3. Wrap(rb, rb.ptr + rb.used - size + i - 1) = rb.ptr + rb.used - size + i - 1
    BY <1>1, <1>2, <1>4 DEF Wrap
  <2>. QED BY <1>1, <1>2, <2>1, <2>2, <2>3
<1>. QED BY <1>3, <1>4

\* What is appended, as far as there is room, is behind what there was.
LEMMA RingAppend ==
  ASSUME NEW S, NEW size \in Nat \ {0}, NEW rb \in Ring(S, size), NEW bytes \in Seq(S)
  PROVE  /\ RbAppend(rb, bytes) \in Ring(S, size)
         /\ RbAppend(rb, bytes).used = rb.used + Lesser(Len(bytes), size - rb.used)
         /\ RbAppend(rb, bytes).ptr = rb.ptr
         /\ RbData(RbAppend(rb, bytes)) =
              RbData(rb) \o SubSeq(bytes, 1, Lesser(Len(bytes), size - rb.used))
<1>. DEFINE m == Lesser(Len(bytes), size - rb.used)
            vec == SpaceIovec(rb, Len(bytes))
            at == CellsOf(vec)
            of(c) == {i \in {k \in DOMAIN at : k <= Len(bytes)} : at[i] = c}
            cells == [c \in DOMAIN rb.cells |->
                        IF of(c) = {} THEN rb.cells[c] ELSE bytes[CHOOSE i \in of(c) : TRUE]]
            r == RbAppend(rb, bytes)
<1>1. /\ rb.size = size /\ rb.ptr \in 0 .. size /\ rb.used \in 0 .. size
      /\ rb.cells \in [0 .. size - 1 -> S]
      /\ rb \in [size : {size}, ptr : 0 .. size, used : 0 .. size, cells : [0 .. size - 1 -> S]]
      /\ rb.used = 0 => rb.ptr = 0
  BY DEF Ring
<1>2. Len(bytes) \in Nat /\ RbSpace(rb) = size - rb.used
  BY <1>1, LenProperties DEF RbSpace
<1>3. m \in Nat /\ m <= Len(bytes) /\ m <= size - rb.used
  BY <1>1, <1>2 DEF Lesser
<1>4. /\ IovLen(vec) = m
      /\ \A i \in 1 .. m : at[i] = Wrap(rb, Wrap(rb, rb.ptr + rb.used) + i - 1)
  BY <1>2, SpaceCells
<1>5. DOMAIN at = 1 .. m
  BY <1>4 DEF CellsOf
<1>6. r = [rb EXCEPT !.cells = cells, !.used = rb.used + m]
  <2>1. Scatter(rb, vec, bytes) = [rb EXCEPT !.cells = cells]
    BY DEF Scatter
  <2>. DEFINE s == [rb EXCEPT !.cells = cells]
  <2>2. s.size = size /\ s.used = rb.used
    BY <1>1
  <2>3. Lesser(m, RbSpace(s)) = m
    BY <1>1, <1>3, <2>2 DEF Lesser, RbSpace
  <2>4. r = RbAdvance(s, m)
    BY <1>4, <2>1 DEF RbAppend
  <2>. HIDE DEF cells, m
  <2>5. r = [s EXCEPT !.used = s.used + m]
    BY <2>3, <2>4 DEF RbAdvance
  <2>. QED BY <1>1, <2>2, <2>5
<1>. HIDE DEF m, at, r, vec
<1>7. ASSUME NEW i \in 1 .. m
      PROVE  /\ at[i] = Wrap(rb, rb.ptr + (rb.used + i) - 1)
             /\ rb.used + i \in 1 .. size /\ i <= Len(bytes) /\ bytes[i] \in S
  <2>1. i \in 1 .. size - rb.used /\ i \in 1 .. Len(bytes)
    BY <1>1, <1>2, <1>3
  <2>. QED BY <1>4, <2>1, SpaceWraps, ElementOfSeq
<1>8. ASSUME NEW i \in 1 .. m
      PROVE  of(at[i]) = {i}
  <2>1. ASSUME NEW j \in 1 .. m, at[j] = at[i] PROVE j = i
    <3>1. PICK x \in 1 .. size, y \in 1 .. size : x = rb.used + j /\ y = rb.used + i
      BY <1>7
    <3>2. Wrap(rb, rb.ptr + x - 1) = Wrap(rb, rb.ptr + y - 1)
      BY <1>7, <2>1, <3>1
    <3>3. x = y
      BY <3>2, WrapApart
    <3>. QED BY <1>1, <1>3, <3>1, <3>3
  <2>2. i \in of(at[i])
    BY <1>5, <1>7
  <2>. QED BY <1>5, <2>1, <2>2
<1>9. ASSUME NEW c \in 0 .. size - 1, of(c) # {}
      PROVE  \E i \in 1 .. m : c = at[i] /\ of(c) = {i}
  <2>1. PICK i \in of(c) : TRUE
    BY <1>9
  <2>2. i \in 1 .. m /\ at[i] = c
    BY <1>5, <2>1
  <2>. QED BY <1>8, <2>2
<1>. HIDE DEF of
<1>10. ASSUME NEW c \in 0 .. size - 1
       PROVE  /\ cells[c] \in S
              /\ of(c) = {} => cells[c] = rb.cells[c]
              /\ \A i : of(c) = {i} => cells[c] = bytes[i]
  <2>1. cells[c] = IF of(c) = {} THEN rb.cells[c] ELSE bytes[CHOOSE i \in of(c) : TRUE]
    BY <1>1
  <2>2. ASSUME NEW i, of(c) = {i} PROVE cells[c] = bytes[i]
    <3>1. of(c) # {} /\ (CHOOSE k \in of(c) : TRUE) \in of(c)
      BY <2>2
    <3>2. (CHOOSE k \in of(c) : TRUE) = i
      BY <2>2, <3>1
    <3>. QED BY <2>1, <3>1, <3>2
  <2>3. of(c) = {} => cells[c] = rb.cells[c]
    BY <2>1
  <2>4. cells[c] \in S
    <3>1. CASE of(c) = {}
      BY <1>1, <2>3, <3>1
    <3>2. CASE of(c) # {}
      <4>1. PICK i \in 1 .. m : of(c) = {i}
        BY <1>9, <3>2
      <4>. QED BY <1>7, <2>2, <4>1
    <3>. QED BY <3>1, <3>2
  <2>. QED BY <2>2, <2>3, <2>4
<1>11. cells \in [0 .. size - 1 -> S]
  <2>1. cells = [c \in 0 .. size - 1 |-> cells[c]]
    BY <1>1
  <2>. QED BY <1>10, <2>1
<1>. HIDE DEF cells
<1>12. /\ r.used = rb.used + m /\ r.ptr = rb.ptr /\ r.cells = cells /\ r.size = size
       /\ r \in [size : {size}, ptr : 0 .. size, used : 0 .. size, cells : [0 .. size - 1 -> S]]
  <2>. DEFINE u == rb.used + m
  <2>1. u \in 0 .. size
    BY <1>1, <1>3
  <2>2. r = [rb EXCEPT !.cells = cells, !.used = u]
    BY <1>6
  <2>. HIDE DEF u
  <2>3. /\ r.used = u /\ r.ptr = rb.ptr /\ r.cells = cells /\ r.size = size
        /\ r \in [size : {size}, ptr : 0 .. size, used : 0 .. size, cells : [0 .. size - 1 -> S]]
    BY <1>1, <1>11, <2>1, <2>2
  <2>. QED BY <2>3 DEF u
<1>13. r \in Ring(S, size)
  BY <1>1, <1>3, <1>12 DEF Ring
<1>. DEFINE d == RbData(rb)
            e == RbData(r)
            b == SubSeq(bytes, 1, m)
            f == d \o b
<1>14. /\ d \in Seq(S) /\ Len(d) = rb.used
       /\ \A i \in 1 .. rb.used : d[i] = rb.cells[Wrap(rb, rb.ptr + i - 1)]
  BY RingData
<1>15. /\ e \in Seq(S) /\ Len(e) = rb.used + m
       /\ \A i \in 1 .. rb.used + m : e[i] = cells[Wrap(rb, rb.ptr + i - 1)]
  <2>1. /\ e \in Seq(S) /\ Len(e) = r.used
        /\ \A i \in 1 .. r.used : e[i] = r.cells[Wrap(r, r.ptr + i - 1)]
    BY <1>13, RingData
  <2>2. \A i : Wrap(r, i) = Wrap(rb, i)
    BY <1>1, <1>12 DEF Wrap
  <2>. HIDE DEF e
  <2>. QED BY <1>12, <2>1, <2>2
<1>16. b \in Seq(S) /\ Len(b) = m /\ \A i \in 1 .. m : b[i] = bytes[i]
  <2>1. 1 \in 1 .. Len(bytes) + 1 /\ m \in 0 .. Len(bytes) /\ m - 1 + 1 = m /\ (1 <= m \/ m = 0)
    BY <1>2, <1>3
  <2>2. \A i \in 1 .. m : 1 + i - 1 = i
    OBVIOUS
  <2>3. /\ b \in Seq(S) /\ Len(b) = IF 1 <= m THEN m - 1 + 1 ELSE 0
        /\ \A i \in 1 .. m - 1 + 1 : b[i] = bytes[1 + i - 1]
    BY <2>1, SubSeqTyped
  <2>. HIDE DEF b
  <2>. QED BY <2>1, <2>2, <2>3
<1>. HIDE DEF d, e, b
<1>17. /\ f \in Seq(S) /\ Len(f) = rb.used + m
       /\ \A i \in 1 .. rb.used + m : f[i] = IF i <= rb.used THEN d[i] ELSE b[i - rb.used]
  <2>1. /\ f \in Seq(S) /\ Len(f) = Len(d) + Len(b)
        /\ \A i \in 1 .. Len(d) + Len(b) : f[i] = IF i <= Len(d) THEN d[i] ELSE b[i - Len(d)]
    BY <1>14, <1>16, ConcatProperties
  <2>. HIDE DEF f
  <2>. QED BY <1>14, <1>16, <2>1
<1>. HIDE DEF f
<1>18. ASSUME NEW k \in 1 .. rb.used + m PROVE e[k] = f[k]
  <2>. DEFINE c == Wrap(rb, rb.ptr + k - 1)
  <2>1. k \in 1 .. size /\ c \in 0 .. size - 1
    BY <1>1, <1>3, WrapApart
  <2>2. CASE k <= rb.used
    <3>1. of(c) = {}
      <4>. SUFFICES ASSUME of(c) # {} PROVE FALSE
        OBVIOUS
      <4>1. PICK i \in 1 .. m : c = at[i]
        BY <1>9, <2>1
      <4>2. k = rb.used + i
        BY <1>7, <2>1, <4>1, WrapApart
      <4>. QED BY <1>1, <2>2, <4>2
    <3>2. k \in 1 .. rb.used
      BY <1>1, <2>2
    <3>. HIDE DEF c
    <3>3. cells[c] = rb.cells[c]
      BY <1>10, <2>1, <3>1
    <3>. QED BY <1>14, <1>15, <1>17, <2>2, <3>2, <3>3 DEF c
  <2>3. CASE k > rb.used
    <3>1. PICK i \in 1 .. m : k = rb.used + i /\ k - rb.used = i
      BY <1>1, <1>3, <2>3
    <3>2. c = at[i]
      BY <1>7, <3>1
    <3>. HIDE DEF c
    <3>3. of(c) = {i}
      BY <1>8, <3>2
    <3>4. cells[c] = bytes[i]
      BY <1>10, <2>1, <3>3
    <3>5. e[k] = bytes[i]
      BY <1>15, <3>4 DEF c
    <3>6. ~(k <= rb.used)
      BY <1>1, <2>3
    <3>. QED BY <1>16, <1>17, <3>1, <3>5, <3>6
  <2>. QED BY <1>1, <1>3, <2>2, <2>3
<1>19. e = f
  BY <1>15, <1>17, <1>18, SeqEqual
<1>. QED BY <1>12, <1>13, <1>19 DEF m, r, d, e, f, b

-----------------------------------------------------------------------------
(* FlattenSeq of what is left of a sequence.                                *)
LEMMA FlattenFrom ==
  ASSUME NEW S, NEW ss \in Seq(Seq(S)), NEW i \in 1 .. Len(ss)
  PROVE  FlattenSeq(From(ss, i)) = ss[i] \o FlattenSeq(From(ss, i + 1))
<1>1. Len(ss) \in Nat /\ i \in 1 .. Len(ss) + 1 /\ i + 1 \in 1 .. Len(ss) + 1 /\ Len(ss) \in i .. Len(ss)
  OBVIOUS
<1>2. From(ss, i) = <<ss[i]>> \o From(ss, i + 1)
  BY <1>1, SubSeqRecursiveFirst DEF From
<1>3. From(ss, i + 1) \in Seq(Seq(S)) /\ ss[i] \in Seq(S)
  BY <1>1, FromTyped, ElementOfSeq
<1>. QED BY <1>2, <1>3, FlattenHead

LEMMA FlattenFromEnd ==
  ASSUME NEW S, NEW ss \in Seq(Seq(S))
  PROVE  FlattenSeq(From(ss, Len(ss) + 1)) = <<>>
<1>1. From(ss, Len(ss) + 1) = <<>>
  BY FromAll
<1>2. FlattenSeq(<<>>) = <<>>
  BY DEF FlattenSeq
<1>. QED BY <1>1, <1>2

-----------------------------------------------------------------------------
(* Sums of the sizes of chunks.                                             *)
Summed(sizes, n, f) ==
  f = [i \in 0 .. n |-> IF i = 0 THEN 0 ELSE f[i - 1] + sizes[i]]

LEMMA SummedExists ==
  ASSUME NEW sizes, NEW n \in Nat
  PROVE  \E f : Summed(sizes, n, f)
<1>. DEFINE P == {m \in Nat : \E f : Summed(sizes, m, f)}
<1>1. 0 \in P
  <2>. DEFINE f == [i \in 0 .. 0 |-> 0]
  <2>1. Summed(sizes, 0, f)
    BY DEF Summed
  <2>. QED BY <2>1
<1>2. ASSUME NEW m \in Nat, m \in P PROVE m + 1 \in P
  <2>1. PICK f : Summed(sizes, m, f)
    BY <1>2
  <2>. DEFINE Step(i, h) == IF i = 0 THEN 0 ELSE h[i - 1] + sizes[i]
              g == [i \in 0 .. m + 1 |-> IF i <= m THEN f[i] ELSE Step(i, f)]
  <2>2. \A i \in 0 .. m : f[i] = Step(i, f)
    BY <2>1 DEF Summed
  <2>3. \A i \in 0 .. m : g[i] = f[i]
    OBVIOUS
  <2>4. ASSUME NEW i \in 0 .. m + 1 PROVE g[i] = Step(i, g)
    <3>1. CASE i = 0
      BY <3>1, <2>2
    <3>2. CASE i # 0
      <4>1. i - 1 \in 0 .. m
        BY <3>2
      <4>2. g[i - 1] = f[i - 1] /\ g[i] = IF i <= m THEN f[i] ELSE Step(i, f)
        BY <4>1, <2>3
      <4>3. g[i] = Step(i, f)
        <5>1. i <= m => i \in 0 .. m
          OBVIOUS
        <5>. QED BY <2>2, <4>2, <5>1
      <4>. HIDE DEF g
      <4>. QED BY <3>2, <4>2, <4>3
    <3>. QED BY <3>1, <3>2
  <2>5. Summed(sizes, m + 1, g)
    BY <2>4 DEF Summed
  <2>. QED BY <2>5
<1>. HIDE DEF P
<1>3. Nat \subseteq P
  BY <1>1, <1>2, NaturalsInSet
<1>. QED BY <1>3 DEF P

LEMMA SumsRecursion ==
  ASSUME NEW sizes \in Seq(Nat \ {0})
  PROVE  /\ Sums(sizes)[0] = 0
         /\ \A n \in 1 .. Len(sizes) : Sums(sizes)[n] = Sums(sizes)[n - 1] + sizes[n]
         /\ \A n \in 0 .. Len(sizes) : Sums(sizes)[n] \in Nat
<1>. DEFINE L == Len(sizes)
            f == Sums(sizes)
<1>1. L \in Nat /\ \A n \in 1 .. L : sizes[n] \in Nat \ {0}
  BY LenProperties, ElementOfSeq
<1>2. Summed(sizes, L, CHOOSE g : Summed(sizes, L, g))
  BY <1>1, SummedExists
<1>3. Summed(sizes, L, f)
  BY <1>2 DEF Sums, Summed
<1>. HIDE DEF f, L
<1>4. f = [i \in 0 .. L |-> IF i = 0 THEN 0 ELSE f[i - 1] + sizes[i]]
  BY <1>3 DEF Summed
<1>5. f[0] = 0
  BY <1>1, <1>4
<1>6. \A n \in 1 .. L : f[n] = f[n - 1] + sizes[n]
  BY <1>1, <1>4
<1>. DEFINE P == {n \in Nat : n \in 0 .. L => f[n] \in Nat}
<1>7. 0 \in P
  BY <1>5
<1>8. ASSUME NEW n \in Nat, n \in P PROVE n + 1 \in P
  <2>. SUFFICES ASSUME n + 1 \in 0 .. L PROVE f[n + 1] \in Nat
    OBVIOUS
  <2>1. n \in 0 .. L /\ n + 1 \in 1 .. L /\ n + 1 - 1 = n
    BY <1>1
  <2>2. f[n] \in Nat /\ sizes[n + 1] \in Nat
    BY <1>1, <1>8, <2>1
  <2>. QED BY <1>6, <2>1, <2>2
<1>. HIDE DEF P
<1>9. Nat \subseteq P
  BY <1>7, <1>8, NaturalsInSet
<1>10. \A n \in 0 .. L : f[n] \in Nat
  BY <1>1, <1>9 DEF P
<1>. QED BY <1>5, <1>6, <1>10 DEF f, L

LEMMA SumsGrow ==
  ASSUME NEW sizes \in Seq(Nat \ {0}), NEW n \in 0 .. Len(sizes)
  PROVE  /\ Sums(sizes)[n] <= SumOf(sizes) /\ SumOf(sizes) \in Nat
         /\ n < Len(sizes) => Sums(sizes)[n] < SumOf(sizes)
<1>. DEFINE L == Len(sizes)
            f == Sums(sizes)
<1>1. L \in Nat /\ \A k \in 1 .. L : sizes[k] \in Nat \ {0}
  BY LenProperties, ElementOfSeq
<1>2. /\ \A k \in 1 .. L : f[k] = f[k - 1] + sizes[k]
      /\ \A k \in 0 .. L : f[k] \in Nat
  BY SumsRecursion
<1>. HIDE DEF f, L
<1>. DEFINE Q(k) == n + k \in 0 .. L => f[n] <= f[n + k] /\ (k > 0 => f[n] < f[n + k])
            P == {k \in Nat : Q(k)}
<1>0. n \in 0 .. L
  BY DEF L
<1>3. 0 \in P
  BY <1>0, <1>1, <1>2
<1>4. ASSUME NEW k \in Nat, k \in P PROVE k + 1 \in P
  <2>. SUFFICES ASSUME n + (k + 1) \in 0 .. L PROVE f[n] < f[n + (k + 1)]
    <3>1. n + (k + 1) \in 0 .. L => f[n + (k + 1)] \in Nat /\ f[n] \in Nat
      BY <1>0, <1>2
    <3>. QED BY <3>1
  <2>1. PICK x \in 1 .. L : x = n + (k + 1) /\ x - 1 = n + k /\ x - 1 \in 0 .. L /\ x \in 0 .. L
    BY <1>0, <1>1
  <2>2. f[x] = f[x - 1] + sizes[x] /\ sizes[x] \in Nat \ {0} /\ f[x - 1] \in Nat /\ f[n] \in Nat
    BY <1>0, <1>1, <1>2, <2>1
  <2>3. f[n] <= f[x - 1]
    <3>1. n + k \in 0 .. L
      BY <2>1
    <3>2. Q(k)
      BY <1>4
    <3>3. f[n] <= f[n + k]
      BY <3>1, <3>2
    <3>. QED BY <2>1, <3>3
  <2>4. f[n] < f[x]
    BY <2>2, <2>3
  <2>. QED BY <2>1, <2>4
<1>. HIDE DEF P
<1>5. Nat \subseteq P
  BY <1>3, <1>4, NaturalsInSet
<1>6. PICK k \in Nat : n + k = L /\ (n < L => k > 0) /\ L \in 0 .. L
  <2>1. L - n \in Nat /\ n + (L - n) = L /\ (n < L => L - n > 0) /\ L \in 0 .. L
    BY <1>0, <1>1
  <2>. QED BY <2>1
<1>7. k \in P /\ f[L] \in Nat
  BY <1>1, <1>2, <1>5, <1>6
<1>8. f[n] <= f[L] /\ (n < L => f[n] < f[L])
  <2>1. Q(k)
    BY <1>7 DEF P
  <2>2. f[n] <= f[n + k] /\ (k > 0 => f[n] < f[n + k])
    BY <1>6, <2>1
  <2>. QED BY <1>6, <2>2
<1>. QED BY <1>7, <1>8 DEF f, L, SumOf

-----------------------------------------------------------------------------
(* Bytes, and the server's side of the wire.                                *)
Byte == {"p", "h"} \X Nat \X Nat

LEMMA HeaderTyped ==
  ASSUME NEW n \in Nat
  PROVE  /\ Header(n) \in Seq(Byte) /\ Len(Header(n)) = 2
         /\ Header(n)[1] = <<"h", n, 1>> /\ Header(n)[2] = <<"h", n, 2>>
<1>1. <<"h", n, 1>> \in Byte /\ <<"h", n, 2>> \in Byte
  BY DEF Byte
<1>. QED BY <1>1 DEF Header

LEMMA PayloadTyped ==
  ASSUME NEW m \in Nat, NEW a \in Nat \ {0}, NEW b \in Nat
  PROVE  /\ Payload(m, a, b) \in Seq(Byte)
         /\ Len(Payload(m, a, b)) = IF a <= b + 1 THEN b + 1 - a ELSE 0
         /\ \A i \in 1 .. b + 1 - a : Payload(m, a, b)[i] = <<"p", m, a + i - 1>>
         /\ Payload(m, a, b) = <<>> <=> b < a
<1>. DEFINE n == IF a <= b + 1 THEN b + 1 - a ELSE 0
            cell(i) == <<"p", m, a + i - 1>>
<1>1. n \in Nat /\ 1 .. b + 1 - a = 1 .. n
  OBVIOUS
<1>2. \A i \in 1 .. n : cell(i) \in Byte
  <2>. SUFFICES ASSUME NEW i \in 1 .. n PROVE cell(i) \in Byte
    OBVIOUS
  <2>1. a + i - 1 \in Nat
    BY <1>1
  <2>. QED BY <2>1 DEF Byte
<1>3. Payload(m, a, b) = [i \in 1 .. n |-> cell(i)]
  BY <1>1 DEF Payload
<1>. DEFINE s == Payload(m, a, b)
<1>. HIDE DEF cell, n, s
<1>4. s \in Seq(Byte) /\ Len(s) = n /\ \A i \in 1 .. n : s[i] = cell(i)
  BY <1>1, <1>2, <1>3 DEF s
<1>5. s = <<>> <=> n = 0
  BY <1>4, EmptySeq
<1>. QED BY <1>1, <1>4, <1>5 DEF s, n, cell

LEMMA PayloadSplit ==
  ASSUME NEW m \in Nat, NEW a \in Nat \ {0}, NEW b \in Nat, NEW c \in Nat, a <= b + 1, b <= c
  PROVE  Payload(m, a, c) = Payload(m, a, b) \o Payload(m, b + 1, c)
<1>. DEFINE s == Payload(m, a, c)
            t == Payload(m, a, b)
            u == Payload(m, b + 1, c)
<1>0. b + 1 \in Nat \ {0} /\ a <= c + 1 /\ b + 1 <= c + 1
  OBVIOUS
<1>1. /\ s \in Seq(Byte) /\ Len(s) = c + 1 - a
      /\ \A i \in 1 .. c + 1 - a : s[i] = <<"p", m, a + i - 1>>
  BY <1>0, PayloadTyped
<1>2. /\ t \in Seq(Byte) /\ Len(t) = b + 1 - a
      /\ \A i \in 1 .. b + 1 - a : t[i] = <<"p", m, a + i - 1>>
  BY <1>0, PayloadTyped
<1>3. /\ u \in Seq(Byte) /\ Len(u) = c + 1 - (b + 1)
      /\ \A i \in 1 .. c + 1 - (b + 1) : u[i] = <<"p", m, b + 1 + i - 1>>
  BY <1>0, PayloadTyped
<1>. HIDE DEF s, t, u
<1>4. /\ t \o u \in Seq(Byte) /\ Len(t \o u) = Len(t) + Len(u)
      /\ \A i \in 1 .. Len(t) + Len(u) : (t \o u)[i] = IF i <= Len(t) THEN t[i] ELSE u[i - Len(t)]
  BY <1>2, <1>3, ConcatProperties
<1>5. Len(s) = Len(t) + Len(u)
  BY <1>1, <1>2, <1>3
<1>6. ASSUME NEW i \in 1 .. Len(s) PROVE s[i] = (t \o u)[i]
  <2>1. i \in 1 .. Len(t) + Len(u) /\ i \in 1 .. c + 1 - a
    BY <1>1, <1>5
  <2>2. CASE i <= Len(t)
    <3>1. i \in 1 .. b + 1 - a
      BY <1>2, <2>1, <2>2
    <3>. QED BY <1>1, <1>2, <1>4, <2>1, <2>2, <3>1
  <2>3. CASE ~(i <= Len(t))
    <3>1. PICK k \in 1 .. c + 1 - (b + 1) : k = i - Len(t) /\ b + 1 + k - 1 = a + i - 1
      BY <1>2, <2>1, <2>3
    <3>. QED BY <1>1, <1>3, <1>4, <2>1, <2>3, <3>1
  <2>. QED BY <2>2, <2>3
<1>7. s = t \o u
  BY <1>1, <1>4, <1>5, <1>6, SeqEqual
<1>. QED BY <1>7 DEF s, t, u

\* How the server cut a message.
LEMMA CutTyped ==
  ASSUME NEW c \in Cuts
  PROVE  /\ c \in Seq(Nat \ {0}) /\ SumOf(c) \in 1 .. MaxReply /\ Len(c) > 0
         /\ \A j \in 1 .. Len(c) : c[j] \in 1 .. MaxChunk
<1>0. MaxChunk \in Nat /\ MaxReply \in Nat
  BY TransportAssumption
<1>1. c \in SeqOf(1 .. MaxChunk, MaxReply) /\ SumOf(c) \in 1 .. MaxReply
  BY DEF Cuts
<1>2. PICK n \in 0 .. MaxReply : c \in [1 .. n -> 1 .. MaxChunk]
  BY <1>1 DEF SeqOf
<1>3. n \in Nat /\ 1 .. MaxChunk \subseteq Nat \ {0}
  BY <1>0
<1>. DEFINE T == 1 .. MaxChunk
            N == Nat \ {0}
<1>a. T \subseteq N /\ c \in [1 .. n -> T]
  BY <1>2, <1>3
<1>. HIDE DEF T, N
<1>b. c \in Seq(T)
  BY <1>3, <1>a
<1>4. c \in Seq(N)
  BY <1>a, <1>b, SeqMonotonic
<1>5. Len(c) \in Nat /\ \A j \in 1 .. Len(c) : c[j] \in T
  BY <1>b, ElementOfSeq, LenProperties
<1>. USE DEF T, N
<1>6. Len(c) # 0
  <2>. SUFFICES ASSUME Len(c) = 0 PROVE FALSE
    OBVIOUS
  <2>1. SumOf(c) = 0
    BY <1>4, SumsRecursion DEF SumOf
  <2>. QED BY <1>0, <1>1, <2>1
<1>. QED BY <1>1, <1>4, <1>5, <1>6

LEMMA ChunkTyped ==
  ASSUME NEW c \in Seq(Nat \ {0}), NEW m \in Nat, NEW j \in 1 .. Len(c)
  PROVE  Chunk(c, m, j) \in Seq(Byte)
<1>1. Len(c) \in Nat /\ j - 1 \in 0 .. Len(c) /\ j \in 0 .. Len(c) /\ c[j] \in Nat
  BY ElementOfSeq
<1>2. Sums(c)[j - 1] \in Nat /\ Sums(c)[j] \in Nat
  BY <1>1, SumsRecursion
<1>3. Sums(c)[j - 1] + 1 \in Nat \ {0}
  BY <1>2
<1>4. Payload(m, Sums(c)[j - 1] + 1, Sums(c)[j]) \in Seq(Byte) /\ Header(c[j]) \in Seq(Byte)
  BY <1>1, <1>2, <1>3, PayloadTyped, HeaderTyped
<1>. QED BY <1>4, ConcatProperties DEF Chunk

ChunksOf(c, m) == [j \in DOMAIN c |-> Chunk(c, m, j)]

LEMMA ChunksTyped ==
  ASSUME NEW c \in Seq(Nat \ {0}), NEW m \in Nat
  PROVE  /\ ChunksOf(c, m) \in Seq(Seq(Byte)) /\ Len(ChunksOf(c, m)) = Len(c)
         /\ \A j \in 1 .. Len(c) : ChunksOf(c, m)[j] = Chunk(c, m, j)
<1>1. Len(c) \in Nat /\ DOMAIN c = 1 .. Len(c)
  BY LenProperties
<1>2. \A j \in 1 .. Len(c) : Chunk(c, m, j) \in Seq(Byte)
  BY ChunkTyped
<1>. DEFINE T == Seq(Byte)
            n == Len(c)
<1>. HIDE DEF T, n
<1>3. ChunksOf(c, m) = [j \in 1 .. n |-> Chunk(c, m, j)]
  BY <1>1 DEF ChunksOf, n
<1>4. \A j \in 1 .. n : Chunk(c, m, j) \in T
  BY <1>2 DEF T, n
<1>. QED BY <1>1, <1>3, <1>4 DEF T, n

LEMMA FramedTyped ==
  ASSUME NEW c \in Seq(Nat \ {0}), NEW m \in Nat
  PROVE  /\ Framed(c, m) \in Seq(Byte)
         /\ Framed(c, m) = FlattenSeq(ChunksOf(c, m)) \o Header(0)
<1>1. Framed(c, m) = FlattenSeq(ChunksOf(c, m)) \o Header(0)
  BY DEF Framed, ChunksOf
<1>2. FlattenSeq(ChunksOf(c, m)) \in Seq(Byte) /\ Header(0) \in Seq(Byte)
  BY ChunksTyped, FlattenTyped, HeaderTyped
<1>. QED BY <1>1, <1>2, ConcatProperties

FramesOf(messages) == [m \in DOMAIN messages |-> Framed(messages[m], m)]

LEMMA FramesTyped ==
  ASSUME NEW r \in [1 .. MaxMessages -> Cuts]
  PROVE  /\ FramesOf(r) \in Seq(Seq(Byte)) /\ Len(FramesOf(r)) = MaxMessages
         /\ \A m \in 1 .. MaxMessages : FramesOf(r)[m] = Framed(r[m], m)
         /\ Stream(r) = FlattenSeq(FramesOf(r)) /\ Stream(r) \in Seq(Byte)
<1>0. MaxMessages \in Nat
  BY TransportAssumption
<1>1. \A m \in 1 .. MaxMessages : Framed(r[m], m) \in Seq(Byte)
  <2>. TAKE m \in 1 .. MaxMessages
  <2>1. r[m] \in Cuts /\ m \in Nat
    BY <1>0
  <2>2. r[m] \in Seq(Nat \ {0})
    BY <2>1, CutTyped
  <2>. QED BY <2>1, <2>2, FramedTyped
<1>. DEFINE T == Seq(Byte)
            F(m) == Framed(r[m], m)
<1>2. FramesOf(r) = [m \in 1 .. MaxMessages |-> F(m)]
  BY DEF FramesOf
<1>3. \A m \in 1 .. MaxMessages : F(m) \in T
  BY <1>1
<1>. HIDE DEF T, F
<1>4. /\ FramesOf(r) \in Seq(T) /\ Len(FramesOf(r)) = MaxMessages
      /\ \A m \in 1 .. MaxMessages : FramesOf(r)[m] = F(m)
  BY <1>0, <1>2, <1>3
<1>5. Stream(r) = FlattenSeq(FramesOf(r))
  BY DEF Stream, FramesOf
<1>6. FlattenSeq(FramesOf(r)) \in Seq(Byte)
  BY <1>4, FlattenTyped DEF T
<1>. QED BY <1>4, <1>5, <1>6 DEF T, F

LEMMA FromFrom ==
  ASSUME NEW S, NEW s \in Seq(S), NEW a \in Nat, NEW b \in Nat, a + b <= Len(s)
  PROVE  From(From(s, a + 1), b + 1) = From(s, a + b + 1)
<1>. DEFINE t == From(s, a + 1)
            u == From(t, b + 1)
            v == From(s, a + b + 1)
<1>1. Len(s) \in Nat /\ a + 1 \in 1 .. Len(s) + 1 /\ a + b + 1 \in 1 .. Len(s) + 1
  BY LenProperties
<1>2. /\ t \in Seq(S) /\ Len(t) = Len(s) + 1 - (a + 1)
      /\ \A i \in 1 .. Len(s) + 1 - (a + 1) : t[i] = s[a + 1 + i - 1]
  BY <1>1, FromTyped
<1>3. /\ v \in Seq(S) /\ Len(v) = Len(s) + 1 - (a + b + 1)
      /\ \A i \in 1 .. Len(s) + 1 - (a + b + 1) : v[i] = s[a + b + 1 + i - 1]
  BY <1>1, FromTyped
<1>. HIDE DEF t, v
<1>4. b + 1 \in 1 .. Len(t) + 1
  BY <1>1, <1>2
<1>5. /\ u \in Seq(S) /\ Len(u) = Len(t) + 1 - (b + 1)
      /\ \A i \in 1 .. Len(t) + 1 - (b + 1) : u[i] = t[b + 1 + i - 1]
  <2>. DEFINE c == b + 1
  <2>. HIDE DEF c
  <2>1. c \in 1 .. Len(t) + 1 /\ t \in Seq(S)
    BY <1>2, <1>4 DEF c
  <2>2. /\ From(t, c) \in Seq(S) /\ Len(From(t, c)) = Len(t) + 1 - c
        /\ \A i \in 1 .. Len(t) + 1 - c : From(t, c)[i] = t[c + i - 1]
    BY <2>1, FromTyped
  <2>. QED BY <2>2 DEF c
<1>. HIDE DEF u
<1>6. Len(u) = Len(v)
  BY <1>1, <1>2, <1>3, <1>5
<1>7. ASSUME NEW i \in 1 .. Len(u) PROVE u[i] = v[i]
  <2>1. i \in 1 .. Len(t) + 1 - (b + 1) /\ i \in 1 .. Len(s) + 1 - (a + b + 1)
    BY <1>3, <1>5, <1>6
  <2>2. PICK k \in 1 .. Len(s) + 1 - (a + 1) : k = b + 1 + i - 1 /\ a + 1 + k - 1 = a + b + 1 + i - 1
    BY <1>1, <2>1
  <2>. QED BY <1>2, <1>3, <1>5, <2>1, <2>2
<1>8. u = v
  BY <1>3, <1>5, <1>6, <1>7, SeqEqual
<1>. QED BY <1>8 DEF u, v, t

LEMMA FromPastEnd ==
  ASSUME NEW S, NEW s \in Seq(S), NEW m \in Nat, m > Len(s)
  PROVE  From(s, m) = <<>>
BY LenProperties, SubSeqEmpty DEF From

LEMMA RingExtract ==
  ASSUME NEW S, NEW size \in Nat \ {0}, NEW rb \in Ring(S, size), NEW n \in Nat
  PROVE  /\ RbExtract(rb, n).rb \in Ring(S, size)
         /\ RbExtract(rb, n).rb.used = rb.used - Lesser(n, rb.used)
         /\ rb.ptr + rb.used <= size =>
               RbExtract(rb, n).rb.ptr + RbExtract(rb, n).rb.used <= size
         /\ RbExtract(rb, n).bytes \in Seq(S)
         /\ Len(RbExtract(rb, n).bytes) = Lesser(n, rb.used)
         /\ RbExtract(rb, n).bytes \o RbData(RbExtract(rb, n).rb) = RbData(rb)
<1>. DEFINE m == Lesser(n, rb.used)
            d == RbData(rb)
            r == RbDiscard(rb, m)
            g == Gather(rb, DataIovec(rb, n))
<1>0. rb.size = size /\ rb.used \in 0 .. size /\ rb.ptr \in 0 .. size /\ rb.used \in Nat
  BY RingTyped
<1>1. m \in Nat /\ m <= rb.used /\ Lesser(m, rb.used) = m
  BY <1>0 DEF Lesser
<1>2. RbExtract(rb, n) = [bytes |-> g, rb |-> r]
  BY DataCells DEF RbExtract
<1>3. g = SubSeq(d, 1, m) /\ g \in Seq(S) /\ Len(g) = m
  BY RingTake, GatherTyped
<1>4. d \in Seq(S) /\ Len(d) = rb.used
  BY RingData
<1>. HIDE DEF m
<1>5. /\ r \in Ring(S, size) /\ r.used = rb.used - m
      /\ r.ptr = IF rb.used = m THEN 0
                 ELSE IF rb.ptr + m <= size THEN rb.ptr + m ELSE m - (size - rb.ptr)
      /\ RbData(r) = From(d, m + 1)
  <2>1. /\ r \in Ring(S, size) /\ r.used = rb.used - Lesser(m, rb.used)
        /\ r.ptr = IF rb.used = Lesser(m, rb.used) THEN 0
                   ELSE IF rb.ptr + Lesser(m, rb.used) <= size THEN rb.ptr + Lesser(m, rb.used)
                   ELSE Lesser(m, rb.used) - (size - rb.ptr)
        /\ RbData(r) = From(d, Lesser(m, rb.used) + 1)
    BY <1>1, RingDiscard
  <2>. QED BY <1>1, <2>1
<1>. HIDE DEF d, r, g
<1>6. g \o RbData(r) = d
  <2>1. m \in 0 .. Len(d)
    BY <1>0, <1>1, <1>4
  <2>2. SubSeq(d, 1, m) \o From(d, m + 1) = d
    BY <1>4, <2>1, TakeAndFrom
  <2>. QED BY <1>3, <1>5, <2>2
<1>7. rb.ptr + rb.used <= size => r.ptr + r.used <= size
  BY <1>0, <1>1, <1>5
<1>8. RbExtract(rb, n).bytes = g /\ RbExtract(rb, n).rb = r
  BY <1>2
<1>. QED BY <1>3, <1>5, <1>6, <1>7, <1>8 DEF m, d

\* A read of n bytes, more than the ring has, for which the socket gives data.
ReadFits(rb, n, data, size) == rb.used < n /\ Len(data) <= n - rb.used + size
ReadServed(S, rb, n, data, size) ==
  LET after == AfterRead(rb, n, data)
  IN  /\ after.rb \in Ring(S, size) /\ after.rb.ptr + after.rb.used <= size
      /\ after.bytes \in Seq(S) /\ Len(after.bytes) <= n
      /\ after.bytes \o RbData(after.rb) = RbData(rb) \o data

LEMMA RingAfterRead ==
  ASSUME NEW S, NEW size \in Nat \ {0}, NEW rb \in Ring(S, size), NEW n \in Nat,
         NEW data \in Seq(S), ReadFits(rb, n, data, size)
  PROVE  ReadServed(S, rb, n, data, size)
<1>. SUFFICES ASSUME rb.used < n, Len(data) <= n - rb.used + size
              PROVE  ReadServed(S, rb, n, data, size)
  BY DEF ReadFits
<1>. DEFINE ext == RbExtract(rb, n)
            k == n - Len(ext.bytes)
            rest == From(data, k + 1)
            first == SubSeq(data, 1, Lesser(k, Len(data)))
            r == RbAppend(ext.rb, rest)
            d == RbData(rb)
<1>0. rb.size = size /\ rb.used \in 0 .. size /\ rb.used \in Nat
  BY RingTyped
<1>1. Lesser(n, rb.used) = rb.used
  BY <1>0 DEF Lesser
<1>2. /\ ext.rb \in Ring(S, size) /\ ext.rb.used = rb.used - rb.used
      /\ ext.bytes \in Seq(S) /\ Len(ext.bytes) = rb.used
      /\ ext.bytes \o RbData(ext.rb) = d
  BY <1>1, RingExtract
<1>3. d \in Seq(S) /\ Len(d) = rb.used /\ Len(data) \in Nat
  BY RingData, LenProperties
<1>. HIDE DEF ext, d
<1>4. ext.rb.used = 0 /\ ext.rb.ptr = 0
  <2>1. ext.rb.used = 0
    BY <1>0, <1>2
  <2>. QED BY <1>2, <2>1, RingTyped
<1>5. k = n - rb.used /\ k \in Nat \ {0}
  BY <1>0, <1>2
<1>6. ext.bytes = d
  <2>1. RbData(ext.rb) \in Seq(S) /\ Len(RbData(ext.rb)) = 0
    BY <1>2, <1>4, RingData
  <2>2. RbData(ext.rb) = <<>>
    BY <2>1, EmptySeq
  <2>. QED BY <1>2, <2>2, ConcatEmptySeq
<1>. HIDE DEF k
<1>7. /\ rest \in Seq(S) /\ first \in Seq(S) /\ first \o rest = data
      /\ Len(rest) <= size /\ Len(first) <= k /\ Len(first) \in Nat /\ Len(rest) \in Nat
  <2>1. CASE k <= Len(data)
    <3>1. k \in 0 .. Len(data) /\ k + 1 \in 1 .. Len(data) + 1 /\ (Lesser(k, Len(data)) = k \/ k = Len(data))
      BY <1>3, <1>5, <2>1 DEF Lesser
    <3>2. Lesser(k, Len(data)) = k /\ k \in 0 .. Len(data) /\ k + 1 \in 1 .. Len(data) + 1
      BY <1>3, <1>5, <2>1 DEF Lesser
    <3>3. first = SubSeq(data, 1, k) /\ first \o rest = data
      BY <3>2, TakeAndFrom
    <3>4. rest \in Seq(S) /\ Len(rest) = Len(data) + 1 - (k + 1)
      BY <3>2, FromTyped
    <3>5. 1 \in 1 .. Len(data) + 1 /\ 1 <= k /\ k - 1 + 1 = k
      BY <1>3, <1>5
    <3>6. first \in Seq(S) /\ Len(first) = k
      BY <3>2, <3>3, <3>5, SubSeqTyped
    <3>7. Len(data) - k <= size /\ Len(data) + 1 - (k + 1) = Len(data) - k /\ Len(data) - k \in Nat
      BY <1>0, <1>3, <1>5, <2>1
    <3>8. Len(first) <= k /\ Len(first) \in Nat
      BY <1>5, <3>6
    <3>9. Len(rest) <= size /\ Len(rest) \in Nat
      BY <3>4, <3>7
    <3>. QED BY <3>3, <3>4, <3>6, <3>8, <3>9
  <2>2. CASE ~(k <= Len(data))
    <3>1. Lesser(k, Len(data)) = Len(data) /\ k + 1 > Len(data) /\ k + 1 \in Nat
      BY <1>3, <1>5, <2>2 DEF Lesser
    <3>2. rest = <<>> /\ first = data
      BY <3>1, FromPastEnd, SubSeqFull
    <3>3. rest \in Seq(S) /\ Len(rest) = 0 /\ data \o <<>> = data
      BY <3>2, EmptySeq, ConcatEmptySeq
    <3>4. Len(data) <= k /\ 0 <= size /\ Len(data) \in Nat
      BY <1>0, <1>3, <1>5, <2>2
    <3>. HIDE DEF first, rest
    <3>5. first \in Seq(S) /\ first \o rest = data
      BY <3>2, <3>3
    <3>6. Len(rest) <= size /\ Len(rest) \in Nat /\ Len(first) <= k /\ Len(first) \in Nat
      BY <3>2, <3>3, <3>4
    <3>. QED BY <3>3, <3>5, <3>6
  <2>. QED BY <2>1, <2>2
<1>. HIDE DEF rest, first
<1>8. Lesser(Len(rest), size - ext.rb.used) = Len(rest)
  BY <1>4, <1>7 DEF Lesser
<1>9. /\ r \in Ring(S, size) /\ r.used = ext.rb.used + Len(rest) /\ r.ptr = ext.rb.ptr
      /\ RbData(r) = RbData(ext.rb) \o SubSeq(rest, 1, Len(rest))
  <2>. DEFINE e == ext.rb
  <2>. HIDE DEF e
  <2>1. e \in Ring(S, size) /\ rest \in Seq(S) /\ Lesser(Len(rest), size - e.used) = Len(rest)
    BY <1>2, <1>7, <1>8 DEF e
  <2>2. /\ RbAppend(e, rest) \in Ring(S, size)
        /\ RbAppend(e, rest).used = e.used + Lesser(Len(rest), size - e.used)
        /\ RbAppend(e, rest).ptr = e.ptr
        /\ RbData(RbAppend(e, rest)) = RbData(e) \o SubSeq(rest, 1, Lesser(Len(rest), size - e.used))
    BY <2>1, RingAppend
  <2>. QED BY <2>1, <2>2 DEF e
<1>. HIDE DEF r
<1>10. r.ptr + r.used <= size
  BY <1>4, <1>7, <1>9
<1>11. RbData(r) = rest
  <2>1. RbData(ext.rb) \in Seq(S) /\ Len(RbData(ext.rb)) = 0
    BY <1>2, <1>4, RingData
  <2>2. RbData(ext.rb) = <<>>
    BY <2>1, EmptySeq
  <2>3. SubSeq(rest, 1, Len(rest)) = rest
    BY <1>7, SubSeqFull
  <2>. QED BY <1>7, <1>9, <2>2, <2>3, ConcatEmptySeq
<1>12. AfterRead(rb, n, data) = [rb |-> r, bytes |-> ext.bytes \o first]
  BY DEF AfterRead, ext, r, rest, first, k
<1>13. /\ d \o first \in Seq(S) /\ Len(d \o first) = Len(d) + Len(first)
       /\ (d \o first) \o rest = d \o data
  <2>1. d \o first \in Seq(S) /\ Len(d \o first) = Len(d) + Len(first)
    BY <1>3, <1>7, ConcatProperties
  <2>a. d \in Seq(S) /\ first \in Seq(S) /\ rest \in Seq(S)
    BY <1>3, <1>7
  <2>2. (d \o first) \o rest = d \o (first \o rest)
    BY ONLY <2>a, ConcatAssociative
  <2>. QED BY <1>7, <2>1, <2>2
<1>14. Len(d \o first) <= n
  <2>1. Len(d \o first) = rb.used + Len(first)
    BY <1>3, <1>13
  <2>2. Len(first) <= n - rb.used /\ Len(first) \in Nat
    BY <1>5, <1>7
  <2>. QED BY <1>0, <2>1, <2>2
<1>15. AfterRead(rb, n, data).rb = r /\ AfterRead(rb, n, data).bytes = d \o first
  BY <1>6, <1>12
<1>16. /\ r \in Ring(S, size) /\ r.ptr + r.used <= size
       /\ d \o first \in Seq(S) /\ Len(d \o first) <= n
       /\ (d \o first) \o RbData(r) = d \o data
  BY <1>9, <1>10, <1>11, <1>13, <1>14
<1>. QED BY <1>15, <1>16 DEF d, ReadServed

LEMMA RingAfterWrite ==
  ASSUME NEW S, NEW size \in Nat \ {0}, NEW rb \in Ring(S, size), NEW bytes \in Seq(S),
         NEW w \in 0 .. rb.used + Len(bytes)
  PROVE  LET after == AfterWrite(rb, bytes, w)
         IN  /\ after.rb \in Ring(S, size) /\ after.n \in 0 .. Len(bytes)
             /\ RbData(after.rb) \o From(bytes, after.n + 1) = From(RbData(rb) \o bytes, w + 1)
<1>. DEFINE ring == IF w < rb.used THEN RbDiscard(rb, w) ELSE RbClear(rb)
            taken == IF w < rb.used THEN 0 ELSE w - rb.used
            rest == From(bytes, taken + 1)
            k == Lesser(Len(rest), size - ring.used)
            final == RbAppend(ring, rest)
            d == RbData(rb)
<1>0. /\ rb.size = size /\ rb.used \in 0 .. size /\ rb.used \in Nat /\ w \in Nat
      /\ Len(bytes) \in Nat /\ w <= rb.used + Len(bytes)
  <2>1. rb.size = size /\ rb.used \in 0 .. size
    BY RingTyped
  <2>2. Len(bytes) \in Nat
    BY LenProperties
  <2>. QED BY <2>1, <2>2
<1>1. d \in Seq(S) /\ Len(d) = rb.used
  BY RingData
<1>2. taken \in 0 .. Len(bytes) /\ taken \in Nat /\ taken + 1 \in 1 .. Len(bytes) + 1
  BY <1>0
<1>3. /\ ring \in Ring(S, size) /\ ring.used \in 0 .. size /\ RbData(ring) \in Seq(S)
      /\ RbData(ring) \o rest = From(d \o bytes, w + 1)
  <2>1. w \in 0 .. Len(d) + Len(bytes)
    BY <1>0, <1>1
  <2>2. From(d \o bytes, w + 1) = IF w <= Len(d) THEN From(d, w + 1) \o bytes
                                  ELSE From(bytes, w - Len(d) + 1)
    BY <1>1, <2>1, FromOfConcat
  <2>3. CASE w < rb.used
    <3>1. Lesser(w, rb.used) = w
      BY <2>3 DEF Lesser
    <3>2. ring \in Ring(S, size) /\ RbData(ring) = From(d, w + 1)
      BY <1>0, <2>3, <3>1, RingDiscard
    <3>3. rest = bytes
      BY <2>3, FromAll
    <3>4. w <= Len(d)
      BY <1>0, <1>1, <2>3
    <3>. QED BY <2>2, <3>2, <3>3, <3>4, RingTyped, RingData
  <2>4. CASE ~(w < rb.used)
    <3>1. ring \in Ring(S, size) /\ RbData(ring) = <<>>
      BY <2>4, RingClear
    <3>2. rest \in Seq(S)
      BY <1>2, FromTyped
    <3>3. From(d \o bytes, w + 1) = rest
      <4>1. CASE w = rb.used
        <5>1. From(d, w + 1) = <<>>
          BY <1>1, <4>1, FromAll
        <5>2. w - rb.used = 0 /\ w <= Len(d) /\ 0 + 1 = 1
          BY <1>0, <1>1, <4>1
        <5>3. rest = bytes
          BY <2>4, <5>2, FromAll
        <5>. QED BY <2>2, <5>1, <5>2, <5>3, ConcatEmptySeq
      <4>2. CASE w # rb.used
        <5>1. ~(w <= Len(d))
          BY <1>0, <1>1, <2>4, <4>2
        <5>. QED BY <1>1, <2>2, <2>4, <5>1
      <4>. QED BY <4>1, <4>2
    <3>. QED BY <3>1, <3>2, <3>3, ConcatEmptySeq, RingTyped, EmptySeq
  <2>. QED BY <2>3, <2>4
<1>4. rest \in Seq(S) /\ Len(rest) = Len(bytes) - taken /\ Len(rest) \in Nat
  <2>1. rest \in Seq(S) /\ Len(rest) = Len(bytes) + 1 - (taken + 1)
    BY <1>2, FromTyped
  <2>. QED BY <1>0, <1>2, <2>1
<1>. HIDE DEF ring, taken
<1>5. /\ final \in Ring(S, size) /\ final.used = ring.used + k
      /\ RbData(final) = RbData(ring) \o SubSeq(rest, 1, k)
  BY <1>3, <1>4, RingAppend
<1>6. k \in Nat /\ k <= Len(rest)
  BY <1>3, <1>4 DEF Lesser
<1>. DEFINE n == taken + (final.used - ring.used)
<1>7. AfterWrite(rb, bytes, w).rb = final /\ AfterWrite(rb, bytes, w).n = n
  BY DEF AfterWrite, ring, taken
<1>. HIDE DEF final, k, rest
<1>8. n = taken + k /\ n \in 0 .. Len(bytes) /\ taken + k <= Len(bytes)
  BY <1>2, <1>3, <1>4, <1>5, <1>6
<1>9. From(bytes, n + 1) = From(rest, k + 1)
  <2>1. From(rest, k + 1) = From(bytes, taken + k + 1)
    BY <1>2, <1>6, <1>8, FromFrom DEF rest
  <2>. QED BY <1>8, <2>1
<1>10. k \in 0 .. Len(rest) /\ k + 1 \in 1 .. Len(rest) + 1 /\ 1 \in 1 .. Len(rest) + 1
  BY <1>4, <1>6
<1>11. SubSeq(rest, 1, k) \o From(rest, k + 1) = rest
  BY <1>4, <1>10, TakeAndFrom
<1>12. SubSeq(rest, 1, k) \in Seq(S) /\ From(rest, k + 1) \in Seq(S)
  BY <1>4, <1>10, SubSeqTyped, FromTyped
<1>13. RbData(final) \o From(rest, k + 1) = RbData(ring) \o rest
  <2>1. (RbData(ring) \o SubSeq(rest, 1, k)) \o From(rest, k + 1) =
           RbData(ring) \o (SubSeq(rest, 1, k) \o From(rest, k + 1))
    <3>. DEFINE x == RbData(ring)
                y == SubSeq(rest, 1, k)
                z == From(rest, k + 1)
    <3>1. x \in Seq(S) /\ y \in Seq(S) /\ z \in Seq(S)
      BY <1>3, <1>12
    <3>. HIDE DEF x, y, z
    <3>2. (x \o y) \o z = x \o (y \o z)
      BY ONLY <3>1, ConcatAssociative
    <3>. QED BY <3>2 DEF x, y, z
  <2>. QED BY <1>5, <1>11, <2>1
<1>. QED BY <1>3, <1>5, <1>7, <1>8, <1>9, <1>13 DEF d

LEMMA Multiples ==
  ASSUME NEW max \in Nat \ {0}, NEW j \in Nat, NEW k \in Nat, j <= k
  PROVE  j * max \in Nat /\ j * max <= k * max
<1>. DEFINE Q(n) == j * max <= (j + n) * max
            P == {n \in Nat : Q(n)}
<1>1. 0 \in P
  OBVIOUS
<1>2. ASSUME NEW n \in Nat, n \in P PROVE n + 1 \in P
  <2>1. Q(n)
    BY <1>2
  <2>2. (j + (n + 1)) * max = (j + n) * max + max
    OBVIOUS
  <2>3. (j + n) * max \in Int /\ j * max \in Int
    OBVIOUS
  <2>4. j * max <= (j + (n + 1)) * max
    BY <2>1, <2>2, <2>3
  <2>. QED BY <2>4
<1>. HIDE DEF P
<1>3. Nat \subseteq P
  BY <1>1, <1>2, NaturalsInSet
<1>4. PICK n \in Nat : j + n = k
  <2>1. k - j \in Nat /\ j + (k - j) = k
    OBVIOUS
  <2>. QED BY <2>1
<1>5. Q(n)
  BY <1>3 DEF P
<1>6. j * max \in Nat
  OBVIOUS
<1>. QED BY <1>4, <1>5, <1>6

PieceCount(L, max) == ((L - 1) \div max) + 1
LastPiece(L, max) == ((L - 1) % max) + 1

\* Where the chunks of L bytes are, when all but the last are max long.
LEMMA Division ==
  ASSUME NEW L \in Nat \ {0}, NEW max \in Nat \ {0}
  PROVE  LET q == PieceCount(L, max)
             t == LastPiece(L, max)
         IN
         /\ q \in Nat \ {0} /\ t \in 1 .. max /\ (q - 1) * max \in Nat /\ L = (q - 1) * max + t
         /\ \A k \in 1 .. q :
              /\ (k - 1) * max \in Nat /\ (k - 1) * max <= L - t
              /\ k * max \in Nat /\ k * max = (k - 1) * max + max
              /\ Lesser(k * max, L) = (k - 1) * max + (IF k < q THEN max ELSE t)
<1>. DEFINE q == PieceCount(L, max)
            t == LastPiece(L, max)
<1>0. q = ((L - 1) \div max) + 1 /\ t = ((L - 1) % max) + 1
  BY DEF PieceCount, LastPiece
<1>. HIDE DEF q, t
<1>1. L - 1 \in Nat
  OBVIOUS
<1>2. (L - 1) \div max \in Nat /\ (L - 1) % max \in 0 .. max - 1
      /\ L - 1 = ((L - 1) \div max) * max + ((L - 1) % max)
  BY <1>1
<1>3. q \in Nat \ {0} /\ q - 1 = (L - 1) \div max /\ t \in 1 .. max
  BY <1>0, <1>2
<1>4. (q - 1) * max \in Nat /\ L = (q - 1) * max + t
  <2>1. (q - 1) * max = ((L - 1) \div max) * max
    BY <1>3
  <2>2. (q - 1) * max \in Nat
    BY <1>3
  <2>. QED BY <1>0, <1>2, <1>3, <2>1, <2>2
<1>5. ASSUME NEW k \in 1 .. q
      PROVE  /\ (k - 1) * max \in Nat /\ (k - 1) * max <= L - t
             /\ k * max \in Nat /\ k * max = (k - 1) * max + max
             /\ Lesser(k * max, L) = (k - 1) * max + (IF k < q THEN max ELSE t)
  <2>1. k \in Nat /\ k - 1 \in Nat /\ q - 1 \in Nat /\ k - 1 <= q - 1
    BY <1>3
  <2>2. (k - 1) * max \in Nat /\ (k - 1) * max <= (q - 1) * max
    BY <2>1, Multiples
  <2>3. k * max \in Nat /\ k * max = (k - 1) * max + max
    BY <2>1
  <2>4. CASE k < q
    <3>1. k <= q - 1
      BY <1>3, <2>1, <2>4
    <3>2. k * max <= (q - 1) * max
      BY <2>1, <3>1, Multiples
    <3>3. k * max < L
      BY <1>3, <1>4, <2>3, <3>2
    <3>. QED BY <1>3, <1>4, <2>2, <2>3, <2>4, <3>3 DEF Lesser
  <2>5. CASE ~(k < q)
    <3>1. k = q
      BY <1>3, <2>1, <2>5
    <3>2. L <= k * max
      BY <1>3, <1>4, <2>3, <3>1
    <3>3. Lesser(k * max, L) = L
      BY <1>4, <2>3, <3>2 DEF Lesser
    <3>. QED BY <1>3, <1>4, <2>2, <2>3, <2>5, <3>1, <3>3
  <2>. QED BY <2>4, <2>5
<1>. QED BY <1>3, <1>4, <1>5 DEF q, t

Piece(data, max, k) == SubSeq(data, (k - 1) * max + 1, Lesser(k * max, Len(data)))
WithLength(piece) == Header(Len(piece)) \o piece
Pieces(data, max, n) == [k \in 1 .. n |-> WithLength(Piece(data, max, k))]

\* chunking_writev cuts the data into q pieces, the last of t bytes.
CutInto(data, max, q, t) ==
  /\ q \in Nat \ {0} /\ t \in 1 .. max /\ (q - 1) * max \in Nat /\ Len(data) = (q - 1) * max + t
  /\ \A k \in 1 .. q :
       /\ (k - 1) * max \in Nat /\ k * max = (k - 1) * max + max
       /\ Lesser(k * max, Len(data)) = (k - 1) * max + (IF k < q THEN max ELSE t)
       /\ Lesser(k * max, Len(data)) \in Nat /\ Lesser(k * max, Len(data)) <= Len(data)
       /\ Piece(data, max, k) \in Seq(Byte)
       /\ Len(Piece(data, max, k)) = IF k < q THEN max ELSE t
       /\ WithLength(Piece(data, max, k)) \in Seq(Byte)

LEMMA PlanIsCut ==
  ASSUME NEW data \in Seq(Byte), data # <<>>, NEW max \in Nat \ {0}, NEW min \in Nat
  PROVE  \E q, t :
           /\ CutInto(data, max, q, t)
           /\ ChunkPlan(data, min, max).out = FlattenSeq(Pieces(data, max, IF t < min THEN q - 1 ELSE q))
           /\ ChunkPlan(data, min, max).keep = IF t < min THEN Piece(data, max, q) ELSE <<>>
<1>. DEFINE L == Len(data)
            q == PieceCount(L, max)
            t == LastPiece(L, max)
            piece(k) == Piece(data, max, k)
            cut(k) == Header(IF k < q THEN max ELSE t) \o piece(k)
            n == IF t < min THEN q - 1 ELSE q
<1>1. L \in Nat \ {0}
  BY EmptySeq
<1>2. /\ ChunkPlan(data, min, max).out = FlattenSeq([k \in 1 .. n |-> cut(k)])
      /\ ChunkPlan(data, min, max).keep = IF t < min THEN piece(q) ELSE <<>>
  BY DEF ChunkPlan, Piece, PieceCount, LastPiece
<1>. HIDE DEF L
<1>3. /\ q \in Nat \ {0} /\ t \in 1 .. max /\ (q - 1) * max \in Nat /\ L = (q - 1) * max + t
      /\ \A k \in 1 .. q :
           /\ (k - 1) * max \in Nat /\ (k - 1) * max <= L - t
           /\ k * max \in Nat /\ k * max = (k - 1) * max + max
           /\ Lesser(k * max, L) = (k - 1) * max + (IF k < q THEN max ELSE t)
  BY <1>1, Division
<1>. HIDE DEF q, t
<1>4. ASSUME NEW k \in 1 .. q
      PROVE  /\ Lesser(k * max, L) \in Nat /\ Lesser(k * max, L) <= L
             /\ piece(k) \in Seq(Byte) /\ Len(piece(k)) = IF k < q THEN max ELSE t
             /\ WithLength(piece(k)) \in Seq(Byte) /\ WithLength(piece(k)) = cut(k)
  <2>. DEFINE a == (k - 1) * max
              b == Lesser(k * max, L)
              l == IF k < q THEN max ELSE t
  <2>0. k * max \in Nat
    BY <1>3
  <2>1. /\ a \in Nat /\ a <= L - t /\ b = a + l /\ l \in Nat \ {0} /\ b <= L
    <3>1. b <= L
      BY <1>1, <2>0 DEF Lesser
    <3>. QED BY <1>3, <3>1
  <2>. HIDE DEF a, b, l
  <2>2. a + 1 \in 1 .. L + 1 /\ b \in 0 .. L /\ a + 1 <= b /\ b - (a + 1) + 1 = l
    BY <1>1, <1>3, <2>1
  <2>3. piece(k) = SubSeq(data, a + 1, b)
    BY DEF Piece, a, b, L
  <2>4. /\ SubSeq(data, a + 1, b) \in Seq(Byte)
        /\ Len(SubSeq(data, a + 1, b)) = IF a + 1 <= b THEN b - (a + 1) + 1 ELSE 0
    BY <2>2, SubSeqTyped DEF L
  <2>5. piece(k) \in Seq(Byte) /\ Len(piece(k)) = l
    BY <2>2, <2>3, <2>4
  <2>. HIDE DEF piece
  <2>6. Header(l) \in Seq(Byte)
    BY <2>1, HeaderTyped
  <2>7. WithLength(piece(k)) = Header(l) \o piece(k) /\ WithLength(piece(k)) \in Seq(Byte)
    BY <2>5, <2>6, ConcatProperties DEF WithLength
  <2>8. b \in Nat /\ b <= L
    BY <2>2
  <2>. QED BY <2>5, <2>7, <2>8 DEF l, b
<1>5. CutInto(data, max, q, t)
  BY <1>3, <1>4 DEF CutInto, L
<1>6. [k \in 1 .. n |-> cut(k)] = Pieces(data, max, n)
  <2>1. 1 .. n \subseteq 1 .. q
    BY <1>3
  <2>. HIDE DEF n, cut
  <2>2. \A k \in 1 .. n : cut(k) = WithLength(piece(k))
    BY <1>4, <2>1
  <2>. QED BY <2>2 DEF Pieces
<1>. QED BY <1>2, <1>5, <1>6

LEMMA PiecesTyped ==
  ASSUME NEW data \in Seq(Byte), NEW max \in Nat \ {0}, NEW q, NEW t,
         CutInto(data, max, q, t), NEW n \in 0 .. q
  PROVE  /\ Pieces(data, max, n) \in Seq(Seq(Byte)) /\ Len(Pieces(data, max, n)) = n
         /\ FlattenSeq(Pieces(data, max, n)) \in Seq(Byte)
<1>. DEFINE T == Seq(Byte)
            w(k) == WithLength(Piece(data, max, k))
<1>0. q \in Nat
  BY DEF CutInto
<1>1. \A k \in 1 .. n : k \in 1 .. q
  BY <1>0
<1>2. \A k \in 1 .. n : w(k) \in T
  BY <1>1 DEF CutInto
<1>. HIDE DEF T, w
<1>3. Pieces(data, max, n) = [k \in 1 .. n |-> w(k)]
  BY DEF Pieces, w
<1>4. Pieces(data, max, n) \in Seq(T) /\ Len(Pieces(data, max, n)) = n
  BY <1>0, <1>2, <1>3
<1>. QED BY <1>4, FlattenTyped DEF T

LEMMA PlanTyped ==
  ASSUME NEW data \in Seq(Byte), data # <<>>, NEW max \in Nat \ {0}, NEW min \in Nat
  PROVE  LET plan == ChunkPlan(data, min, max)
         IN  /\ plan.out \in Seq(Byte) /\ plan.keep \in Seq(Byte)
             /\ Len(plan.keep) <= min /\ (plan.keep # <<>> => Len(plan.keep) < min)
<1>1. PICK q, t :
           /\ CutInto(data, max, q, t)
           /\ ChunkPlan(data, min, max).out = FlattenSeq(Pieces(data, max, IF t < min THEN q - 1 ELSE q))
           /\ ChunkPlan(data, min, max).keep = IF t < min THEN Piece(data, max, q) ELSE <<>>
  BY PlanIsCut
<1>2. q \in Nat \ {0} /\ t \in 1 .. max
  BY <1>1 DEF CutInto
<1>3. PICK n \in 0 .. q : n = IF t < min THEN q - 1 ELSE q
  BY <1>2
<1>4. ChunkPlan(data, min, max).out \in Seq(Byte)
  BY <1>1, <1>3, PiecesTyped
<1>5. q \in 1 .. q /\ ~(q < q)
  BY <1>2
<1>6. Piece(data, max, q) \in Seq(Byte) /\ Len(Piece(data, max, q)) = t
  BY <1>1, <1>5 DEF CutInto
<1>7. Len(<<>>) = 0 /\ <<>> \in Seq(Byte)
  BY EmptySeq
<1>. QED BY <1>1, <1>2, <1>4, <1>6, <1>7

-----------------------------------------------------------------------------
(* Types.                                                                   *)
Bound == MaxReply + Excess
Receiving == {"receiver", "deserialize", "chunk", "readv"}
Inside == pc \in {"deserialize", "chunk", "readv"}
Delivered == Len(got[Message])

PlaceTypes ==
  /\ pc \in {"sender", "serialize", "write", "close", "flush", "receiver",
             "deserialize", "chunk", "readv", "failed", "rb_assert", "too many vectors"}
  /\ ndebug \in BOOLEAN /\ up \in BOOLEAN

SendTypes ==
  /\ snd \in Ring(Byte, SndSize) /\ flushed \in 0 .. SndSize
  /\ out \in Seq(Byte) /\ todo \in Seq(Byte) /\ keep \in Seq(Byte)
  /\ Len(keep) <= MinChunk
  /\ chunk \in [buffer : Seq(Byte), dataSent : BOOLEAN] /\ Len(chunk.buffer) <= MinChunk
  /\ sent \in Seq(Nat)
  /\ pc \in {"serialize", "write", "close", "flush"} => sent # <<>>

RecvTypes ==
  /\ rcv \in Ring(Byte, RcvSize) /\ rcv.ptr + rcv.used <= RcvSize
  /\ in \in Seq(Byte) /\ part \in Seq(Byte) /\ got \in Seq(Seq(Byte))
  /\ iov \in [data : Nat, length : BOOLEAN] /\ Len(part) <= Total
  /\ rem \in -(Bound + 1) .. MaxChunk /\ need \in 0 .. Bound /\ read \in 0 .. Bound

Reading ==
  /\ pc \in Receiving => /\ reply \in [1 .. MaxMessages -> Cuts]
                         /\ want \in [1 .. MaxMessages -> 1 .. Bound]
  /\ Inside => /\ Message \in 1 .. MaxMessages
               /\ Delivered + need <= want[Message] /\ read <= Delivered /\ rem >= -1 - Delivered
  /\ pc \in {"receiver", "deserialize"} => need = 0 /\ read = 0
  /\ pc \in {"chunk", "readv"} => need > 0
  /\ pc = "readv" => iov = IF rem < 0 \/ need < rem THEN [data |-> need, length |-> FALSE]
                                                     ELSE [data |-> rem, length |-> TRUE]

TypeInv == PlaceTypes /\ SendTypes /\ RecvTypes /\ Reading

LEMMA Constants ==
  /\ SndSize \in Nat \ {0} /\ RcvSize \in Nat \ {0} /\ MaxChunk \in Nat \ {0}
  /\ MaxMessages \in Nat \ {0} /\ MaxLength \in Nat \ {0} /\ MaxReply \in Nat \ {0}
  /\ MinChunk \in Nat /\ Excess \in Nat /\ MinChunk <= MaxChunk
  /\ Bound \in Nat \ {0}
<1>1. /\ SndSize \in Nat \ {0} /\ RcvSize \in Nat \ {0} /\ MaxChunk \in Nat \ {0}
      /\ MaxMessages \in Nat \ {0} /\ MaxLength \in Nat \ {0} /\ MaxReply \in Nat \ {0}
      /\ MinChunk \in Nat /\ Excess \in Nat /\ MinChunk <= MaxChunk
  BY TransportAssumption
<1>. QED BY <1>1 DEF Bound

LEMMA RingIsNew ==
  ASSUME NEW S, NEW size \in Nat \ {0}, NEW fill \in S
  PROVE  LET rb == NewRing(size, fill)
         IN  rb \in Ring(S, size) /\ rb.ptr = 0 /\ rb.used = 0 /\ RbData(rb) = <<>>
<1>. DEFINE rb == NewRing(size, fill)
<1>1. rb \in Ring(S, size) /\ rb.ptr = 0 /\ rb.used = 0
  BY RingMade DEF NewRing
<1>. HIDE DEF rb
<1>2. RbData(rb) \in Seq(S) /\ Len(RbData(rb)) = 0
  BY <1>1, RingData
<1>. QED BY <1>1, <1>2, EmptySeq DEF rb

LEMMA TypeImplied ==
  ASSUME TypeInv
  PROVE  TypeOK
<1>1. /\ snd.ptr \in 0 .. SndSize /\ snd.used \in 0 .. SndSize
      /\ rcv.ptr \in 0 .. RcvSize /\ rcv.used \in 0 .. RcvSize /\ (rcv.used = 0 => rcv.ptr = 0)
  BY Constants, RingTyped DEF TypeInv, SendTypes, RecvTypes
<1>2. rcv.ptr \in 0 .. (RcvSize - 1)
  BY <1>1, Constants DEF TypeInv, RecvTypes
<1>3. chunk.dataSent \in BOOLEAN
  BY DEF TypeInv, SendTypes
<1>. QED BY <1>1, <1>2, <1>3 DEF TypeInv, PlaceTypes, SendTypes, RecvTypes, TypeOK, Bound

LEMMA TypeInit ==
  ASSUME Init
  PROVE  TypeInv
<1>0. Nothing \in Byte
  BY DEF Nothing, Byte
<1>1. /\ snd \in Ring(Byte, SndSize) /\ rcv \in Ring(Byte, RcvSize)
      /\ rcv.ptr = 0 /\ rcv.used = 0
  BY <1>0, Constants, RingIsNew DEF Init
<1>2. \A S : <<>> \in Seq(S) /\ Len(<<>>) = 0
  BY EmptySeq
<1>3. PlaceTypes
  BY DEF Init, PlaceTypes
<1>4. SendTypes
  <2>1. chunk \in [buffer : Seq(Byte), dataSent : BOOLEAN] /\ Len(chunk.buffer) <= MinChunk
    BY <1>2, Constants DEF Init
  <2>2. flushed \in 0 .. SndSize /\ Len(keep) <= MinChunk
    BY <1>2, Constants DEF Init
  <2>3. out \in Seq(Byte) /\ todo \in Seq(Byte) /\ keep \in Seq(Byte) /\ sent \in Seq(Nat)
    BY <1>2 DEF Init
  <2>4. pc \notin {"serialize", "write", "close", "flush"}
    BY DEF Init
  <2>. QED BY <1>1, <2>1, <2>2, <2>3, <2>4 DEF SendTypes
<1>5. in \in Seq(Byte)
  <2>1. CASE in = <<>>
    BY <1>2, <2>1
  <2>2. CASE in # <<>>
    <3>1. /\ reply \in [1 .. MaxMessages -> Cuts]
          /\ \E cut \in 0 .. Len(Stream(reply)) : in = SubSeq(Stream(reply), 1, cut)
      BY <2>2 DEF Init
    <3>2. Stream(reply) \in Seq(Byte)
      BY <3>1, FramesTyped
    <3>. DEFINE s == Stream(reply)
    <3>. HIDE DEF s
    <3>3. PICK cut \in 0 .. Len(s) : in = SubSeq(s, 1, cut)
      BY <3>1 DEF s
    <3>4. s \in Seq(Byte) /\ 1 \in 1 .. Len(s) + 1
      BY <3>2, LenProperties DEF s
    <3>. QED BY <3>3, <3>4, SubSeqTyped
  <2>. QED BY <2>1, <2>2
<1>6. RecvTypes
  <2>1. part \in Seq(Byte) /\ got \in Seq(Seq(Byte)) /\ Len(part) = 0
    BY <1>2 DEF Init
  <2>2. iov \in [data : Nat, length : BOOLEAN] /\ Len(part) <= Total
    BY <2>1 DEF Init, Total
  <2>3. rem \in -(Bound + 1) .. MaxChunk /\ need \in 0 .. Bound /\ read \in 0 .. Bound
    BY Constants DEF Init
  <2>4. rcv.ptr + rcv.used <= RcvSize
    BY <1>1, Constants
  <2>. QED BY <1>1, <1>5, <2>1, <2>2, <2>3, <2>4 DEF RecvTypes
<1>7. Reading
  BY DEF Init, Reading, Receiving, Inside, Bound
<1>. QED BY <1>3, <1>4, <1>6, <1>7 DEF TypeInv

-----------------------------------------------------------------------------
(* The type invariant is kept by the steps that send.                       *)
LEMMA SendingKeepsReading ==
  ASSUME TypeInv, pc \notin Receiving, pc' \notin Receiving, UNCHANGED recvVars
  PROVE  RecvTypes' /\ Reading'
BY DEF TypeInv, RecvTypes, Reading, Receiving, Inside, recvVars, Total

LEMMA StartMessageTypes ==
  ASSUME TypeInv, StartMessage
  PROVE  TypeInv'
<1>1. sent \in Seq(Nat)
  BY DEF TypeInv, SendTypes
<1>2. sent' \in Seq(Nat) /\ sent' # <<>>
  BY <1>1, AppendProperties DEF StartMessage
<1>3. chunk' \in [buffer : Seq(Byte), dataSent : BOOLEAN] /\ Len(chunk'.buffer) <= MinChunk
  BY EmptySeq, Constants DEF StartMessage
<1>4. SendTypes'
  BY <1>2, <1>3 DEF TypeInv, SendTypes, StartMessage
<1>5. PlaceTypes'
  BY DEF TypeInv, PlaceTypes, StartMessage
<1>6. RecvTypes' /\ Reading'
  BY SendingKeepsReading DEF StartMessage, Receiving
<1>. QED BY <1>4, <1>5, <1>6 DEF TypeInv

LEMMA SerializeTypes ==
  ASSUME TypeInv, NEW n \in 1 .. MaxLength, Serialize(n)
  PROVE  TypeInv'
<1>. DEFINE first == sent[Current] + 1
            new == Payload(Current, first, first + n - 1)
            data == chunk.buffer \o new
            plan == ChunkPlan(data, MinChunk, MaxChunk)
            more == [sent EXCEPT ![Current] = @ + n]
<1>0. /\ pc = "serialize" /\ sent \in Seq(Nat) /\ sent # <<>> /\ Current \in 1 .. Len(sent)
      /\ Current \in Nat /\ sent[Current] \in Nat /\ n \in Nat \ {0} /\ chunk.buffer \in Seq(Byte)
      /\ chunk \in [buffer : Seq(Byte), dataSent : BOOLEAN]
  <2>1. pc = "serialize" /\ sent \in Seq(Nat) /\ sent # <<>> /\ chunk \in [buffer : Seq(Byte), dataSent : BOOLEAN]
    BY DEF TypeInv, SendTypes, Serialize
  <2>2. Len(sent) \in Nat \ {0}
    BY <2>1, EmptySeq
  <2>3. Current \in 1 .. Len(sent) /\ Current \in Nat
    BY <2>2 DEF Current
  <2>4. sent[Current] \in Nat
    BY <2>1, <2>3, ElementOfSeq
  <2>. QED BY <2>1, <2>3, <2>4, Constants
<1>1. first \in Nat \ {0} /\ first + n - 1 \in Nat /\ first <= first + n - 1
  BY <1>0
<1>2. new \in Seq(Byte) /\ new # <<>>
  <2>. DEFINE last == first + n - 1
  <2>. HIDE DEF first, last
  <2>1. Payload(Current, first, last) \in Seq(Byte) /\ (Payload(Current, first, last) = <<>> <=> last < first)
    BY <1>0, <1>1, PayloadTyped DEF last
  <2>2. ~(last < first)
    BY <1>1 DEF last
  <2>. QED BY <2>1, <2>2 DEF last
<1>3. data \in Seq(Byte) /\ data # <<>>
  BY <1>0, <1>2, ConcatProperties, ConcatSimplifications!concIsEmpty
<1>. HIDE DEF new, data
<1>4. /\ plan.out \in Seq(Byte) /\ plan.keep \in Seq(Byte) /\ Len(plan.keep) <= MinChunk
  BY <1>3, Constants, PlanTyped
<1>. HIDE DEF plan
<1>5. more \in Seq(Nat) /\ more # <<>>
  <2>1. sent[Current] + n \in Nat
    BY <1>0
  <2>2. more \in Seq(Nat) /\ Len(more) = Len(sent)
    BY <1>0, <2>1, ExceptSeq
  <2>. HIDE DEF more
  <2>. QED BY <1>0, <2>2, EmptySeq
<1>. HIDE DEF more
<1>6. /\ UNCHANGED <<ndebug, up, snd, out, flushed>> /\ UNCHANGED recvVars
      /\ \/ pc' = "too many vectors" /\ UNCHANGED <<sent, chunk, todo, keep>>
         \/ /\ sent' = more /\ UNCHANGED <<pc, todo, keep>>
            /\ Len(data) < MinChunk /\ chunk' = [chunk EXCEPT !.buffer = data]
         \/ /\ sent' = more /\ pc' = "write" /\ UNCHANGED chunk
            /\ todo' = plan.out /\ keep' = plan.keep
  BY DEF Serialize, more, data, new, plan
<1>7. PlaceTypes'
  BY <1>0, <1>6 DEF TypeInv, PlaceTypes
<1>8. RecvTypes' /\ Reading'
  <2>1. pc \notin Receiving /\ pc' \notin Receiving
    BY <1>0, <1>6 DEF Receiving
  <2>. QED BY <1>6, <2>1, SendingKeepsReading
<1>9. SendTypes'
  <2>1. CASE pc' = "too many vectors" /\ UNCHANGED <<sent, chunk, todo, keep>>
    BY <1>6, <2>1 DEF TypeInv, SendTypes
  <2>2. CASE /\ sent' = more /\ UNCHANGED <<pc, todo, keep>>
             /\ Len(data) < MinChunk /\ chunk' = [chunk EXCEPT !.buffer = data]
    <3>1. chunk' \in [buffer : Seq(Byte), dataSent : BOOLEAN] /\ chunk'.buffer = data
      BY <1>0, <1>3, <2>2
    <3>2. Len(data) <= MinChunk
      BY <1>3, <2>2, Constants, LenProperties
    <3>. QED BY <1>5, <1>6, <2>2, <3>1, <3>2 DEF TypeInv, SendTypes
  <2>3. CASE /\ sent' = more /\ pc' = "write" /\ UNCHANGED chunk
             /\ todo' = plan.out /\ keep' = plan.keep
    BY <1>4, <1>5, <1>6, <2>3 DEF TypeInv, SendTypes
  <2>. QED BY <1>6, <2>1, <2>2, <2>3
<1>. QED BY <1>7, <1>8, <1>9 DEF TypeInv

LEMMA CloseMessageTypes ==
  ASSUME TypeInv, CloseMessage
  PROVE  TypeInv'
<1>1. chunk.buffer \in Seq(Byte) /\ Header(0) \in Seq(Byte) /\ <<>> \in Seq(Byte)
  BY HeaderTyped, EmptySeq DEF TypeInv, SendTypes
<1>2. Len(chunk.buffer) \in Nat
  BY <1>1, LenProperties
<1>3. Header(Len(chunk.buffer)) \o chunk.buffer \in Seq(Byte)
  BY <1>1, <1>2, HeaderTyped, ConcatProperties
<1>4. todo' \in Seq(Byte)
  BY <1>1, <1>3, ConcatProperties DEF CloseMessage, ClosePlan
<1>5. SendTypes'
  BY <1>4 DEF TypeInv, SendTypes, CloseMessage
<1>6. PlaceTypes'
  BY DEF TypeInv, PlaceTypes, CloseMessage
<1>7. RecvTypes' /\ Reading'
  BY SendingKeepsReading DEF CloseMessage, Receiving
<1>. QED BY <1>5, <1>6, <1>7 DEF TypeInv

LEMMA RingAssertFailsTypes ==
  ASSUME TypeInv, RingAssertFails
  PROVE  TypeInv'
<1>1. SendTypes' /\ PlaceTypes'
  BY DEF TypeInv, PlaceTypes, SendTypes, RingAssertFails, sendVars
<1>2. RecvTypes' /\ Reading'
  BY SendingKeepsReading DEF RingAssertFails, Receiving
<1>. QED BY <1>1, <1>2 DEF TypeInv

LEMMA WriteBufferedTypes ==
  ASSUME TypeInv, WriteBuffered
  PROVE  TypeInv'
<1>1. snd' \in Ring(Byte, SndSize) /\ todo' \in Seq(Byte)
  BY Constants, RingAppend, EmptySeq DEF TypeInv, SendTypes, WriteBuffered
<1>2. SendTypes' /\ PlaceTypes'
  BY <1>1 DEF TypeInv, PlaceTypes, SendTypes, WriteBuffered
<1>3. RecvTypes' /\ Reading'
  BY SendingKeepsReading DEF WriteBuffered, Receiving
<1>. QED BY <1>2, <1>3 DEF TypeInv

LEMMA WriteThroughTypes ==
  ASSUME TypeInv, NEW w \in 1 .. snd.used + Len(todo), WriteThrough(w)
  PROVE  TypeInv'
<1>. DEFINE after == AfterWrite(snd, todo, w)
            given == SubSeq(RbData(snd) \o todo, 1, w)
<1>0. snd \in Ring(Byte, SndSize) /\ todo \in Seq(Byte) /\ out \in Seq(Byte)
  BY DEF TypeInv, SendTypes
<1>1. snd.used \in Nat /\ Len(todo) \in Nat /\ w \in 0 .. snd.used + Len(todo)
  BY <1>0, Constants, RingTyped, LenProperties
<1>2. after.rb \in Ring(Byte, SndSize) /\ after.n \in 0 .. Len(todo)
  BY <1>0, <1>1, Constants, RingAfterWrite
<1>3. given \in Seq(Byte)
  <2>. DEFINE s == RbData(snd) \o todo
  <2>1. RbData(snd) \in Seq(Byte) /\ Len(RbData(snd)) = snd.used
    BY <1>0, Constants, RingData
  <2>2. s \in Seq(Byte) /\ Len(s) = snd.used + Len(todo)
    BY <1>0, <2>1, ConcatProperties
  <2>. HIDE DEF s
  <2>3. 1 \in 1 .. Len(s) + 1 /\ w \in 0 .. Len(s)
    BY <1>1, <2>2
  <2>. QED BY <2>2, <2>3, SubSeqTyped DEF s
<1>4. From(todo, after.n + 1) \in Seq(Byte)
  <2>1. after.n + 1 \in 1 .. Len(todo) + 1
    BY <1>1, <1>2
  <2>. QED BY <1>0, <2>1, FromTyped
<1>. HIDE DEF after, given
<1>5. /\ pc \in {"write", "close"} /\ UNCHANGED <<ndebug, up, sent, chunk, keep, flushed>>
      /\ UNCHANGED recvVars /\ out' = out \o given
      /\ \/ snd' = after.rb /\ todo' = From(todo, after.n + 1) /\ pc' = pc
         \/ pc' = "rb_assert" /\ UNCHANGED <<snd, todo>>
  BY DEF WriteThrough, after, given
<1>6. snd' \in Ring(Byte, SndSize) /\ todo' \in Seq(Byte) /\ out' \in Seq(Byte)
  BY <1>0, <1>2, <1>3, <1>4, <1>5, ConcatProperties
<1>7. PlaceTypes'
  BY <1>5 DEF TypeInv, PlaceTypes
<1>8. SendTypes'
  BY <1>5, <1>6 DEF TypeInv, SendTypes
<1>9. RecvTypes' /\ Reading'
  BY <1>5, SendingKeepsReading DEF Receiving
<1>. QED BY <1>7, <1>8, <1>9 DEF TypeInv

LEMMA WriteFailsTypes ==
  ASSUME TypeInv, WriteFails
  PROVE  TypeInv'
<1>1. <<>> \in Seq(Byte) /\ Len(<<>>) <= MinChunk /\ 0 \in 0 .. SndSize
  BY EmptySeq, Constants
<1>2. SendTypes'
  BY <1>1 DEF TypeInv, SendTypes, WriteFails
<1>3. PlaceTypes'
  BY DEF TypeInv, PlaceTypes, WriteFails
<1>4. RecvTypes' /\ Reading'
  BY SendingKeepsReading DEF WriteFails, Receiving
<1>. QED BY <1>2, <1>3, <1>4 DEF TypeInv

LEMMA WrittenTypes ==
  ASSUME TypeInv, Written
  PROVE  TypeInv'
<1>1. <<>> \in Seq(Byte) /\ Len(<<>>) <= MinChunk /\ 0 \in 0 .. SndSize
  BY EmptySeq, Constants
<1>2. keep \in Seq(Byte) /\ Len(keep) <= MinChunk
  BY DEF TypeInv, SendTypes
<1>3. [buffer |-> keep, dataSent |-> TRUE] \in [buffer : Seq(Byte), dataSent : BOOLEAN]
  BY <1>2
<1>4. SendTypes'
  <2>. DEFINE new == [buffer |-> keep, dataSent |-> TRUE]
  <2>1. new \in [buffer : Seq(Byte), dataSent : BOOLEAN] /\ Len(new.buffer) <= MinChunk
    BY <1>2
  <2>. HIDE DEF new
  <2>2. /\ pc \in {"write", "close"} /\ UNCHANGED <<snd, out, sent, todo>>
        /\ \/ chunk' = new /\ keep' = <<>> /\ pc' = "serialize" /\ pc = "write" /\ flushed' = flushed
           \/ pc' = "flush" /\ flushed' = 0 /\ UNCHANGED <<chunk, keep>>
    BY DEF Written, new
  <2>. QED BY <1>1, <2>1, <2>2 DEF TypeInv, SendTypes
<1>5. PlaceTypes'
  BY DEF TypeInv, PlaceTypes, Written
<1>6. RecvTypes' /\ Reading'
  BY SendingKeepsReading DEF Written, Receiving
<1>. QED BY <1>4, <1>5, <1>6 DEF TypeInv

LEMMA FlushNothingTypes ==
  ASSUME TypeInv, FlushNothing
  PROVE  TypeInv'
<1>1. SendTypes' /\ PlaceTypes'
  BY DEF TypeInv, PlaceTypes, SendTypes, FlushNothing, sendVars
<1>2. RecvTypes' /\ Reading'
  BY SendingKeepsReading DEF FlushNothing, Receiving
<1>. QED BY <1>1, <1>2 DEF TypeInv

LEMMA FlushTypes ==
  ASSUME TypeInv, NEW w \in 1 .. snd.used - flushed, Flush(w)
  PROVE  TypeInv'
<1>. DEFINE given == SubSeq(RbData(snd), flushed + 1, flushed + w)
<1>0. snd \in Ring(Byte, SndSize) /\ out \in Seq(Byte) /\ flushed \in 0 .. SndSize
  BY DEF TypeInv, SendTypes
<1>1. snd.used \in 0 .. SndSize /\ flushed + w \in 0 .. SndSize /\ flushed + w <= snd.used
  BY <1>0, Constants, RingTyped
<1>2. given \in Seq(Byte)
  <2>. DEFINE s == RbData(snd)
  <2>1. s \in Seq(Byte) /\ Len(s) = snd.used
    BY <1>0, Constants, RingData
  <2>. HIDE DEF s
  <2>2. flushed + 1 \in 1 .. Len(s) + 1 /\ flushed + w \in 0 .. Len(s)
    BY <1>0, <1>1, <2>1, Constants
  <2>. QED BY <2>1, <2>2, SubSeqTyped DEF s
<1>3. RbClear(snd) \in Ring(Byte, SndSize) /\ 0 \in 0 .. SndSize
  BY <1>0, Constants, RingClear
<1>. HIDE DEF given
<1>4. /\ pc = "flush" /\ UNCHANGED <<ndebug, up, sent, chunk, todo, keep>>
      /\ UNCHANGED recvVars /\ out' = out \o given
      /\ \/ snd' = RbClear(snd) /\ flushed' = 0 /\ pc' = "sender"
         \/ flushed' = flushed + w /\ UNCHANGED <<snd, pc>>
  BY DEF Flush, given
<1>5. snd' \in Ring(Byte, SndSize) /\ flushed' \in 0 .. SndSize /\ out' \in Seq(Byte)
  BY <1>0, <1>1, <1>2, <1>3, <1>4, ConcatProperties
<1>6. PlaceTypes'
  BY <1>4 DEF TypeInv, PlaceTypes
<1>7. SendTypes'
  BY <1>4, <1>5 DEF TypeInv, SendTypes
<1>8. RecvTypes' /\ Reading'
  BY <1>4, SendingKeepsReading DEF Receiving
<1>. QED BY <1>6, <1>7, <1>8 DEF TypeInv

LEMMA FlushFailsTypes ==
  ASSUME TypeInv, NEW w \in 0 .. snd.used, FlushFails(w)
  PROVE  TypeInv'
<1>0. snd \in Ring(Byte, SndSize) /\ snd.used \in 0 .. SndSize
  BY Constants, RingTyped DEF TypeInv, SendTypes
<1>1. w \in Nat
  BY <1>0
<1>2. snd' \in Ring(Byte, SndSize) /\ flushed' \in 0 .. SndSize
  BY <1>0, <1>1, Constants, RingDiscard DEF FlushFails
<1>3. SendTypes' /\ PlaceTypes'
  BY <1>2 DEF TypeInv, PlaceTypes, SendTypes, FlushFails
<1>4. RecvTypes' /\ Reading'
  BY SendingKeepsReading DEF FlushFails, Receiving
<1>. QED BY <1>3, <1>4 DEF TypeInv

LEMMA SocketFailsTypes ==
  ASSUME TypeInv, SocketFails
  PROVE  TypeInv'
BY DEF TypeInv, PlaceTypes, SendTypes, RecvTypes, Reading, Inside, Delivered, Message, Total,
       SocketFails, sendVars, recvVars

-----------------------------------------------------------------------------
(* The type invariant is kept by the steps that receive.                    *)
LEMMA ReceivingKeepsSending ==
  ASSUME TypeInv, pc \in Receiving, pc' \in Receiving \cup {"failed"},
         UNCHANGED <<ndebug, up, sendVars>>
  PROVE  SendTypes' /\ PlaceTypes'
BY DEF TypeInv, PlaceTypes, SendTypes, Receiving, sendVars

\* A byte sequence is added to what a message has been given.
LEMMA GotMore ==
  ASSUME NEW S, NEW g \in Seq(Seq(S)), Len(g) > 0, NEW b \in Seq(S)
  PROVE  LET h == [g EXCEPT ![Len(g)] = @ \o b]
         IN  /\ h \in Seq(Seq(S)) /\ Len(h) = Len(g)
             /\ h[Len(h)] = g[Len(g)] \o b
             /\ Len(h[Len(h)]) = Len(g[Len(g)]) + Len(b)
             /\ g[Len(g)] \in Seq(S)
             /\ \A m \in 1 .. Len(g) : m # Len(g) => h[m] = g[m]
<1>. DEFINE T == Seq(S)
            n == Len(g)
            x == g[n]
            y == x \o b
            h == [g EXCEPT ![n] = y]
<1>1. n \in Nat /\ n \in 1 .. n
  BY LenProperties
<1>2. x \in Seq(S)
  BY <1>1, ElementOfSeq
<1>3. y \in T /\ Len(y) = Len(x) + Len(b)
  BY <1>2, ConcatProperties
<1>. HIDE DEF T, y
<1>4. /\ h \in Seq(T) /\ Len(h) = n
      /\ \A j \in 1 .. n : h[j] = IF j = n THEN y ELSE g[j]
  BY <1>1, <1>3, ExceptSeq DEF T
<1>. HIDE DEF n, h, x
<1>5. h[n] = y
  BY <1>1, <1>4
<1>6. h = [g EXCEPT ![Len(g)] = @ \o b]
  BY DEF h, n, y, x
<1>. QED BY <1>2, <1>3, <1>4, <1>5, <1>6 DEF n, y, x, T

LEMMA NextMessageTypes ==
  ASSUME TypeInv, NextMessage
  PROVE  TypeInv'
<1>0. got \in Seq(Seq(Byte)) /\ Len(got) \in Nat /\ Len(got) < MaxMessages /\ pc = "receiver"
  BY LenProperties DEF TypeInv, RecvTypes, NextMessage
<1>1. <<>> \in Seq(Byte) /\ Len(<<>>) = 0
  BY EmptySeq
<1>. DEFINE T == Seq(Byte)
<1>2. /\ got' \in Seq(T) /\ Len(got') = Len(got) + 1 /\ got'[Len(got) + 1] = <<>>
  <2>1. <<>> \in T /\ got \in Seq(T)
    BY <1>0, <1>1
  <2>. HIDE DEF T
  <2>2. got' = Append(got, <<>>)
    BY DEF NextMessage
  <2>. QED BY <2>1, <2>2, AppendProperties
<1>3. rem' = 0 /\ pc' = "deserialize" /\ UNCHANGED <<ndebug, up, reply, want, sendVars, rcv, in, need, read, iov, part>>
  BY DEF NextMessage
<1>4. RecvTypes'
  BY <1>2, <1>3, Constants DEF TypeInv, RecvTypes, Total
<1>5. Reading'
  <2>1. Message' \in 1 .. MaxMessages /\ Delivered' = 0 /\ Message' = Len(got) + 1
    BY <1>0, <1>1, <1>2, Constants DEF Message, Delivered
  <2>2. want' \in [1 .. MaxMessages -> 1 .. Bound] /\ reply' \in [1 .. MaxMessages -> Cuts]
    BY <1>0, <1>3 DEF TypeInv, Reading, Receiving
  <2>3. need' = 0 /\ read' = 0
    BY <1>0, <1>3 DEF TypeInv, Reading
  <2>4. want'[Message'] \in 1 .. Bound
    BY <2>1, <2>2
  <2>5. Delivered' + need' <= want'[Message'] /\ read' <= Delivered' /\ rem' >= -1 - Delivered'
    BY <1>3, <2>1, <2>3, <2>4
  <2>. QED BY <1>3, <2>1, <2>2, <2>3, <2>5 DEF Reading, Receiving, Inside
<1>6. SendTypes' /\ PlaceTypes'
  BY <1>0, <1>3, ReceivingKeepsSending DEF Receiving
<1>. QED BY <1>4, <1>5, <1>6 DEF TypeInv

LEMMA ReadAllTypes ==
  ASSUME TypeInv, NEW n \in 1 .. Bound, ReadAll(n)
  PROVE  TypeInv'
<1>0. /\ pc = "deserialize" /\ pc' = "chunk" /\ need' = n /\ read' = 0
      /\ Len(got[Message]) + n <= want[Message]
      /\ UNCHANGED <<ndebug, up, reply, want, sendVars, rcv, in, got, rem, iov, part>>
  BY DEF ReadAll
<1>1. n \in 0 .. Bound /\ 0 \in 0 .. Bound /\ n > 0
  BY Constants
<1>2. RecvTypes'
  BY <1>0, <1>1 DEF TypeInv, RecvTypes, Total
<1>3. Reading'
  <2>1. Inside /\ read = 0
    BY <1>0 DEF Inside, TypeInv, Reading
  <2>. QED BY <1>0, <1>1, <2>1 DEF TypeInv, Reading, Receiving, Inside, Delivered, Message
<1>4. SendTypes' /\ PlaceTypes'
  BY <1>0, ReceivingKeepsSending DEF Receiving
<1>. QED BY <1>2, <1>3, <1>4 DEF TypeInv

LEMMA ChunkReadTypes ==
  ASSUME TypeInv, ChunkRead
  PROVE  TypeInv'
<1>0. /\ pc = "chunk" /\ pc' = "readv" /\ part' = <<>>
      /\ iov' = IF rem < 0 \/ need < rem THEN [data |-> need, length |-> FALSE]
                                         ELSE [data |-> rem, length |-> TRUE]
      /\ UNCHANGED <<ndebug, up, reply, want, sendVars, rcv, in, got, rem, need, read>>
  BY DEF ChunkRead
<1>1. need \in Nat /\ rem \in Int /\ (~(rem < 0) => rem \in Nat)
  BY Constants DEF TypeInv, RecvTypes
<1>2. /\ [data |-> need, length |-> FALSE] \in [data : Nat, length : BOOLEAN]
      /\ ~(rem < 0) => [data |-> rem, length |-> TRUE] \in [data : Nat, length : BOOLEAN]
  BY <1>1
<1>3. iov' \in [data : Nat, length : BOOLEAN]
  BY <1>0, <1>2
<1>4. part' \in Seq(Byte) /\ Len(part') = 0
  BY <1>0, EmptySeq
<1>5. Len(part') <= Total'
  BY <1>3, <1>4 DEF Total
<1>6. RecvTypes'
  BY <1>0, <1>3, <1>4, <1>5 DEF TypeInv, RecvTypes
<1>7. Reading'
  BY <1>0 DEF TypeInv, Reading, Receiving, Inside, Delivered, Message
<1>8. SendTypes' /\ PlaceTypes'
  BY <1>0, ReceivingKeepsSending DEF Receiving
<1>. QED BY <1>6, <1>7, <1>8 DEF TypeInv

LEMMA TotalTyped ==
  ASSUME RecvTypes
  PROVE  /\ Total \in Nat /\ Len(part) \in Nat /\ Missing \in Nat /\ Missing = Total - Len(part)
         /\ iov.data \in Nat /\ iov.length \in BOOLEAN
         /\ Total = IF iov.length THEN iov.data + 2 ELSE iov.data
<1>1. iov.data \in Nat /\ iov.length \in BOOLEAN /\ Len(part) \in Nat /\ Len(part) <= Total
  BY LenProperties DEF RecvTypes
<1>. QED BY <1>1 DEF Total, Missing

LEMMA ReadBufferedTypes ==
  ASSUME TypeInv, ReadBuffered
  PROVE  TypeInv'
<1>. DEFINE ext == RbExtract(rcv, Missing)
<1>0. /\ RecvTypes /\ rcv \in Ring(Byte, RcvSize) /\ rcv.ptr + rcv.used <= RcvSize /\ part \in Seq(Byte)
      /\ rcv.used >= Missing /\ pc = "readv"
  BY DEF TypeInv, RecvTypes, ReadBuffered
<1>1. Missing \in Nat /\ Missing = Total - Len(part) /\ Len(part) \in Nat /\ Total \in Nat
  BY <1>0, TotalTyped
<1>2. Lesser(Missing, rcv.used) = Missing
  <2>1. rcv.used \in Nat
    BY <1>0, Constants, RingTyped
  <2>. QED BY <1>0, <1>1, <2>1 DEF Lesser
<1>3. /\ ext.rb \in Ring(Byte, RcvSize) /\ ext.rb.ptr + ext.rb.used <= RcvSize
      /\ ext.bytes \in Seq(Byte) /\ Len(ext.bytes) = Missing
  BY <1>0, <1>1, <1>2, Constants, RingExtract
<1>. HIDE DEF ext
<1>4. /\ rcv' = ext.rb /\ part' = part \o ext.bytes
      /\ UNCHANGED <<pc, ndebug, up, reply, want, sendVars, in, got, rem, need, read, iov>>
  BY DEF ReadBuffered, ext
<1>5. part' \in Seq(Byte) /\ Len(part') = Len(part) + Missing
  BY <1>0, <1>3, <1>4, ConcatProperties
<1>6. Total' = Total /\ Len(part') <= Total'
  BY <1>1, <1>4, <1>5 DEF Total
<1>7. RecvTypes'
  BY <1>3, <1>4, <1>5, <1>6 DEF TypeInv, RecvTypes
<1>8. Reading'
  BY <1>4 DEF TypeInv, Reading, Receiving, Inside, Delivered, Message
<1>9. SendTypes' /\ PlaceTypes'
  BY <1>0, <1>4, ReceivingKeepsSending DEF Receiving
<1>. QED BY <1>7, <1>8, <1>9 DEF TypeInv

LEMMA ReadThroughTypes ==
  ASSUME TypeInv, NEW n, n \in 1 .. Len(in), ReadThrough(n)
  PROVE  /\ TypeInv'
         /\ part' \o RbData(rcv') = (part \o RbData(rcv)) \o SubSeq(in, 1, n)
<1>. DEFINE data == SubSeq(in, 1, n)
            after == AfterRead(rcv, Missing, data)
<1>0. /\ RecvTypes /\ rcv \in Ring(Byte, RcvSize) /\ rcv.ptr + rcv.used <= RcvSize /\ part \in Seq(Byte)
      /\ rcv.used < Missing /\ pc = "readv" /\ in \in Seq(Byte) /\ n <= Lesser(Len(in), Missing - rcv.used + rcv.size)
  BY DEF TypeInv, RecvTypes, ReadThrough
<1>1. Missing \in Nat /\ Missing = Total - Len(part) /\ Len(part) \in Nat /\ Total \in Nat
  BY <1>0, TotalTyped
<1>2. rcv.used \in Nat /\ rcv.size = RcvSize /\ Len(in) \in Nat
  BY <1>0, Constants, RingTyped, LenProperties
<1>3. data \in Seq(Byte) /\ Len(data) = n
  <2>1. 1 \in 1 .. Len(in) + 1 /\ n \in 0 .. Len(in) /\ 1 <= n /\ n - 1 + 1 = n
    BY <1>2
  <2>2. data \in Seq(Byte) /\ Len(data) = IF 1 <= n THEN n - 1 + 1 ELSE 0
    BY <1>0, <2>1, SubSeqTyped
  <2>. HIDE DEF data
  <2>. QED BY <2>1, <2>2
<1>. HIDE DEF data
<1>4. Len(data) <= Missing - rcv.used + RcvSize
  <2>1. Missing - rcv.used + RcvSize \in Nat
    BY <1>0, <1>1, <1>2, Constants
  <2>. QED BY <1>0, <1>2, <1>3, <2>1 DEF Lesser
<1>5. /\ after.rb \in Ring(Byte, RcvSize) /\ after.rb.ptr + after.rb.used <= RcvSize
      /\ after.bytes \in Seq(Byte) /\ Len(after.bytes) <= Missing
      /\ after.bytes \o RbData(after.rb) = RbData(rcv) \o data
  <2>1. ReadFits(rcv, Missing, data, RcvSize)
    BY <1>0, <1>4 DEF ReadFits
  <2>2. ReadServed(Byte, rcv, Missing, data, RcvSize)
    BY <1>0, <1>1, <1>3, <2>1, Constants, RingAfterRead
  <2>. QED BY <2>2 DEF ReadServed
<1>. HIDE DEF after
<1>6. /\ rcv' = after.rb /\ part' = part \o after.bytes /\ in' = From(in, n + 1)
      /\ UNCHANGED <<pc, ndebug, up, reply, want, sendVars, got, rem, need, read, iov>>
  BY DEF ReadThrough, after, data
<1>7. part' \in Seq(Byte) /\ Len(part') = Len(part) + Len(after.bytes) /\ Len(after.bytes) \in Nat
  BY <1>0, <1>5, <1>6, ConcatProperties, LenProperties
<1>8. Total' = Total /\ Len(part') <= Total'
  BY <1>1, <1>5, <1>6, <1>7 DEF Total
<1>9. in' \in Seq(Byte)
  <2>1. n + 1 \in 1 .. Len(in) + 1
    BY <1>2
  <2>. QED BY <1>0, <1>6, <2>1, FromTyped
<1>10. RecvTypes'
  BY <1>5, <1>6, <1>7, <1>8, <1>9 DEF TypeInv, RecvTypes
<1>11. Reading'
  BY <1>6 DEF TypeInv, Reading, Receiving, Inside, Delivered, Message
<1>12. SendTypes' /\ PlaceTypes'
  BY <1>0, <1>6, ReceivingKeepsSending DEF Receiving
<1>13. part' \o RbData(rcv') = (part \o RbData(rcv)) \o data
  <2>. DEFINE p == part
              b == after.bytes
              d == RbData(after.rb)
              e == RbData(rcv)
  <2>1. p \in Seq(Byte) /\ b \in Seq(Byte) /\ d \in Seq(Byte) /\ e \in Seq(Byte) /\ data \in Seq(Byte)
    BY <1>0, <1>3, <1>5, Constants, RingData
  <2>2. b \o d = e \o data
    BY <1>5
  <2>. HIDE DEF p, b, d, e
  <2>3. (p \o b) \o d = p \o (b \o d)
    BY ONLY <2>1, ConcatAssociative
  <2>4. (p \o e) \o data = p \o (e \o data)
    BY ONLY <2>1, ConcatAssociative
  <2>. QED BY <1>6, <2>2, <2>3, <2>4 DEF p, b, d, e
<1>. QED BY <1>10, <1>11, <1>12, <1>13 DEF TypeInv, data

LEMMA TakeTyped ==
  ASSUME NEW S, NEW s \in Seq(S), NEW n \in 0 .. Len(s)
  PROVE  /\ SubSeq(s, 1, n) \in Seq(S) /\ Len(SubSeq(s, 1, n)) = n
         /\ \A i \in 1 .. n : SubSeq(s, 1, n)[i] = s[i]
<1>. DEFINE t == SubSeq(s, 1, n)
<1>1. Len(s) \in Nat /\ 1 \in 1 .. Len(s) + 1
  BY LenProperties
<1>2. /\ t \in Seq(S) /\ Len(t) = IF 1 <= n THEN n - 1 + 1 ELSE 0
      /\ \A i \in 1 .. n - 1 + 1 : t[i] = s[1 + i - 1]
  BY <1>1, SubSeqTyped
<1>3. n \in Nat /\ n - 1 + 1 = n /\ (~(1 <= n) => n = 0) /\ \A i \in 1 .. n : 1 + i - 1 = i
  BY <1>1
<1>. HIDE DEF t
<1>4. Len(t) = n /\ \A i \in 1 .. n : t[i] = s[i]
  BY <1>2, <1>3
<1>. QED BY <1>2, <1>4 DEF t

LEMMA IovWanted ==
  ASSUME TypeInv, pc = "readv"
  PROVE  /\ iov.data \in Nat /\ iov.data <= need /\ need \in Nat \ {0} /\ rem \in Int
         /\ ~iov.length => iov.data = need /\ (rem < 0 \/ need < rem)
         /\ iov.length => iov.data = rem /\ rem >= 0
         /\ Total \in Nat \ {0}
<1>1. need \in Nat \ {0} /\ rem \in Int
  BY Constants DEF TypeInv, RecvTypes, Reading
<1>2. iov = IF rem < 0 \/ need < rem THEN [data |-> need, length |-> FALSE]
                                     ELSE [data |-> rem, length |-> TRUE]
  BY DEF TypeInv, Reading
<1>3. CASE rem < 0 \/ need < rem
  <2>1. iov.data = need /\ iov.length = FALSE
    BY <1>2, <1>3
  <2>. QED BY <1>1, <1>3, <2>1 DEF Total
<1>4. CASE ~(rem < 0 \/ need < rem)
  <2>1. iov.data = rem /\ iov.length = TRUE /\ rem \in Nat /\ rem <= need
    BY <1>1, <1>2, <1>4
  <2>. QED BY <1>1, <2>1 DEF Total
<1>. QED BY <1>3, <1>4

\* The bytes that are given to the deserializer when the stream ends.
LastBytes(k) == SubSeq(part, 1, Lesser(Len(part), iov.data)) \o [i \in 1 .. k |-> Nothing]

LEMMA LastBytesTyped ==
  ASSUME TypeInv, pc = "readv", NEW k, k \in 0 .. iov.data, k > 0 => part = <<>>
  PROVE  /\ LastBytes(k) \in Seq(Byte) /\ Len(LastBytes(k)) \in Nat /\ Len(LastBytes(k)) <= iov.data
         /\ \A i \in 1 .. Len(LastBytes(k)) : i <= Len(part) => LastBytes(k)[i] = part[i]
         /\ \A i \in 1 .. Len(LastBytes(k)) : i > Len(part) => LastBytes(k)[i] = Nothing
         /\ k = 0 => Len(LastBytes(k)) = Lesser(Len(part), iov.data)
<1>. DEFINE n == Lesser(Len(part), iov.data)
            s == SubSeq(part, 1, n)
            z == [i \in 1 .. k |-> Nothing]
            b == LastBytes(k)
<1>0. part \in Seq(Byte) /\ Len(part) \in Nat /\ iov.data \in Nat /\ k \in Nat /\ k <= iov.data
  <2>1. part \in Seq(Byte) /\ iov.data \in Nat
    BY IovWanted DEF TypeInv, RecvTypes
  <2>. QED BY <2>1, LenProperties
<1>1. n \in 0 .. Len(part) /\ n <= iov.data /\ n \in Nat
  BY <1>0 DEF Lesser
<1>2. s \in Seq(Byte) /\ Len(s) = n /\ \A i \in 1 .. n : s[i] = part[i]
  BY <1>0, <1>1, TakeTyped
<1>3. z \in Seq(Byte) /\ Len(z) = k /\ \A i \in 1 .. k : z[i] = Nothing
  <2>1. Nothing \in Byte
    BY DEF Nothing, Byte
  <2>. DEFINE B == Byte
              x == Nothing
  <2>. HIDE DEF B, x
  <2>2. [i \in 1 .. k |-> x] \in Seq(B) /\ Len([i \in 1 .. k |-> x]) = k
    BY <1>0, <2>1 DEF B, x
  <2>. QED BY <2>2 DEF B, x
<1>. HIDE DEF s, z, n
<1>4. b = s \o z
  BY DEF LastBytes, s, z, n
<1>5. /\ b \in Seq(Byte) /\ Len(b) = n + k
      /\ \A i \in 1 .. n + k : b[i] = IF i <= n THEN s[i] ELSE z[i - n]
  <2>1. /\ s \o z \in Seq(Byte) /\ Len(s \o z) = Len(s) + Len(z)
        /\ \A i \in 1 .. Len(s) + Len(z) : (s \o z)[i] = IF i <= Len(s) THEN s[i] ELSE z[i - Len(s)]
    BY <1>2, <1>3, ConcatProperties
  <2>. QED BY <1>2, <1>3, <1>4, <2>1
<1>. HIDE DEF b
<1>6. k > 0 => n = 0 /\ Len(part) = 0
  <2>1. k > 0 => Len(part) = 0
    BY EmptySeq
  <2>. QED BY <1>0, <1>1, <2>1
<1>7. Len(b) \in Nat /\ Len(b) <= iov.data
  BY <1>0, <1>1, <1>5, <1>6
<1>8. k = 0 => Len(b) = n
  BY <1>1, <1>5
<1>9. ASSUME NEW i \in 1 .. Len(b)
      PROVE  (i <= Len(part) => b[i] = part[i]) /\ (i > Len(part) => b[i] = Nothing)
  <2>1. CASE k = 0
    <3>1. i \in 1 .. n + k /\ i \in 1 .. n /\ i <= n /\ i <= Len(part)
      BY <1>0, <1>1, <1>5, <2>1
    <3>2. ~(i > Len(part))
      BY <1>0, <3>1
    <3>. QED BY <1>2, <1>5, <3>1, <3>2
  <2>2. CASE k # 0
    <3>1. n = 0 /\ Len(part) = 0 /\ i \in 1 .. n + k /\ i \in 1 .. k /\ ~(i <= n) /\ i - n = i
          /\ ~(i <= Len(part))
      BY <1>0, <1>1, <1>5, <1>6, <2>2
    <3>. QED BY <1>3, <1>5, <3>1
  <2>. QED BY <2>1, <2>2
<1>. QED BY <1>5, <1>7, <1>8, <1>9 DEF b, n

\* The end of a read: b bytes are given to the deserializer.
LEMMA GivenTypes ==
  ASSUME TypeInv, pc = "readv", NEW b \in Seq(Byte), Len(b) <= need,
         got' = [got EXCEPT ![Message] = @ \o b], need' = need - Len(b), want' = want
  PROVE  /\ got' \in Seq(Seq(Byte)) /\ Message' = Message /\ Message \in 1 .. MaxMessages
         /\ Delivered' = Delivered + Len(b) /\ Delivered \in Nat /\ Delivered' \in 0 .. Bound
         /\ need' \in 0 .. Bound /\ Delivered' + need' <= want'[Message']
         /\ got'[Message'] = got[Message] \o b
         /\ \A m \in 1 .. Message : m # Message => got'[m] = got[m]
<1>0. got \in Seq(Seq(Byte)) /\ Message \in 1 .. MaxMessages /\ Message = Len(got)
  BY DEF TypeInv, RecvTypes, Reading, Inside, Message
<1>1. /\ Delivered + need <= want[Message] /\ want[Message] \in 1 .. Bound
      /\ need \in Nat /\ Len(b) \in Nat
  <2>1. want \in [1 .. MaxMessages -> 1 .. Bound]
    BY DEF TypeInv, Reading, Receiving
  <2>2. want[Message] \in 1 .. Bound
    BY <1>0, <2>1
  <2>. QED BY <2>2, Constants, LenProperties DEF TypeInv, RecvTypes, Reading, Inside
<1>2. Message \in Nat /\ Message > 0
  BY <1>0, Constants
<1>3. /\ got' \in Seq(Seq(Byte)) /\ Len(got') = Len(got)
      /\ got'[Len(got')] = got[Len(got)] \o b
      /\ Len(got'[Len(got')]) = Len(got[Len(got)]) + Len(b)
      /\ got[Len(got)] \in Seq(Byte)
      /\ \A m \in 1 .. Len(got) : m # Len(got) => got'[m] = got[m]
  BY <1>0, <1>2, GotMore
<1>4. Message' = Message /\ Delivered' = Delivered + Len(b) /\ Delivered \in Nat
  BY <1>0, <1>3, LenProperties DEF Message, Delivered
<1>5. Delivered' \in 0 .. Bound /\ need' \in 0 .. Bound /\ Delivered' + need' <= want'[Message']
  BY <1>1, <1>4, Constants
<1>. QED BY <1>0, <1>3, <1>4, <1>5 DEF Message

LEMMA ReadEndsTypes ==
  ASSUME TypeInv, NEW k, k \in 0 .. iov.data, ReadEnds(k)
  PROVE  TypeInv'
<1>0. /\ pc = "readv" /\ rcv.used < Missing /\ in = <<>> /\ (k > 0 => part = <<>>)
      /\ UNCHANGED <<ndebug, up, reply, want, sendVars, in, iov>>
      /\ RecvTypes /\ rcv \in Ring(Byte, RcvSize) /\ part \in Seq(Byte)
  BY DEF ReadEnds, TypeInv, RecvTypes
<1>1. /\ Missing = Total - Len(part) /\ Total \in Nat /\ Len(part) \in Nat
      /\ rcv.used \in Nat /\ rcv.size = RcvSize
  BY <1>0, TotalTyped, Constants, RingTyped
<1>2. Total' = Total
  BY <1>0 DEF Total
<1>3. CASE rcv.used > 0
  <2>1. /\ part' = part \o RbData(rcv) /\ rcv' = RbDiscard(rcv, rcv.used)
        /\ UNCHANGED <<pc, got, rem, need, read>>
    BY <1>3 DEF ReadEnds
  <2>2. part' \in Seq(Byte) /\ Len(part') = Len(part) + rcv.used
    <3>1. RbData(rcv) \in Seq(Byte) /\ Len(RbData(rcv)) = rcv.used
      BY <1>0, Constants, RingData
    <3>. QED BY <1>0, <2>1, <3>1, ConcatProperties
  <2>3. Len(part') <= Total'
    BY <1>0, <1>1, <1>2, <2>2
  <2>4. rcv' \in Ring(Byte, RcvSize) /\ rcv'.used = 0
    <3>1. Lesser(rcv.used, rcv.used) = rcv.used
      BY DEF Lesser
    <3>. DEFINE n == rcv.used
    <3>2. n \in Nat /\ rcv \in Ring(Byte, RcvSize) /\ RcvSize \in Nat \ {0} /\ Lesser(n, rcv.used) = n
      BY <1>0, <1>1, <3>1, Constants
    <3>. HIDE DEF n
    <3>3. /\ RbDiscard(rcv, n) \in Ring(Byte, RcvSize)
          /\ RbDiscard(rcv, n).used = rcv.used - Lesser(n, rcv.used)
      BY <3>2, RingDiscard
    <3>. QED BY <1>1, <2>1, <3>1, <3>3 DEF n
  <2>5. rcv'.ptr + rcv'.used <= RcvSize
    <3>1. rcv'.ptr = 0
      BY <2>4, Constants, RingTyped
    <3>. QED BY <2>4, <3>1, Constants
  <2>6. RecvTypes'
    BY <1>0, <2>1, <2>2, <2>3, <2>4, <2>5 DEF TypeInv, RecvTypes
  <2>7. Reading'
    BY <1>0, <2>1 DEF TypeInv, Reading, Receiving, Inside, Delivered, Message
  <2>8. SendTypes' /\ PlaceTypes'
    BY <1>0, <2>1, ReceivingKeepsSending DEF Receiving
  <2>. QED BY <2>6, <2>7, <2>8 DEF TypeInv
<1>4. CASE ~(rcv.used > 0)
  <2>. DEFINE b == LastBytes(k)
  <2>1. /\ got' = [got EXCEPT ![Message] = @ \o b] /\ need' = need - Len(b)
        /\ rem' = -1 /\ read' = 0 /\ UNCHANGED <<part, rcv>>
        /\ pc' = IF read + Len(b) = 0 THEN "failed" ELSE IF need' = 0 THEN "deserialize" ELSE "chunk"
    BY <1>4 DEF ReadEnds, LastBytes
  <2>2. b \in Seq(Byte) /\ Len(b) \in Nat /\ Len(b) <= iov.data
    BY <1>0, LastBytesTyped
  <2>. HIDE DEF b
  <2>3. Len(b) <= need
    BY <1>0, <2>2, IovWanted
  <2>4. /\ got' \in Seq(Seq(Byte)) /\ Message' = Message /\ Message \in 1 .. MaxMessages
        /\ Delivered' \in 0 .. Bound /\ need' \in 0 .. Bound /\ Delivered' + need' <= want'[Message']
    BY <1>0, <2>1, <2>2, <2>3, GivenTypes
  <2>5. RecvTypes'
    <3>1. -1 \in -(Bound + 1) .. MaxChunk /\ 0 \in 0 .. Bound
      BY Constants
    <3>. QED BY <1>0, <1>2, <2>1, <2>4, <3>1 DEF RecvTypes
  <2>6. Reading'
    <3>1. 0 <= Delivered' /\ -1 >= -1 - Delivered'
      <4>. DEFINE d == Delivered'
      <4>. HIDE DEF d
      <4>1. d \in 0 .. Bound /\ Bound \in Nat
        BY <2>4, Constants DEF d
      <4>2. 0 <= d /\ -1 >= -1 - d
        BY <4>1
      <4>. QED BY <4>2 DEF d
    <3>2. need' = 0 \/ need' > 0
      BY <2>4, Constants
    <3>3. reply' \in [1 .. MaxMessages -> Cuts] /\ want' \in [1 .. MaxMessages -> 1 .. Bound]
      BY <1>0 DEF TypeInv, Reading, Receiving
    <3>. QED BY <2>1, <2>4, <3>1, <3>2, <3>3 DEF Reading, Receiving, Inside
  <2>7. SendTypes' /\ PlaceTypes'
    BY <1>0, <2>1, ReceivingKeepsSending DEF Receiving
  <2>. QED BY <2>5, <2>6, <2>7 DEF TypeInv
<1>. QED BY <1>3, <1>4

LEMMA ChunkDoneTypes ==
  ASSUME TypeInv, NEW length, length \in 0 .. MaxChunk, ChunkDone(length)
  PROVE  TypeInv'
<1>. DEFINE b == SubSeq(part, 1, iov.data)
            total == read + iov.data
            left == need - iov.data
<1>0. /\ pc = "readv" /\ Missing = 0 /\ part' = <<>> /\ need' = left
      /\ got' = [got EXCEPT ![Message] = @ \o b]
      /\ UNCHANGED <<ndebug, up, reply, want, sendVars, rcv, in, iov>>
      /\ RecvTypes /\ part \in Seq(Byte)
  BY DEF ChunkDone, TypeInv, RecvTypes
<1>1. /\ Missing = Total - Len(part) /\ Total \in Nat /\ Len(part) \in Nat
      /\ iov.data \in Nat /\ iov.length \in BOOLEAN
      /\ Total = IF iov.length THEN iov.data + 2 ELSE iov.data
  BY <1>0, TotalTyped
<1>2. /\ iov.data <= need /\ need \in Nat \ {0} /\ rem \in Int
      /\ ~iov.length => iov.data = need /\ (rem < 0 \/ need < rem)
      /\ iov.length => iov.data = rem /\ rem >= 0
  BY <1>0, IovWanted
<1>3. b \in Seq(Byte) /\ Len(b) = iov.data
  <2>1. iov.data \in 0 .. Len(part)
    BY <1>0, <1>1
  <2>. QED BY <1>0, <2>1, TakeTyped
<1>. HIDE DEF b
<1>4. /\ got' \in Seq(Seq(Byte)) /\ Message' = Message /\ Message \in 1 .. MaxMessages
      /\ Delivered' = Delivered + iov.data /\ Delivered \in Nat /\ Delivered' \in 0 .. Bound
      /\ need' \in 0 .. Bound /\ Delivered' + need' <= want'[Message']
  BY <1>0, <1>2, <1>3, GivenTypes
<1>5. /\ read \in Nat /\ read <= Delivered /\ rem >= -1 - Delivered
      /\ rem \in -(Bound + 1) .. MaxChunk
  BY <1>0, Constants DEF TypeInv, RecvTypes, Reading, Inside
<1>a. Bound \in Nat /\ MaxChunk \in Nat
  BY Constants
<1>. DEFINE d == Delivered
            e == Delivered'
            x == iov.data
<1>b. /\ e = d + x /\ d \in Nat /\ e \in 0 .. Bound /\ x \in Nat /\ e \in Nat
      /\ read <= d /\ rem >= -1 - d
  BY <1>1, <1>4, <1>5, <1>a
<1>. HIDE DEF d, e, x
<1>6. total \in 0 .. Bound /\ total <= Delivered' /\ 0 \in 0 .. Bound /\ 0 <= Delivered'
  <2>1. read + x \in 0 .. Bound /\ read + x <= e /\ 0 \in 0 .. Bound /\ 0 <= e
    BY <1>5, <1>a, <1>b
  <2>. QED BY <2>1 DEF x, e
<1>7. /\ \/ ~iov.length /\ rem' = rem - iov.data /\ pc' = "deserialize" /\ read' = 0
         \/ /\ iov.length /\ rem' = IF length = 0 THEN -1 ELSE length
            /\ read' = IF length > 0 /\ left > 0 THEN total ELSE 0
            /\ pc' = IF left = 0 THEN "deserialize"
                     ELSE IF length = 0 /\ total = 0 THEN "failed" ELSE "chunk"
  BY <1>1 DEF ChunkDone
<1>8. /\ rem' \in -(Bound + 1) .. MaxChunk /\ rem' >= -1 - Delivered'
      /\ read' \in 0 .. Bound /\ read' <= Delivered'
      /\ pc' \in {"deserialize", "failed", "chunk"}
      /\ pc' = "deserialize" => need' = 0 /\ read' = 0
      /\ pc' = "chunk" => need' > 0
  <2>1. CASE ~iov.length /\ rem' = rem - iov.data /\ pc' = "deserialize" /\ read' = 0
    <3>1. need' = 0
      BY <1>0, <1>1, <1>2, <2>1
    <3>a. rem - x >= -1 - e /\ rem - x <= MaxChunk /\ rem - x \in -(Bound + 1) .. MaxChunk
      BY <1>2, <1>5, <1>a, <1>b
    <3>2. rem - iov.data >= -1 - Delivered' /\ rem - iov.data <= MaxChunk
      BY <3>a DEF x, e
    <3>3. rem' \in -(Bound + 1) .. MaxChunk
      BY <2>1, <3>a DEF x
    <3>. QED BY <1>6, <2>1, <3>1, <3>2, <3>3
  <2>2. CASE /\ iov.length /\ rem' = IF length = 0 THEN -1 ELSE length
             /\ read' = IF length > 0 /\ left > 0 THEN total ELSE 0
             /\ pc' = IF left = 0 THEN "deserialize"
                      ELSE IF length = 0 /\ total = 0 THEN "failed" ELSE "chunk"
    <3>1. rem' \in -(Bound + 1) .. MaxChunk /\ rem' >= -1
      BY <2>2, Constants
    <3>2. rem' >= -1 - Delivered'
      BY <1>4, <3>1, Constants
    <3>3. left \in Nat
      BY <1>1, <1>2
    <3>4. pc' = "deserialize" => need' = 0 /\ read' = 0
      BY <1>0, <2>2, <3>3
    <3>5. pc' = "chunk" => need' > 0
      BY <1>0, <2>2, <3>3
    <3>. HIDE DEF total, left
    <3>6. read' \in 0 .. Bound /\ read' <= Delivered' /\ pc' \in {"deserialize", "failed", "chunk"}
      BY <1>6, <2>2
    <3>. QED BY <3>1, <3>2, <3>4, <3>5, <3>6
  <2>. QED BY <1>7, <2>1, <2>2
<1>9. Len(part') = 0 /\ part' \in Seq(Byte) /\ Total' = Total /\ Len(part') <= Total'
  <2>1. Len(part') = 0 /\ part' \in Seq(Byte)
    BY <1>0, EmptySeq
  <2>2. Total' = Total
    BY <1>0 DEF Total
  <2>. QED BY <1>1, <2>1, <2>2
<1>10. RecvTypes'
  BY <1>0, <1>4, <1>8, <1>9 DEF RecvTypes
<1>11. Reading'
  <2>1. reply' \in [1 .. MaxMessages -> Cuts] /\ want' \in [1 .. MaxMessages -> 1 .. Bound]
    BY <1>0 DEF TypeInv, Reading, Receiving
  <2>. QED BY <1>4, <1>8, <2>1 DEF Reading, Receiving, Inside
<1>12. SendTypes' /\ PlaceTypes'
  BY <1>0, <1>8, ReceivingKeepsSending DEF Receiving
<1>. QED BY <1>10, <1>11, <1>12 DEF TypeInv

LEMMA MessageDoneTypes ==
  ASSUME TypeInv, MessageDone
  PROVE  TypeInv'
<1>0. pc = "deserialize" /\ pc' = "receiver" /\ UNCHANGED <<ndebug, up, reply, want, sendVars, recvVars>>
  BY DEF MessageDone
<1>1. RecvTypes' /\ Reading'
  BY <1>0 DEF TypeInv, RecvTypes, Reading, Receiving, Inside, Total, recvVars
<1>2. SendTypes' /\ PlaceTypes'
  BY <1>0, ReceivingKeepsSending DEF Receiving
<1>. QED BY <1>1, <1>2 DEF TypeInv

LEMMA TypeStep ==
  ASSUME TypeInv, [Next]_vars
  PROVE  TypeInv'
<1>1. CASE Send
  BY <1>1, StartMessageTypes, CloseMessageTypes, RingAssertFailsTypes, WriteBufferedTypes, WriteFailsTypes,
     WrittenTypes, FlushNothingTypes, SerializeTypes, WriteThroughTypes, FlushTypes, FlushFailsTypes DEF Send
<1>2. CASE Receive
  BY <1>2, NextMessageTypes, ChunkReadTypes, ReadBufferedTypes, MessageDoneTypes, ReadAllTypes,
     ReadThroughTypes, ReadEndsTypes, ChunkDoneTypes DEF Receive, Bound
<1>3. CASE SocketFails
  BY <1>3, SocketFailsTypes
<1>4. CASE UNCHANGED vars
  BY <1>4 DEF vars, sendVars, recvVars, TypeInv, PlaceTypes, SendTypes, RecvTypes, Reading,
     Inside, Delivered, Message, Total
<1>. QED BY <1>1, <1>2, <1>3, <1>4 DEF Next

\* Whatever the calls of the streams and the socket do, what they keep has its
\* type: in particular rb_append never exceeds the ring, and chunking_read is
\* never asked for more than the message announces.
THEOREM TypeInvariant == Spec => []TypeInv
<1>1. Init => TypeInv
  BY TypeInit
<1>2. TypeInv /\ [Next]_vars => TypeInv'
  BY TypeStep
<1>. QED BY <1>1, <1>2, PTL DEF Spec

\* The positions and counts of the streams stay in their bounds.
THEOREM TypeTheorem == Spec => []TypeOK
<1>1. TypeInv => TypeOK
  BY TypeImplied
<1>. QED BY <1>1, TypeInvariant, PTL

-----------------------------------------------------------------------------
(* Sequences of which one is the beginning of the other.                    *)
LEMMA Regroup ==
  ASSUME NEW S, NEW s \in Seq(S), NEW t \in Seq(S), NEW u \in Seq(S)
  PROVE  (s \o t) \o u = s \o (t \o u)
BY ConcatAssociative

LEMMA SameParts ==
  ASSUME NEW S, NEW a \in Seq(S), NEW b \in Seq(S), NEW x \in Seq(S), NEW y \in Seq(S),
         a \o b = x \o y, Len(a) = Len(x)
  PROVE  a = x /\ b = y
<1>. DEFINE s == a \o b
<1>1. /\ Len(a) \in Nat /\ Len(b) \in Nat /\ Len(y) \in Nat
  BY LenProperties
<1>2. /\ Len(s) = Len(a) + Len(b)
      /\ \A i \in 1 .. Len(a) + Len(b) : s[i] = IF i <= Len(a) THEN a[i] ELSE b[i - Len(a)]
  BY ConcatProperties
<1>3. /\ Len(s) = Len(x) + Len(y)
      /\ \A i \in 1 .. Len(x) + Len(y) : s[i] = IF i <= Len(x) THEN x[i] ELSE y[i - Len(x)]
  <2>1. s = x \o y
    OBVIOUS
  <2>. HIDE DEF s
  <2>. QED BY <2>1, ConcatProperties
<1>. HIDE DEF s
<1>4. Len(b) = Len(y)
  BY <1>1, <1>2, <1>3
<1>5. ASSUME NEW i \in 1 .. Len(a) PROVE a[i] = x[i]
  <2>1. i \in 1 .. Len(a) + Len(b) /\ i \in 1 .. Len(x) + Len(y) /\ i <= Len(a) /\ i <= Len(x)
    BY <1>1
  <2>. QED BY <1>2, <1>3, <2>1
<1>6. ASSUME NEW i \in 1 .. Len(b) PROVE b[i] = y[i]
  <2>1. PICK k \in 1 .. Len(a) + Len(b) : k = Len(a) + i /\ k - Len(a) = i /\ ~(k <= Len(a))
    BY <1>1
  <2>2. k \in 1 .. Len(x) + Len(y) /\ k - Len(x) = i /\ ~(k <= Len(x))
    BY <1>4, <2>1
  <2>3. s[k] = b[i]
    BY <1>2, <2>1
  <2>4. s[k] = y[i]
    BY <1>3, <2>2
  <2>. QED BY <2>3, <2>4
<1>7. a = x
  BY <1>5, SeqEqual
<1>8. b = y
  BY <1>4, <1>6, SeqEqual
<1>. QED BY <1>7, <1>8

\* a is the beginning of s.
Leads(a, s) == \E u \in Seq(Byte) : a \o u = s

LEMMA LeadsRest ==
  ASSUME NEW a \in Seq(Byte), NEW b \in Seq(Byte), NEW x \in Seq(Byte), NEW y \in Seq(Byte),
         Leads(a \o b, x \o y), Len(a) = Len(x)
  PROVE  a = x /\ Leads(b, y)
<1>1. PICK u \in Seq(Byte) : (a \o b) \o u = x \o y
  BY DEF Leads
<1>0. a \in Seq(Byte) /\ b \in Seq(Byte) /\ u \in Seq(Byte)
  BY <1>1
<1>2. b \o u \in Seq(Byte)
  BY ONLY <1>0, ConcatProperties
<1>3. (a \o b) \o u = a \o (b \o u)
  BY ONLY <1>0, Regroup
<1>4. a \o (b \o u) = x \o y
  BY <1>1, <1>3
<1>. DEFINE v == b \o u
<1>5. a \o v = x \o y /\ v \in Seq(Byte)
  BY <1>2, <1>4
<1>. HIDE DEF v
<1>6. a = x /\ v = y
  BY <1>5, SameParts
<1>. QED BY <1>1, <1>6 DEF Leads, v

LEMMA LeadsBegins ==
  ASSUME NEW a \in Seq(Byte), NEW b \in Seq(Byte), NEW s \in Seq(Byte), Leads(a \o b, s)
  PROVE  Leads(a, s)
<1>1. PICK u \in Seq(Byte) : (a \o b) \o u = s
  BY DEF Leads
<1>0. a \in Seq(Byte) /\ b \in Seq(Byte) /\ u \in Seq(Byte)
  BY <1>1
<1>2. b \o u \in Seq(Byte)
  BY ONLY <1>0, ConcatProperties
<1>3. (a \o b) \o u = a \o (b \o u)
  BY ONLY <1>0, Regroup
<1>. QED BY <1>1, <1>2, <1>3 DEF Leads

LEMMA LeadsSame ==
  ASSUME NEW a \in Seq(Byte), NEW s \in Seq(Byte), Leads(a, s)
  PROVE  Len(a) <= Len(s) /\ \A i \in 1 .. Len(a) : a[i] = s[i]
<1>1. PICK u \in Seq(Byte) : a \o u = s
  BY DEF Leads
<1>2. /\ Len(a \o u) = Len(a) + Len(u)
      /\ \A i \in 1 .. Len(a) + Len(u) : (a \o u)[i] = IF i <= Len(a) THEN a[i] ELSE u[i - Len(a)]
  BY ConcatProperties
<1>3. Len(a) \in Nat /\ Len(u) \in Nat
  BY LenProperties
<1>4. \A i \in 1 .. Len(a) : i \in 1 .. Len(a) + Len(u) /\ i <= Len(a)
  BY <1>3
<1>5. Len(s) = Len(a) + Len(u) /\ \A i \in 1 .. Len(a) : s[i] = a[i]
  BY <1>1, <1>2, <1>4
<1>. QED BY <1>3, <1>5

LEMMA LeadsSelf ==
  ASSUME NEW s \in Seq(Byte), NEW n \in 0 .. Len(s)
  PROVE  Leads(SubSeq(s, 1, n), s)
<1>1. n + 1 \in 1 .. Len(s) + 1
  OBVIOUS
<1>2. From(s, n + 1) \in Seq(Byte)
  BY <1>1, FromTyped
<1>. QED BY <1>2, TakeAndFrom DEF Leads

-----------------------------------------------------------------------------
(* What is left of what the server sent, from message m on, and from chunk  *)
(* j of message m on.                                                       *)
StreamFrom(r, m) == FlattenSeq(From(FramesOf(r), m))
ChunksFrom(r, m, j) == FlattenSeq(From(ChunksOf(r[m], m), j)) \o (Header(0) \o StreamFrom(r, m + 1))

Replies == [1 .. MaxMessages -> Cuts]

LEMMA StreamFromTyped ==
  ASSUME NEW r \in Replies, NEW m \in 1 .. MaxMessages + 1
  PROVE  StreamFrom(r, m) \in Seq(Byte)
<1>1. FramesOf(r) \in Seq(Seq(Byte)) /\ Len(FramesOf(r)) = MaxMessages
  BY FramesTyped DEF Replies
<1>2. From(FramesOf(r), m) \in Seq(Seq(Byte))
  BY <1>1, FromTyped
<1>. QED BY <1>2, FlattenTyped DEF StreamFrom

LEMMA StreamWhole ==
  ASSUME NEW r \in Replies
  PROVE  Stream(r) = StreamFrom(r, 1) /\ Stream(r) \in Seq(Byte)
<1>1. FramesOf(r) \in Seq(Seq(Byte)) /\ Stream(r) = FlattenSeq(FramesOf(r))
      /\ Stream(r) \in Seq(Byte)
  BY FramesTyped DEF Replies
<1>. QED BY <1>1, FromAll DEF StreamFrom

LEMMA ReplyCut ==
  ASSUME NEW r \in Replies, NEW m \in 1 .. MaxMessages
  PROVE  /\ r[m] \in Seq(Nat \ {0}) /\ Len(r[m]) \in Nat \ {0} /\ m \in Nat
         /\ m + 1 \in 1 .. MaxMessages + 1
         /\ SumOf(r[m]) \in Nat \ {0}
         /\ \A j \in 1 .. Len(r[m]) : r[m][j] \in 1 .. MaxChunk
<1>1. r[m] \in Cuts
  BY DEF Replies
<1>2. m \in Nat /\ m + 1 \in 1 .. MaxMessages + 1
  BY Constants
<1>3. /\ r[m] \in Seq(Nat \ {0}) /\ SumOf(r[m]) \in 1 .. MaxReply /\ Len(r[m]) > 0
      /\ \A j \in 1 .. Len(r[m]) : r[m][j] \in 1 .. MaxChunk
  BY <1>1, CutTyped
<1>4. Len(r[m]) \in Nat
  BY <1>3, LenProperties
<1>. QED BY <1>2, <1>3, <1>4, Constants

LEMMA ChunksFromTyped ==
  ASSUME NEW r \in Replies, NEW m \in 1 .. MaxMessages, NEW j \in 1 .. Len(r[m]) + 1
  PROVE  ChunksFrom(r, m, j) \in Seq(Byte)
<1>1. r[m] \in Seq(Nat \ {0}) /\ m \in Nat /\ m + 1 \in 1 .. MaxMessages + 1
  BY ReplyCut
<1>2. ChunksOf(r[m], m) \in Seq(Seq(Byte)) /\ Len(ChunksOf(r[m], m)) = Len(r[m])
  BY <1>1, ChunksTyped
<1>3. From(ChunksOf(r[m], m), j) \in Seq(Seq(Byte))
  BY <1>2, FromTyped
<1>4. FlattenSeq(From(ChunksOf(r[m], m), j)) \in Seq(Byte)
  BY <1>3, FlattenTyped
<1>5. Header(0) \in Seq(Byte) /\ StreamFrom(r, m + 1) \in Seq(Byte)
  BY <1>1, HeaderTyped, StreamFromTyped
<1>. QED BY <1>4, <1>5, ConcatProperties DEF ChunksFrom

LEMMA StreamStep ==
  ASSUME NEW r \in Replies, NEW m \in 1 .. MaxMessages
  PROVE  StreamFrom(r, m) = ChunksFrom(r, m, 1)
<1>. DEFINE f == FramesOf(r)
            c == ChunksOf(r[m], m)
            x == FlattenSeq(c)
            h == Header(0)
            y == StreamFrom(r, m + 1)
<1>1. f \in Seq(Seq(Byte)) /\ Len(f) = MaxMessages /\ f[m] = Framed(r[m], m)
  BY FramesTyped DEF Replies
<1>2. r[m] \in Seq(Nat \ {0}) /\ m \in Nat /\ m + 1 \in 1 .. MaxMessages + 1
  BY ReplyCut
<1>3. StreamFrom(r, m) = f[m] \o y
  <2>. HIDE DEF f
  <2>1. FlattenSeq(From(f, m)) = f[m] \o FlattenSeq(From(f, m + 1))
    BY <1>1, FlattenFrom
  <2>. QED BY <2>1 DEF StreamFrom, f
<1>4. f[m] = x \o h
  BY <1>1, <1>2, FramedTyped
<1>5. c \in Seq(Seq(Byte))
  BY <1>2, ChunksTyped
<1>. HIDE DEF c
<1>6. From(c, 1) = c /\ x \in Seq(Byte) /\ h \in Seq(Byte) /\ y \in Seq(Byte)
  BY <1>2, <1>5, FromAll, FlattenTyped, HeaderTyped, StreamFromTyped
<1>7. ChunksFrom(r, m, 1) = x \o (h \o y)
  BY <1>6 DEF ChunksFrom, c
<1>. HIDE DEF x, h, y, f
<1>8. (x \o h) \o y = x \o (h \o y)
  BY <1>6, Regroup
<1>. QED BY <1>3, <1>4, <1>7, <1>8

LEMMA ChunkStep ==
  ASSUME NEW r \in Replies, NEW m \in 1 .. MaxMessages, NEW j \in 1 .. Len(r[m])
  PROVE  ChunksFrom(r, m, j) =
           Header(r[m][j]) \o
             (Payload(m, Sums(r[m])[j - 1] + 1, Sums(r[m])[j]) \o ChunksFrom(r, m, j + 1))
<1>. DEFINE s == r[m]
            c == ChunksOf(s, m)
            h == Header(s[j])
            p == Payload(m, Sums(s)[j - 1] + 1, Sums(s)[j])
            x == FlattenSeq(From(c, j + 1))
            y == Header(0) \o StreamFrom(r, m + 1)
<1>1. /\ s \in Seq(Nat \ {0}) /\ m \in Nat /\ m + 1 \in 1 .. MaxMessages + 1
      /\ Len(s) \in Nat
  BY ReplyCut
<1>2. c \in Seq(Seq(Byte)) /\ Len(c) = Len(s) /\ c[j] = Chunk(s, m, j)
  BY <1>1, ChunksTyped
<1>3. c[j] = h \o p
  BY <1>2 DEF Chunk
<1>4. /\ j - 1 \in 0 .. Len(s) /\ j \in 0 .. Len(s) /\ s[j] \in Nat /\ j + 1 \in 1 .. Len(s) + 1
  BY <1>1, ElementOfSeq
<1>5. Sums(s)[j - 1] \in Nat /\ Sums(s)[j] \in Nat
  BY <1>1, <1>4, SumsRecursion
<1>6. Sums(s)[j - 1] + 1 \in Nat \ {0}
  BY <1>5
<1>7. h \in Seq(Byte) /\ p \in Seq(Byte)
  BY <1>1, <1>4, <1>5, <1>6, HeaderTyped, PayloadTyped
<1>. HIDE DEF c
<1>8. x \in Seq(Byte)
  <2>1. From(c, j + 1) \in Seq(Seq(Byte))
    BY <1>2, <1>4, FromTyped
  <2>. QED BY <2>1, FlattenTyped
<1>9. y \in Seq(Byte)
  BY <1>1, HeaderTyped, StreamFromTyped, ConcatProperties
<1>10. FlattenSeq(From(c, j)) = c[j] \o x
  BY <1>2, FlattenFrom
<1>11. ChunksFrom(r, m, j) = ((h \o p) \o x) \o y
  BY <1>3, <1>10 DEF ChunksFrom, c
<1>12. ChunksFrom(r, m, j + 1) = x \o y
  BY DEF ChunksFrom, c
<1>. HIDE DEF h, p, x, y
<1>13. h \o p \in Seq(Byte) /\ x \o y \in Seq(Byte)
  BY <1>7, <1>8, <1>9, ConcatProperties
<1>14. ((h \o p) \o x) \o y = (h \o p) \o (x \o y)
  BY <1>8, <1>9, <1>13, Regroup
<1>. DEFINE z == x \o y
<1>. HIDE DEF z
<1>17. h \in Seq(Byte) /\ p \in Seq(Byte) /\ z \in Seq(Byte)
  BY <1>7, <1>13 DEF z
<1>18. (h \o p) \o z = h \o (p \o z)
  BY ONLY <1>17, Regroup
<1>15. (h \o p) \o (x \o y) = h \o (p \o (x \o y))
  BY <1>18 DEF z
<1>16. ChunksFrom(r, m, j) = h \o (p \o ChunksFrom(r, m, j + 1))
  BY <1>11, <1>12, <1>14, <1>15
<1>. QED BY <1>16 DEF h, p

LEMMA ChunksEnd ==
  ASSUME NEW r \in Replies, NEW m \in 1 .. MaxMessages
  PROVE  ChunksFrom(r, m, Len(r[m]) + 1) = Header(0) \o StreamFrom(r, m + 1)
<1>. DEFINE s == r[m]
            c == ChunksOf(s, m)
            y == Header(0) \o StreamFrom(r, m + 1)
<1>1. s \in Seq(Nat \ {0}) /\ m \in Nat /\ m + 1 \in 1 .. MaxMessages + 1
  BY ReplyCut
<1>2. c \in Seq(Seq(Byte)) /\ Len(c) = Len(s)
  BY <1>1, ChunksTyped
<1>. HIDE DEF c
<1>3. FlattenSeq(From(c, Len(c) + 1)) = <<>>
  BY <1>2, FlattenFromEnd
<1>4. y \in Seq(Byte)
  BY <1>1, HeaderTyped, StreamFromTyped, ConcatProperties
<1>5. ChunksFrom(r, m, Len(s) + 1) = <<>> \o y
  BY <1>2, <1>3 DEF ChunksFrom, c
<1>. QED BY <1>4, <1>5, ConcatEmptySeq

(* What is left starts with the n bytes that complete chunk j of message m, *)
(* d bytes of which have been given.                                        *)
InChunk(r, m, d, n, j, left) ==
  /\ j \in 0 .. Len(r[m]) /\ n \in Nat /\ d \in Nat
  /\ d + n = Sums(r[m])[j] /\ (n = 0 => j = 0)
  /\ Leads(left, Payload(m, d + 1, d + n) \o ChunksFrom(r, m, j + 1))

\* All of message m has been taken from the stream.
AtEnd(r, m, d, left) == d = SumOf(r[m]) /\ Leads(left, StreamFrom(r, m + 1))

LEMMA InChunkTyped ==
  ASSUME NEW r \in Replies, NEW m \in 1 .. MaxMessages, NEW d, NEW n, NEW j, NEW left,
         InChunk(r, m, d, n, j, left)
  PROVE  /\ j \in 0 .. Len(r[m]) /\ j + 1 \in 1 .. Len(r[m]) + 1 /\ n \in Nat /\ d \in Nat /\ m \in Nat
         /\ ChunksFrom(r, m, j + 1) \in Seq(Byte) /\ Payload(m, d + 1, d + n) \in Seq(Byte)
         /\ Len(Payload(m, d + 1, d + n)) = n
<1>1. j \in 0 .. Len(r[m]) /\ n \in Nat /\ d \in Nat /\ m \in Nat /\ Len(r[m]) \in Nat
  BY ReplyCut DEF InChunk
<1>2. j + 1 \in 1 .. Len(r[m]) + 1 /\ d + 1 \in Nat \ {0} /\ d + n \in Nat
      /\ d + 1 <= d + n + 1 /\ d + n + 1 - (d + 1) = n
  BY <1>1
<1>3. ChunksFrom(r, m, j + 1) \in Seq(Byte)
  BY <1>2, ChunksFromTyped
<1>4. Payload(m, d + 1, d + n) \in Seq(Byte) /\ Len(Payload(m, d + 1, d + n)) = n
  <2>. DEFINE a == d + 1
              b == d + n
  <2>. HIDE DEF a, b
  <2>1. /\ Payload(m, a, b) \in Seq(Byte)
        /\ Len(Payload(m, a, b)) = IF a <= b + 1 THEN b + 1 - a ELSE 0
    BY <1>1, <1>2, PayloadTyped DEF a, b
  <2>2. a <= b + 1 /\ b + 1 - a = n
    BY <1>2 DEF a, b
  <2>. QED BY <2>1, <2>2 DEF a, b
<1>. QED BY <1>1, <1>2, <1>3, <1>4

\* x bytes more, which are p, are taken, and q is left.
Takes(p, x, n) == x \in 0 .. n /\ Len(p) = x
Taken(r, m, d, n, j, p, q, x) ==
  /\ p = Payload(m, d + 1, d + x)
  /\ x < n => InChunk(r, m, d + x, n - x, j, q)
  /\ x = n => Leads(q, ChunksFrom(r, m, j + 1))

LEMMA TakeInChunk ==
  ASSUME NEW r \in Replies, NEW m \in 1 .. MaxMessages, NEW d, NEW n, NEW j,
         NEW p \in Seq(Byte), NEW q \in Seq(Byte), NEW x, Takes(p, x, n),
         InChunk(r, m, d, n, j, p \o q)
  PROVE  Taken(r, m, d, n, j, p, q, x)
<1>. DEFINE s == Payload(m, d + 1, d + n)
            t == Payload(m, d + 1, d + x)
            u == Payload(m, d + x + 1, d + n)
            c == ChunksFrom(r, m, j + 1)
<1>0. /\ j \in 0 .. Len(r[m]) /\ n \in Nat /\ d \in Nat /\ m \in Nat /\ x \in Nat /\ x <= n
      /\ c \in Seq(Byte) /\ Len(p) = x
  BY InChunkTyped DEF Takes
<1>1. /\ d + 1 \in Nat \ {0} /\ d + x \in Nat /\ d + n \in Nat /\ d + x + 1 \in Nat \ {0}
      /\ d + 1 <= d + x + 1 /\ d + x <= d + n /\ d + x + 1 - (d + 1) = x
  BY <1>0
<1>2. s = t \o u
  <2>. DEFINE a == d + 1
              b == d + x
              e == d + n
  <2>. HIDE DEF a, b, e
  <2>1. a \in Nat \ {0} /\ b \in Nat /\ e \in Nat /\ a <= b + 1 /\ b <= e /\ m \in Nat
    BY <1>0, <1>1 DEF a, b, e
  <2>2. Payload(m, a, e) = Payload(m, a, b) \o Payload(m, b + 1, e)
    BY <2>1, PayloadSplit
  <2>. QED BY <2>2 DEF a, b, e
<1>3. t \in Seq(Byte) /\ Len(t) = x
  <2>. DEFINE a == d + 1
              b == d + x
  <2>. HIDE DEF a, b
  <2>1. /\ Payload(m, a, b) \in Seq(Byte)
        /\ Len(Payload(m, a, b)) = IF a <= b + 1 THEN b + 1 - a ELSE 0
    BY <1>0, <1>1, PayloadTyped DEF a, b
  <2>2. a <= b + 1 /\ b + 1 - a = x
    BY <1>1 DEF a, b
  <2>. QED BY <2>1, <2>2 DEF a, b
<1>4. u \in Seq(Byte) /\ (x = n => u = <<>>)
  <2>. DEFINE a == d + x + 1
              b == d + n
  <2>. HIDE DEF a, b
  <2>1. Payload(m, a, b) \in Seq(Byte) /\ (Payload(m, a, b) = <<>> <=> b < a)
    BY <1>0, <1>1, PayloadTyped DEF a, b
  <2>2. x = n => b < a
    BY <1>0 DEF a, b
  <2>. QED BY <2>1, <2>2 DEF a, b
<1>5. Leads(p \o q, s \o c)
  BY DEF InChunk
<1>. HIDE DEF s, t, u, c
<1>a. t \in Seq(Byte) /\ u \in Seq(Byte) /\ c \in Seq(Byte)
  BY <1>0, <1>3, <1>4
<1>6. (t \o u) \o c = t \o (u \o c)
  BY ONLY <1>a, Regroup
<1>7. u \o c \in Seq(Byte) /\ (u = <<>> => u \o c = c)
  BY <1>0, <1>4, ConcatProperties, ConcatEmptySeq
<1>8. p = t /\ Leads(q, u \o c)
  <2>. DEFINE v == u \o c
  <2>1. v \in Seq(Byte) /\ Leads(p \o q, t \o v)
    BY <1>2, <1>5, <1>6, <1>7
  <2>. HIDE DEF v
  <2>2. p = t /\ Leads(q, v)
    BY <1>0, <1>3, <2>1, LeadsRest
  <2>. QED BY <2>2 DEF v
<1>9. x = n => Leads(q, c)
  BY <1>4, <1>7, <1>8
<1>10. x < n => InChunk(r, m, d + x, n - x, j, q)
  <2>. SUFFICES ASSUME x < n PROVE InChunk(r, m, d + x, n - x, j, q)
    OBVIOUS
  <2>1. d + x \in Nat /\ n - x \in Nat /\ n - x # 0 /\ d + x + (n - x) = d + n
    BY <1>0
  <2>2. d + n = Sums(r[m])[j]
    BY DEF InChunk
  <2>3. Leads(q, Payload(m, d + x + 1, d + x + (n - x)) \o ChunksFrom(r, m, j + 1))
    BY <1>8, <2>1 DEF u, c
  <2>. QED BY <1>0, <2>1, <2>2, <2>3 DEF InChunk
<1>. QED BY <1>8, <1>9, <1>10 DEF t, c, Taken

\* The two bytes behind chunk j are l, and q is left behind them.
Passed(r, m, d, j, l, q) ==
  /\ j \in 0 .. Len(r[m]) /\ d \in Nat /\ d = Sums(r[m])[j]
  /\ Len(l) = 2 /\ Leads(l \o q, ChunksFrom(r, m, j + 1))
Continues(r, m, d, l, q) ==
  \E n \in Nat : /\ LengthsOf(l) = {n}
                 /\ n > 0 => \E i : InChunk(r, m, d, n, i, q)
                 /\ n = 0 => AtEnd(r, m, d, q)

LEMMA LengthBehind ==
  ASSUME NEW r \in Replies, NEW m \in 1 .. MaxMessages, NEW d, NEW j,
         NEW l \in Seq(Byte), NEW q \in Seq(Byte), Passed(r, m, d, j, l, q)
  PROVE  Continues(r, m, d, l, q)
<1>0. /\ j \in 0 .. Len(r[m]) /\ d \in Nat /\ d = Sums(r[m])[j]
      /\ Len(l) = 2 /\ Leads(l \o q, ChunksFrom(r, m, j + 1))
  BY DEF Passed
<1>1. /\ r[m] \in Seq(Nat \ {0}) /\ Len(r[m]) \in Nat \ {0} /\ m \in Nat /\ m + 1 \in 1 .. MaxMessages + 1
      /\ j \in Nat
  BY <1>0, ReplyCut
<1>2. ASSUME NEW n \in Nat, l = Header(n) PROVE LengthsOf(l) = {n}
  BY <1>2, HeaderTyped DEF LengthsOf
<1>3. CASE j < Len(r[m])
  <2>. DEFINE k == j + 1
              n == r[m][k]
              p == Payload(m, Sums(r[m])[j] + 1, Sums(r[m])[k])
              c == ChunksFrom(r, m, k + 1)
  <2>1. k \in 1 .. Len(r[m]) /\ k - 1 = j /\ k + 1 \in 1 .. Len(r[m]) + 1 /\ k \in 0 .. Len(r[m])
    BY <1>0, <1>1, <1>3
  <2>2. n \in Nat /\ n > 0
    BY <1>1, <2>1, ElementOfSeq
  <2>3. Sums(r[m])[k] = d + n /\ d + n \in Nat /\ d + 1 \in Nat \ {0}
    <3>. HIDE DEF k
    <3>1. Sums(r[m])[k] = Sums(r[m])[k - 1] + r[m][k]
      BY <1>1, <2>1, SumsRecursion
    <3>2. Sums(r[m])[k - 1] = d
      BY <1>0, <2>1
    <3>. HIDE DEF n
    <3>3. Sums(r[m])[k] = d + n
      BY <3>1, <3>2 DEF n
    <3>. QED BY <1>0, <2>2, <3>3
  <2>4. ChunksFrom(r, m, j + 1) = Header(n) \o (p \o c)
    <3>. HIDE DEF k
    <3>1. ChunksFrom(r, m, k) = Header(r[m][k]) \o (Payload(m, Sums(r[m])[k - 1] + 1, Sums(r[m])[k]) \o ChunksFrom(r, m, k + 1))
      BY <2>1, ChunkStep
    <3>. QED BY <2>1, <3>1 DEF k
  <2>5. c \in Seq(Byte) /\ Header(n) \in Seq(Byte) /\ Len(Header(n)) = 2
    BY <2>1, <2>2, ChunksFromTyped, HeaderTyped
  <2>6. p = Payload(m, d + 1, d + n) /\ p \in Seq(Byte)
    <3>1. p = Payload(m, d + 1, d + n)
      BY <1>0, <2>3
    <3>. DEFINE a == d + 1
                b == d + n
    <3>. HIDE DEF a, b
    <3>2. Payload(m, a, b) \in Seq(Byte)
      BY <1>1, <2>3, PayloadTyped DEF a, b
    <3>. QED BY <3>1, <3>2 DEF a, b
  <2>7. p \o c \in Seq(Byte)
    BY <2>5, <2>6, ConcatProperties
  <2>8. l = Header(n) /\ Leads(q, p \o c)
    <3>. DEFINE h == Header(n)
                v == p \o c
    <3>. HIDE DEF h, v
    <3>1. h \in Seq(Byte) /\ v \in Seq(Byte) /\ Len(l) = Len(h) /\ Leads(l \o q, h \o v)
      BY <1>0, <2>4, <2>5, <2>7 DEF h, v
    <3>2. l = h /\ Leads(q, v)
      BY <3>1, LeadsRest
    <3>. QED BY <3>2 DEF h, v
  <2>9. InChunk(r, m, d, n, k, q)
    <3>. HIDE DEF k, n
    <3>1. n # 0 /\ k \in 0 .. Len(r[m])
      BY <2>1, <2>2
    <3>2. Leads(q, Payload(m, d + 1, d + n) \o ChunksFrom(r, m, k + 1))
      BY <2>6, <2>8
    <3>. QED BY <1>0, <2>2, <2>3, <3>1, <3>2 DEF InChunk
  <2>10. LengthsOf(l) = {n}
    BY <1>2, <2>2, <2>8
  <2>. QED BY <2>2, <2>9, <2>10 DEF Continues
<1>4. CASE ~(j < Len(r[m]))
  <2>. DEFINE h == Header(0)
              v == StreamFrom(r, m + 1)
  <2>1. j = Len(r[m])
    BY <1>0, <1>1, <1>4
  <2>2. h \in Seq(Byte) /\ v \in Seq(Byte) /\ Len(h) = 2
    BY <1>1, HeaderTyped, StreamFromTyped
  <2>3. ChunksFrom(r, m, j + 1) = h \o v
    BY <2>1, ChunksEnd
  <2>. HIDE DEF h, v
  <2>a. Len(l) = Len(h) /\ Leads(l \o q, h \o v)
    BY <1>0, <2>2, <2>3
  <2>4. l = h /\ Leads(q, v)
    BY <2>2, <2>a, LeadsRest
  <2>5. LengthsOf(l) = {0}
    BY <1>2, <2>4 DEF h
  <2>6. AtEnd(r, m, d, q)
    BY <1>0, <2>1, <2>4 DEF AtEnd, v, SumOf
  <2>. QED BY <2>5, <2>6 DEF Continues
<1>. QED BY <1>3, <1>4

\* The start of a message.
LEMMA MessageStarts ==
  ASSUME NEW r \in Replies, NEW m \in 1 .. MaxMessages, NEW left, Leads(left, StreamFrom(r, m))
  PROVE  InChunk(r, m, 0, 0, 0, left)
<1>1. r[m] \in Seq(Nat \ {0}) /\ Len(r[m]) \in Nat \ {0} /\ m \in Nat
  BY ReplyCut
<1>2. Sums(r[m])[0] = 0 /\ 0 \in 0 .. Len(r[m])
  BY <1>1, SumsRecursion
<1>. DEFINE p == Payload(m, 0 + 1, 0 + 0)
            c == ChunksFrom(r, m, 0 + 1)
<1>3. p = <<>>
  <2>1. Payload(m, 1, 0) = <<>>
    BY <1>1, PayloadTyped
  <2>. QED BY <2>1
<1>4. c \in Seq(Byte) /\ c = StreamFrom(r, m)
  <2>1. 0 + 1 = 1 /\ 1 \in 1 .. Len(r[m]) + 1
    BY <1>1
  <2>. QED BY <2>1, StreamStep, ChunksFromTyped
<1>. HIDE DEF p, c
<1>5. p \o c = StreamFrom(r, m)
  BY <1>3, <1>4, ConcatEmptySeq
<1>6. Leads(left, p \o c)
  BY <1>5
<1>7. 0 + 0 = Sums(r[m])[0] /\ 0 \in Nat
  BY <1>2
<1>. QED BY <1>2, <1>6, <1>7 DEF InChunk, p, c

\* Where nothing of the message is missing, its end has been taken.
LEMMA NothingMissing ==
  ASSUME NEW r \in Replies, NEW m \in 1 .. MaxMessages, NEW n, NEW j, NEW left
  PROVE  ~InChunk(r, m, SumOf(r[m]), n, j, left)
<1>. SUFFICES ASSUME InChunk(r, m, SumOf(r[m]), n, j, left) PROVE FALSE
  OBVIOUS
<1>1. r[m] \in Seq(Nat \ {0}) /\ SumOf(r[m]) \in Nat \ {0}
  BY ReplyCut
<1>2. j \in 0 .. Len(r[m]) /\ n \in Nat /\ SumOf(r[m]) + n = Sums(r[m])[j] /\ (n = 0 => j = 0)
  BY DEF InChunk
<1>3. Sums(r[m])[j] <= SumOf(r[m]) /\ Sums(r[m])[j] \in Nat
  BY <1>1, <1>2, SumsGrow, SumsRecursion
<1>4. n = 0
  BY <1>1, <1>2, <1>3
<1>5. Sums(r[m])[0] = 0
  BY <1>1, SumsRecursion
<1>. QED BY <1>1, <1>2, <1>4, <1>5

-----------------------------------------------------------------------------
(* What has been given to the deserializer for message m: the first of its  *)
(* bytes, and behind them what a failed read left unwritten.                *)
Prefix(g, m) ==
  \E n \in 0 .. Len(g) : /\ SubSeq(g, 1, n) = Payload(m, 1, n)
                         /\ \A i \in (n + 1) .. Len(g) : g[i] = Nothing

LEMMA WholePrefix ==
  ASSUME NEW g \in Seq(Byte), NEW m, g = Payload(m, 1, Len(g))
  PROVE  Prefix(g, m)
<1>1. Len(g) \in Nat /\ SubSeq(g, 1, Len(g)) = g
  BY SubSeqFull, LenProperties
<1>2. Len(g) \in 0 .. Len(g) /\ \A i \in (Len(g) + 1) .. Len(g) : g[i] = Nothing
  BY <1>1
<1>. QED BY <1>1, <1>2 DEF Prefix

LEMMA PrefixAndNothing ==
  ASSUME NEW g \in Seq(Byte), NEW m, Prefix(g, m), NEW z \in Seq(Byte),
         \A i \in 1 .. Len(z) : z[i] = Nothing
  PROVE  Prefix(g \o z, m)
<1>. DEFINE h == g \o z
<1>1. PICK n \in 0 .. Len(g) : /\ SubSeq(g, 1, n) = Payload(m, 1, n)
                               /\ \A i \in (n + 1) .. Len(g) : g[i] = Nothing
  BY DEF Prefix
<1>2. Len(g) \in Nat /\ Len(z) \in Nat /\ n \in Nat /\ n <= Len(g)
  BY LenProperties
<1>3. /\ h \in Seq(Byte) /\ Len(h) = Len(g) + Len(z)
      /\ \A i \in 1 .. Len(g) + Len(z) : h[i] = IF i <= Len(g) THEN g[i] ELSE z[i - Len(g)]
  BY ConcatProperties
<1>4. n \in 0 .. Len(h)
  BY <1>2, <1>3
<1>. HIDE DEF h
<1>5. SubSeq(h, 1, n) = SubSeq(g, 1, n)
  <2>1. SubSeq(h, 1, n) \in Seq(Byte) /\ Len(SubSeq(h, 1, n)) = n
        /\ \A i \in 1 .. n : SubSeq(h, 1, n)[i] = h[i]
    BY <1>3, <1>4, TakeTyped
  <2>2. SubSeq(g, 1, n) \in Seq(Byte) /\ Len(SubSeq(g, 1, n)) = n
        /\ \A i \in 1 .. n : SubSeq(g, 1, n)[i] = g[i]
    BY <1>1, TakeTyped
  <2>3. \A i \in 1 .. n : i \in 1 .. Len(g) + Len(z) /\ i <= Len(g)
    BY <1>2
  <2>4. \A i \in 1 .. n : h[i] = g[i]
    BY <1>3, <2>3
  <2>. DEFINE a == SubSeq(h, 1, n)
              b == SubSeq(g, 1, n)
  <2>5. a \in Seq(Byte) /\ b \in Seq(Byte) /\ Len(a) = Len(b) /\ \A i \in 1 .. Len(a) : a[i] = b[i]
    BY <2>1, <2>2, <2>4
  <2>. HIDE DEF a, b
  <2>6. a = b
    BY <2>5, SeqEqual
  <2>. QED BY <2>6 DEF a, b
<1>6. ASSUME NEW i \in (n + 1) .. Len(h) PROVE h[i] = Nothing
  <2>1. i \in 1 .. Len(g) + Len(z) /\ i > n /\ i \in Int
    BY <1>2, <1>3
  <2>2. CASE i <= Len(g)
    <3>1. i \in (n + 1) .. Len(g)
      BY <1>2, <2>1, <2>2
    <3>. QED BY <1>1, <1>3, <2>1, <2>2, <3>1
  <2>3. CASE ~(i <= Len(g))
    <3>1. i - Len(g) \in 1 .. Len(z)
      BY <1>2, <2>1, <2>3
    <3>. QED BY <1>3, <2>1, <2>3, <3>1
  <2>. QED BY <2>2, <2>3
<1>7. SubSeq(h, 1, n) = Payload(m, 1, n)
  BY <1>1, <1>5
<1>8. Prefix(h, m)
  BY <1>4, <1>6, <1>7 DEF Prefix
<1>. QED BY <1>8 DEF h

\* The next bytes of the message are given.
LEMMA PayloadMore ==
  ASSUME NEW m \in Nat, NEW d \in Nat, NEW x \in Nat
  PROVE  Payload(m, 1, d) \o Payload(m, d + 1, d + x) = Payload(m, 1, d + x)
<1>1. 1 \in Nat \ {0} /\ d + x \in Nat /\ 1 <= d + 1 /\ d <= d + x
  OBVIOUS
<1>. DEFINE e == d + x
<1>. HIDE DEF e
<1>2. Payload(m, 1, e) = Payload(m, 1, d) \o Payload(m, d + 1, e)
  BY <1>1, PayloadSplit DEF e
<1>. QED BY <1>2 DEF e

-----------------------------------------------------------------------------
(* The stream the receiver reads: what it has of the current read, what the *)
(* ring has, and what the socket has.                                       *)
Ahead == (IF pc = "readv" THEN part ELSE <<>>) \o (RbData(rcv) \o in)

\* Where in the stream of the server's messages that is.
Where(p, r, m, d, n, k, left) ==
  \/ p = "receiver" /\ Leads(left, StreamFrom(r, m + 1))
  \/ p # "receiver" /\ \E j : InChunk(r, m, d, n, j, left)
  \/ p # "receiver" /\ n = -1 /\ k = 0 /\ AtEnd(r, m, d, left)

Promised == \A m \in 1 .. MaxMessages : want[m] = SumOf(reply[m])

RecvInv ==
  /\ pc \in Receiving => Message \in 0 .. MaxMessages /\ Promised
  /\ (pc \in Receiving /\ Ahead # <<>>) =>
        /\ Where(pc, reply, Message, Delivered, rem, need, Ahead)
        /\ pc # "receiver" => got[Message] = Payload(Message, 1, Delivered)
  /\ \A m \in 1 .. Message : Prefix(got[m], m)

LEMMA AheadTyped ==
  ASSUME RecvTypes
  PROVE  /\ Ahead \in Seq(Byte) /\ RbData(rcv) \in Seq(Byte) /\ in \in Seq(Byte) /\ part \in Seq(Byte)
         /\ RbData(rcv) \o in \in Seq(Byte) /\ Len(RbData(rcv)) = rcv.used
         /\ pc # "readv" => Ahead = RbData(rcv) \o in
         /\ pc = "readv" => Ahead = part \o (RbData(rcv) \o in)
<1>1. /\ RbData(rcv) \in Seq(Byte) /\ in \in Seq(Byte) /\ part \in Seq(Byte)
      /\ Len(RbData(rcv)) = rcv.used
  BY Constants, RingData DEF RecvTypes
<1>. DEFINE d == RbData(rcv)
            s == d \o in
<1>2. s \in Seq(Byte)
  BY <1>1, ConcatProperties
<1>3. Ahead = (IF pc = "readv" THEN part ELSE <<>>) \o s
  BY DEF Ahead
<1>. HIDE DEF s
<1>4. pc # "readv" => Ahead = s
  BY <1>2, <1>3, ConcatEmptySeq
<1>5. pc = "readv" => Ahead = part \o s
  BY <1>3
<1>6. Ahead \in Seq(Byte)
  BY <1>1, <1>2, <1>4, <1>5, ConcatProperties
<1>. QED BY <1>1, <1>2, <1>4, <1>5, <1>6 DEF s

LEMMA ReplyTyped ==
  ASSUME TypeInv, pc \in Receiving
  PROVE  reply \in Replies
BY DEF TypeInv, Reading, Replies

LEMMA RecvInit ==
  ASSUME Excess = 0, Init
  PROVE  RecvInv
<1>1. Message = 0 /\ got = <<>>
  BY EmptySeq DEF Init, Message
<1>2. CASE pc = "sender"
  BY <1>1, <1>2 DEF RecvInv, Receiving
<1>3. CASE pc = "receiver"
  <2>1. /\ reply \in [1 .. MaxMessages -> Cuts] /\ want \in [1 .. MaxMessages -> 1 .. (MaxReply + Excess)]
        /\ \A m \in DOMAIN want : want[m] - SumOf(reply[m]) \in 0 .. Excess
        /\ \E cut \in 0 .. Len(Stream(reply)) : in = SubSeq(Stream(reply), 1, cut)
    BY <1>3 DEF Init
  <2>2. reply \in Replies
    BY <2>1 DEF Replies
  <2>3. Promised
    <3>. SUFFICES ASSUME NEW m \in 1 .. MaxMessages PROVE want[m] = SumOf(reply[m])
      BY DEF Promised
    <3>1. SumOf(reply[m]) \in Nat
      BY <2>2, ReplyCut
    <3>2. want[m] \in 1 .. (MaxReply + Excess) /\ want[m] - SumOf(reply[m]) \in 0 .. Excess
      BY <2>1
    <3>3. want[m] \in Int
      BY <3>2
    <3>. QED BY <3>1, <3>2, <3>3
  <2>4. RbData(rcv) = <<>> /\ in \in Seq(Byte)
    <3>1. Nothing \in Byte /\ rcv = NewRing(RcvSize, Nothing)
      BY DEF Nothing, Byte, Init
    <3>2. RbData(rcv) = <<>>
      BY <3>1, Constants, RingIsNew
    <3>3. in \in Seq(Byte)
      BY TypeInit DEF TypeInv, RecvTypes
    <3>. QED BY <3>2, <3>3
  <2>5. Ahead = in
    <3>1. RbData(rcv) \o in = in
      BY <2>4, ConcatEmptySeq
    <3>. QED BY <1>3, <2>4, <3>1, ConcatEmptySeq DEF Ahead
  <2>6. Leads(in, StreamFrom(reply, 1))
    <3>. DEFINE s == Stream(reply)
    <3>1. s = StreamFrom(reply, 1) /\ s \in Seq(Byte)
      BY <2>2, StreamWhole
    <3>2. PICK cut \in 0 .. Len(s) : in = SubSeq(s, 1, cut)
      BY <2>1
    <3>. HIDE DEF s
    <3>3. Leads(SubSeq(s, 1, cut), s)
      BY <3>1, <3>2, LeadsSelf
    <3>. QED BY <3>1, <3>2, <3>3
  <2>7. 0 \in 0 .. MaxMessages /\ 0 + 1 = 1 /\ ~\E m : m \in 1 .. 0
    BY Constants
  <2>8. Where(pc, reply, Message, Delivered, rem, need, Ahead)
    BY <1>1, <1>3, <2>5, <2>6, <2>7 DEF Where
  <2>. QED BY <1>1, <1>3, <2>3, <2>7, <2>8 DEF RecvInv
<1>. QED BY <1>2, <1>3 DEF Init

\* What does not receive leaves the invariant alone.
LEMMA SendingKeepsRecv ==
  ASSUME RecvInv, pc \notin Receiving, pc' \notin Receiving, UNCHANGED got
  PROVE  RecvInv'
BY DEF RecvInv, Receiving, Message

LEMMA NextMessageRecv ==
  ASSUME TypeInv, RecvInv, NextMessage
  PROVE  RecvInv'
<1>0. /\ pc = "receiver" /\ pc' = "deserialize" /\ got' = Append(got, <<>>) /\ rem' = 0
      /\ UNCHANGED <<reply, want, rcv, in, need, part>> /\ Len(got) < MaxMessages
      /\ got \in Seq(Seq(Byte)) /\ Len(got) \in Nat
  BY LenProperties DEF NextMessage, TypeInv, RecvTypes
<1>1. <<>> \in Seq(Byte) /\ Len(<<>>) = 0
  BY EmptySeq
<1>. DEFINE T == Seq(Byte)
            m == Message
<1>2. /\ Message' = m + 1 /\ m \in Nat /\ got'[m + 1] = <<>>
      /\ \A i \in 1 .. m : got'[i] = got[i]
  <2>1. <<>> \in T /\ got \in Seq(T)
    BY <1>0, <1>1
  <2>. HIDE DEF T
  <2>2. /\ Len(got') = Len(got) + 1 /\ got'[Len(got) + 1] = <<>>
        /\ \A i \in 1 .. Len(got) : got'[i] = got[i]
    BY <1>0, <2>1, AppendProperties
  <2>. QED BY <1>0, <2>2 DEF Message
<1>. HIDE DEF m
<1>3. m + 1 \in 1 .. MaxMessages /\ m < MaxMessages /\ m \in Nat
  BY <1>0, <1>2, Constants DEF m, Message
<1>4. Delivered' = 0
  BY <1>1, <1>2 DEF Delivered
<1>5. Ahead' = Ahead
  BY <1>0 DEF Ahead
<1>6. reply \in Replies
  BY <1>0, ReplyTyped DEF Receiving
<1>7. Ahead # <<>> => Where(pc', reply', Message', Delivered', rem', need', Ahead')
  <2>. SUFFICES ASSUME Ahead # <<>> PROVE Where(pc', reply', Message', Delivered', rem', need', Ahead')
    OBVIOUS
  <2>1. Leads(Ahead, StreamFrom(reply, m + 1))
    BY <1>0 DEF RecvInv, Receiving, Where, m
  <2>2. InChunk(reply, m + 1, 0, 0, 0, Ahead)
    BY <1>3, <1>6, <2>1, MessageStarts
  <2>. QED BY <1>0, <1>2, <1>4, <1>5, <2>2 DEF Where
<1>8. Payload(m + 1, 1, 0) = <<>>
  BY <1>3, PayloadTyped
<1>9. \A i \in 1 .. Message' : Prefix(got'[i], i)
  <2>. SUFFICES ASSUME NEW i \in 1 .. m + 1 PROVE Prefix(got'[i], i)
    BY <1>2
  <2>1. CASE i = m + 1
    <3>1. Prefix(<<>>, m + 1)
      BY <1>1, <1>8, WholePrefix
    <3>. QED BY <1>2, <2>1, <3>1
  <2>2. CASE i # m + 1
    <3>1. i \in 1 .. m
      BY <1>3, <2>2
    <3>. QED BY <1>2, <3>1 DEF RecvInv, m
  <2>. QED BY <2>1, <2>2
<1>10. got'[Message'] = Payload(Message', 1, Delivered')
  BY <1>2, <1>4, <1>8
<1>11. Message' \in 0 .. MaxMessages /\ Promised'
  BY <1>0, <1>2, <1>3 DEF RecvInv, Receiving, Promised
<1>. QED BY <1>0, <1>5, <1>7, <1>9, <1>10, <1>11 DEF RecvInv

LEMMA ReadAllRecv ==
  ASSUME TypeInv, RecvInv, NEW n \in 1 .. Bound, ReadAll(n)
  PROVE  RecvInv'
<1>0. /\ pc = "deserialize" /\ pc' = "chunk" /\ need' = n
      /\ Len(got[Message]) + n <= want[Message]
      /\ UNCHANGED <<reply, want, rcv, in, got, rem, part>>
  BY DEF ReadAll
<1>1. Message' = Message /\ Delivered' = Delivered /\ Ahead' = Ahead
  BY <1>0 DEF Message, Delivered, Ahead
<1>2. ~(Delivered = SumOf(reply[Message]))
  <2>1. Message \in 1 .. MaxMessages /\ want \in [1 .. MaxMessages -> 1 .. Bound]
    BY <1>0 DEF TypeInv, Reading, Inside, Receiving
  <2>2. want[Message] \in 1 .. Bound /\ want[Message] = SumOf(reply[Message])
    BY <1>0, <2>1 DEF RecvInv, Receiving, Promised
  <2>3. want[Message] \in Nat /\ n \in Nat \ {0}
    BY <2>2, Constants
  <2>. QED BY <1>0, <2>2, <2>3 DEF Delivered
<1>3. Ahead # <<>> => Where(pc', reply', Message', Delivered', rem', need', Ahead')
  BY <1>0, <1>1, <1>2 DEF RecvInv, Receiving, Where, AtEnd
<1>. QED BY <1>0, <1>1, <1>3 DEF RecvInv, Receiving, Promised

LEMMA ChunkReadRecv ==
  ASSUME TypeInv, RecvInv, ChunkRead
  PROVE  RecvInv'
<1>0. /\ pc = "chunk" /\ pc' = "readv" /\ part' = <<>>
      /\ UNCHANGED <<reply, want, rcv, in, got, rem, need>>
  BY DEF ChunkRead
<1>1. Message' = Message /\ Delivered' = Delivered
  BY <1>0 DEF Message, Delivered
<1>2. Ahead' = Ahead
  BY <1>0 DEF Ahead
<1>3. Ahead # <<>> => Where(pc', reply', Message', Delivered', rem', need', Ahead')
  BY <1>0, <1>1, <1>2 DEF RecvInv, Receiving, Where
<1>. QED BY <1>0, <1>1, <1>2, <1>3 DEF RecvInv, Receiving, Promised

\* A turn of neo4j_ios_readv_all that only moves bytes nearer.
LEMMA MovedRecv ==
  ASSUME TypeInv, RecvInv, pc = "readv", pc' = pc, UNCHANGED <<reply, want, got, rem, need>>, Ahead' = Ahead
  PROVE  RecvInv'
<1>1. Message' = Message /\ Delivered' = Delivered
  BY DEF Message, Delivered
<1>. QED BY <1>1 DEF RecvInv, Receiving, Promised

LEMMA ReadBufferedRecv ==
  ASSUME TypeInv, RecvInv, ReadBuffered
  PROVE  RecvInv'
<1>. DEFINE ext == RbExtract(rcv, Missing)
            p == part
            b == ext.bytes
            d == RbData(ext.rb)
            e == RbData(rcv)
            i == in
<1>0. /\ RecvTypes /\ rcv \in Ring(Byte, RcvSize) /\ pc = "readv" /\ pc' = pc
      /\ part' = p \o b /\ rcv' = ext.rb /\ UNCHANGED <<reply, want, in, got, rem, need>>
  BY DEF TypeInv, RecvTypes, ReadBuffered
<1>1. Missing \in Nat
  BY <1>0, TotalTyped
<1>2. b \in Seq(Byte) /\ b \o d = e /\ ext.rb \in Ring(Byte, RcvSize)
  BY <1>0, <1>1, Constants, RingExtract
<1>3. p \in Seq(Byte) /\ d \in Seq(Byte) /\ e \in Seq(Byte) /\ i \in Seq(Byte)
  BY <1>0, <1>2, Constants, RingData, AheadTyped
<1>4. Ahead = p \o (e \o i) /\ Ahead' = (p \o b) \o (d \o i)
  BY <1>0 DEF Ahead
<1>. HIDE DEF p, b, d, e, i
<1>5. /\ p \in Seq(Byte) /\ b \in Seq(Byte) /\ d \in Seq(Byte) /\ i \in Seq(Byte) /\ d \o i \in Seq(Byte)
  BY <1>2, <1>3, ConcatProperties
<1>6. (b \o d) \o i = b \o (d \o i)
  BY ONLY <1>5, Regroup
<1>. DEFINE t == d \o i
<1>. HIDE DEF t
<1>7. t \in Seq(Byte)
  BY <1>5 DEF t
<1>8. (p \o b) \o t = p \o (b \o t)
  BY ONLY <1>5, <1>7, Regroup
<1>9. Ahead' = Ahead
  BY <1>2, <1>4, <1>6, <1>8 DEF t
<1>. QED BY <1>0, <1>9, MovedRecv

LEMMA ReadThroughRecv ==
  ASSUME TypeInv, RecvInv, NEW n, n \in 1 .. Len(in), ReadThrough(n)
  PROVE  RecvInv'
<1>. DEFINE p == part
            q == part'
            e == RbData(rcv)
            d == RbData(rcv')
            i == SubSeq(in, 1, n)
            j == From(in, n + 1)
<1>0. /\ RecvTypes /\ pc = "readv" /\ pc' = pc /\ in' = j
      /\ UNCHANGED <<reply, want, got, rem, need>> /\ in \in Seq(Byte)
  BY DEF TypeInv, RecvTypes, ReadThrough
<1>1. TypeInv' /\ q \o d = (p \o e) \o i
  BY ReadThroughTypes
<1>2. RecvTypes'
  BY <1>1 DEF TypeInv
<1>3. p \in Seq(Byte) /\ e \in Seq(Byte) /\ q \in Seq(Byte) /\ d \in Seq(Byte)
  BY <1>0, <1>2, Constants, RingData DEF RecvTypes
<1>4. i \in Seq(Byte) /\ j \in Seq(Byte) /\ i \o j = in
  <2>1. Len(in) \in Nat
    BY <1>0, LenProperties
  <2>2. n \in 0 .. Len(in) /\ n + 1 \in 1 .. Len(in) + 1
    BY <2>1
  <2>. QED BY <1>0, <2>2, TakeTyped, FromTyped, TakeAndFrom
<1>5. Ahead = p \o (e \o in) /\ Ahead' = q \o (d \o j)
  BY <1>0 DEF Ahead
<1>. HIDE DEF p, q, e, d, i, j
<1>6. e \o i \in Seq(Byte) /\ p \o e \in Seq(Byte)
  BY <1>3, <1>4, ConcatProperties
<1>7. (q \o d) \o j = q \o (d \o j)
  BY ONLY <1>3, <1>4, Regroup
<1>8. (p \o e) \o in = p \o (e \o in)
  BY ONLY <1>0, <1>3, Regroup
<1>. DEFINE s == p \o e
<1>. HIDE DEF s
<1>9. s \in Seq(Byte)
  BY <1>6 DEF s
<1>a. s \in Seq(Byte) /\ i \in Seq(Byte) /\ j \in Seq(Byte)
  BY <1>4, <1>9
<1>10. (s \o i) \o j = s \o (i \o j)
  BY ONLY <1>a, Regroup
<1>11. Ahead' = Ahead
  BY <1>1, <1>4, <1>5, <1>7, <1>8, <1>10 DEF s
<1>. QED BY <1>0, <1>11, MovedRecv

LEMMA MessageDoneRecv ==
  ASSUME TypeInv, RecvInv, MessageDone
  PROVE  RecvInv'
<1>0. /\ pc = "deserialize" /\ pc' = "receiver" /\ Len(got[Message]) = want[Message]
      /\ UNCHANGED <<reply, want, rcv, in, got, rem, need, part>>
  BY DEF MessageDone, recvVars
<1>1. Message' = Message /\ Delivered' = Delivered /\ Ahead' = Ahead
  BY <1>0 DEF Message, Delivered, Ahead
<1>2. Message \in 1 .. MaxMessages /\ reply \in Replies
  BY <1>0, ReplyTyped DEF TypeInv, Reading, Inside, Receiving
<1>3. Delivered = SumOf(reply[Message])
  BY <1>0, <1>2 DEF RecvInv, Receiving, Promised, Delivered
<1>4. Ahead # <<>> => Where(pc', reply', Message', Delivered', rem', need', Ahead')
  <2>. SUFFICES ASSUME Ahead # <<>> PROVE Where(pc', reply', Message', Delivered', rem', need', Ahead')
    OBVIOUS
  <2>1. Where(pc, reply, Message, Delivered, rem, need, Ahead)
    BY <1>0 DEF RecvInv, Receiving
  <2>2. ~\E j : InChunk(reply, Message, Delivered, rem, j, Ahead)
    BY <1>2, <1>3, NothingMissing
  <2>3. AtEnd(reply, Message, Delivered, Ahead)
    BY <1>0, <2>1, <2>2 DEF Where
  <2>. QED BY <1>0, <1>1, <2>3 DEF Where, AtEnd
<1>. QED BY <1>0, <1>1, <1>4 DEF RecvInv, Receiving, Promised

\* What has been read of a chunk are the next bytes of the message.
LEMMA TakenInChunk ==
  ASSUME TypeInv, RecvInv, pc = "readv", part # <<>>
  PROVE  /\ Ahead # <<>> /\ reply \in Replies /\ Message \in 1 .. MaxMessages
         /\ \E j : InChunk(reply, Message, Delivered, rem, j, Ahead)
         /\ rem \in Nat /\ iov.data \in Nat /\ iov.data <= rem /\ iov.data <= need
         /\ Delivered \in Nat /\ Message \in Nat
<1>1. RecvTypes /\ part \in Seq(Byte) /\ Ahead = part \o (RbData(rcv) \o in) /\ RbData(rcv) \o in \in Seq(Byte)
  BY AheadTyped DEF TypeInv
<1>2. Ahead # <<>>
  BY <1>1, ConcatSimplifications!concIsEmpty
<1>3. reply \in Replies /\ Message \in 1 .. MaxMessages
  BY ReplyTyped DEF TypeInv, Reading, Inside, Receiving
<1>4. /\ iov.data \in Nat /\ iov.data <= need /\ need \in Nat \ {0} /\ rem \in Int
      /\ ~iov.length => iov.data = need /\ (rem < 0 \/ need < rem)
      /\ iov.length => iov.data = rem /\ rem >= 0 
      /\ iov.length \in BOOLEAN
  BY IovWanted, TotalTyped DEF TypeInv
<1>5. \E j : InChunk(reply, Message, Delivered, rem, j, Ahead)
  BY <1>2, <1>4 DEF RecvInv, Receiving, Where
<1>6. rem \in Nat /\ Delivered \in Nat /\ Message \in Nat
  BY <1>3, <1>5, InChunkTyped
<1>7. iov.data <= rem
  BY <1>4, <1>6
<1>. QED BY <1>2, <1>3, <1>4, <1>5, <1>6, <1>7

LEMMA TakenBytes ==
  ASSUME TypeInv, RecvInv, pc = "readv", part # <<>>, NEW x, x \in 0 .. Len(part), x <= iov.data
  PROVE  /\ got[Message] \o SubSeq(part, 1, x) = Payload(Message, 1, Delivered + x)
         /\ \E j : 
              /\ j \in 0 .. Len(reply[Message]) /\ Delivered + rem = Sums(reply[Message])[j]
              /\ x < rem => InChunk(reply, Message, Delivered + x, rem - x, j,
                                    From(part, x + 1) \o (RbData(rcv) \o in))
              /\ x = rem => Leads(From(part, x + 1) \o (RbData(rcv) \o in),
                                  ChunksFrom(reply, Message, j + 1))
<1>. DEFINE p == SubSeq(part, 1, x)
            q == From(part, x + 1)
            s == RbData(rcv) \o in
            t == q \o s
            m == Message
            d == Delivered
<1>1. /\ Ahead # <<>> /\ reply \in Replies /\ m \in 1 .. MaxMessages
      /\ \E j : InChunk(reply, m, d, rem, j, Ahead)
      /\ rem \in Nat /\ iov.data \in Nat /\ iov.data <= rem /\ d \in Nat /\ m \in Nat
  BY TakenInChunk
<1>2. /\ part \in Seq(Byte) /\ s \in Seq(Byte) /\ Ahead = part \o s /\ Len(part) \in Nat
  BY AheadTyped, LenProperties DEF TypeInv
<1>3. x \in Nat /\ x + 1 \in 1 .. Len(part) + 1 /\ x \in 0 .. rem
  BY <1>1, <1>2
<1>4. p \in Seq(Byte) /\ q \in Seq(Byte) /\ p \o q = part /\ Len(p) = x
  BY <1>2, <1>3, TakeTyped, FromTyped, TakeAndFrom
<1>5. got[m] = Payload(m, 1, d)
  BY <1>1 DEF RecvInv, Receiving
<1>6. PICK j : InChunk(reply, m, d, rem, j, Ahead)
  BY <1>1
<1>. HIDE DEF p, q, s, m, d
<1>7. p \in Seq(Byte) /\ q \in Seq(Byte) /\ s \in Seq(Byte)
  BY <1>2, <1>4
<1>8. (p \o q) \o s = p \o (q \o s)
  BY ONLY <1>7, Regroup
<1>9. t \in Seq(Byte)
  BY <1>7, ConcatProperties
<1>10. Ahead = p \o t
  BY <1>2, <1>4, <1>8
<1>. HIDE DEF t
<1>11. InChunk(reply, m, d, rem, j, p \o t)
  BY <1>6, <1>10
<1>12. /\ p = Payload(m, d + 1, d + x)
       /\ x < rem => InChunk(reply, m, d + x, rem - x, j, t)
       /\ x = rem => Leads(t, ChunksFrom(reply, m, j + 1))
  <2>. DEFINE n == rem
  <2>1. /\ reply \in Replies /\ m \in 1 .. MaxMessages /\ Takes(p, x, n)
        /\ p \in Seq(Byte) /\ t \in Seq(Byte) /\ InChunk(reply, m, d, n, j, p \o t)
    BY <1>1, <1>3, <1>4, <1>9, <1>11 DEF Takes
  <2>. HIDE DEF n
  <2>2. Taken(reply, m, d, n, j, p, t, x)
    BY ONLY <2>1, TakeInChunk
  <2>. QED BY <2>2 DEF n, Taken
<1>b. m \in Nat /\ d \in Nat /\ x \in Nat
  BY <1>1, <1>3
<1>c. Payload(m, 1, d) \o Payload(m, d + 1, d + x) = Payload(m, 1, d + x)
  BY ONLY <1>b, PayloadMore
<1>13. got[m] \o p = Payload(m, 1, d + x)
  BY <1>5, <1>12, <1>c
<1>14. j \in 0 .. Len(reply[m]) /\ d + rem = Sums(reply[m])[j]
  BY <1>6 DEF InChunk
<1>. QED BY <1>12, <1>13, <1>14 DEF p, q, s, t, m, d

LEMMA ReadEndsRecv ==
  ASSUME TypeInv, RecvInv, NEW k, k \in 0 .. iov.data, ReadEnds(k)
  PROVE  RecvInv'
<1>0. /\ pc = "readv" /\ in = <<>> /\ in' = in /\ (k > 0 => part = <<>>)
      /\ UNCHANGED <<reply, want>> /\ RecvTypes
      /\ rcv \in Ring(Byte, RcvSize)
  BY DEF ReadEnds, TypeInv, RecvTypes
<1>1. TypeInv' /\ RecvTypes'
  BY ReadEndsTypes DEF TypeInv
<1>2. rcv.used \in Nat /\ part \in Seq(Byte) /\ RbData(rcv) \in Seq(Byte) /\ Len(RbData(rcv)) = rcv.used
  BY <1>0, AheadTyped, Constants, RingTyped
<1>3. /\ RbData(rcv') \in Seq(Byte) /\ Len(RbData(rcv')) = rcv'.used
      /\ RbData(rcv') \o in' = RbData(rcv') /\ RbData(rcv) \o in = RbData(rcv)
  <2>1. rcv' \in Ring(Byte, RcvSize)
    BY <1>1 DEF RecvTypes
  <2>2. RbData(rcv') \in Seq(Byte) /\ Len(RbData(rcv')) = rcv'.used
    BY <2>1, Constants, RingData
  <2>3. in = <<>> /\ in' = <<>>
    BY <1>0
  <2>. QED BY <1>2, <2>2, <2>3, ConcatEmptySeq
<1>4. CASE rcv.used > 0
  <2>1. /\ part' = part \o RbData(rcv) /\ rcv' = RbDiscard(rcv, rcv.used)
        /\ UNCHANGED <<pc, got, rem, need>>
    BY <1>4 DEF ReadEnds
  <2>2. rcv'.used = 0
    <3>. DEFINE n == rcv.used
    <3>1. n \in Nat /\ rcv \in Ring(Byte, RcvSize) /\ RcvSize \in Nat \ {0} /\ Lesser(n, n) = n
      BY <1>0, <1>2, Constants DEF Lesser
    <3>. HIDE DEF n
    <3>2. RbDiscard(rcv, n).used = rcv.used - Lesser(n, rcv.used)
      BY <3>1, RingDiscard
    <3>. QED BY <1>2, <2>1, <3>1, <3>2 DEF n
  <2>3. RbData(rcv') = <<>>
    BY <1>3, <2>2, EmptySeq
  <2>4. part' \in Seq(Byte)
    BY <1>1 DEF RecvTypes
  <2>5. Ahead' = part' /\ Ahead = part \o RbData(rcv)
    BY <1>0, <1>3, <2>1, <2>3, <2>4, ConcatEmptySeq DEF Ahead
  <2>. QED BY <1>0, <2>1, <2>5, MovedRecv
<1>5. CASE ~(rcv.used > 0)
  <2>. DEFINE b == LastBytes(k)
              g == got[Message]
  <2>1. /\ got' = [got EXCEPT ![Message] = @ \o b] /\ need' = need - Len(b)
        /\ UNCHANGED <<part, rcv>>
        /\ pc' = IF read + Len(b) = 0 THEN "failed" ELSE IF need' = 0 THEN "deserialize" ELSE "chunk"
    BY <1>5 DEF ReadEnds, LastBytes
  <2>2. /\ b \in Seq(Byte) /\ Len(b) \in Nat /\ Len(b) <= iov.data
        /\ \A i \in 1 .. Len(b) : i > Len(part) => b[i] = Nothing
        /\ k = 0 => Len(b) = Lesser(Len(part), iov.data)
    BY <1>0, LastBytesTyped
  <2>3. k = 0 => b = SubSeq(part, 1, Len(b)) /\ Len(b) \in 0 .. Len(part)
    <3>. SUFFICES ASSUME k = 0 PROVE b = SubSeq(part, 1, Len(b)) /\ Len(b) \in 0 .. Len(part)
      OBVIOUS
    <3>. DEFINE n == Lesser(Len(part), iov.data)
                a == SubSeq(part, 1, n)
                z == [i \in 1 .. 0 |-> Nothing]
    <3>1. n = Len(b) /\ n \in 0 .. Len(part)
      <4>1. Len(part) \in Nat /\ iov.data \in Nat
        BY <1>0, TotalTyped
      <4>. QED BY <2>2, <4>1 DEF Lesser
    <3>2. a \in Seq(Byte)
      BY <1>2, <3>1, TakeTyped
    <3>3. z = <<>>
      <4>1. 1 .. 0 = {}
        OBVIOUS
      <4>. QED BY <4>1
    <3>4. b = a \o z
      BY DEF LastBytes
    <3>. HIDE DEF a, z
    <3>5. b = a
      BY <3>2, <3>3, <3>4, ConcatEmptySeq
    <3>. QED BY <3>1, <3>5 DEF a
  <2>. HIDE DEF b
  <2>4. Len(b) <= need
    BY <1>0, <2>2, IovWanted
  <2>5. /\ Message' = Message /\ Message \in 1 .. MaxMessages
        /\ Delivered' = Delivered + Len(b) /\ Delivered \in Nat
        /\ got'[Message'] = g \o b
        /\ \A m \in 1 .. Message : m # Message => got'[m] = got[m]
    BY <1>0, <2>1, <2>2, <2>4, GivenTypes
  <2>6. g \in Seq(Byte) /\ Len(g) = Delivered /\ Message \in 1 .. Message
    <3>1. got \in Seq(Seq(Byte)) /\ Message \in 1 .. Len(got)
      BY <1>0, <2>5, Constants DEF RecvTypes, Message
    <3>. DEFINE T == Seq(Byte)
    <3>2. got \in Seq(T)
      BY <3>1
    <3>. HIDE DEF T
    <3>3. g \in T
      BY <3>1, <3>2, ElementOfSeq
    <3>. QED BY <3>1, <3>3 DEF T, Delivered, Message
  <2>7. Prefix(g \o b, Message)
    <3>1. CASE part = <<>>
      <4>1. \A i \in 1 .. Len(b) : b[i] = Nothing
        <5>1. Len(part) = 0
          BY <3>1
        <5>2. \A i \in 1 .. Len(b) : i > Len(part)
          BY <2>2, <5>1
        <5>. QED BY <2>2, <5>2
      <4>2. Prefix(g, Message)
        BY <2>6 DEF RecvInv
      <4>. HIDE DEF g
      <4>. QED BY <2>2, <2>6, <4>1, <4>2, PrefixAndNothing
    <3>2. CASE part # <<>>
      <4>1. k = 0
        BY <1>0, <3>2, TotalTyped
      <4>2. g \o b = Payload(Message, 1, Delivered + Len(b))
        <5>. DEFINE x == Len(b)
        <5>1. b = SubSeq(part, 1, x) /\ x \in 0 .. Len(part) /\ x <= iov.data
          BY <2>2, <2>3, <4>1
        <5>. HIDE DEF x
        <5>2. got[Message] \o SubSeq(part, 1, x) = Payload(Message, 1, Delivered + x)
          BY <1>0, <3>2, <5>1, TakenBytes
        <5>. QED BY <5>1, <5>2 DEF x
      <4>. HIDE DEF g
      <4>3. g \o b \in Seq(Byte) /\ Len(g \o b) = Delivered + Len(b)
        BY <2>2, <2>6, ConcatProperties
      <4>. DEFINE h == g \o b
      <4>4. h \in Seq(Byte) /\ h = Payload(Message, 1, Len(h))
        BY <4>2, <4>3
      <4>. HIDE DEF h
      <4>5. Prefix(h, Message)
        BY <4>4, WholePrefix
      <4>. QED BY <4>5 DEF h
    <3>. QED BY <3>1, <3>2
  <2>8. \A m \in 1 .. Message' : Prefix(got'[m], m)
    BY <2>5, <2>7 DEF RecvInv
  <2>9. Ahead' = <<>>
    <3>1. rcv.used = 0
      BY <1>2, <1>5
    <3>2. RbData(rcv') = <<>>
      BY <1>3, <2>1, <3>1, EmptySeq
    <3>3. pc' # "readv"
      BY <2>1
    <3>. QED BY <1>3, <3>2, <3>3, ConcatEmptySeq DEF Ahead
  <2>10. pc' \in Receiving => Message' \in 0 .. MaxMessages /\ Promised'
    <3>1. Promised'
      BY <1>0 DEF RecvInv, Receiving, Promised
    <3>2. Message' \in 0 .. MaxMessages
      BY <2>5, Constants
    <3>. QED BY <3>1, <3>2
  <2>. QED BY <2>8, <2>9, <2>10 DEF RecvInv
<1>. QED BY <1>4, <1>5

LEMMA ChunkDoneRecv ==
  ASSUME TypeInv, RecvInv, NEW length, length \in 0 .. MaxChunk, ChunkDone(length)
  PROVE  RecvInv'
<1>. DEFINE x == iov.data
            b == SubSeq(part, 1, x)
            l == From(part, x + 1)
            s == RbData(rcv) \o in
            m == Message
            d == Delivered
<1>0. /\ pc = "readv" /\ part' = <<>> /\ need' = need - x
      /\ got' = [got EXCEPT ![Message] = @ \o b]
      /\ UNCHANGED <<reply, want, rcv, in>> /\ RecvTypes /\ part \in Seq(Byte)
  BY DEF ChunkDone, TypeInv, RecvTypes
<1>1. /\ Len(part) = Total /\ Total \in Nat \ {0}
      /\ x \in Nat /\ iov.length \in BOOLEAN
      /\ Total = IF iov.length THEN x + 2 ELSE x
  <2>1. Missing = 0
    BY DEF ChunkDone
  <2>. QED BY <1>0, <2>1, TotalTyped, IovWanted
<1>2. /\ x <= need /\ need \in Nat \ {0} /\ rem \in Int
      /\ ~iov.length => x = need /\ (rem < 0 \/ need < rem)
      /\ iov.length => x = rem /\ rem >= 0
  BY <1>0, IovWanted
<1>3. x \in 0 .. Len(part) /\ part # <<>> /\ x + 1 \in 1 .. Len(part) + 1
  <2>1. Len(part) # 0
    BY <1>1
  <2>2. part # <<>>
    BY <2>1, EmptySeq
  <2>. QED BY <1>1, <2>2
<1>4. b \in Seq(Byte) /\ Len(b) = x /\ l \in Seq(Byte) /\ Len(l) = Total - x
  <2>1. b \in Seq(Byte) /\ Len(b) = x
    BY <1>0, <1>3, TakeTyped
  <2>. DEFINE k == x + 1
  <2>2. k \in 1 .. Len(part) + 1 /\ Len(part) + 1 - k = Total - x
    BY <1>1, <1>3
  <2>. HIDE DEF k
  <2>3. From(part, k) \in Seq(Byte) /\ Len(From(part, k)) = Len(part) + 1 - k
    BY <1>0, <2>2, FromTyped
  <2>. QED BY <2>1, <2>2, <2>3 DEF k
<1>5. /\ reply \in Replies /\ m \in 1 .. MaxMessages /\ rem \in Nat /\ x <= rem
      /\ d \in Nat /\ m \in Nat
  BY <1>0, <1>3, TakenInChunk
<1>6. /\ Message' = m /\ Delivered' = d + x /\ got'[m] = got[m] \o b
      /\ \A i \in 1 .. m : i # m => got'[i] = got[i]
  BY <1>0, <1>2, <1>4, GivenTypes
<1>7. /\ got[m] \o b = Payload(m, 1, d + x)
      /\ \E j : 
           /\ j \in 0 .. Len(reply[m]) /\ d + rem = Sums(reply[m])[j]
           /\ x < rem => InChunk(reply, m, d + x, rem - x, j, l \o s)
           /\ x = rem => Leads(l \o s, ChunksFrom(reply, m, j + 1))
  <2>. HIDE DEF x
  <2>1. x \in 0 .. Len(part) /\ x <= iov.data
    BY <1>1, <1>3 DEF x
  <2>. QED BY <1>0, <1>3, <2>1, TakenBytes
<1>8. PICK j : 
           /\ j \in 0 .. Len(reply[m]) /\ d + rem = Sums(reply[m])[j]
           /\ x < rem => InChunk(reply, m, d + x, rem - x, j, l \o s)
           /\ x = rem => Leads(l \o s, ChunksFrom(reply, m, j + 1))
  BY <1>7
<1>9. s \in Seq(Byte)
  BY <1>0, AheadTyped
<1>10. /\ \/ ~iov.length /\ rem' = rem - x /\ pc' = "deserialize"
          \/ /\ iov.length /\ rem' = IF length = 0 THEN -1 ELSE length
             /\ length \in LengthsOf(l)
             /\ pc' \in {"deserialize", "failed", "chunk"}
  BY <1>1 DEF ChunkDone
<1>11. Ahead' = s
  <2>1. pc' # "readv"
    BY <1>10
  <2>2. Ahead' = <<>> \o s
    BY <1>0, <2>1 DEF Ahead
  <2>. HIDE DEF s
  <2>. QED BY <1>9, <2>2, ConcatEmptySeq
<1>12. pc' \in Receiving => Message' \in 0 .. MaxMessages /\ Promised'
  BY <1>0, <1>5, <1>6, Constants DEF RecvInv, Receiving, Promised
<1>. HIDE DEF b, l, s, m, d, x
<1>13. got'[Message'] = Payload(Message', 1, Delivered')
  BY <1>6, <1>7
<1>14. \A i \in 1 .. Message' : Prefix(got'[i], i)
  <2>1. TypeInv'
    BY ChunkDoneTypes
  <2>2. got' \in Seq(Seq(Byte)) /\ Message' \in 1 .. Len(got')
    <3>1. got' \in Seq(Seq(Byte)) /\ Message' = Len(got')
      BY <2>1 DEF TypeInv, RecvTypes, Message
    <3>2. Message' \in Nat \ {0}
      BY <1>5, <1>6, Constants
    <3>. QED BY <3>1, <3>2
  <2>3. got'[Message'] \in Seq(Byte) /\ Len(got'[Message']) = Delivered'
    <3>. DEFINE T == Seq(Byte)
    <3>1. got' \in Seq(T)
      BY <2>2
    <3>. HIDE DEF T
    <3>2. got'[Message'] \in T
      BY <2>2, <3>1, ElementOfSeq
    <3>. QED BY <3>2 DEF T, Delivered
  <2>4. Prefix(got'[Message'], Message')
    <3>. DEFINE g == got'[Message']
                k == Message'
    <3>1. g \in Seq(Byte) /\ g = Payload(k, 1, Len(g))
      BY <1>13, <2>3
    <3>. HIDE DEF g, k
    <3>2. Prefix(g, k)
      BY <3>1, WholePrefix
    <3>. QED BY <3>2 DEF g, k
  <2>5. \A i \in 1 .. m : i # m => Prefix(got'[i], i)
    BY <1>6 DEF RecvInv, m
  <2>. QED BY <1>6, <2>4, <2>5
<1>15. pc' # "failed" => Where(pc', reply', Message', Delivered', rem', need', Ahead')
  <2>1. CASE ~iov.length
    <3>1. x < rem /\ rem' = rem - x /\ pc' = "deserialize"
      BY <1>2, <1>5, <1>10, <2>1
    <3>2. l = <<>>
      BY <1>1, <1>4, <2>1, EmptySeq
    <3>3. l \o s = s
      BY <1>9, <3>2, ConcatEmptySeq
    <3>4. InChunk(reply, m, d + x, rem - x, j, s)
      BY <1>8, <3>1, <3>3
    <3>. QED BY <1>0, <1>6, <1>11, <3>1, <3>4 DEF Where
  <2>2. CASE iov.length
    <3>1. /\ x = rem /\ Len(l) = 2 /\ length \in LengthsOf(l)
          /\ rem' = IF length = 0 THEN -1 ELSE length
      BY <1>1, <1>2, <1>4, <1>10, <2>2
    <3>2. /\ d + x \in Nat /\ d + x = Sums(reply[m])[j]
          /\ Leads(l \o s, ChunksFrom(reply, m, j + 1))
      BY <1>1, <1>5, <1>8, <3>1
    <3>. DEFINE e == d + x
    <3>3. e \in Nat /\ e = Sums(reply[m])[j] /\ Delivered' = e
      BY <1>6, <3>2
    <3>. HIDE DEF e
    <3>a. Passed(reply, m, e, j, l, s)
      BY <1>8, <3>1, <3>2, <3>3 DEF Passed
    <3>b. Continues(reply, m, e, l, s)
      BY <1>4, <1>5, <1>9, <3>a, LengthBehind
    <3>4. /\ length > 0 => \E i : InChunk(reply, m, e, length, i, s)
          /\ length = 0 => AtEnd(reply, m, e, s)
          /\ length \in Nat
      BY <3>1, <3>b DEF Continues
    <3>5. pc' # "receiver"
      BY <1>10
    <3>6. CASE length > 0
      <4>1. rem' = length
        BY <3>1, <3>4, <3>6
      <4>. QED BY <1>0, <1>6, <1>11, <3>3, <3>4, <3>5, <3>6, <4>1 DEF Where
    <3>7. CASE length = 0
      <4>1. rem' = -1
        BY <3>1, <3>7
      <4>2. e = SumOf(reply[m]) /\ AtEnd(reply, m, e, s)
        BY <3>4, <3>7 DEF AtEnd
      <4>3. need' = 0
        <5>1. want[m] = SumOf(reply[m])
          BY <1>0, <1>5 DEF RecvInv, Receiving, Promised
        <5>2. d + need <= want[m]
          BY <1>0 DEF TypeInv, Reading, Inside, d, m
        <5>3. d + need <= d + x
          BY <4>2, <5>1, <5>2 DEF e
        <5>. QED BY <1>0, <1>1, <1>2, <1>5, <5>3
      <4>. QED BY <1>0, <1>6, <1>11, <3>3, <3>5, <4>1, <4>2, <4>3 DEF Where
    <3>. QED BY <3>4, <3>6, <3>7
  <2>. QED BY <1>1, <2>1, <2>2
<1>16. pc' \in Receiving => pc' # "failed"
  BY DEF Receiving
<1>. QED BY <1>12, <1>13, <1>14, <1>15, <1>16 DEF RecvInv

LEMMA RecvStep ==
  ASSUME TypeInv, RecvInv, [Next]_vars
  PROVE  RecvInv'
<1>1. CASE Send
  <2>1. pc \notin Receiving /\ pc' \notin Receiving /\ UNCHANGED got
    BY <1>1 DEF Send, StartMessage, CloseMessage, RingAssertFails, WriteBuffered, WriteFails, Written,
       FlushNothing, Serialize, WriteThrough, Flush, FlushFails, Receiving, recvVars
  <2>. QED BY <2>1, SendingKeepsRecv
<1>2. CASE Receive
  BY <1>2, NextMessageRecv, ChunkReadRecv, ReadBufferedRecv, MessageDoneRecv, ReadAllRecv,
     ReadThroughRecv, ReadEndsRecv, ChunkDoneRecv DEF Receive, Bound
<1>3. CASE SocketFails \/ UNCHANGED vars
  <2>1. UNCHANGED <<pc, part, rcv, in, reply, want, got, rem, need>>
    BY <1>3 DEF SocketFails, vars, sendVars, recvVars
  <2>. QED BY <2>1 DEF RecvInv, Promised, Message, Delivered, Ahead
<1>. QED BY <1>1, <1>2, <1>3 DEF Next

\* What the reader has of its read, what the ring has and what the socket has
\* are, one behind the other, the rest of what the server sent, up to where the
\* stream breaks off.
THEOREM RecvInvariant == ASSUME Excess = 0 PROVE Spec => []RecvInv
<1>1. Init => RecvInv
  BY RecvInit
<1>2. TypeInv /\ RecvInv /\ [Next]_vars => RecvInv'
  BY RecvStep
<1>. QED BY <1>1, <1>2, TypeInvariant, PTL DEF Spec

\* The deserializer is given the bytes of its message, in order and once,
\* however the server cuts the message and the socket the stream: what
\* neo4j_ios_read_all and chunking_read return, when the values of a message
\* announce as many bytes as the server sends of it.
THEOREM DeliveredTheorem == ASSUME Excess = 0 PROVE Spec => []DeliveredInOrder
<1>1. TypeInv /\ RecvInv => DeliveredInOrder
  <2>. SUFFICES ASSUME TypeInv, RecvInv PROVE DeliveredInOrder
    OBVIOUS
  <2>1. DOMAIN got = 1 .. Message
    BY LenProperties DEF TypeInv, RecvTypes, Message
  <2>. QED BY <2>1 DEF RecvInv, Prefix, DeliveredInOrder
<1>. QED BY <1>1, TypeInvariant, RecvInvariant, PTL

LEMMA NextHeader ==
  ASSUME NEW r \in Replies, NEW m \in 1 .. MaxMessages + 1, NEW left \in Seq(Byte), left # <<>>,
         Leads(left, StreamFrom(r, m))
  PROVE  /\ left[1] = <<"h", r[m][1], 1>>
         /\ Len(left) > 2 => left[3] = <<"p", m, 1>>
<1>. DEFINE s == StreamFrom(r, m)
<1>1. m \in Nat /\ Len(left) \in Nat \ {0}
  BY Constants, EmptySeq
<1>2. s \in Seq(Byte) /\ Len(s) \in Nat
  BY StreamFromTyped, LenProperties
<1>3. Len(left) <= Len(s) /\ \A i \in 1 .. Len(left) : left[i] = s[i]
  BY LeadsSame, StreamFromTyped
<1>4. m \in 1 .. MaxMessages
  <2>. SUFFICES ASSUME m = MaxMessages + 1 PROVE FALSE
    BY Constants
  <2>1. FramesOf(r) \in Seq(Seq(Byte)) /\ Len(FramesOf(r)) = MaxMessages
    BY FramesTyped DEF Replies
  <2>2. s = <<>>
    <3>. DEFINE f == FramesOf(r)
    <3>. HIDE DEF f
    <3>1. FlattenSeq(From(f, Len(f) + 1)) = <<>>
      BY <2>1, FlattenFromEnd DEF f
    <3>. QED BY <2>1, <3>1 DEF StreamFrom, f
  <2>3. Len(s) = 0
    BY <2>2, EmptySeq
  <2>. QED BY <1>1, <1>3, <2>3
<1>. DEFINE c == r[m]
            h == Header(c[1])
            p == Payload(m, Sums(c)[1 - 1] + 1, Sums(c)[1])
            v == ChunksFrom(r, m, 1 + 1)
<1>5. /\ c \in Seq(Nat \ {0}) /\ Len(c) \in Nat \ {0} /\ 1 \in 1 .. Len(c) /\ c[1] \in Nat \ {0}
  <2>1. c \in Seq(Nat \ {0}) /\ Len(c) \in Nat \ {0} /\ 1 \in 1 .. Len(c)
    BY <1>4, ReplyCut
  <2>. QED BY <2>1, ElementOfSeq
<1>6. s = h \o (p \o v)
  BY <1>4, <1>5, StreamStep, ChunkStep
<1>7. Sums(c)[0] = 0 /\ Sums(c)[1] = c[1]
  <2>1. Sums(c)[0] = 0 /\ Sums(c)[1] = Sums(c)[1 - 1] + c[1]
    BY <1>5, SumsRecursion
  <2>. QED BY <1>5, <2>1
<1>8. p = Payload(m, 1, c[1])
  BY <1>7
<1>9. p \in Seq(Byte) /\ Len(p) \in Nat \ {0} /\ p[1] = <<"p", m, 1>>
  <2>. DEFINE n == c[1]
              a == Payload(m, 1, n)
  <2>1. n \in Nat \ {0}
    BY <1>5
  <2>. HIDE DEF n
  <2>2. /\ a \in Seq(Byte) /\ Len(a) = IF 1 <= n + 1 THEN n + 1 - 1 ELSE 0
        /\ \A i \in 1 .. n + 1 - 1 : a[i] = <<"p", m, 1 + i - 1>>
    <3>1. 1 \in Nat \ {0} /\ n \in Nat /\ m \in Nat
      BY <1>1, <2>1
    <3>. QED BY ONLY <3>1, PayloadTyped
  <2>. HIDE DEF a
  <2>3. Len(a) = n /\ 1 \in 1 .. n + 1 - 1 /\ 1 + 1 - 1 = 1
    BY <2>1, <2>2
  <2>4. a[1] = <<"p", m, 1>>
    BY <2>2, <2>3
  <2>. QED BY <1>8, <2>1, <2>2, <2>3, <2>4 DEF n, a
<1>10. v \in Seq(Byte)
  <2>1. 1 + 1 \in 1 .. Len(c) + 1
    BY <1>5
  <2>. QED BY <1>4, <2>1, ChunksFromTyped
<1>11. h \in Seq(Byte) /\ Len(h) = 2 /\ h[1] = <<"h", c[1], 1>>
  BY <1>5, HeaderTyped
<1>. HIDE DEF s, h, p, v, c
<1>. DEFINE w == p \o v
<1>12. w \in Seq(Byte) /\ Len(w) = Len(p) + Len(v) /\ w[1] = p[1] /\ Len(v) \in Nat
  <2>1. Len(v) \in Nat
    BY <1>10, LenProperties
  <2>2. 1 \in 1 .. Len(p) + Len(v) /\ 1 <= Len(p)
    BY <1>9, <2>1
  <2>. QED BY <1>9, <1>10, <2>1, <2>2, ConcatProperties
<1>. HIDE DEF w
<1>13. s[1] = h[1] /\ s[3] = w[1]
  <2>1. /\ Len(h \o w) = Len(h) + Len(w)
        /\ \A i \in 1 .. Len(h) + Len(w) : (h \o w)[i] = IF i <= Len(h) THEN h[i] ELSE w[i - Len(h)]
    <3>1. h \in Seq(Byte) /\ w \in Seq(Byte)
      BY <1>11, <1>12
    <3>. QED BY ONLY <3>1, ConcatProperties
  <2>2. Len(h) = 2 /\ Len(w) \in Nat /\ Len(w) >= 1
    BY <1>9, <1>11, <1>12
  <2>3. /\ 1 \in 1 .. Len(h) + Len(w) /\ 1 <= Len(h) /\ 3 \in 1 .. Len(h) + Len(w) /\ ~(3 <= Len(h))
        /\ 3 - Len(h) = 1
    BY <2>2
  <2>. QED BY <1>6, <2>1, <2>3 DEF w
<1>14. 1 \in 1 .. Len(left) /\ (Len(left) > 2 => 3 \in 1 .. Len(left))
  BY <1>1
<1>. QED BY <1>3, <1>9, <1>11, <1>12, <1>13, <1>14 DEF c

\* When a message has been received, the ring and the socket stand at the next
\* one: neo4j_message_recv has taken its end, no matter how it was cut.
THEOREM BoundaryTheorem == ASSUME Excess = 0 PROVE Spec => []AtBoundary
<1>1. TypeInv /\ RecvInv => AtBoundary
  <2>. SUFFICES ASSUME TypeInv, RecvInv, pc = "receiver", RbData(rcv) \o in # <<>>
                PROVE  LET left == RbData(rcv) \o in
                       IN  /\ left[1] = <<"h", reply[Message + 1][1], 1>>
                           /\ Len(left) > 2 => left[3] = <<"p", Message + 1, 1>>
    BY DEF AtBoundary
  <2>1. Ahead = RbData(rcv) \o in /\ Ahead \in Seq(Byte)
    BY AheadTyped DEF TypeInv
  <2>2. reply \in Replies /\ Message \in 0 .. MaxMessages
    BY ReplyTyped DEF RecvInv, Receiving
  <2>3. Leads(Ahead, StreamFrom(reply, Message + 1))
    BY <2>1 DEF RecvInv, Receiving, Where
  <2>. DEFINE m == Message + 1
  <2>4. m \in 1 .. MaxMessages + 1
    BY <2>2, Constants
  <2>. HIDE DEF m
  <2>5. /\ Ahead[1] = <<"h", reply[m][1], 1>>
        /\ Len(Ahead) > 2 => Ahead[3] = <<"p", m, 1>>
    BY <2>1, <2>2, <2>3, <2>4, NextHeader DEF m
  <2>. QED BY <2>1, <2>5 DEF m
<1>. QED BY <1>1, TypeInvariant, RecvInvariant, PTL

-----------------------------------------------------------------------------
(* What is on its way to the socket: e messages, of the lengths s, and      *)
(* behind them k bytes of the next, in chunks.                              *)
Follow(b, s, e) ==
  IF b[2] <= e /\ b[3] = s[b[2]] THEN <<"p", b[2] + 1, 1>> ELSE <<"p", b[2], b[3] + 1>>

NoData(F, i, j) == \A x \in i + 1 .. j - 1 : ~IsData(F[x])

DataInOrder(F, s, e, k, j) ==
  /\ F[j][2] \in 1 .. e + 1
  /\ F[j][3] > 0 /\ F[j][3] <= IF F[j][2] <= e THEN s[F[j][2]] ELSE k
  /\ NoData(F, 0, j) => F[j] = <<"p", 1, 1>>
  /\ \A i \in 1 .. j - 1 : IsData(F[i]) /\ NoData(F, i, j) => F[j] = Follow(F[i], s, e)

DataOK(F, s, e, k) == \A j \in 1 .. Len(F) : IsData(F[j]) => DataInOrder(F, s, e, k, j)

EndOK(F, s, e, k) ==
  IF k > 0 THEN Len(F) > 0 /\ F[Len(F)] = <<"p", e + 1, k>>
  ELSE IF e > 0 THEN /\ Len(F) > 2 /\ F[Len(F)] = <<"h", 0, 2>>
                     /\ F[Len(F) - 1] = <<"h", 0, 1>> /\ F[Len(F) - 2] = <<"p", e, s[e]>>
  ELSE Len(F) = 0

Starts(F, i) == F[i][1] = "h" /\ F[i][3] = 1

ChunkOK(F, s, e, i, n) ==
  /\ i + 2 + n <= Len(F) + 1 /\ F[i + 1] = <<"h", n, 2>>
  /\ \A j \in (i + 2) .. (i + 1 + n) : IsData(F[j])
  /\ i + 2 + n <= Len(F) => Starts(F, i + 2 + n)
  /\ n = 0 => i > 1 /\ IsData(F[i - 1]) /\ F[i - 1][2] <= e /\ F[i - 1][3] = s[F[i - 1][2]]
  /\ n > 0 /\ i > 1 /\ IsData(F[i - 1]) => F[i + 2][2] = F[i - 1][2]

LengthOK(F, s, e) ==
  /\ Len(F) > 0 => Starts(F, 1)
  /\ \A i \in 1 .. Len(F) : Starts(F, i) => ChunkOK(F, s, e, i, F[i][2])

Framing(F, s, e, k) == DataOK(F, s, e, k) /\ EndOK(F, s, e, k) /\ LengthOK(F, s, e)

\* Only the chunk that is followed by the end of its message may be short;
\* whole: nor may the last one.
SizeOK(F, whole, i, n) ==
  /\ n <= MaxChunk
  /\ n > 0 /\ n < MinChunk => /\ whole => i + 2 + n <= Len(F)
                              /\ i + 2 + n <= Len(F) => F[i + 2 + n][2] = 0
SizesOK(F, whole) == \A i \in 1 .. Len(F) : Starts(F, i) => SizeOK(F, whole, i, F[i][2])

(* The bytes of F are followed by others in G.                              *)
Grown(F, G) ==
  /\ F \in Seq(Byte) /\ G \in Seq(Byte) /\ Len(F) <= Len(G)
  /\ \A i \in 1 .. Len(F) : G[i] = F[i]

LEMMA ByteTyped ==
  ASSUME NEW F \in Seq(Byte), NEW i \in 1 .. Len(F)
  PROVE  /\ F[i][1] \in {"p", "h"} /\ F[i][2] \in Nat /\ F[i][3] \in Nat
         /\ F[i] = <<F[i][1], F[i][2], F[i][3]>>
<1>1. F[i] \in Byte
  BY ElementOfSeq
<1>. QED BY <1>1 DEF Byte

LEMMA GrownBy ==
  ASSUME NEW F \in Seq(Byte), NEW t \in Seq(Byte)
  PROVE  /\ Grown(F, F \o t) /\ Len(F \o t) = Len(F) + Len(t)
         /\ \A i \in 1 .. Len(t) : (F \o t)[Len(F) + i] = t[i]
<1>. DEFINE G == F \o t
<1>1. Len(F) \in Nat /\ Len(t) \in Nat
  BY LenProperties
<1>2. /\ G \in Seq(Byte) /\ Len(G) = Len(F) + Len(t)
      /\ \A i \in 1 .. Len(F) + Len(t) : G[i] = IF i <= Len(F) THEN F[i] ELSE t[i - Len(F)]
  BY ConcatProperties
<1>. HIDE DEF G
<1>3. \A i \in 1 .. Len(F) : i \in 1 .. Len(F) + Len(t) /\ i <= Len(F)
  BY <1>1
<1>4. \A i \in 1 .. Len(F) : G[i] = F[i]
  BY <1>2, <1>3
<1>5. ASSUME NEW i \in 1 .. Len(t) PROVE G[Len(F) + i] = t[i]
  <2>1. PICK j \in 1 .. Len(F) + Len(t) : j = Len(F) + i /\ ~(j <= Len(F)) /\ j - Len(F) = i
    BY <1>1
  <2>2. G[j] = t[i]
    BY <1>2, <2>1
  <2>. QED BY <2>1, <2>2
<1>6. Grown(F, G)
  BY <1>1, <1>2, <1>4 DEF Grown
<1>. QED BY <1>2, <1>5, <1>6 DEF G

LEMMA GrownNoData ==
  ASSUME NEW F, NEW G, Grown(F, G), NEW j \in 1 .. Len(F), NEW i \in Nat
  PROVE  NoData(G, i, j) <=> NoData(F, i, j)
<1>1. Len(F) \in Nat
  BY LenProperties DEF Grown
<1>2. \A x \in i + 1 .. j - 1 : x \in 1 .. Len(F)
  BY <1>1
<1>3. \A x \in i + 1 .. j - 1 : G[x] = F[x]
  BY <1>2 DEF Grown
<1>. QED BY <1>3 DEF NoData

\* The next length of a message becomes larger, or the message ends.
GoesOn(s, e, k, f, l) ==
  /\ s \in Seq(Nat) /\ e \in Nat /\ k \in Nat /\ l \in Nat /\ f \in Nat
  /\ \/ f = e /\ k <= l
     \/ f = e + 1 /\ s[e + 1] = k /\ l = 0

LEMMA OldData ==
  ASSUME NEW F, NEW G, Grown(F, G), NEW s, NEW e, NEW k, NEW f, NEW l, GoesOn(s, e, k, f, l),
         DataOK(F, s, e, k), NEW j \in 1 .. Len(F), IsData(G[j])
  PROVE  DataInOrder(G, s, f, l, j)
<1>0. Len(F) \in Nat /\ G[j] = F[j] /\ F \in Seq(Byte) /\ j \in Nat
  BY LenProperties DEF Grown
<1>1. DataInOrder(F, s, e, k, j)
  BY <1>0 DEF DataOK
<1>2. F[j][2] \in Nat /\ F[j][3] \in Nat /\ e \in Nat /\ k \in Nat /\ l \in Nat /\ f \in Nat
  BY <1>0, ByteTyped DEF GoesOn
<1>3. F[j][2] \in 1 .. f + 1
  BY <1>1, <1>2 DEF DataInOrder, GoesOn
<1>4. F[j][3] > 0 /\ F[j][3] <= IF F[j][2] <= f THEN s[F[j][2]] ELSE l
  <2>1. CASE f = e /\ k <= l
    BY <1>1, <1>2, <2>1 DEF DataInOrder
  <2>2. CASE f = e + 1 /\ s[e + 1] = k /\ l = 0
    <3>1. CASE F[j][2] <= e
      <4>1. F[j][2] <= f
        BY <1>2, <2>2, <3>1
      <4>. QED BY <1>1, <3>1, <4>1 DEF DataInOrder
    <3>2. CASE ~(F[j][2] <= e)
      <4>1. F[j][2] = e + 1 /\ F[j][2] <= f
        BY <1>1, <1>2, <2>2, <3>2 DEF DataInOrder
      <4>. QED BY <1>1, <2>2, <3>2, <4>1 DEF DataInOrder
    <3>. QED BY <3>1, <3>2
  <2>. QED BY <2>1, <2>2 DEF GoesOn
<1>5. NoData(G, 0, j) => G[j] = <<"p", 1, 1>>
  BY <1>0, <1>1, GrownNoData DEF DataInOrder
<1>6. ASSUME NEW i \in 1 .. j - 1, IsData(G[i]), NoData(G, i, j)
      PROVE  G[j] = Follow(G[i], s, f)
  <2>1. i \in 1 .. Len(F) /\ i \in Nat
    BY <1>0
  <2>2. G[i] = F[i] /\ NoData(F, i, j) /\ IsData(F[i])
    BY <1>6, <2>1, GrownNoData DEF Grown
  <2>3. F[j] = Follow(F[i], s, e)
    BY <1>1, <2>2 DEF DataInOrder
  <2>4. F[i][2] \in Nat /\ F[i][3] \in Nat /\ DataInOrder(F, s, e, k, i)
    BY <1>0, <2>1, <2>2, ByteTyped DEF DataOK
  <2>5. Follow(F[i], s, e) = Follow(F[i], s, f)
    <3>1. CASE f = e
      BY <3>1
    <3>2. CASE f = e + 1 /\ s[e + 1] = k
      <4>1. CASE F[i][2] <= e
        <5>1. F[i][2] <= f
          BY <1>2, <2>4, <3>2, <4>1
        <5>. QED BY <4>1, <5>1 DEF Follow
      <4>2. CASE ~(F[i][2] <= e)
        <5>1. F[i][2] = e + 1
          BY <1>2, <2>4, <4>2 DEF DataInOrder
        <5>2. F[j] = <<"p", e + 1, F[i][3] + 1>>
          BY <2>3, <4>2, <5>1 DEF Follow
        <5>3. F[j][2] = e + 1 /\ F[j][3] = F[i][3] + 1 /\ ~(F[j][2] <= e)
          BY <1>2, <5>2
        <5>4. F[i][3] + 1 <= k
          BY <1>1, <5>3 DEF DataInOrder
        <5>5. F[i][3] # s[F[i][2]]
          BY <1>2, <2>4, <3>2, <5>1, <5>4
        <5>. QED BY <4>2, <5>5 DEF Follow
      <4>. QED BY <4>1, <4>2
    <3>. QED BY <3>1, <3>2 DEF GoesOn
  <2>. QED BY <1>0, <2>2, <2>3, <2>5
<1>. QED BY <1>0, <1>3, <1>4, <1>5, <1>6 DEF DataInOrder

LEMMA OldChunks ==
  ASSUME NEW F, NEW G, Grown(F, G), NEW s, NEW e \in Nat, NEW f \in Nat, e <= f,
         LengthOK(F, s, e), Len(F) < Len(G) => Starts(G, Len(F) + 1),
         NEW i \in 1 .. Len(F), Starts(G, i)
  PROVE  ChunkOK(G, s, f, i, G[i][2])
<1>. DEFINE L == Len(F)
            K == Len(G)
            n == F[i][2]
            a == i - 1
            z == i + 2 + n
<1>0. L \in Nat /\ K \in Nat /\ L <= K /\ F \in Seq(Byte)
  BY LenProperties DEF Grown
<1>1. \A j \in 1 .. L : G[j] = F[j]
  BY DEF Grown
<1>2. G[i] = F[i] /\ n \in Nat /\ i \in 1 .. L
  BY <1>0, <1>1, ByteTyped
<1>3. ChunkOK(F, s, e, i, n)
  BY <1>2 DEF LengthOK, Starts
<1>4. z <= L + 1 /\ F[i + 1] = <<"h", n, 2>>
  BY <1>3 DEF ChunkOK
<1>5. \A j \in (i + 2) .. (i + 1 + n) : IsData(F[j])
  BY <1>3 DEF ChunkOK
<1>6. z <= L => Starts(F, z)
  BY <1>3 DEF ChunkOK
<1>7. n = 0 => i > 1 /\ IsData(F[a]) /\ F[a][2] <= e /\ F[a][3] = s[F[a][2]]
  BY <1>3 DEF ChunkOK
<1>8. n > 0 /\ i > 1 /\ IsData(F[a]) => F[i + 2][2] = F[a][2]
  BY <1>3 DEF ChunkOK
<1>. HIDE DEF L, K, n
<1>9. /\ i + 1 \in 1 .. L /\ (i > 1 => a \in 1 .. L) /\ (n > 0 => i + 2 \in 1 .. L)
      /\ z <= K + 1 /\ (z <= L => z \in 1 .. L) /\ (z <= K /\ ~(z <= L) => z = L + 1 /\ L < K)
  <2>1. L \in Nat /\ K \in Nat /\ L <= K /\ n \in Nat /\ i \in 1 .. L /\ i + 2 + n <= L + 1
    BY <1>0, <1>2, <1>4
  <2>. QED BY ONLY <2>1
<1>10. \A j \in (i + 2) .. (i + 1 + n) : j \in 1 .. L
  BY <1>0, <1>2, <1>4
<1>. HIDE DEF a, z
<1>11. G[i + 1] = <<"h", n, 2>> 
  BY <1>1, <1>4, <1>9
<1>12. \A j \in (i + 2) .. (i + 1 + n) : IsData(G[j])
  BY <1>1, <1>5, <1>10
<1>13. z <= K => Starts(G, z)
  <2>1. CASE z <= L
    <3>1. G[z] = F[z]
      BY <1>1, <1>9, <2>1
    <3>. QED BY <1>6, <2>1, <3>1 DEF Starts
  <2>2. CASE ~(z <= L)
    BY <1>9, <2>2 DEF L, K
  <2>. QED BY <2>1, <2>2
<1>14. n = 0 => i > 1 /\ IsData(G[a]) /\ G[a][2] <= f /\ G[a][3] = s[G[a][2]]
  <2>. SUFFICES ASSUME n = 0 PROVE i > 1 /\ IsData(G[a]) /\ G[a][2] <= f /\ G[a][3] = s[G[a][2]]
    OBVIOUS
  <2>1. i > 1 /\ IsData(F[a]) /\ F[a][2] <= e /\ F[a][3] = s[F[a][2]]
    BY <1>7
  <2>2. a \in 1 .. L /\ G[a] = F[a]
    BY <1>1, <1>9, <2>1
  <2>3. F[a][2] \in Nat
    BY <1>0, <2>2, ByteTyped DEF L
  <2>4. F[a][2] <= f
    BY <2>1, <2>3
  <2>. QED BY <2>1, <2>2, <2>4
<1>15. n > 0 /\ i > 1 /\ IsData(G[a]) => G[i + 2][2] = G[a][2]
  BY <1>1, <1>8, <1>9
<1>16. G[i][2] = n
  BY <1>2 DEF n
<1>17. ChunkOK(G, s, f, i, n)
  BY <1>9, <1>11, <1>12, <1>13, <1>14, <1>15 DEF ChunkOK, K, a, z
<1>. QED BY <1>16, <1>17

LEMMA OldSizes ==
  ASSUME NEW F, NEW G, Grown(F, G), NEW s, NEW e, LengthOK(F, s, e), NEW whole \in BOOLEAN,
         SizesOK(F, whole), whole \/ (Len(F) < Len(G) /\ G[Len(F) + 1][2] = 0),
         NEW i \in 1 .. Len(F), Starts(G, i)
  PROVE  SizeOK(G, TRUE, i, G[i][2])
<1>. DEFINE L == Len(F)
            K == Len(G)
            n == F[i][2]
            z == i + 2 + n
<1>0. L \in Nat /\ K \in Nat /\ L <= K /\ F \in Seq(Byte)
  BY LenProperties DEF Grown
<1>1. \A j \in 1 .. L : G[j] = F[j]
  BY DEF Grown
<1>2. G[i] = F[i] /\ n \in Nat /\ i \in 1 .. L
  BY <1>0, <1>1, ByteTyped
<1>3. z <= L + 1
  BY <1>2 DEF LengthOK, Starts, ChunkOK
<1>4. SizeOK(F, whole, i, n)
  BY <1>2 DEF SizesOK, Starts
<1>5. n <= MaxChunk
  BY <1>4 DEF SizeOK
<1>6. n > 0 /\ n < MinChunk => (whole => z <= L) /\ (z <= L => F[z][2] = 0)
  BY <1>4 DEF SizeOK
<1>. HIDE DEF L, K, n
<1>7. z \in 1 .. L \/ z = L + 1
  <2>1. L \in Nat /\ n \in Nat /\ i \in 1 .. L /\ i + 2 + n <= L + 1
    BY <1>0, <1>2, <1>3
  <2>. QED BY ONLY <2>1
<1>. HIDE DEF z
<1>8. n > 0 /\ n < MinChunk => z <= K /\ G[z][2] = 0
  <2>. SUFFICES ASSUME n > 0, n < MinChunk PROVE z <= K /\ G[z][2] = 0
    OBVIOUS
  <2>1. CASE z \in 1 .. L
    <3>1. z <= L /\ z <= K /\ G[z] = F[z]
      BY <1>0, <1>1, <2>1
    <3>. QED BY <1>6, <3>1
  <2>2. CASE z = L + 1
    <3>1. ~(z <= L) /\ ~whole
      BY <1>0, <1>6, <2>2
    <3>2. L < K /\ G[z][2] = 0
      BY <2>2, <3>1 DEF L, K
    <3>. QED BY <1>0, <2>2, <3>2
  <2>. QED BY <1>7, <2>1, <2>2
<1>9. SizeOK(G, TRUE, i, n)
  BY <1>5, <1>8 DEF SizeOK, K, z
<1>. QED BY <1>2, <1>9 DEF n

\* The end of a message is appended.
LEMMA AppendEnd ==
  ASSUME NEW F \in Seq(Byte), NEW s \in Seq(Nat), NEW e \in Nat, NEW k \in Nat \ {0}, s[e + 1] = k,
         Framing(F, s, e, k), SizesOK(F, FALSE)
  PROVE  Framing(F \o Header(0), s, e + 1, 0) /\ SizesOK(F \o Header(0), TRUE)
<1>. DEFINE h == Header(0)
            G == F \o h
            L == Len(F)
            f == e + 1
<1>1. h \in Seq(Byte) /\ Len(h) = 2 /\ h[1] = <<"h", 0, 1>> /\ h[2] = <<"h", 0, 2>>
  BY HeaderTyped
<1>. HIDE DEF h
<1>2. /\ Grown(F, G) /\ Len(G) = L + 2 /\ G[L + 1] = h[1] /\ G[L + 2] = h[2]
  <2>1. /\ Grown(F, G) /\ Len(G) = L + Len(h)
        /\ \A i \in 1 .. Len(h) : G[L + i] = h[i]
    BY <1>1, GrownBy
  <2>2. 1 \in 1 .. Len(h) /\ 2 \in 1 .. Len(h)
    BY <1>1
  <2>. QED BY <1>1, <2>1, <2>2
<1>. HIDE DEF G
<1>3. L \in Nat \ {0} /\ F[L] = <<"p", e + 1, k>>
  BY LenProperties DEF Framing, EndOK
<1>4. G[L] = F[L] /\ G[1] = F[1] /\ \A j \in 1 .. L : G[j] = F[j]
  <2>1. L \in 1 .. L /\ 1 \in 1 .. L
    BY <1>3
  <2>. QED BY <1>2, <2>1 DEF Grown
<1>5. \A j \in 1 .. Len(G) : j \in 1 .. L \/ j = L + 1 \/ j = L + 2
  <2>1. L \in Nat /\ Len(G) = L + 2
    BY <1>2, <1>3
  <2>. HIDE DEF L
  <2>. QED BY ONLY <2>1
<1>6. ~IsData(G[L + 1]) /\ ~IsData(G[L + 2]) /\ Starts(G, L + 1) /\ ~Starts(G, L + 2) /\ G[L + 1][2] = 0
  BY <1>1, <1>2 DEF IsData, Starts
<1>7. GoesOn(s, e, k, f, 0)
  BY DEF GoesOn
<1>8. DataOK(G, s, f, 0)
  <2>. SUFFICES ASSUME NEW j \in 1 .. Len(G), IsData(G[j]) PROVE DataInOrder(G, s, f, 0, j)
    BY DEF DataOK
  <2>1. j \in 1 .. Len(F)
    BY <1>5, <1>6
  <2>. HIDE DEF f
  <2>. QED BY <1>2, <1>7, <2>1, OldData DEF Framing
<1>9. EndOK(G, s, f, 0)
  <2>1. Len(G) = L + 2 /\ Len(G) > 2 /\ Len(G) - 1 = L + 1 /\ Len(G) - 2 = L /\ f > 0 /\ ~(0 > 0)
    BY <1>2, <1>3
  <2>. QED BY <1>1, <1>2, <1>3, <1>4, <2>1 DEF EndOK
<1>10. ChunkOK(G, s, f, L + 1, 0)
  <2>. DEFINE i == L + 1
  <2>1. /\ i + 2 + 0 <= Len(G) + 1 /\ i + 1 = L + 2 /\ ~(i + 2 + 0 <= Len(G)) /\ i > 1 /\ i - 1 = L
        /\ (i + 2) .. (i + 1 + 0) = {}
    BY <1>2, <1>3
  <2>2. IsData(G[L]) /\ G[L][2] = e + 1 /\ G[L][3] = k
    BY <1>3, <1>4 DEF IsData
  <2>. HIDE DEF i
  <2>3. G[i + 1] = <<"h", 0, 2>>
    BY <1>1, <1>2, <2>1
  <2>4. ChunkOK(G, s, f, i, 0)
    BY <2>1, <2>2, <2>3 DEF ChunkOK
  <2>. QED BY <2>4 DEF i
<1>11. \A i \in 1 .. L : Starts(G, i) => ChunkOK(G, s, f, i, G[i][2])
  <2>1. e <= f /\ f \in Nat
    OBVIOUS
  <2>. HIDE DEF f, L
  <2>. QED BY <1>2, <1>6, <2>1, OldChunks DEF Framing, L
<1>12. LengthOK(G, s, f)
  <2>1. Starts(G, 1)
    BY <1>3, <1>4 DEF Framing, LengthOK, Starts
  <2>2. ASSUME NEW i \in 1 .. Len(G), Starts(G, i) PROVE ChunkOK(G, s, f, i, G[i][2])
    BY <1>5, <1>6, <1>10, <1>11, <2>2
  <2>. QED BY <2>1, <2>2 DEF LengthOK
<1>13. SizesOK(G, TRUE)
  <2>1. L < Len(G)
    BY <1>2, <1>3
  <2>2. \A i \in 1 .. L : Starts(G, i) => SizeOK(G, TRUE, i, G[i][2])
    BY <1>2, <1>6, <2>1, OldSizes DEF Framing
  <2>3. SizeOK(G, TRUE, L + 1, 0)
    <3>1. 0 <= MaxChunk /\ ~(0 > 0)
      BY Constants
    <3>. QED BY <3>1 DEF SizeOK
  <2>4. ASSUME NEW i \in 1 .. Len(G), Starts(G, i) PROVE SizeOK(G, TRUE, i, G[i][2])
    BY <1>5, <1>6, <2>2, <2>3, <2>4
  <2>. QED BY <2>4 DEF SizesOK
<1>. QED BY <1>8, <1>9, <1>12, <1>13 DEF Framing, G, h

\* The bytes of a chunk behind e messages and k bytes of the next.
Chunked(F, G, e, k, n) ==
  /\ Grown(F, G) /\ Len(G) = Len(F) + 2 + n
  /\ e \in Nat /\ k \in Nat /\ n \in Nat \ {0}
  /\ G[Len(F) + 1] = <<"h", n, 1>> /\ G[Len(F) + 2] = <<"h", n, 2>>
  /\ \A x \in 1 .. n : G[Len(F) + 2 + x] = <<"p", e + 1, k + x>>

\* A chunk of n bytes is appended.
IsChunk(c, e, k, n) == c = Header(n) \o Payload(e + 1, k + 1, k + n)

LEMMA ChunkBytes ==
  ASSUME NEW F \in Seq(Byte), NEW e \in Nat, NEW k \in Nat, NEW n \in Nat \ {0},
         NEW c, IsChunk(c, e, k, n)
  PROVE  c \in Seq(Byte) /\ Chunked(F, F \o c, e, k, n)
<1>. DEFINE h == Header(n)
            p == Payload(e + 1, k + 1, k + n)
            G == F \o c
            L == Len(F)
<1>1. h \in Seq(Byte) /\ Len(h) = 2 /\ h[1] = <<"h", n, 1>> /\ h[2] = <<"h", n, 2>>
  BY HeaderTyped
<1>2. p \in Seq(Byte) /\ Len(p) = n /\ \A x \in 1 .. n : p[x] = <<"p", e + 1, k + x>>
  <2>. DEFINE m == e + 1
              a == k + 1
              b == k + n
  <2>1. m \in Nat /\ a \in Nat \ {0} /\ b \in Nat /\ a <= b + 1 /\ b + 1 - a = n /\ \A x \in 1 .. n : a + x - 1 = k + x
    OBVIOUS
  <2>. HIDE DEF m, a, b
  <2>2. /\ Payload(m, a, b) \in Seq(Byte)
        /\ Len(Payload(m, a, b)) = IF a <= b + 1 THEN b + 1 - a ELSE 0
        /\ \A i \in 1 .. b + 1 - a : Payload(m, a, b)[i] = <<"p", m, a + i - 1>>
    BY <2>1, PayloadTyped
  <2>3. /\ Payload(m, a, b) \in Seq(Byte) /\ Len(Payload(m, a, b)) = n
        /\ \A i \in 1 .. n : Payload(m, a, b)[i] = <<"p", m, k + i>>
    BY <2>1, <2>2
  <2>. QED BY <2>3 DEF m, a, b
<1>. HIDE DEF h, p
<1>3. c = h \o p
  BY DEF IsChunk, h, p
<1>4. /\ Grown(h, c) /\ Len(c) = Len(h) + Len(p)
      /\ \A i \in 1 .. Len(p) : c[Len(h) + i] = p[i]
  BY <1>1, <1>2, <1>3, GrownBy
<1>5. c \in Seq(Byte) /\ Len(c) = 2 + n /\ c[1] = h[1] /\ c[2] = h[2] /\ \A x \in 1 .. n : c[2 + x] = p[x]
  <2>1. 1 \in 1 .. Len(h) /\ 2 \in 1 .. Len(h)
    BY <1>1
  <2>. QED BY <1>1, <1>2, <1>4, <2>1 DEF Grown
<1>6. /\ Grown(F, G) /\ Len(G) = L + Len(c)
      /\ \A i \in 1 .. Len(c) : G[L + i] = c[i]
  BY <1>5, GrownBy
<1>7. L \in Nat /\ 1 \in 1 .. Len(c) /\ 2 \in 1 .. Len(c)
  BY <1>5, LenProperties
<1>. HIDE DEF G, L
<1>8. ASSUME NEW x \in 1 .. n PROVE G[L + 2 + x] = <<"p", e + 1, k + x>>
  <2>1. PICK y \in 1 .. Len(c) : y = 2 + x /\ L + y = L + 2 + x
    BY <1>5, <1>7
  <2>2. G[L + y] = c[y] /\ c[y] = p[x]
    BY <1>5, <1>6, <2>1
  <2>. QED BY <1>2, <2>1, <2>2
<1>9. Len(G) = L + 2 + n
  BY <1>5, <1>6, <1>7
<1>10. e \in Nat /\ k \in Nat /\ n \in Nat \ {0} /\ G[L + 1] = <<"h", n, 1>> /\ G[L + 2] = <<"h", n, 2>>
  BY <1>1, <1>5, <1>6, <1>7
<1>11. Chunked(F, G, e, k, n)
  BY <1>6, <1>8, <1>9, <1>10 DEF Chunked, L
<1>. QED BY <1>5, <1>11 DEF G

LEMMA ChunkPositions ==
  ASSUME NEW F, NEW G, NEW e, NEW k, NEW n, Chunked(F, G, e, k, n)
  PROVE  /\ Len(F) \in Nat
         /\ \A j \in 1 .. Len(G) : \/ j \in 1 .. Len(F) \/ j = Len(F) + 1 \/ j = Len(F) + 2
                                   \/ \E x \in 1 .. n : j = Len(F) + 2 + x
         /\ ~IsData(G[Len(F) + 1]) /\ ~IsData(G[Len(F) + 2])
         /\ Starts(G, Len(F) + 1) /\ ~Starts(G, Len(F) + 2)
         /\ \A x \in 1 .. n : IsData(G[Len(F) + 2 + x]) /\ ~Starts(G, Len(F) + 2 + x)
<1>1. Len(F) \in Nat
  BY LenProperties DEF Chunked, Grown
<1>. DEFINE L == Len(F)
            K == Len(G)
<1>2. K = L + 2 + n /\ n \in Nat
  BY DEF Chunked
<1>. HIDE DEF L, K
<1>3. ASSUME NEW j \in 1 .. K
      PROVE  j \in 1 .. L \/ j = L + 1 \/ j = L + 2 \/ \E x \in 1 .. n : j = L + 2 + x
  <2>1. L \in Nat /\ n \in Nat /\ K = L + 2 + n
    BY <1>1, <1>2 DEF L
  <2>2. CASE j > L + 2
    <3>1. j - (L + 2) \in 1 .. n /\ j = L + 2 + (j - (L + 2))
      BY <2>1, <2>2
    <3>. QED BY <3>1
  <2>3. CASE ~(j > L + 2)
    BY <2>1, <2>3
  <2>. QED BY <2>2, <2>3
<1>4. ~IsData(G[L + 1]) /\ ~IsData(G[L + 2]) /\ Starts(G, L + 1) /\ ~Starts(G, L + 2)
  BY DEF Chunked, IsData, Starts, L
<1>5. ASSUME NEW x \in 1 .. n PROVE IsData(G[L + 2 + x]) /\ ~Starts(G, L + 2 + x)
  <2>1. G[L + 2 + x] = <<"p", e + 1, k + x>>
    BY DEF Chunked, L
  <2>. DEFINE i == L + 2 + x
  <2>. HIDE DEF i
  <2>2. G[i] = <<"p", e + 1, k + x>> => G[i][1] = "p"
    OBVIOUS
  <2>3. G[i][1] = "p"
    BY <2>1, <2>2 DEF i
  <2>4. IsData(G[i]) /\ ~Starts(G, i)
    BY <2>3 DEF IsData, Starts
  <2>. QED BY <2>4 DEF i
<1>. QED BY <1>1, <1>3, <1>4, <1>5 DEF L, K

\* The first byte of a chunk follows the last that was sent.
LEMMA FirstOfChunk ==
  ASSUME NEW F, NEW G, NEW e, NEW k, NEW n, Chunked(F, G, e, k, n), NEW s,
         DataOK(F, s, e, k), EndOK(F, s, e, k)
  PROVE  LET j == Len(F) + 3
         IN  /\ NoData(G, 0, j) => G[j] = <<"p", 1, 1>>
             /\ \A i \in 1 .. j - 1 : IsData(G[i]) /\ NoData(G, i, j) => G[j] = Follow(G[i], s, e)
<1>. DEFINE L == Len(F)
            j == L + 3
<1>01. L \in Nat /\ ~IsData(G[L + 1]) /\ ~IsData(G[L + 2])
  BY ChunkPositions
<1>02. e \in Nat /\ k \in Nat /\ n \in Nat \ {0} /\ F \in Seq(Byte)
  BY DEF Chunked, Grown
<1>1. /\ L \in Nat /\ ~IsData(G[L + 1]) /\ ~IsData(G[L + 2])
      /\ e \in Nat /\ k \in Nat /\ n \in Nat \ {0} /\ F \in Seq(Byte)
  BY <1>01, <1>02
<1>2. \A i \in 1 .. L : G[i] = F[i]
  BY DEF Chunked, Grown
<1>3. G[j] = <<"p", e + 1, k + 1>>
  <2>1. 1 \in 1 .. n /\ L + 2 + 1 = j
    BY <1>1
  <2>. QED BY <2>1 DEF Chunked
<1>4. EndOK(F, s, e, k)
  OBVIOUS
<1>. HIDE DEF L
<1>5. CASE k > 0
  <2>1. L > 0 /\ F[L] = <<"p", e + 1, k>>
    BY <1>4, <1>5 DEF EndOK, L
  <2>2. L \in 1 .. L /\ G[L] = <<"p", e + 1, k>> /\ L \in 0 + 1 .. j - 1 /\ IsData(G[L])
    BY <1>1, <1>2, <2>1 DEF IsData
  <2>3. ~NoData(G, 0, j)
    BY <2>2 DEF NoData
  <2>4. ASSUME NEW i \in 1 .. j - 1, IsData(G[i]), NoData(G, i, j)
        PROVE  G[j] = Follow(G[i], s, e)
    <3>1. i = L
      <4>1. CASE i < L
        <5>1. L \in i + 1 .. j - 1
          BY <1>1, <4>1
        <5>. QED BY <2>2, <2>4, <5>1 DEF NoData
      <4>2. CASE i > L
        <5>1. i = L + 1 \/ i = L + 2
          BY <1>1, <4>2
        <5>. QED BY <1>1, <2>4, <5>1
      <4>. QED BY <1>1, <4>1, <4>2
    <3>2. Follow(G[i], s, e) = <<"p", e + 1, k + 1>>
      <4>1. ~(e + 1 <= e)
        BY <1>1
      <4>. QED BY <2>2, <3>1, <4>1 DEF Follow
    <3>. QED BY <1>3, <3>2
  <2>. QED BY <2>3, <2>4 DEF L
<1>6. CASE ~(k > 0) /\ e > 0
  <2>1. /\ L > 2 /\ F[L] = <<"h", 0, 2>> /\ F[L - 1] = <<"h", 0, 1>> /\ F[L - 2] = <<"p", e, s[e]>>
    BY <1>4, <1>6 DEF EndOK, L
  <2>. DEFINE a == L - 2
              b == L - 1
  <2>2. a \in 1 .. L /\ b \in 1 .. L /\ L \in 1 .. L /\ a \in 0 + 1 .. j - 1
    BY <1>1, <2>1
  <2>3. G[a] = <<"p", e, s[e]>> /\ IsData(G[a]) /\ ~IsData(G[b]) /\ ~IsData(G[L])
    BY <1>2, <2>1, <2>2 DEF IsData
  <2>4. ~NoData(G, 0, j)
    BY <2>2, <2>3 DEF NoData
  <2>5. ASSUME NEW i \in 1 .. j - 1, IsData(G[i]), NoData(G, i, j)
        PROVE  G[j] = Follow(G[i], s, e)
    <3>1. i = a
      <4>1. CASE i < a
        <5>1. a \in i + 1 .. j - 1
          BY <1>1, <4>1
        <5>. HIDE DEF a
        <5>. QED BY <2>3, <2>5, <5>1 DEF NoData
      <4>2. CASE i > a
        <5>1. i = b \/ i = L \/ i = L + 1 \/ i = L + 2
          BY <1>1, <4>2
        <5>. QED BY <1>1, <2>3, <2>5, <5>1
      <4>. QED BY <1>1, <4>1, <4>2
    <3>2. Follow(G[i], s, e) = <<"p", e + 1, 1>>
      <4>1. e <= e
        BY <1>1
      <4>. HIDE DEF a
      <4>. QED BY <2>3, <3>1, <4>1 DEF Follow
    <3>3. k + 1 = 1
      BY <1>1, <1>6
    <3>. QED BY <1>3, <3>2, <3>3
  <2>. QED BY <2>4, <2>5 DEF L
<1>7. CASE ~(k > 0) /\ ~(e > 0)
  <2>1. L = 0
    BY <1>4, <1>7 DEF EndOK, L
  <2>2. e + 1 = 1 /\ k + 1 = 1
    BY <1>1, <1>7
  <2>3. ASSUME NEW i \in 1 .. j - 1, IsData(G[i]) PROVE FALSE
    <3>1. i = L + 1 \/ i = L + 2
      BY <2>1
    <3>. QED BY <1>1, <2>3, <3>1
  <2>. QED BY <1>3, <2>2, <2>3 DEF L
<1>. QED BY <1>5, <1>6, <1>7

\* Each further byte follows the one before it.
LEMMA RestOfChunk ==
  ASSUME NEW F, NEW G, NEW e, NEW k, NEW n, Chunked(F, G, e, k, n), NEW s, NEW x \in 2 .. n
  PROVE  LET j == Len(F) + 2 + x
         IN  /\ NoData(G, 0, j) => G[j] = <<"p", 1, 1>>
             /\ \A i \in 1 .. j - 1 : IsData(G[i]) /\ NoData(G, i, j) => G[j] = Follow(G[i], s, e)
<1>. DEFINE L == Len(F)
            j == L + 2 + x
            h == L + 2 + (x - 1)
<1>1. L \in Nat /\ e \in Nat /\ k \in Nat /\ n \in Nat
  BY ChunkPositions DEF Chunked
<1>2. /\ x - 1 \in 1 .. n /\ x \in 1 .. n /\ h = j - 1 /\ h \in 0 + 1 .. j - 1 /\ x \in Nat
      /\ \A i \in 1 .. j - 1 : i = h \/ h \in i + 1 .. j - 1
  BY <1>1
<1>3. G[h] = <<"p", e + 1, k + (x - 1)>> /\ G[j] = <<"p", e + 1, k + x>>
  BY <1>2 DEF Chunked
<1>4. IsData(G[h])
  BY <1>3 DEF IsData
<1>5. Follow(G[h], s, e) = <<"p", e + 1, k + x>>
  <2>1. ~(e + 1 <= e) /\ k + (x - 1) + 1 = k + x
    BY <1>1, <1>2
  <2>. HIDE DEF h
  <2>. QED BY <1>3, <2>1 DEF Follow
<1>. HIDE DEF h, j
<1>6. ~NoData(G, 0, j)
  BY <1>2, <1>4 DEF NoData
<1>7. ASSUME NEW i \in 1 .. j - 1, IsData(G[i]), NoData(G, i, j) PROVE G[j] = Follow(G[i], s, e)
  <2>1. i = h
    BY <1>2, <1>4, <1>7 DEF NoData
  <2>. QED BY <1>3, <1>5, <2>1
<1>. QED BY <1>6, <1>7 DEF j

LEMMA ChunkData ==
  ASSUME NEW F, NEW G, NEW e, NEW k, NEW n, Chunked(F, G, e, k, n), NEW s \in Seq(Nat),
         DataOK(F, s, e, k), EndOK(F, s, e, k)
  PROVE  DataOK(G, s, e, k + n)
<1>. DEFINE L == Len(F)
            l == k + n
<1>01. L \in Nat /\ ~IsData(G[L + 1]) /\ ~IsData(G[L + 2])
  BY ChunkPositions
<1>02. e \in Nat /\ k \in Nat /\ n \in Nat /\ Grown(F, G)
  BY DEF Chunked
<1>1. /\ e \in Nat /\ k \in Nat /\ n \in Nat /\ Grown(F, G) /\ L \in Nat
      /\ ~IsData(G[L + 1]) /\ ~IsData(G[L + 2])
  BY <1>01, <1>02
<1>2. GoesOn(s, e, k, e, l)
  BY <1>1 DEF GoesOn
<1>. SUFFICES ASSUME NEW j \in 1 .. Len(G), IsData(G[j]) PROVE DataInOrder(G, s, e, l, j)
  BY DEF DataOK
<1>5. \/ j \in 1 .. L \/ j = L + 1 \/ j = L + 2
      \/ \E x \in 1 .. n : j = L + 2 + x
  BY ChunkPositions
<1>3. CASE j \in 1 .. L
  <2>. HIDE DEF l
  <2>. QED BY <1>1, <1>2, <1>3, OldData
<1>4. CASE \E x \in 1 .. n : j = L + 2 + x
  <2>1. PICK x \in 1 .. n : j = L + 2 + x
    BY <1>4
  <2>2. G[j] = <<"p", e + 1, k + x>>
    BY <2>1 DEF Chunked
  <2>3. /\ G[j][2] = e + 1 /\ G[j][3] = k + x /\ ~(e + 1 <= e) /\ e + 1 \in 1 .. e + 1
        /\ k + x > 0 /\ k + x <= l
    BY <1>1, <2>1, <2>2
  <2>4. /\ NoData(G, 0, j) => G[j] = <<"p", 1, 1>>
        /\ \A i \in 1 .. j - 1 : IsData(G[i]) /\ NoData(G, i, j) => G[j] = Follow(G[i], s, e)
    <3>1. CASE x = 1
      <4>1. j = L + 3
        BY <1>1, <2>1, <3>1
      <4>. QED BY <4>1, FirstOfChunk
    <3>2. CASE x # 1
      <4>1. x \in 2 .. n
        BY <1>1, <2>1, <3>2
      <4>. QED BY <2>1, <4>1, RestOfChunk
    <3>. QED BY <3>1, <3>2
  <2>. QED BY <2>3, <2>4 DEF DataInOrder
<1>. HIDE DEF L
<1>. QED BY <1>1, <1>3, <1>4, <1>5

\* The bounds of a chunk's own bytes.
LEMMA NewChunk ==
  ASSUME NEW F, NEW G, NEW e, NEW k, NEW n, Chunked(F, G, e, k, n), NEW s \in Seq(Nat),
         EndOK(F, s, e, k)
  PROVE  ChunkOK(G, s, e, Len(F) + 1, n)
<1>. DEFINE L == Len(F)
            i == L + 1
            a == i - 1
<1>1. L \in Nat /\ F \in Seq(Byte)
  BY LenProperties DEF Chunked, Grown
<1>2. e \in Nat /\ k \in Nat /\ n \in Nat \ {0} /\ Len(G) = L + 2 + n
  BY DEF Chunked
<1>3. G[i + 1] = <<"h", n, 2>>
  <2>1. i + 1 = L + 2
    BY <1>1
  <2>. HIDE DEF i
  <2>. QED BY <2>1 DEF Chunked
<1>4. G[i + 2] = <<"p", e + 1, k + 1>>
  <2>1. i + 2 = L + 2 + 1 /\ 1 \in 1 .. n
    BY <1>1, <1>2
  <2>2. G[L + 2 + 1] = <<"p", e + 1, k + 1>>
    BY <2>1 DEF Chunked
  <2>. HIDE DEF i
  <2>. QED BY <2>1, <2>2
<1>5. \A j \in (i + 2) .. (i + 1 + n) : IsData(G[j])
  <2>. SUFFICES ASSUME NEW j \in (i + 2) .. (i + 1 + n) PROVE IsData(G[j])
    OBVIOUS
  <2>1. PICK x \in 1 .. n : j = L + 2 + x
    <3>1. j - (L + 2) \in 1 .. n /\ j = L + 2 + (j - (L + 2))
      BY <1>1, <1>2
    <3>. QED BY <3>1
  <2>2. IsData(G[L + 2 + x])
    BY ChunkPositions
  <2>. QED BY <2>1, <2>2
<1>6. IsData(G[a]) /\ i > 1 => G[i + 2][2] = G[a][2]
  <2>. SUFFICES ASSUME IsData(G[a]), i > 1 PROVE G[i + 2][2] = G[a][2]
    OBVIOUS
  <2>1. a = L /\ L > 0 /\ L \in 1 .. L
    BY <1>1
  <2>2. G[a] = F[L]
    BY <2>1 DEF Chunked, Grown
  <2>3. k > 0
    <3>. SUFFICES ASSUME ~(k > 0) PROVE FALSE
      OBVIOUS
    <3>1. F[L] = <<"h", 0, 2>>
      <4>. HIDE DEF L
      <4>. QED BY <2>1 DEF EndOK, L
    <3>. HIDE DEF a
    <3>. QED BY <2>2, <3>1 DEF IsData
  <2>4. F[L] = <<"p", e + 1, k>>
    BY <2>3 DEF EndOK
  <2>. HIDE DEF a, i
  <2>. QED BY <1>4, <2>2, <2>4
<1>7. /\ i + 2 + n <= Len(G) + 1 /\ ~(i + 2 + n <= Len(G)) /\ ~(n = 0)
  BY <1>1, <1>2
<1>. HIDE DEF i
<1>8. ChunkOK(G, s, e, i, n)
  BY <1>3, <1>5, <1>6, <1>7 DEF ChunkOK
<1>. QED BY <1>8 DEF i

LEMMA ChunkEnd ==
  ASSUME NEW F, NEW G, NEW e, NEW k, NEW n, Chunked(F, G, e, k, n), NEW s
  PROVE  EndOK(G, s, e, k + n)
<1>1. Len(F) \in Nat /\ e \in Nat /\ k \in Nat /\ n \in Nat \ {0} /\ Len(G) = Len(F) + 2 + n
  BY LenProperties DEF Chunked, Grown
<1>2. n \in 1 .. n /\ k + n > 0 /\ Len(G) > 0
  BY <1>1
<1>3. G[Len(F) + 2 + n] = <<"p", e + 1, k + n>>
  BY <1>2 DEF Chunked
<1>. QED BY <1>1, <1>2, <1>3 DEF EndOK

LEMMA ChunkLengths ==
  ASSUME NEW F, NEW G, NEW e, NEW k, NEW n, Chunked(F, G, e, k, n), NEW s \in Seq(Nat),
         Framing(F, s, e, k)
  PROVE  LengthOK(G, s, e)
<1>. DEFINE L == Len(F)
<1>1. /\ \A j \in 1 .. Len(G) : \/ j \in 1 .. L \/ j = L + 1 \/ j = L + 2
                                \/ \E x \in 1 .. n : j = L + 2 + x
  BY ChunkPositions
<1>2. Starts(G, L + 1) /\ ~Starts(G, L + 2) /\ L \in Nat
  BY ChunkPositions
<1>3. \A x \in 1 .. n : ~Starts(G, L + 2 + x)
  BY ChunkPositions
<1>4. Grown(F, G) /\ e \in Nat /\ e <= e /\ Len(G) > 0 /\ G[L + 1][2] = n
  <2>1. Grown(F, G) /\ e \in Nat /\ n \in Nat \ {0} /\ Len(G) = L + 2 + n /\ G[L + 1] = <<"h", n, 1>>
    BY DEF Chunked
  <2>2. <<"h", n, 1>>[2] = n
    OBVIOUS
  <2>. HIDE DEF L
  <2>3. G[L + 1][2] = n
    BY <2>1, <2>2
  <2>4. e <= e /\ Len(G) > 0
    BY <1>2, <2>1
  <2>. QED BY <2>1, <2>3, <2>4
<1>5. \A i \in 1 .. L : Starts(G, i) => ChunkOK(G, s, e, i, G[i][2])
  <2>1. LengthOK(F, s, e)
    BY DEF Framing
  <2>. QED BY <1>2, <1>4, <2>1, OldChunks
<1>6. ChunkOK(G, s, e, L + 1, n)
  BY NewChunk DEF Framing
<1>7. Starts(G, 1)
  <2>1. CASE L = 0
    BY <1>2, <2>1
  <2>2. CASE L # 0
    <3>1. 1 \in 1 .. L /\ L > 0
      BY <1>2, <2>2
    <3>2. G[1] = F[1] /\ Starts(F, 1)
      BY <1>4, <3>1 DEF Grown, Framing, LengthOK
    <3>. QED BY <3>2 DEF Starts
  <2>. QED BY <2>1, <2>2
<1>. HIDE DEF L
<1>8. ASSUME NEW i \in 1 .. Len(G), Starts(G, i) PROVE ChunkOK(G, s, e, i, G[i][2])
  <2>1. CASE i \in 1 .. L
    BY <1>5, <1>8, <2>1
  <2>2. CASE i = L + 1
    BY <1>4, <1>6, <2>2
  <2>. QED BY <1>1, <1>2, <1>3, <1>8, <2>1, <2>2
<1>. QED BY <1>4, <1>7, <1>8 DEF LengthOK

LEMMA ChunkSizes ==
  ASSUME NEW F, NEW G, NEW e, NEW k, NEW n, Chunked(F, G, e, k, n), NEW s,
         LengthOK(F, s, e), SizesOK(F, TRUE), n <= MaxChunk
  PROVE  SizesOK(G, FALSE) /\ (n >= MinChunk => SizesOK(G, TRUE))
<1>. DEFINE L == Len(F)
<1>1. /\ \A j \in 1 .. Len(G) : \/ j \in 1 .. L \/ j = L + 1 \/ j = L + 2
                                \/ \E x \in 1 .. n : j = L + 2 + x
  BY ChunkPositions
<1>2. Starts(G, L + 1) /\ ~Starts(G, L + 2) /\ L \in Nat
  BY ChunkPositions
<1>3. \A x \in 1 .. n : ~Starts(G, L + 2 + x)
  BY ChunkPositions
<1>4. Grown(F, G) /\ G[L + 1][2] = n /\ Len(G) = L + 2 + n /\ n \in Nat
  <2>1. Grown(F, G) /\ n \in Nat /\ Len(G) = L + 2 + n /\ G[L + 1] = <<"h", n, 1>>
    BY DEF Chunked
  <2>2. <<"h", n, 1>>[2] = n
    OBVIOUS
  <2>. HIDE DEF L
  <2>. QED BY <2>1, <2>2
<1>5. \A i \in 1 .. L : Starts(G, i) => SizeOK(G, TRUE, i, G[i][2])
  BY <1>4, OldSizes
<1>6. \A i \in 1 .. L : Starts(G, i) => SizeOK(G, FALSE, i, G[i][2])
  BY <1>5 DEF SizeOK
<1>7. SizeOK(G, FALSE, L + 1, n) /\ (n >= MinChunk => SizeOK(G, TRUE, L + 1, n))
  <2>1. ~(L + 1 + 2 + n <= Len(G)) /\ MinChunk \in Nat
    BY <1>2, <1>4, Constants
  <2>2. n >= MinChunk => ~(n < MinChunk)
    BY <1>4, <2>1
  <2>. QED BY <2>1, <2>2 DEF SizeOK
<1>. HIDE DEF L
<1>8. \A i \in 1 .. Len(G) : Starts(G, i) => i \in 1 .. L \/ i = L + 1
  BY <1>1, <1>2, <1>3
<1>9. SizesOK(G, FALSE)
  BY <1>4, <1>6, <1>7, <1>8 DEF SizesOK
<1>10. n >= MinChunk => SizesOK(G, TRUE)
  BY <1>4, <1>5, <1>7, <1>8 DEF SizesOK
<1>. QED BY <1>9, <1>10

LEMMA AppendChunk ==
  ASSUME NEW F \in Seq(Byte), NEW s \in Seq(Nat), NEW e \in Nat, NEW k \in Nat,
         NEW n \in Nat \ {0}, n <= MaxChunk, NEW c, IsChunk(c, e, k, n),
         Framing(F, s, e, k), SizesOK(F, TRUE)
  PROVE  /\ F \o c \in Seq(Byte) /\ Framing(F \o c, s, e, k + n) /\ SizesOK(F \o c, FALSE)
         /\ n >= MinChunk => SizesOK(F \o c, TRUE)
<1>. DEFINE G == F \o c
<1>1. Chunked(F, G, e, k, n)
  BY ChunkBytes
<1>2. G \in Seq(Byte)
  BY <1>1 DEF Chunked, Grown
<1>. HIDE DEF G
<1>3. DataOK(F, s, e, k) /\ EndOK(F, s, e, k) /\ LengthOK(F, s, e)
  BY DEF Framing
<1>4. Framing(G, s, e, k + n)
  BY <1>1, <1>3, ChunkData, ChunkEnd, ChunkLengths DEF Framing
<1>5. SizesOK(G, FALSE) /\ (n >= MinChunk => SizesOK(G, TRUE))
  BY <1>1, <1>3, ChunkSizes
<1>. QED BY <1>2, <1>4, <1>5 DEF G

-----------------------------------------------------------------------------
(* The chunks that a write adds.                                            *)
LEMMA PayloadPart ==
  ASSUME NEW m \in Nat, NEW g \in Nat, NEW L \in Nat, NEW x \in 0 .. L, NEW y \in x .. L
  PROVE  SubSeq(Payload(m, g + 1, g + L), x + 1, y) = Payload(m, g + x + 1, g + y)
<1>. DEFINE p == Payload(m, g + 1, g + L)
            u == SubSeq(p, x + 1, y)
            v == Payload(m, g + x + 1, g + y)
<1>1. p \in Seq(Byte) /\ Len(p) = L /\ \A i \in 1 .. L : p[i] = <<"p", m, g + i>>
  <2>. DEFINE a == g + 1
              b == g + L
  <2>1. a \in Nat \ {0} /\ b \in Nat /\ a <= b + 1 /\ b + 1 - a = L /\ \A i \in 1 .. L : a + i - 1 = g + i
    OBVIOUS
  <2>. HIDE DEF a, b
  <2>2. /\ Payload(m, a, b) \in Seq(Byte)
        /\ Len(Payload(m, a, b)) = IF a <= b + 1 THEN b + 1 - a ELSE 0
        /\ \A i \in 1 .. b + 1 - a : Payload(m, a, b)[i] = <<"p", m, a + i - 1>>
    BY <2>1, PayloadTyped
  <2>3. /\ Payload(m, a, b) \in Seq(Byte) /\ Len(Payload(m, a, b)) = L
        /\ \A i \in 1 .. L : Payload(m, a, b)[i] = <<"p", m, g + i>>
    BY <2>1, <2>2
  <2>. QED BY <2>3 DEF a, b
<1>2. v \in Seq(Byte) /\ Len(v) = y - x /\ \A i \in 1 .. y - x : v[i] = <<"p", m, g + x + i>>
  <2>. DEFINE a == g + x + 1
              b == g + y
  <2>1. /\ a \in Nat \ {0} /\ b \in Nat /\ a <= b + 1 /\ b + 1 - a = y - x
        /\ \A i \in 1 .. y - x : a + i - 1 = g + x + i
    OBVIOUS
  <2>. HIDE DEF a, b
  <2>2. /\ Payload(m, a, b) \in Seq(Byte)
        /\ Len(Payload(m, a, b)) = IF a <= b + 1 THEN b + 1 - a ELSE 0
        /\ \A i \in 1 .. b + 1 - a : Payload(m, a, b)[i] = <<"p", m, a + i - 1>>
    BY <2>1, PayloadTyped
  <2>3. /\ Payload(m, a, b) \in Seq(Byte) /\ Len(Payload(m, a, b)) = y - x
        /\ \A i \in 1 .. y - x : Payload(m, a, b)[i] = <<"p", m, g + x + i>>
    BY <2>1, <2>2
  <2>. QED BY <2>3 DEF a, b
<1>. HIDE DEF p, v
<1>3. /\ x + 1 \in 1 .. Len(p) + 1 /\ y \in 0 .. Len(p)
      /\ (IF x + 1 <= y THEN y - (x + 1) + 1 ELSE 0) = y - x /\ y - (x + 1) + 1 = y - x
  BY <1>1
<1>4. u \in Seq(Byte) /\ Len(u) = y - x /\ \A i \in 1 .. y - x : u[i] = p[x + 1 + i - 1]
  <2>. DEFINE a == x + 1
  <2>1. a \in 1 .. Len(p) + 1
    BY <1>3
  <2>. HIDE DEF a
  <2>2. /\ SubSeq(p, a, y) \in Seq(Byte)
        /\ Len(SubSeq(p, a, y)) = IF a <= y THEN y - a + 1 ELSE 0
        /\ \A i \in 1 .. y - a + 1 : SubSeq(p, a, y)[i] = p[a + i - 1]
    BY <1>1, <1>3, <2>1, SubSeqTyped
  <2>. QED BY <1>3, <2>2 DEF a
<1>. HIDE DEF u
<1>5. ASSUME NEW i \in 1 .. Len(u) PROVE u[i] = v[i]
  <2>1. PICK j \in 1 .. L : j = x + 1 + i - 1 /\ g + j = g + x + i
    BY <1>4
  <2>2. i \in 1 .. y - x
    BY <1>4
  <2>3. u[i] = p[j]
    BY <1>4, <2>1, <2>2
  <2>. QED BY <1>1, <1>2, <2>1, <2>2, <2>3
<1>6. u = v
  BY <1>2, <1>4, <1>5, SeqEqual
<1>. QED BY <1>6 DEF u, v, p

\* Where piece k ends.
Stop(data, max, q, k) == IF k < q THEN k * max ELSE Len(data)

PieceAt(data, max, q, t, k) ==
  LET a == Stop(data, max, q, k - 1)
      b == Stop(data, max, q, k)
  IN  /\ a \in Nat /\ b \in Nat /\ a <= b /\ b <= Len(data)
      /\ b = a + (IF k < q THEN max ELSE t)
      /\ Piece(data, max, k) = SubSeq(data, a + 1, b)

LEMMA CutStops ==
  ASSUME NEW data \in Seq(Byte), NEW max \in Nat \ {0}, NEW q, NEW t, CutInto(data, max, q, t),
         NEW k \in 1 .. q
  PROVE  PieceAt(data, max, q, t, k)
<1>1. /\ q \in Nat \ {0} /\ t \in 1 .. max /\ Len(data) \in Nat /\ Len(data) = (q - 1) * max + t
      /\ k \in Nat /\ k - 1 < q
  BY LenProperties DEF CutInto
<1>2. /\ (k - 1) * max \in Nat /\ k * max = (k - 1) * max + max
      /\ Lesser(k * max, Len(data)) = (k - 1) * max + (IF k < q THEN max ELSE t)
      /\ Lesser(k * max, Len(data)) <= Len(data)
  BY DEF CutInto
<1>. DEFINE a == (k - 1) * max
            b == Stop(data, max, q, k)
<1>3. Stop(data, max, q, k - 1) = a
  BY <1>1 DEF Stop
<1>4. b = a + (IF k < q THEN max ELSE t) /\ b = Lesser(k * max, Len(data))
  <2>1. CASE k < q
    BY <1>2, <2>1 DEF Stop
  <2>2. CASE ~(k < q)
    <3>1. k = q
      BY <1>1, <2>2
    <3>. QED BY <1>1, <1>2, <2>2, <3>1 DEF Stop
  <2>. QED BY <2>1, <2>2
<1>5. Piece(data, max, k) = SubSeq(data, a + 1, b)
  BY <1>4 DEF Piece
<1>. HIDE DEF a, b
<1>6. a \in Nat
  BY <1>2 DEF a
<1>7. b \in Nat /\ a <= b /\ b <= Len(data)
  BY <1>1, <1>2, <1>4, <1>6
<1>. QED BY <1>3, <1>4, <1>5, <1>6, <1>7 DEF b, PieceAt

\* What e messages and g bytes of the next have become.
Given(F, s, e, g, whole) == F \in Seq(Byte) /\ Framing(F, s, e, g) /\ SizesOK(F, whole)

LEMMA PieceFollows ==
  ASSUME NEW F \in Seq(Byte), NEW s \in Seq(Nat), NEW e \in Nat, NEW g \in Nat, NEW L \in Nat,
         NEW data, data = Payload(e + 1, g + 1, g + L), data \in Seq(Byte), Len(data) = L,
         NEW q, NEW t, CutInto(data, MaxChunk, q, t), NEW k \in 1 .. q, k < q \/ t >= MinChunk,
         Given(F \o FlattenSeq(Pieces(data, MaxChunk, k - 1)), s, e,
               g + Stop(data, MaxChunk, q, k - 1), TRUE)
  PROVE  Given(F \o FlattenSeq(Pieces(data, MaxChunk, k)), s, e,
               g + Stop(data, MaxChunk, q, k), TRUE)
<1>. DEFINE a == Stop(data, MaxChunk, q, k - 1)
            b == Stop(data, MaxChunk, q, k)
            n == IF k < q THEN MaxChunk ELSE t
            piece == Piece(data, MaxChunk, k)
            c == WithLength(piece)
            f == FlattenSeq(Pieces(data, MaxChunk, k - 1))
            G == F \o f
<1>1. a \in Nat /\ b \in Nat /\ a <= b /\ b <= L /\ b = a + n /\ piece = SubSeq(data, a + 1, b)
  <2>1. PieceAt(data, MaxChunk, q, t, k)
    BY Constants, CutStops
  <2>. QED BY <2>1 DEF PieceAt
<1>2. n \in Nat \ {0} /\ n <= MaxChunk /\ n >= MinChunk /\ q \in Nat
  BY Constants DEF CutInto
<1>3. piece \in Seq(Byte) /\ Len(piece) = n /\ c \in Seq(Byte)
  BY DEF CutInto
<1>. HIDE DEF n, a, b
<1>4. a \in 0 .. L /\ b \in a .. L /\ g + b = (g + a) + n /\ g + a \in Nat
  BY <1>1, <1>2
<1>5. piece = Payload(e + 1, g + a + 1, g + b)
  <2>1. e + 1 \in Nat
    OBVIOUS
  <2>2. SubSeq(Payload(e + 1, g + 1, g + L), a + 1, b) = Payload(e + 1, g + a + 1, g + b)
    BY <1>4, <2>1, PayloadPart
  <2>. HIDE DEF piece
  <2>. QED BY <1>1, <2>2
<1>6. IsChunk(c, e, g + a, n)
  <2>1. c = Header(n) \o Payload(e + 1, g + a + 1, g + b)
    BY <1>3, <1>5 DEF WithLength
  <2>. HIDE DEF c
  <2>. QED BY <1>4, <2>1 DEF IsChunk
<1>7. FlattenSeq(Pieces(data, MaxChunk, k)) = f \o c /\ f \in Seq(Byte)
  <2>. DEFINE P(i) == Pieces(data, MaxChunk, i)
  <2>1. k - 1 \in 0 .. q /\ k \in Nat /\ k - 1 \in Nat
    BY <1>2
  <2>2. P(k - 1) \in Seq(Seq(Byte)) /\ Len(P(k - 1)) = k - 1 /\ f \in Seq(Byte)
    BY <2>1, Constants, PiecesTyped
  <2>3. P(k) = Append(P(k - 1), c)
    <3>. DEFINE w(i) == WithLength(Piece(data, MaxChunk, i))
                j == k - 1
    <3>1. P(k) = [i \in 1 .. k |-> w(i)] /\ P(j) = [i \in 1 .. j |-> w(i)] /\ c = w(k)
      BY DEF Pieces
    <3>. HIDE DEF w, P, c
    <3>2. Len(P(j)) = j /\ j \in Nat /\ j + 1 = k
      BY <2>1, <2>2
    <3>3. Append(P(j), c) = [i \in 1 .. j + 1 |-> IF i <= j THEN P(j)[i] ELSE c]
      BY <2>2, <3>2, AppendProperties
    <3>4. \A i \in 1 .. k : (IF i <= j THEN P(j)[i] ELSE c) = w(i)
      <4>1. \A i \in 1 .. k : i <= j => i \in 1 .. j
        BY <3>2
      <4>2. \A i \in 1 .. k : ~(i <= j) => i = k
        BY <3>2
      <4>. QED BY <3>1, <4>1, <4>2
    <3>. QED BY <3>1, <3>2, <3>3, <3>4
  <2>. HIDE DEF P, c
  <2>4. FlattenSeq(P(k)) = FlattenSeq(P(k - 1)) \o c
    BY <1>3, <2>2, <2>3, FlattenAppend
  <2>. QED BY <2>2, <2>4 DEF P
<1>. HIDE DEF c, f
<1>8. G \in Seq(Byte) /\ Framing(G, s, e, g + a) /\ SizesOK(G, TRUE)
  BY DEF Given, a, f
<1>. HIDE DEF G
<1>9. G \o c \in Seq(Byte) /\ Framing(G \o c, s, e, (g + a) + n) /\ SizesOK(G \o c, TRUE)
  <2>. DEFINE h == g + a
  <2>1. h \in Nat
    BY <1>4
  <2>. HIDE DEF h
  <2>2. Framing(G, s, e, h) /\ IsChunk(c, e, h, n)
    BY <1>6, <1>8 DEF h
  <2>3. /\ G \o c \in Seq(Byte) /\ Framing(G \o c, s, e, h + n)
        /\ n >= MinChunk => SizesOK(G \o c, TRUE)
    BY <1>2, <1>8, <2>1, <2>2, AppendChunk
  <2>. QED BY <1>2, <2>3 DEF h
<1>10. F \o (f \o c) = G \o c
  <2>1. F \in Seq(Byte) /\ f \in Seq(Byte) /\ c \in Seq(Byte)
    BY <1>3, <1>7 DEF c
  <2>. QED BY ONLY <2>1, Regroup DEF G
<1>. QED BY <1>4, <1>7, <1>9, <1>10 DEF Given, b

\* A plan writes the data up to some byte, and keeps the rest.
PlanMade(F, s, e, g, L, data) ==
  LET plan == ChunkPlan(data, MinChunk, MaxChunk)
  IN  \E h \in 0 .. L : /\ Given(F \o plan.out, s, e, g + h, TRUE)
                       /\ plan.keep = Payload(e + 1, g + h + 1, g + L)

LEMMA PlanFollows ==
  ASSUME NEW F \in Seq(Byte), NEW s \in Seq(Nat), NEW e \in Nat, NEW g \in Nat,
         NEW L \in Nat \ {0}, NEW data, data = Payload(e + 1, g + 1, g + L),
         Given(F, s, e, g, TRUE)
  PROVE  PlanMade(F, s, e, g, L, data)
<1>. DEFINE plan == ChunkPlan(data, MinChunk, MaxChunk)
            P(n) == FlattenSeq(Pieces(data, MaxChunk, n))
<1>1. data \in Seq(Byte) /\ Len(data) = L /\ data # <<>>
  <2>. DEFINE a == g + 1
              b == g + L
  <2>1. a \in Nat \ {0} /\ b \in Nat /\ a <= b + 1 /\ b + 1 - a = L /\ e + 1 \in Nat
    OBVIOUS
  <2>. HIDE DEF a, b
  <2>2. /\ Payload(e + 1, a, b) \in Seq(Byte)
        /\ Len(Payload(e + 1, a, b)) = IF a <= b + 1 THEN b + 1 - a ELSE 0
    BY <2>1, PayloadTyped
  <2>3. data \in Seq(Byte) /\ Len(data) = L
    BY <2>1, <2>2 DEF a, b
  <2>. QED BY <2>3, EmptySeq
<1>2. PICK q, t :
        /\ CutInto(data, MaxChunk, q, t)
        /\ plan.out = P(IF t < MinChunk THEN q - 1 ELSE q)
        /\ plan.keep = IF t < MinChunk THEN Piece(data, MaxChunk, q) ELSE <<>>
  <2>1. MaxChunk \in Nat \ {0} /\ MinChunk \in Nat
    BY Constants
  <2>. QED BY <1>1, <2>1, PlanIsCut
<1>3. q \in Nat \ {0} /\ t \in 1 .. MaxChunk /\ MinChunk \in Nat /\ MaxChunk \in Nat \ {0}
  BY <1>2, Constants DEF CutInto
<1>. DEFINE w == IF t < MinChunk THEN q - 1 ELSE q
            stop(n) == Stop(data, MaxChunk, q, n)
            G(n) == Given(F \o P(n), s, e, g + stop(n), TRUE)
            N == {n \in Nat : n <= w => G(n)}
<1>4. w \in Nat /\ w <= q
  BY <1>3
<1>5. 0 \in N
  <2>1. stop(0) = 0
    BY <1>3 DEF Stop
  <2>2. P(0) = <<>>
    <3>1. Pieces(data, MaxChunk, 0) = <<>>
      BY DEF Pieces
    <3>. QED BY <3>1 DEF FlattenSeq
  <2>3. F \o <<>> = F /\ g + 0 = g
    BY ConcatEmptySeq
  <2>. QED BY <2>1, <2>2, <2>3
<1>6. ASSUME NEW n \in Nat, n \in N PROVE n + 1 \in N
  <2>. HIDE DEF G
  <2>0. (n + 1 <= w => G(n + 1)) => n + 1 \in N
    OBVIOUS
  <2>. SUFFICES ASSUME n + 1 <= w PROVE G(n + 1)
    BY <2>0
  <2>. DEFINE k == n + 1
  <2>1. k \in 1 .. q /\ k - 1 = n /\ n <= w /\ (k < q \/ t >= MinChunk)
    BY <1>3, <1>4
  <2>2. G(n)
    BY <1>6, <2>1
  <2>. HIDE DEF k, P, stop, N, w
  <2>3. Given(F \o P(k), s, e, g + stop(k), TRUE)
    <3>1. Given(F \o P(k - 1), s, e, g + stop(k - 1), TRUE)
      BY <2>1, <2>2 DEF G
    <3>2. CutInto(data, MaxChunk, q, t)
      BY <1>2
    <3>. QED BY <1>1, <2>1, <3>1, <3>2, PieceFollows DEF P, stop
  <2>. QED BY <2>3 DEF k, G
<1>. HIDE DEF N
<1>7. Nat \subseteq N
  BY <1>5, <1>6, NaturalsInSet
<1>8. Given(F \o P(w), s, e, g + stop(w), TRUE)
  <2>1. w \in N
    BY <1>4, <1>7
  <2>. HIDE DEF w, P, stop
  <2>. HIDE DEF G
  <2>2. w <= w => G(w)
    BY <2>1 DEF N
  <2>3. w <= w
    BY <1>4
  <2>. QED BY <2>2, <2>3 DEF G
<1>9. CASE t < MinChunk
  <2>1. w = q - 1 /\ q \in 1 .. q /\ ~(q < q)
    BY <1>3, <1>9
  <2>2. PieceAt(data, MaxChunk, q, t, q)
    BY <1>1, <1>2, <1>3, <2>1, CutStops
  <2>3. stop(q) = L
    BY <1>1, <2>1 DEF Stop
  <2>4. stop(q - 1) \in Nat /\ stop(q - 1) <= L /\ plan.keep = SubSeq(data, stop(q - 1) + 1, L)
    BY <1>1, <1>2, <1>9, <2>2, <2>3 DEF PieceAt
  <2>. DEFINE h == stop(q - 1)
  <2>. HIDE DEF h, P, plan
  <2>5. h \in 0 .. L /\ L \in h .. L /\ plan.keep = SubSeq(data, h + 1, L) /\ e + 1 \in Nat
    BY <2>4 DEF h
  <2>6. SubSeq(data, h + 1, L) = Payload(e + 1, g + h + 1, g + L)
    BY <2>5, PayloadPart
  <2>7. Given(F \o plan.out, s, e, g + h, TRUE)
    BY <1>2, <1>8, <1>9, <2>1 DEF h
  <2>. QED BY <2>5, <2>6, <2>7 DEF plan, PlanMade
<1>10. CASE ~(t < MinChunk)
  <2>1. w = q /\ stop(q) = L
    BY <1>1, <1>3, <1>10 DEF Stop
  <2>2. plan.keep = Payload(e + 1, g + L + 1, g + L)
    <3>. DEFINE a == g + L + 1
                b == g + L
    <3>1. a \in Nat \ {0} /\ b \in Nat /\ b < a /\ e + 1 \in Nat
      OBVIOUS
    <3>. HIDE DEF a, b
    <3>2. Payload(e + 1, a, b) = <<>>
      BY <3>1, PayloadTyped
    <3>. QED BY <1>2, <1>10, <3>2 DEF a, b
  <2>3. L \in 0 .. L
    OBVIOUS
  <2>. HIDE DEF plan, P
  <2>4. Given(F \o plan.out, s, e, g + L, TRUE)
    BY <1>2, <1>8, <1>10, <2>1
  <2>. QED BY <2>2, <2>3, <2>4 DEF plan, PlanMade
<1>. QED BY <1>9, <1>10

\* Only the lengths of the messages that have ended matter.
LEMMA SameLengths ==
  ASSUME NEW F, NEW s, NEW u, NEW e \in Nat, NEW k, NEW whole,
         Given(F, s, e, k, whole), \A i \in 1 .. e : s[i] = u[i]
  PROVE  Given(F, u, e, k, whole)
<1>0. F \in Seq(Byte) /\ DataOK(F, s, e, k) /\ EndOK(F, s, e, k) /\ LengthOK(F, s, e) /\ Len(F) \in Nat
  BY LenProperties DEF Given, Framing
<1>1. ASSUME NEW i \in 1 .. Len(F), IsData(F[i])
      PROVE  F[i][2] \in 1 .. e + 1 /\ (F[i][2] <= e => F[i][2] \in 1 .. e)
  <2>1. F[i][2] \in 1 .. e + 1
    BY <1>0, <1>1 DEF DataOK, DataInOrder
  <2>. QED BY <2>1
<1>2. DataOK(F, u, e, k)
  <2>. SUFFICES ASSUME NEW j \in 1 .. Len(F), IsData(F[j]) PROVE DataInOrder(F, u, e, k, j)
    BY DEF DataOK
  <2>1. DataInOrder(F, s, e, k, j)
    BY <1>0 DEF DataOK
  <2>2. F[j][3] <= IF F[j][2] <= e THEN u[F[j][2]] ELSE k
    BY <1>1, <2>1 DEF DataInOrder
  <2>3. ASSUME NEW i \in 1 .. j - 1, IsData(F[i]), NoData(F, i, j) PROVE F[j] = Follow(F[i], u, e)
    <3>1. i \in 1 .. Len(F)
      BY <1>0
    <3>2. F[j] = Follow(F[i], s, e)
      BY <2>1, <2>3 DEF DataInOrder
    <3>3. Follow(F[i], s, e) = Follow(F[i], u, e)
      BY <1>1, <2>3, <3>1 DEF Follow
    <3>. QED BY <3>2, <3>3
  <2>. QED BY <2>1, <2>2, <2>3 DEF DataInOrder
<1>3. EndOK(F, u, e, k)
  <2>1. e > 0 => e \in 1 .. e
    OBVIOUS
  <2>. QED BY <1>0, <2>1 DEF EndOK
<1>4. LengthOK(F, u, e)
  <2>. SUFFICES ASSUME NEW i \in 1 .. Len(F), Starts(F, i) PROVE ChunkOK(F, u, e, i, F[i][2])
    BY <1>0 DEF LengthOK
  <2>1. ChunkOK(F, s, e, i, F[i][2])
    BY <1>0 DEF LengthOK
  <2>. DEFINE a == i - 1
  <2>2. ASSUME F[i][2] = 0
        PROVE  i > 1 /\ IsData(F[a]) /\ F[a][2] <= e /\ F[a][3] = u[F[a][2]]
    <3>1. i > 1 /\ IsData(F[a]) /\ F[a][2] <= e /\ F[a][3] = s[F[a][2]]
      BY <2>1, <2>2 DEF ChunkOK
    <3>2. a \in 1 .. Len(F)
      BY <1>0, <3>1
    <3>. HIDE DEF a
    <3>. QED BY <1>1, <3>1, <3>2
  <2>. QED BY <2>1, <2>2 DEF ChunkOK
<1>. QED BY <1>0, <1>2, <1>3, <1>4 DEF Given, Framing

-----------------------------------------------------------------------------
(* The invariant of sending.                                                *)
Sending == {"sender", "serialize", "write", "close", "flush"}
Live == up /\ pc \in Sending
Composing == pc \in {"serialize", "write"}

\* What has been given to the ring and the socket.
Pending(r, f, t) == From(RbData(r), f + 1) \o t
Fed == out \o Pending(snd, flushed, todo)

Ended == IF Composing THEN Current - 1 ELSE Current
Kept == IF pc = "serialize" THEN chunk.buffer ELSE keep
Started == IF Composing THEN sent[Current] - Len(Kept) ELSE 0

LiveInv ==
  /\ flushed <= snd.used /\ (pc # "flush" => flushed = 0)
  /\ pc \in {"sender", "serialize", "flush"} => todo = <<>>
  /\ pc = "sender" => snd.used = 0
  /\ Given(Fed, sent, Ended, Started, TRUE)
  /\ Composing => Started \in Nat /\ Kept = Payload(Current, Started + 1, sent[Current])

\* The socket has a part of F, of which e messages have ended.
OnTheWire(F, e, k) ==
  /\ Given(F, sent, e, k, TRUE) /\ Leads(out, F) /\ e \in 0 .. Current /\ k \in Nat
  /\ k > 0 => e < Current /\ k <= sent[e + 1]
  /\ Composing => e < Current

OutInv == \E F, e, k : OnTheWire(F, e, k)

SendInv == IF Live THEN LiveInv ELSE OutInv

LEMMA SentTyped ==
  ASSUME TypeInv
  PROVE  /\ sent \in Seq(Nat) /\ Current \in Nat /\ out \in Seq(Byte) /\ todo \in Seq(Byte)
         /\ snd \in Ring(Byte, SndSize) /\ flushed \in Nat /\ keep \in Seq(Byte)
         /\ chunk.buffer \in Seq(Byte)
         /\ Composing => Current \in 1 .. Len(sent) /\ Current - 1 \in Nat /\ sent[Current] \in Nat
<1>1. /\ sent \in Seq(Nat) /\ out \in Seq(Byte) /\ todo \in Seq(Byte)
      /\ snd \in Ring(Byte, SndSize) /\ flushed \in 0 .. SndSize /\ keep \in Seq(Byte)
      /\ chunk.buffer \in Seq(Byte)
      /\ Composing => sent # <<>>
  BY DEF TypeInv, SendTypes, Composing
<1>2. Current \in Nat /\ flushed \in Nat /\ (Composing => Current # 0)
  BY <1>1, Constants, LenProperties, EmptySeq DEF Current
<1>3. Composing => Current \in 1 .. Len(sent) /\ Current - 1 \in Nat
  BY <1>2 DEF Current
<1>. QED BY <1>1, <1>2, <1>3, ElementOfSeq

LEMMA PendingTyped ==
  ASSUME NEW r \in Ring(Byte, SndSize), NEW f \in Nat, f <= r.used, NEW t \in Seq(Byte)
  PROVE  /\ Pending(r, f, t) \in Seq(Byte) /\ From(RbData(r), f + 1) \in Seq(Byte)
         /\ RbData(r) \in Seq(Byte) /\ Len(RbData(r)) = r.used
<1>1. RbData(r) \in Seq(Byte) /\ Len(RbData(r)) = r.used
  BY Constants, RingData
<1>. DEFINE d == RbData(r)
            a == f + 1
<1>. HIDE DEF d
<1>2. a \in 1 .. Len(d) + 1
  BY <1>1, LenProperties DEF d
<1>. HIDE DEF a
<1>3. From(d, a) \in Seq(Byte)
  BY <1>1, <1>2, FromTyped DEF d
<1>. QED BY <1>1, <1>3, ConcatProperties DEF Pending, d, a

\* While the socket is up, everything that was fed is on its way to it.
LEMMA LiveOut ==
  ASSUME TypeInv, Live, LiveInv
  PROVE  OnTheWire(Fed, Ended, Started)
<1>1. /\ sent \in Seq(Nat) /\ Current \in Nat /\ out \in Seq(Byte) /\ todo \in Seq(Byte)
      /\ snd \in Ring(Byte, SndSize) /\ flushed \in Nat /\ keep \in Seq(Byte) /\ chunk.buffer \in Seq(Byte)
  BY SentTyped
<1>2. Composing => Current \in 1 .. Len(sent) /\ Current - 1 \in Nat /\ sent[Current] \in Nat
  BY SentTyped
<1>3. Leads(out, Fed)
  <2>1. Pending(snd, flushed, todo) \in Seq(Byte)
    BY <1>1, PendingTyped DEF LiveInv
  <2>. QED BY <2>1 DEF Leads, Fed
<1>4. Given(Fed, sent, Ended, Started, TRUE)
  BY DEF LiveInv
<1>5. CASE Composing
  <2>1. Started \in Nat /\ Started = sent[Current] - Len(Kept)
    BY <1>5 DEF LiveInv, Started
  <2>2. Ended = Current - 1
    BY <1>5 DEF Ended
  <2>3. Len(Kept) \in Nat
    BY <1>1, LenProperties DEF Kept
  <2>4. Ended \in 0 .. Current /\ Ended < Current /\ Ended + 1 = Current
    BY <1>1, <1>2, <1>5, <2>2
  <2>5. Started <= sent[Current]
    BY <1>2, <1>5, <2>1, <2>3
  <2>. QED BY <1>3, <1>4, <2>1, <2>4, <2>5 DEF OnTheWire
<1>6. CASE ~Composing
  <2>1. Ended = Current /\ Started = 0
    BY <1>6 DEF Ended, Started
  <2>2. Current \in 0 .. Current /\ ~(0 > 0) /\ 0 \in Nat
    BY <1>1
  <2>. QED BY <1>3, <1>4, <1>6, <2>1, <2>2 DEF OnTheWire
<1>. QED BY <1>5, <1>6

\* What the socket has stays right as long as it gets nothing more.
LEMMA OutKept ==
  ASSUME NEW F, NEW e, NEW k, OnTheWire(F, e, k), Current \in Nat, Current' \in Nat,
         out' = out, Current <= Current',
         \A i \in 1 .. e : sent'[i] = sent[i],
         e < Current => sent[e + 1] \in Nat /\ sent'[e + 1] \in Nat /\ sent[e + 1] <= sent'[e + 1],
         Composing' => e < Current'
  PROVE  OutInv'
<1>1. e \in Nat /\ e \in 0 .. Current' /\ (e < Current => e < Current')
  BY DEF OnTheWire
<1>2. Given(F, sent', e, k, TRUE)
  BY <1>1, SameLengths DEF OnTheWire
<1>3. k > 0 => e < Current' /\ k <= sent'[e + 1]
  <2>1. k \in Nat /\ (k > 0 => e < Current /\ k <= sent[e + 1])
    BY DEF OnTheWire
  <2>. QED BY <1>1, <2>1
<1>4. OnTheWire(F, e, k)'
  BY <1>1, <1>2, <1>3 DEF OnTheWire
<1>. QED BY <1>4 DEF OutInv

LEMMA OutSame ==
  ASSUME TypeInv, OutInv, out' = out, sent' = sent, Composing' => Composing
  PROVE  OutInv'
<1>1. PICK F, e, k : OnTheWire(F, e, k)
  BY DEF OutInv
<1>2. Current \in Nat /\ Current' = Current /\ Current <= Current'
  BY SentTyped DEF Current
<1>3. \A i \in 1 .. Current : sent[i] \in Nat
  BY SentTyped, ElementOfSeq DEF Current
<1>4. e < Current => e + 1 \in 1 .. Current
  BY <1>1, <1>2 DEF OnTheWire
<1>5. e < Current => sent[e + 1] \in Nat /\ sent[e + 1] <= sent[e + 1]
  BY <1>3, <1>4
<1>6. Composing' => e < Current'
  BY <1>1, <1>2 DEF OnTheWire
<1>. QED BY <1>1, <1>2, <1>5, <1>6, OutKept

LEMMA NothingFed ==
  ASSUME NEW s
  PROVE  Given(<<>>, s, 0, 0, TRUE)
<1>1. <<>> \in Seq(Byte) /\ Len(<<>>) = 0
  BY EmptySeq
<1>. DEFINE F == <<>>
<1>2. F \in Seq(Byte) /\ Len(F) = 0 /\ 1 .. Len(F) = {} /\ ~(0 > 0)
  BY <1>1
<1>. HIDE DEF F
<1>3. Given(F, s, 0, 0, TRUE)
  BY <1>2 DEF Given, Framing, DataOK, EndOK, LengthOK, SizesOK
<1>. QED BY <1>3 DEF F

LEMMA SendInit ==
  ASSUME Init
  PROVE  SendInv
<1>1. sent = <<>> /\ out = <<>> /\ todo = <<>> /\ flushed = 0 /\ snd = NewRing(SndSize, Nothing)
      /\ pc \in {"sender", "receiver"}
  BY DEF Init
<1>2. RbData(snd) = <<>> /\ snd.used = 0
  BY <1>1, Constants, RingIsNew DEF Nothing, Byte
<1>3. Current = 0 /\ ~Composing /\ Ended = 0 /\ Started = 0
  BY <1>1, EmptySeq DEF Current, Composing, Ended, Started
<1>4. Fed = <<>>
  <2>1. <<>> \in Seq(Byte) /\ Len(<<>>) = 0
    BY EmptySeq
  <2>2. From(<<>>, 0 + 1) = <<>>
    BY <2>1, FromAll
  <2>. QED BY <1>1, <1>2, <2>1, <2>2, ConcatEmptySeq DEF Fed, Pending
<1>5. Given(Fed, sent, Ended, Started, TRUE)
  BY <1>3, <1>4, NothingFed
<1>6. LiveInv
  <2>1. flushed <= snd.used /\ flushed = 0 /\ todo = <<>> /\ snd.used = 0 /\ ~Composing
    BY <1>1, <1>2, <1>3
  <2>. QED BY <1>5, <2>1 DEF LiveInv
<1>7. OutInv
  <2>1. Leads(out, <<>>)
    BY <1>1, EmptySeq, ConcatEmptySeq DEF Leads
  <2>3. Given(<<>>, sent, 0, 0, TRUE)
    BY NothingFed
  <2>4. 0 \in 0 .. Current /\ 0 \in Nat /\ ~(0 > 0)
    BY <1>3
  <2>2. OnTheWire(<<>>, 0, 0)
    BY <1>3, <2>1, <2>3, <2>4 DEF OnTheWire
  <2>. QED BY <2>2 DEF OutInv
<1>. QED BY <1>6, <1>7 DEF SendInv

LEMMA OutHolds ==
  ASSUME TypeInv, SendInv
  PROVE  OutInv
BY LiveOut DEF SendInv, OutInv

\* A step after which the socket gets nothing from the client.
LEMMA NotLive ==
  ASSUME TypeInv, SendInv, ~Live', out' = out, sent' = sent, Composing' => Composing
  PROVE  SendInv'
<1>1. OutInv
  BY OutHolds
<1>2. OutInv'
  BY <1>1, OutSame
<1>. QED BY <1>2 DEF SendInv

LEMMA LiveBefore ==
  ASSUME SendInv, up, pc \in Sending
  PROVE  LiveInv
BY DEF SendInv, Live

LEMMA StartMessageSends ==
  ASSUME TypeInv, SendInv, StartMessage
  PROVE  SendInv'
<1>1. /\ sent \in Seq(Nat) /\ Current \in Nat /\ pc = "sender" /\ pc' = "serialize"
      /\ sent' = Append(sent, 0) /\ chunk'.buffer = <<>> /\ up' = up
      /\ UNCHANGED <<out, snd, todo, flushed, keep>>
  BY SentTyped DEF StartMessage
<1>2. /\ Current' = Current + 1 /\ sent'[Current + 1] = 0 /\ sent' \in Seq(Nat)
      /\ \A i \in 1 .. Current : sent'[i] = sent[i]
  <2>1. /\ sent' \in Seq(Nat) /\ Len(sent') = Len(sent) + 1 /\ sent'[Len(sent) + 1] = 0
        /\ \A i \in 1 .. Len(sent) : sent'[i] = sent[i]
    BY <1>1, AppendProperties
  <2>. QED BY <2>1 DEF Current
<1>3. ~Composing /\ Composing'
  BY <1>1 DEF Composing
<1>4. CASE ~up
  <2>1. OutInv
    BY OutHolds
  <2>2. PICK F, e, k : OnTheWire(F, e, k)
    BY <2>1 DEF OutInv
  <2>3. e \in 0 .. Current
    BY <2>2 DEF OnTheWire
  <2>4. e < Current => sent[e + 1] \in Nat /\ sent'[e + 1] = sent[e + 1]
    <3>1. e < Current => e + 1 \in 1 .. Current
      BY <1>1, <2>3
    <3>2. \A i \in 1 .. Current : sent[i] \in Nat
      BY <1>1, ElementOfSeq DEF Current
    <3>. QED BY <1>2, <3>1, <3>2
  <2>5. e < Current => sent[e + 1] \in Nat /\ sent'[e + 1] \in Nat /\ sent[e + 1] <= sent'[e + 1]
    BY <2>4
  <2>6. /\ \A i \in 1 .. e : sent'[i] = sent[i]
        /\ Current' \in Nat /\ Current <= Current' /\ e < Current'
    <3>1. \A i \in 1 .. e : i \in 1 .. Current
      BY <1>1, <2>3
    <3>2. Current' \in Nat /\ Current <= Current' /\ e < Current'
      <4>1. Current \in Nat /\ e \in 0 .. Current /\ Current' = Current + 1
        BY <1>1, <1>2, <2>3
      <4>. QED BY ONLY <4>1
    <3>. QED BY <1>2, <3>1, <3>2
  <2>7. OutInv'
    BY <1>1, <2>2, <2>5, <2>6, OutKept
  <2>. QED BY <1>1, <1>4, <2>7 DEF SendInv, Live
<1>5. CASE up
  <2>1. LiveInv
    BY <1>1, <1>5, LiveBefore DEF Sending
  <2>2. Fed' = Fed
    BY <1>1 DEF Fed, Pending
  <2>3. Ended' = Current /\ Ended = Current /\ Started = 0
    BY <1>1, <1>2, <1>3 DEF Ended, Started
  <2>4. Kept' = <<>>
    BY <1>1 DEF Kept
  <2>5. Started' = 0
    <3>1. Len(Kept') = 0 /\ sent'[Current'] = 0
      BY <1>2, <2>4, EmptySeq
    <3>2. Started' = sent'[Current'] - Len(Kept')
      BY <1>3 DEF Started
    <3>. QED BY <3>1, <3>2
  <2>6. Given(Fed', sent', Ended', Started', TRUE)
    <3>1. Given(Fed, sent, Current, 0, TRUE)
      BY <2>1, <2>3 DEF LiveInv
    <3>2. Given(Fed, sent', Current, 0, TRUE)
      BY <1>1, <1>2, <3>1, SameLengths
    <3>. QED BY <2>2, <2>3, <2>5, <3>2
  <2>7. Payload(Current', 0 + 1, 0) = <<>>
    <3>. DEFINE a == 0 + 1
    <3>1. a \in Nat \ {0} /\ 0 \in Nat /\ 0 < a /\ Current + 1 \in Nat
      BY <1>1
    <3>. HIDE DEF a
    <3>2. Payload(Current + 1, a, 0) = <<>>
      BY <3>1, PayloadTyped
    <3>. QED BY <1>2, <3>2 DEF a
  <2>8. Started' \in Nat /\ Kept' = Payload(Current', Started' + 1, sent'[Current'])
    BY <1>2, <2>4, <2>5, <2>7
  <2>9. /\ flushed' <= snd'.used /\ flushed' = 0 /\ todo' = <<>>
    BY <1>1, <2>1 DEF LiveInv
  <2>10. LiveInv'
    BY <1>1, <2>6, <2>8, <2>9 DEF LiveInv
  <2>. QED BY <1>1, <1>5, <2>10 DEF SendInv, Live, Sending
<1>. QED BY <1>4, <1>5

\* The message in the buffer grows.
LEMMA Grows ==
  ASSUME TypeInv, SendInv, NEW n \in 1 .. MaxLength, pc = "serialize", UNCHANGED <<out, up>>,
         sent' = [sent EXCEPT ![Current] = @ + n]
  PROVE  /\ Current' = Current /\ Current \in 1 .. Len(sent) /\ sent[Current] \in Nat
         /\ Current - 1 \in Nat /\ sent' \in Seq(Nat)
         /\ sent'[Current] = sent[Current] + n
         /\ \A i \in 1 .. Current - 1 : sent'[i] = sent[i]
         /\ (~Live' => SendInv')
<1>1. sent \in Seq(Nat) /\ Current \in 1 .. Len(sent) /\ Current - 1 \in Nat /\ sent[Current] \in Nat
      /\ Current \in Nat
  BY SentTyped DEF Composing
<1>2. n \in Nat
  BY Constants
<1>3. /\ Len(sent') = Len(sent) /\ sent'[Current] = sent[Current] + n /\ sent' \in Seq(Nat)
      /\ \A i \in 1 .. Len(sent) : i # Current => sent'[i] = sent[i]
  <2>1. sent[Current] + n \in Nat
    BY <1>1, <1>2
  <2>. QED BY <1>1, <2>1, ExceptSeq
<1>4. \A i \in 1 .. Current - 1 : i \in 1 .. Len(sent) /\ i # Current
  BY <1>1 DEF Current
<1>5. Current' = Current
  BY <1>3 DEF Current
<1>6. ASSUME ~Live' PROVE SendInv'
  <2>1. OutInv
    BY OutHolds
  <2>2. PICK F, e, k : OnTheWire(F, e, k)
    BY <2>1 DEF OutInv
  <2>3. e \in 0 .. Current /\ e < Current
    BY <2>2 DEF OnTheWire, Composing
  <2>4. e + 1 \in 1 .. Len(sent)
    BY <1>1, <2>3 DEF Current
  <2>5. sent[e + 1] \in Nat /\ sent'[e + 1] \in Nat /\ sent[e + 1] <= sent'[e + 1]
    <3>1. sent[e + 1] \in Nat /\ sent'[e + 1] \in Nat
      BY <1>1, <1>3, <2>4, ElementOfSeq
    <3>2. CASE e + 1 = Current
      BY <1>1, <1>2, <1>3, <3>1, <3>2
    <3>3. CASE e + 1 # Current
      BY <1>3, <2>4, <3>1, <3>3
    <3>. QED BY <3>2, <3>3
  <2>6. \A i \in 1 .. e : sent'[i] = sent[i]
    <3>1. \A i \in 1 .. e : i \in 1 .. Current - 1
      BY <1>1, <2>3
    <3>. QED BY <1>3, <1>4, <3>1
  <2>7. Current <= Current' /\ e < Current' /\ Current' \in Nat
    BY <1>1, <1>5, <2>3
  <2>8. OutInv'
    BY <1>1, <2>2, <2>5, <2>6, <2>7, OutKept
  <2>. QED BY <1>6, <2>8 DEF SendInv
<1>. QED BY <1>1, <1>3, <1>4, <1>5, <1>6

\* What is fed when more is handed to the ring.
LEMMA FedMore ==
  ASSUME TypeInv, flushed <= snd.used, todo = <<>>, NEW c \in Seq(Byte),
         todo' = c, UNCHANGED <<out, snd, flushed>>
  PROVE  Fed' = Fed \o c /\ Fed \in Seq(Byte)
<1>. DEFINE d == From(RbData(snd), flushed + 1)
<1>1. out \in Seq(Byte) /\ d \in Seq(Byte)
  BY SentTyped, PendingTyped
<1>2. Fed = out \o (d \o <<>>) /\ Fed' = out \o (d \o c)
  BY DEF Fed, Pending
<1>. HIDE DEF d
<1>3. d \o <<>> = d
  BY <1>1, ConcatEmptySeq
<1>4. out \in Seq(Byte) /\ d \in Seq(Byte) /\ c \in Seq(Byte)
  BY <1>1
<1>5. (out \o d) \o c = out \o (d \o c) /\ out \o d \in Seq(Byte)
  BY ONLY <1>4, Regroup, ConcatProperties
<1>. QED BY <1>2, <1>3, <1>5

LEMMA SerializeSends ==
  ASSUME TypeInv, SendInv, NEW n \in 1 .. MaxLength, Serialize(n)
  PROVE  SendInv'
<1>. DEFINE first == sent[Current] + 1
            new == Payload(Current, first, first + n - 1)
            data == chunk.buffer \o new
            plan == ChunkPlan(data, MinChunk, MaxChunk)
<1>1. pc = "serialize" /\ UNCHANGED <<up, snd, out, flushed>>
  BY DEF Serialize
<1>2. CASE VectorsFor(Len(chunk.buffer), n, MaxChunk) > IovMax
  <2>1. pc' = "too many vectors" /\ sent' = sent
    BY <1>2 DEF Serialize
  <2>. QED BY <1>1, <2>1, NotLive DEF Live, Sending, Composing
<1>3. CASE ~(VectorsFor(Len(chunk.buffer), n, MaxChunk) > IovMax)
  <2>1. sent' = [sent EXCEPT ![Current] = @ + n]
    BY <1>3 DEF Serialize
  <2>2. /\ Current' = Current /\ Current \in 1 .. Len(sent) /\ sent[Current] \in Nat
        /\ Current - 1 \in Nat /\ sent' \in Seq(Nat)
        /\ sent'[Current] = sent[Current] + n
        /\ \A i \in 1 .. Current - 1 : sent'[i] = sent[i]
        /\ (~Live' => SendInv')
    BY <1>1, <2>1, Grows
  <2>3. CASE ~up
    BY <1>1, <2>2, <2>3 DEF Live
  <2>4. CASE up
    <3>. DEFINE g == Started
                L == Len(Kept) + n
                e == Current - 1
    <3>1. LiveInv /\ Composing /\ todo = <<>>
      BY <1>1, <2>4, LiveBefore DEF Sending, Composing, LiveInv
    <3>2. /\ g \in Nat /\ Kept = Payload(Current, g + 1, sent[Current]) /\ flushed <= snd.used
          /\ flushed = 0 /\ Given(Fed, sent, Ended, g, TRUE) /\ Ended = e
      BY <1>1, <3>1 DEF LiveInv, Ended
    <3>3. Kept = chunk.buffer /\ Len(Kept) \in Nat /\ g = sent[Current] - Len(Kept) /\ n \in Nat /\ n > 0
      BY <1>1, <3>1, SentTyped, LenProperties, Constants DEF Kept, Started
    <3>. HIDE DEF g
    <3>0. /\ Current \in Nat /\ Current - 1 \in Nat /\ sent[Current] \in Nat /\ Len(Kept) \in Nat
          /\ g \in Nat /\ n \in Nat /\ n > 0 /\ g = sent[Current] - Len(Kept)
      BY <2>2, <3>2, <3>3, SentTyped
    <3>4. /\ e \in Nat /\ L \in Nat \ {0} /\ e + 1 = Current /\ g + L = sent[Current] + n
          /\ first + n - 1 = sent[Current] + n
      BY ONLY <3>0
    <3>5. data = Payload(Current, g + 1, sent[Current] + n)
      <4>. DEFINE a == g + 1
                  b == sent[Current]
                  c == sent[Current] + n
      <4>1. a \in Nat \ {0} /\ b \in Nat /\ c \in Nat /\ a <= b + 1 /\ b <= c /\ Current \in Nat
        BY ONLY <3>0
      <4>2. data = Payload(Current, a, b) \o Payload(Current, b + 1, c)
        BY <3>2, <3>3, <3>4
      <4>. HIDE DEF a, b, c
      <4>3. Payload(Current, a, c) = Payload(Current, a, b) \o Payload(Current, b + 1, c)
        BY <4>1, PayloadSplit
      <4>4. data = Payload(Current, a, c)
        BY <4>2, <4>3
      <4>. QED BY <4>4 DEF a, c
    <3>6. Given(Fed, sent', e, g, TRUE)
      BY <2>2, <3>2, <3>4, SameLengths
    <3>. HIDE DEF data
    <3>7. CASE Len(data) < MinChunk
      <4>1. chunk' = [chunk EXCEPT !.buffer = data] /\ UNCHANGED <<pc, todo, keep>>
        BY <1>3, <3>7 DEF Serialize, data
      <4>2. chunk'.buffer = data /\ chunk \in [buffer : Seq(Byte), dataSent : BOOLEAN]
        BY <4>1 DEF TypeInv, SendTypes
      <4>3. Fed' = Fed
        BY <1>1, <4>1 DEF Fed, Pending
      <4>4. Composing' /\ Ended' = e /\ Kept' = data
        BY <1>1, <2>2, <4>1, <4>2 DEF Composing, Ended, Kept
      <4>5. Len(data) = L
        <5>. DEFINE m == Current
                    a == g + 1
                    b == sent[Current] + n
        <5>1. a \in Nat \ {0} /\ b \in Nat /\ a <= b + 1 /\ b + 1 - a = L /\ m \in Nat
          BY ONLY <3>0
        <5>. HIDE DEF m, a, b
        <5>2. Len(Payload(m, a, b)) = IF a <= b + 1 THEN b + 1 - a ELSE 0
          BY <5>1, PayloadTyped
        <5>. QED BY <3>5, <5>1, <5>2 DEF m, a, b
      <4>6. Started' = g
        <5>1. Started' = sent'[Current'] - Len(Kept')
          BY <4>4 DEF Started
        <5>2. Started' = (sent[Current] + n) - L
          BY <2>2, <4>4, <4>5, <5>1
        <5>. QED BY <2>2, <3>2, <3>4, <5>2
      <4>7. Given(Fed', sent', Ended', Started', TRUE)
        BY <3>6, <4>3, <4>4, <4>6
      <4>8. Started' \in Nat /\ Kept' = Payload(Current', Started' + 1, sent'[Current'])
        BY <2>2, <3>2, <3>5, <4>4, <4>6
      <4>9. flushed' <= snd'.used /\ flushed' = 0 /\ todo' = <<>> /\ pc' = "serialize"
        BY <1>1, <3>1, <3>2, <4>1
      <4>10. LiveInv'
        BY <4>7, <4>8, <4>9 DEF LiveInv
      <4>. QED BY <1>1, <2>4, <4>9, <4>10 DEF SendInv, Live, Sending
    <3>8. CASE ~(Len(data) < MinChunk)
      <4>1. todo' = plan.out /\ keep' = plan.keep /\ pc' = "write"
        BY <1>3, <3>8 DEF Serialize, data
      <4>2. PICK h \in 0 .. L :
              /\ Given(Fed \o plan.out, sent', e, g + h, TRUE)
              /\ plan.keep = Payload(Current, g + h + 1, sent[Current] + n)
        <5>1. data = Payload(e + 1, g + 1, g + L)
          BY <3>4, <3>5
        <5>2. \E h \in 0 .. L :
                /\ Given(Fed \o plan.out, sent', e, g + h, TRUE)
                /\ plan.keep = Payload(e + 1, g + h + 1, g + L)
          <6>. HIDE DEF e, L
          <6>1. Fed \in Seq(Byte)
            BY <3>6 DEF Given
          <6>2. e \in Nat /\ g \in Nat /\ L \in Nat \ {0} /\ sent' \in Seq(Nat)
            BY <2>2, <3>2, <3>4
          <6>. DEFINE u == sent'
                      f == Fed
          <6>3. /\ e \in Nat /\ g \in Nat /\ L \in Nat \ {0} /\ u \in Seq(Nat) /\ f \in Seq(Byte)
                /\ Given(f, u, e, g, TRUE) /\ data = Payload(e + 1, g + 1, g + L)
            BY <3>6, <5>1, <6>1, <6>2
          <6>. HIDE DEF u, f
          <6>4. PlanMade(f, u, e, g, L, data)
            BY <6>3, PlanFollows
          <6>. QED BY <6>4 DEF u, f, PlanMade
        <5>. QED BY <3>4, <5>2
      <4>3. plan.out \in Seq(Byte) /\ plan.keep \in Seq(Byte)
        <5>. DEFINE m == Current
                    a == g + 1
                    b == sent[Current] + n
        <5>1. a \in Nat \ {0} /\ b \in Nat /\ ~(b < a) /\ m \in Nat
          BY <2>2, <3>2, <3>3, <3>4
        <5>. HIDE DEF m, a, b
        <5>2. Payload(m, a, b) \in Seq(Byte) /\ Payload(m, a, b) # <<>>
          BY <5>1, PayloadTyped
        <5>3. data \in Seq(Byte) /\ data # <<>>
          BY <3>5, <5>2 DEF m, a, b
        <5>. QED BY <5>3, Constants, PlanTyped
      <4>. HIDE DEF plan
      <4>4. Fed' = Fed \o plan.out
        BY <1>1, <3>1, <3>2, <4>1, <4>3, FedMore
      <4>5. Composing' /\ Ended' = e /\ Kept' = plan.keep
        BY <2>2, <4>1 DEF Composing, Ended, Kept
      <4>6. Len(plan.keep) = L - h
        <5>. DEFINE m == Current
                    a == g + h + 1
                    b == sent[Current] + n
        <5>1. a \in Nat \ {0} /\ b \in Nat /\ a <= b + 1 /\ b + 1 - a = L - h /\ m \in Nat
          <6>. DEFINE C == Current
                      S == sent[Current]
                      K == Len(Kept)
          <6>1. h \in Int /\ 0 <= h /\ h <= K + n
            BY <3>0
          <6>2. /\ C \in Nat /\ S \in Nat /\ K \in Nat /\ g \in Nat /\ n \in Nat /\ g = S - K
            BY <3>0
          <6>. HIDE DEF C, S, K
          <6>3. g + h + 1 \in Nat \ {0} /\ S + n \in Nat /\ g + h + 1 <= S + n + 1 /\ S + n + 1 - (g + h + 1) = K + n - h
            BY ONLY <6>1, <6>2
          <6>. QED BY <6>2, <6>3 DEF C, S, K
        <5>. HIDE DEF m, a, b
        <5>2. Len(Payload(m, a, b)) = IF a <= b + 1 THEN b + 1 - a ELSE 0
          BY <5>1, PayloadTyped
        <5>. QED BY <4>2, <5>1, <5>2 DEF m, a, b
      <4>7. Started' = g + h
        <5>1. Started' = sent'[Current'] - Len(Kept')
          BY <4>5 DEF Started
        <5>2. Started' = (sent[Current] + n) - (L - h)
          BY <2>2, <4>5, <4>6, <5>1
        <5>. QED BY <2>2, <3>2, <3>4, <5>2
      <4>8. Given(Fed', sent', Ended', Started', TRUE)
        BY <4>2, <4>4, <4>5, <4>7
      <4>9. Started' \in Nat /\ Kept' = Payload(Current', Started' + 1, sent'[Current'])
        <5>1. g + h \in Nat
          BY <3>2, <3>4
        <5>. QED BY <2>2, <4>2, <4>5, <4>7, <5>1
      <4>10. flushed' <= snd'.used /\ flushed' = 0
        BY <1>1, <3>2
      <4>11. LiveInv'
        BY <4>1, <4>8, <4>9, <4>10 DEF LiveInv
      <4>. QED BY <1>1, <2>4, <4>1, <4>11 DEF SendInv, Live, Sending
    <3>. QED BY <3>7, <3>8
  <2>. QED BY <2>3, <2>4
<1>. QED BY <1>2, <1>3

LEMMA CloseMessageSends ==
  ASSUME TypeInv, SendInv, CloseMessage
  PROVE  SendInv'
<1>1. /\ pc = "serialize" /\ pc' = "close" /\ sent[Current] > 0 /\ todo' = ClosePlan(chunk.buffer)
      /\ UNCHANGED <<up, snd, out, sent, chunk, keep, flushed>>
  BY DEF CloseMessage
<1>2. CASE ~up
  BY <1>1, <1>2, NotLive DEF Live, Composing
<1>3. CASE up
  <2>. DEFINE g == Started
              n == Len(Kept)
              e == Current - 1
              c == Header(n) \o Kept
              h == Header(0)
  <2>1. LiveInv /\ Composing /\ todo = <<>>
    BY <1>1, <1>3, LiveBefore DEF Sending, Composing, LiveInv
  <2>2. /\ g \in Nat /\ Kept = Payload(Current, g + 1, sent[Current]) /\ flushed <= snd.used
        /\ flushed = 0 /\ Given(Fed, sent, Ended, g, TRUE) /\ Ended = e
    BY <1>1, <2>1 DEF LiveInv, Ended
  <2>3. /\ Kept = chunk.buffer /\ Kept \in Seq(Byte) /\ n \in Nat /\ g = sent[Current] - n
        /\ Current \in Nat /\ e \in Nat /\ sent[Current] \in Nat /\ sent \in Seq(Nat)
        /\ Current \in 1 .. Len(sent)
    BY <1>1, <2>1, SentTyped, LenProperties DEF Kept, Started
  <2>4. n <= MaxChunk
    <3>1. n <= MinChunk /\ MinChunk \in Nat /\ MaxChunk \in Nat /\ MinChunk <= MaxChunk
      BY <2>3, Constants DEF TypeInv, SendTypes
    <3>. QED BY <2>3, <3>1
  <2>. HIDE DEF g
  <2>5. e + 1 = Current /\ sent[Current] \in Nat \ {0}
    BY <1>1, <2>3
  <2>6. h \in Seq(Byte) /\ Header(n) \in Seq(Byte)
    BY <2>3, HeaderTyped
  <2>. HIDE DEF e, h
  <2>7. ASSUME NEW F \in Seq(Byte), Framing(F, sent, e, sent[Current]), SizesOK(F, FALSE)
        PROVE  Given(F \o h, sent, Current, 0, TRUE)
    <3>. DEFINE k == sent[Current]
    <3>1. k \in Nat \ {0} /\ sent[e + 1] = k /\ e \in Nat
      BY <2>3, <2>5
    <3>2. Framing(F, sent, e, k)
      BY <2>7
    <3>. HIDE DEF k
    <3>3. Framing(F \o h, sent, e + 1, 0) /\ SizesOK(F \o h, TRUE)
      BY <2>3, <2>7, <3>1, <3>2, AppendEnd DEF h
    <3>4. F \o h \in Seq(Byte)
      BY <2>6, <2>7, ConcatProperties
    <3>. QED BY <2>5, <3>3, <3>4 DEF Given
  <2>8. Given(Fed \o todo', sent, Current, 0, TRUE) /\ todo' \in Seq(Byte)
    <3>1. Fed \in Seq(Byte) /\ Framing(Fed, sent, e, g) /\ SizesOK(Fed, TRUE)
      BY <2>2 DEF Given
    <3>2. CASE Kept = <<>>
      <4>1. todo' = h
        <5>1. <<>> \o h = h
          BY <2>6, ConcatEmptySeq
        <5>. QED BY <1>1, <2>3, <3>2, <5>1 DEF ClosePlan, h
      <4>2. g = sent[Current]
        BY <2>3, <3>2, EmptySeq
      <4>3. SizesOK(Fed, FALSE)
        BY <3>1 DEF SizesOK, SizeOK
      <4>. QED BY <2>6, <2>7, <3>1, <4>1, <4>2, <4>3
    <3>3. CASE Kept # <<>>
      <4>1. todo' = c \o h
        BY <1>1, <2>3, <3>3 DEF ClosePlan, h
      <4>2. c \in Seq(Byte) /\ todo' \in Seq(Byte)
        BY <2>3, <2>6, <4>1, ConcatProperties
      <4>3. n \in Nat \ {0}
        BY <2>3, <3>3, EmptySeq
      <4>4. IsChunk(c, e, g, n) /\ g + n = sent[Current]
        <5>1. g + n = sent[Current]
          <6>1. g \in Nat /\ n \in Nat /\ sent[Current] \in Nat /\ g = sent[Current] - n
            BY <2>2, <2>3
          <6>. HIDE DEF n
          <6>. QED BY ONLY <6>1
        <5>. HIDE DEF n
        <5>2. c = Header(n) \o Payload(e + 1, g + 1, g + n)
          BY <2>2, <2>5, <5>1
        <5>. QED BY <5>1, <5>2 DEF IsChunk
      <4>. HIDE DEF c, n
      <4>5. Fed \o c \in Seq(Byte) /\ Framing(Fed \o c, sent, e, g + n) /\ SizesOK(Fed \o c, FALSE)
        <5>. DEFINE F == Fed
        <5>1. F \in Seq(Byte) /\ Framing(F, sent, e, g) /\ SizesOK(F, TRUE)
          BY <3>1
        <5>. HIDE DEF F
        <5>2. F \o c \in Seq(Byte) /\ Framing(F \o c, sent, e, g + n) /\ SizesOK(F \o c, FALSE)
          BY <2>2, <2>3, <2>4, <4>3, <4>4, <5>1, AppendChunk
        <5>. QED BY <5>2 DEF F
      <4>6. Given((Fed \o c) \o h, sent, Current, 0, TRUE)
        BY <2>7, <4>4, <4>5
      <4>7. (Fed \o c) \o h = Fed \o (c \o h)
        <5>1. Fed \in Seq(Byte) /\ c \in Seq(Byte) /\ h \in Seq(Byte)
          BY <2>6, <3>1, <4>2
        <5>. QED BY ONLY <5>1, Regroup
      <4>. QED BY <4>1, <4>2, <4>6, <4>7
    <3>. QED BY <3>2, <3>3
  <2>9. Fed' = Fed \o todo'
    <3>. DEFINE t == todo'
    <3>1. t \in Seq(Byte) /\ todo' = t
      BY <2>8
    <3>. HIDE DEF t
    <3>. QED BY <1>1, <2>1, <2>2, <3>1, FedMore
  <2>10. ~Composing' /\ Ended' = Current /\ Started' = 0
    BY <1>1 DEF Composing, Ended, Started, Current
  <2>11. Given(Fed', sent', Ended', Started', TRUE)
    BY <1>1, <2>8, <2>9, <2>10
  <2>12. flushed' <= snd'.used /\ flushed' = 0
    BY <1>1, <2>2
  <2>13. LiveInv'
    BY <1>1, <2>10, <2>11, <2>12 DEF LiveInv
  <2>. QED BY <1>1, <1>3, <2>13 DEF SendInv, Live, Sending
<1>. QED BY <1>2, <1>3

\* A step that feeds nothing and composes nothing.
LEMMA SameFed ==
  ASSUME SendInv, up, pc \in Sending, pc' \in Sending, Fed' = Fed, up' = up, sent' = sent,
         Composing' <=> Composing, Kept' = Kept,
         flushed' <= snd'.used, pc' # "flush" => flushed' = 0,
         pc' \in {"sender", "serialize", "flush"} => todo' = <<>>,
         pc' = "sender" => snd'.used = 0
  PROVE  SendInv'
<1>1. LiveInv
  BY LiveBefore
<1>2. Ended' = Ended /\ Started' = Started /\ Current' = Current
  BY DEF Ended, Started, Current
<1>3. LiveInv'
  BY <1>1, <1>2 DEF LiveInv
<1>. QED BY <1>3 DEF SendInv, Live

LEMMA WriteBufferedSends ==
  ASSUME TypeInv, SendInv, WriteBuffered
  PROVE  SendInv'
<1>1. /\ pc \in {"write", "close"} /\ pc' = pc /\ todo # <<>> /\ Len(todo) <= RbSpace(snd)
      /\ snd' = RbAppend(snd, todo) /\ todo' = <<>>
      /\ UNCHANGED <<up, out, sent, chunk, keep, flushed>>
  BY DEF WriteBuffered
<1>2. CASE ~up
  BY <1>1, <1>2, NotLive DEF Live, Composing
<1>3. CASE up
  <2>1. LiveInv /\ flushed = 0
    BY <1>1, <1>3, LiveBefore DEF Sending, LiveInv
  <2>2. /\ snd \in Ring(Byte, SndSize) /\ todo \in Seq(Byte) /\ out \in Seq(Byte)
        /\ Len(todo) \in Nat /\ SndSize \in Nat \ {0}
    BY SentTyped, LenProperties, Constants
  <2>3. snd.size = SndSize /\ snd.used \in 0 .. SndSize
    BY <2>2, RingTyped
  <2>4. Lesser(Len(todo), SndSize - snd.used) = Len(todo)
    BY <1>1, <2>2, <2>3 DEF Lesser, RbSpace
  <2>. DEFINE d == RbData(snd)
              x == RbData(snd')
  <2>5. /\ snd' \in Ring(Byte, SndSize) /\ snd'.used = snd.used + Len(todo)
        /\ x = d \o SubSeq(todo, 1, Len(todo))
    <3>1. /\ RbAppend(snd, todo) \in Ring(Byte, SndSize)
          /\ RbAppend(snd, todo).used = snd.used + Lesser(Len(todo), SndSize - snd.used)
          /\ RbData(RbAppend(snd, todo)) =
                d \o SubSeq(todo, 1, Lesser(Len(todo), SndSize - snd.used))
      BY <2>2, RingAppend
    <3>. HIDE DEF d
    <3>. QED BY <1>1, <2>4, <3>1
  <2>6. SubSeq(todo, 1, Len(todo)) = todo
    BY <2>2, SubSeqFull
  <2>7. d \in Seq(Byte)
    BY <2>2, RingData
  <2>. HIDE DEF d, x
  <2>8. x = d \o todo /\ d \o todo \in Seq(Byte)
    BY <2>2, <2>5, <2>6, <2>7, ConcatProperties
  <2>9. From(x, 0 + 1) = x /\ From(d, 0 + 1) = d
    <3>1. x \in Seq(Byte)
      BY <2>8
    <3>. QED BY <2>7, <3>1, FromAll
  <2>10. x \o <<>> = x
    BY <2>8, ConcatEmptySeq
  <2>11. Fed' = Fed
    BY <1>1, <2>1, <2>8, <2>9, <2>10 DEF Fed, Pending, d, x
  <2>12. flushed' <= snd'.used /\ flushed' = 0
    BY <1>1, <2>1, <2>2, <2>3, <2>5
  <2>. QED BY <1>1, <1>3, <2>11, <2>12, SameFed DEF Sending, Composing, Kept
<1>. QED BY <1>2, <1>3

LEMMA WriteThroughSends ==
  ASSUME TypeInv, SendInv, NEW w \in 1 .. snd.used + Len(todo), WriteThrough(w)
  PROVE  SendInv'
<1>. DEFINE after == AfterWrite(snd, todo, w)
            d == RbData(snd)
            y == d \o todo
            a == SubSeq(y, 1, w)
            b == From(y, w + 1)
<1>1. /\ pc \in {"write", "close"} /\ up /\ out' = out \o a
      /\ UNCHANGED <<up, sent, chunk, keep, flushed>>
  BY DEF WriteThrough
<1>2. LiveInv /\ flushed = 0
  BY <1>1, LiveBefore DEF Sending, LiveInv
<1>3. /\ snd \in Ring(Byte, SndSize) /\ todo \in Seq(Byte) /\ out \in Seq(Byte)
      /\ Len(todo) \in Nat /\ SndSize \in Nat \ {0}
  BY SentTyped, LenProperties, Constants
<1>4. d \in Seq(Byte) /\ Len(d) = snd.used /\ snd.used \in 0 .. SndSize
  BY <1>3, RingData, RingTyped
<1>. HIDE DEF d
<1>5. y \in Seq(Byte) /\ Len(y) = snd.used + Len(todo)
  BY <1>3, <1>4, ConcatProperties
<1>6. w \in 0 .. snd.used + Len(todo) /\ w + 1 \in 1 .. Len(y) + 1 /\ w \in 0 .. Len(y) /\ 1 \in 1 .. Len(y) + 1
  BY <1>3, <1>4, <1>5
<1>. HIDE DEF y
<1>7. a \in Seq(Byte) /\ b \in Seq(Byte) /\ a \o b = y
  BY <1>5, <1>6, SubSeqTyped, FromTyped, TakeAndFrom
<1>. HIDE DEF a, b
<1>8. out \o y = (out \o a) \o b
  <2>1. out \in Seq(Byte) /\ a \in Seq(Byte) /\ b \in Seq(Byte)
    BY <1>3, <1>7
  <2>2. (out \o a) \o b = out \o (a \o b)
    BY ONLY <2>1, Regroup
  <2>. QED BY <1>7, <2>2
<1>9. Fed = out \o y
  <2>1. From(d, 0 + 1) = d
    BY <1>4, FromAll
  <2>. QED BY <1>2, <2>1 DEF Fed, Pending, d, y
<1>10. CASE ndebug \/ after.ok
  <2>1. snd' = after.rb /\ todo' = From(todo, after.n + 1) /\ pc' = pc
    BY <1>10 DEF WriteThrough
  <2>2. /\ after.rb \in Ring(Byte, SndSize)
        /\ RbData(after.rb) \o From(todo, after.n + 1) = b
    BY <1>3, <1>6, RingAfterWrite DEF b, y, d
  <2>. HIDE DEF after
  <2>3. snd' \in Ring(Byte, SndSize) /\ RbData(snd') \o todo' = b
    BY <2>1, <2>2
  <2>4. From(RbData(snd'), 0 + 1) = RbData(snd') /\ snd'.used >= 0
    <3>1. RbData(snd') \in Seq(Byte) /\ snd'.used \in 0 .. SndSize
      BY <1>3, <2>3, RingData, RingTyped
    <3>. QED BY <1>3, <3>1, FromAll
  <2>5. Fed' = Fed
    BY <1>1, <1>2, <1>8, <1>9, <2>3, <2>4 DEF Fed, Pending
  <2>6. flushed' <= snd'.used /\ flushed' = 0
    BY <1>1, <1>2, <2>4
  <2>. QED BY <1>1, <2>1, <2>5, <2>6, SameFed DEF Sending, Composing, Kept
<1>11. CASE ~(ndebug \/ after.ok)
  <2>1. pc' = "rb_assert"
    BY <1>11 DEF WriteThrough
  <2>2. OnTheWire(Fed, Ended, Started)
    BY <1>1, <1>2, LiveOut DEF Live, Sending
  <2>3. Leads(out', Fed)
    <3>1. out' \o b = Fed
      BY <1>1, <1>8, <1>9
    <3>. QED BY <1>7, <3>1 DEF Leads
  <2>. DEFINE F == Fed
              e == Ended
              k == Started
  <2>4. Leads(out', F) /\ OnTheWire(F, e, k)
    BY <2>2, <2>3
  <2>. HIDE DEF F, e, k
  <2>5. Current' = Current /\ sent' = sent /\ ~Composing'
    BY <1>1, <2>1 DEF Current, Composing
  <2>6. /\ Given(F, sent', e, k, TRUE) /\ Leads(out', F) /\ e \in 0 .. Current' /\ k \in Nat
        /\ k > 0 => e < Current' /\ k <= sent'[e + 1]
        /\ Composing' => e < Current'
    BY <2>4, <2>5 DEF OnTheWire
  <2>7. OutInv'
    BY <2>6 DEF OutInv, OnTheWire
  <2>. QED BY <2>1, <2>7 DEF SendInv, Live, Sending
<1>. QED BY <1>10, <1>11

LEMMA WrittenSends ==
  ASSUME TypeInv, SendInv, Written
  PROVE  SendInv'
<1>1. /\ pc \in {"write", "close"} /\ todo = <<>> /\ UNCHANGED <<up, snd, out, sent, todo>>
      /\ pc = "write" => pc' = "serialize" /\ chunk' = [buffer |-> keep, dataSent |-> TRUE] /\ flushed' = flushed
      /\ pc = "close" => pc' = "flush" /\ flushed' = 0 /\ UNCHANGED <<chunk, keep>>
  BY DEF Written
<1>2. CASE ~up
  BY <1>1, <1>2, NotLive DEF Live, Composing
<1>3. CASE up
  <2>1. LiveInv /\ flushed = 0 /\ flushed <= snd.used
    BY <1>1, <1>3, LiveBefore DEF Sending, LiveInv
  <2>2. flushed' = flushed /\ Fed' = Fed
    BY <1>1, <2>1 DEF Fed, Pending
  <2>3. Kept' = Kept /\ (Composing' <=> Composing)
    BY <1>1 DEF Kept, Composing
  <2>4. flushed' <= snd'.used /\ flushed' = 0 /\ pc' \in Sending /\ pc' # "sender" /\ todo' = <<>>
    BY <1>1, <2>1, <2>2 DEF Sending
  <2>. QED BY <1>1, <1>3, <2>2, <2>3, <2>4, SameFed DEF Sending
<1>. QED BY <1>2, <1>3

LEMMA FlushNothingSends ==
  ASSUME TypeInv, SendInv, FlushNothing
  PROVE  SendInv'
<1>1. pc = "flush" /\ snd.used = 0 /\ pc' = "sender" /\ UNCHANGED <<up, sendVars>>
  BY DEF FlushNothing
<1>2. CASE ~up
  BY <1>1, <1>2, NotLive DEF Live, Composing, sendVars
<1>3. CASE up
  <2>1. LiveInv /\ flushed <= snd.used /\ flushed \in Nat /\ todo = <<>>
    BY <1>1, <1>3, LiveBefore, SentTyped DEF Sending, LiveInv
  <2>2. flushed' = 0 /\ flushed' <= snd'.used /\ snd'.used = 0 /\ todo' = <<>> /\ sent' = sent
    BY <1>1, <2>1 DEF sendVars
  <2>3. Fed' = Fed /\ Kept' = Kept /\ (Composing' <=> Composing)
    BY <1>1 DEF Fed, Pending, sendVars, Kept, Composing
  <2>. QED BY <1>1, <1>3, <2>2, <2>3, SameFed DEF Sending
<1>. QED BY <1>2, <1>3

\* A part of what is behind the first a bytes is written.
LEMMA NextPart ==
  ASSUME NEW s \in Seq(Byte), NEW a \in Nat, NEW b \in Nat, a + b <= Len(s)
  PROVE  /\ SubSeq(s, a + 1, a + b) \in Seq(Byte) /\ From(s, a + b + 1) \in Seq(Byte)
         /\ SubSeq(s, a + 1, a + b) \o From(s, a + b + 1) = From(s, a + 1)
<1>. DEFINE t == From(s, a + 1)
            u == SubSeq(s, a + 1, a + b)
            v == SubSeq(t, 1, b)
<1>0. Len(s) \in Nat
  BY LenProperties
<1>1. /\ t \in Seq(Byte) /\ Len(t) = Len(s) - a
      /\ \A i \in 1 .. Len(s) - a : t[i] = s[a + i]
  <2>. DEFINE k == a + 1
  <2>1. /\ k \in 1 .. Len(s) + 1 /\ Len(s) + 1 - k = Len(s) - a
        /\ \A i \in 1 .. Len(s) - a : k + i - 1 = a + i
    BY <1>0
  <2>. HIDE DEF k
  <2>2. /\ From(s, k) \in Seq(Byte) /\ Len(From(s, k)) = Len(s) + 1 - k
        /\ \A i \in 1 .. Len(s) + 1 - k : From(s, k)[i] = s[k + i - 1]
    BY <2>1, FromTyped
  <2>3. \A i \in 1 .. Len(s) - a : From(s, k)[i] = s[a + i]
    BY <2>1, <2>2
  <2>. QED BY <2>1, <2>2, <2>3 DEF k
<1>2. /\ u \in Seq(Byte) /\ Len(u) = b /\ \A i \in 1 .. b : u[i] = s[a + i]
  <2>. DEFINE k == a + 1
              l == a + b
  <2>1. /\ k \in 1 .. Len(s) + 1 /\ l \in 0 .. Len(s) /\ l - k + 1 = b /\ (IF k <= l THEN b ELSE 0) = b
        /\ \A i \in 1 .. b : k + i - 1 = a + i
    BY <1>0
  <2>. HIDE DEF k, l
  <2>2. /\ SubSeq(s, k, l) \in Seq(Byte)
        /\ Len(SubSeq(s, k, l)) = IF k <= l THEN l - k + 1 ELSE 0
        /\ \A i \in 1 .. l - k + 1 : SubSeq(s, k, l)[i] = s[k + i - 1]
    BY <2>1, SubSeqTyped
  <2>3. \A i \in 1 .. b : SubSeq(s, k, l)[i] = s[a + i]
    BY <2>1, <2>2
  <2>. QED BY <2>1, <2>2, <2>3 DEF k, l
<1>. HIDE DEF t, u
<1>3. b \in 0 .. Len(t)
  BY <1>0, <1>1
<1>4. v \in Seq(Byte) /\ Len(v) = b /\ \A i \in 1 .. b : v[i] = t[i]
  <2>1. /\ 1 \in 1 .. Len(t) + 1 /\ (IF 1 <= b THEN b - 1 + 1 ELSE 0) = b /\ b - 1 + 1 = b
        /\ \A i \in 1 .. b : 1 + i - 1 = i
    BY <1>3
  <2>2. /\ v \in Seq(Byte) /\ Len(v) = IF 1 <= b THEN b - 1 + 1 ELSE 0
        /\ \A i \in 1 .. b - 1 + 1 : v[i] = t[1 + i - 1]
    BY <1>1, <1>3, <2>1, SubSeqTyped
  <2>. HIDE DEF v
  <2>. QED BY <2>1, <2>2
<1>5. v \o From(t, b + 1) = t
  BY <1>1, <1>3, TakeAndFrom
<1>. HIDE DEF v
<1>6. u = v
  <2>1. \A i \in 1 .. b : i \in 1 .. Len(s) - a
    BY <1>0
  <2>2. \A i \in 1 .. Len(u) : u[i] = v[i]
    BY <1>1, <1>2, <1>4, <2>1
  <2>. QED BY <1>2, <1>4, <2>2, SeqEqual
<1>7. From(t, b + 1) = From(s, a + b + 1)
  BY FromFrom DEF t
<1>8. From(s, a + b + 1) \in Seq(Byte)
  <2>1. a + b + 1 \in 1 .. Len(s) + 1
    BY <1>0
  <2>. QED BY <2>1, FromTyped
<1>. QED BY <1>2, <1>5, <1>6, <1>7, <1>8 DEF t, u

LEMMA FlushSends ==
  ASSUME TypeInv, SendInv, NEW w \in 1 .. snd.used - flushed, Flush(w)
  PROVE  SendInv'
<1>. DEFINE d == RbData(snd)
            a == SubSeq(d, flushed + 1, flushed + w)
            b == From(d, flushed + w + 1)
<1>1. /\ pc = "flush" /\ up /\ out' = out \o a
      /\ UNCHANGED <<up, sent, chunk, todo, keep>>
  BY DEF Flush
<1>2. LiveInv /\ flushed <= snd.used /\ todo = <<>>
  BY <1>1, LiveBefore DEF Sending, LiveInv
<1>3. snd \in Ring(Byte, SndSize) /\ out \in Seq(Byte) /\ SndSize \in Nat \ {0} /\ flushed \in Nat
  BY SentTyped, Constants
<1>4. d \in Seq(Byte) /\ Len(d) = snd.used /\ snd.used \in Nat
  BY <1>3, RingData, RingTyped
<1>. HIDE DEF d
<1>5. w \in Nat /\ flushed + w <= Len(d) /\ flushed + w \in Nat
  BY <1>3, <1>4
<1>6. a \in Seq(Byte) /\ b \in Seq(Byte) /\ a \o b = From(d, flushed + 1)
  BY <1>3, <1>4, <1>5, NextPart
<1>. HIDE DEF a, b
<1>7. Fed = (out \o a) \o b
  <2>1. out \in Seq(Byte) /\ a \in Seq(Byte) /\ b \in Seq(Byte) /\ a \o b \in Seq(Byte)
    BY <1>3, <1>6, ConcatProperties
  <2>2. (out \o a) \o b = out \o (a \o b)
    BY ONLY <2>1, Regroup
  <2>3. (a \o b) \o <<>> = a \o b
    BY <2>1, ConcatEmptySeq
  <2>. QED BY <1>2, <1>6, <2>2, <2>3 DEF Fed, Pending, d
<1>8. CASE flushed + w = snd.used
  <2>1. snd' = RbClear(snd) /\ flushed' = 0 /\ pc' = "sender"
    BY <1>8 DEF Flush
  <2>2. snd'.used = 0 /\ RbData(snd') = <<>>
    BY <1>3, <2>1, RingClear
  <2>3. b = <<>>
    <3>1. From(d, Len(d) + 1) = <<>>
      BY <1>4, FromAll
    <3>2. flushed + w + 1 = Len(d) + 1
      BY <1>4, <1>8
    <3>. QED BY <3>1, <3>2 DEF b
  <2>4. Fed' = Fed
    <3>1. <<>> \in Seq(Byte) /\ <<>> \o <<>> = <<>>
      BY EmptySeq, ConcatEmptySeq
    <3>2. From(<<>>, 0 + 1) = <<>>
      BY <3>1, FromAll
    <3>. QED BY <1>1, <1>2, <1>7, <2>1, <2>2, <2>3, <3>1, <3>2 DEF Fed, Pending
  <2>5. flushed' <= snd'.used
    BY <2>1, <2>2
  <2>6. Kept' = Kept /\ ~Composing' /\ ~Composing /\ pc' \in Sending /\ pc \in Sending
    BY <1>1, <2>1 DEF Kept, Composing, Sending
  <2>. QED BY <1>1, <1>2, <2>1, <2>2, <2>4, <2>5, <2>6, SameFed
<1>9. CASE ~(flushed + w = snd.used)
  <2>1. snd' = snd /\ flushed' = flushed + w /\ pc' = "flush"
    BY <1>1, <1>9 DEF Flush
  <2>2. Fed' = Fed
    <3>1. From(RbData(snd'), flushed' + 1) = b
      BY <2>1 DEF b, d
    <3>2. b \o <<>> = b
      BY <1>6, ConcatEmptySeq
    <3>3. out' \in Seq(Byte) /\ Fed' = out' \o b
      BY <1>1, <1>2, <1>3, <1>6, <3>1, <3>2, ConcatProperties DEF Fed, Pending
    <3>. QED BY <1>1, <1>7, <3>3
  <2>3. flushed' <= snd'.used
    BY <1>4, <1>5, <2>1
  <2>4. Kept' = Kept /\ ~Composing' /\ ~Composing /\ pc' \in Sending /\ pc \in Sending
    BY <1>1, <2>1 DEF Kept, Composing, Sending
  <2>. QED BY <1>1, <1>2, <2>1, <2>2, <2>3, <2>4, SameFed
<1>. QED BY <1>8, <1>9

LEMMA DeadSends ==
  ASSUME TypeInv, SendInv, RingAssertFails \/ WriteFails \/ (\E w \in 0 .. snd.used : FlushFails(w)) \/ SocketFails
  PROVE  SendInv'
<1>1. CASE RingAssertFails
  BY <1>1, NotLive DEF RingAssertFails, sendVars, Live, Sending, Composing
<1>2. CASE WriteFails
  BY <1>2, NotLive DEF WriteFails, Live, Composing
<1>3. CASE \E w \in 0 .. snd.used : FlushFails(w)
  BY <1>3, NotLive DEF FlushFails, Live, Composing
<1>4. CASE SocketFails
  BY <1>4, NotLive DEF SocketFails, sendVars, Live, Composing
<1>. QED BY <1>1, <1>2, <1>3, <1>4

LEMMA ReceiveSends ==
  ASSUME TypeInv, SendInv, Receive
  PROVE  SendInv'
<1>1. UNCHANGED sendVars /\ pc' \notin Sending
  BY DEF Receive, NextMessage, ChunkRead, ReadBuffered, MessageDone, ReadAll, ReadThrough, ReadEnds,
     ChunkDone, Sending
<1>2. out' = out /\ sent' = sent /\ ~Composing' /\ ~Live'
  BY <1>1 DEF sendVars, Live, Composing, Sending
<1>. QED BY <1>2, NotLive

LEMMA SendStep ==
  ASSUME TypeInv, SendInv, [Next]_vars
  PROVE  SendInv'
<1>1. CASE Send
  BY <1>1, StartMessageSends, CloseMessageSends, WriteBufferedSends, WrittenSends, FlushNothingSends,
     SerializeSends, WriteThroughSends, FlushSends, DeadSends DEF Send
<1>2. CASE Receive
  BY <1>2, ReceiveSends
<1>3. CASE SocketFails
  BY <1>3, DeadSends
<1>4. CASE UNCHANGED vars
  BY <1>4 DEF vars, sendVars, SendInv, Live, LiveInv, OutInv, OnTheWire, Fed, Ended, Started, Kept,
     Composing, Current
<1>. QED BY <1>1, <1>2, <1>3, <1>4 DEF Next

\* What is sent is in order: what the socket has taken, followed by what the
\* ring and the loops above it hold, is the messages in chunks.
THEOREM SendInvariant == Spec => []SendInv
<1>1. Init => SendInv
  BY SendInit
<1>2. TypeInv /\ SendInv /\ [Next]_vars => SendInv'
  BY SendStep
<1>. QED BY <1>1, <1>2, TypeInvariant, PTL DEF Spec

\* What the socket has of what was fed.
LEMMA OutByte ==
  ASSUME TypeInv, NEW F, NEW e, NEW k, OnTheWire(F, e, k)
  PROVE  /\ Len(out) <= Len(F) /\ \A i \in 1 .. Len(out) : out[i] = F[i] /\ i \in 1 .. Len(F)
         /\ F \in Seq(Byte) /\ Len(F) \in Nat /\ Len(out) \in Nat /\ out \in Seq(Byte)
<1>1. F \in Seq(Byte) /\ out \in Seq(Byte) /\ Leads(out, F)
  BY SentTyped DEF OnTheWire, Given
<1>2. Len(out) <= Len(F) /\ \A i \in 1 .. Len(out) : out[i] = F[i]
  BY <1>1, LeadsSame
<1>3. Len(F) \in Nat /\ Len(out) \in Nat
  BY <1>1, LenProperties
<1>4. \A i \in 1 .. Len(out) : i \in 1 .. Len(F)
  BY <1>2, <1>3
<1>. QED BY <1>1, <1>2, <1>3, <1>4

\* A message whose last byte is sent has been serialized.
Ends(b) == b[3] = sent[b[2]] /\ (b[2] = Current => pc # "serialize")
Following(b) == IF Ends(b) THEN <<"p", b[2] + 1, 1>> ELSE <<"p", b[2], b[3] + 1>>

LEMMA DataOnTheWire ==
  ASSUME TypeInv, NEW F, NEW e, NEW k, OnTheWire(F, e, k), NEW j \in 1 .. Len(out), IsData(out[j])
  PROVE  /\ out[j][2] \in 1 .. Current /\ out[j][3] <= sent[out[j][2]]
         /\ NoData(out, 0, j) => out[j] = <<"p", 1, 1>>
         /\ \A i \in 1 .. j - 1 : IsData(out[i]) /\ NoData(out, i, j) => out[j] = Following(out[i])
<1>1. /\ \A i \in 1 .. Len(out) : out[i] = F[i] /\ i \in 1 .. Len(F)
      /\ F \in Seq(Byte) /\ Len(F) \in Nat /\ Len(out) \in Nat
  BY OutByte
<1>2. DataOK(F, sent, e, k)
  BY DEF OnTheWire, Given, Framing
<1>3. e \in 0 .. Current /\ k \in Nat /\ (k > 0 => e < Current /\ k <= sent[e + 1]) /\ Current \in Nat
  BY SentTyped DEF OnTheWire
<1>4. Composing => e < Current
  BY DEF OnTheWire
<1>5. ASSUME NEW i \in 1 .. Len(out), IsData(out[i])
      PROVE  /\ DataInOrder(F, sent, e, k, i) /\ out[i][2] \in 1 .. Current
             /\ out[i][3] \in Nat /\ sent[out[i][2]] \in Nat
             /\ out[i][3] <= sent[out[i][2]]
             /\ ~(out[i][2] <= e) => out[i][2] = e + 1 /\ out[i][3] <= k /\ k <= sent[e + 1]
  <2>1. DataInOrder(F, sent, e, k, i) /\ out[i] = F[i] /\ F[i][3] \in Nat /\ F[i][2] \in Nat
    BY <1>1, <1>2, <1>5, ByteTyped DEF DataOK
  <2>2. F[i][2] \in 1 .. e + 1 /\ F[i][3] > 0 /\ F[i][3] <= IF F[i][2] <= e THEN sent[F[i][2]] ELSE k
    BY <2>1 DEF DataInOrder
  <2>3. CASE F[i][2] <= e
    <3>1. F[i][2] \in 1 .. Current
      BY <1>3, <2>1, <2>2, <2>3
    <3>2. sent[F[i][2]] \in Nat
      BY <3>1, SentTyped, ElementOfSeq DEF Current
    <3>. QED BY <2>1, <2>2, <2>3, <3>1, <3>2
  <2>4. CASE ~(F[i][2] <= e)
    <3>1. F[i][2] = e + 1 /\ F[i][3] <= k /\ k > 0
      BY <1>3, <2>1, <2>2, <2>4
    <3>2. k <= sent[e + 1] /\ e + 1 \in 1 .. Current
      BY <1>3, <3>1
    <3>3. sent[e + 1] \in Nat
      BY <3>2, SentTyped, ElementOfSeq DEF Current
    <3>4. F[i][3] <= sent[e + 1]
      BY <1>3, <2>1, <3>1, <3>2, <3>3
    <3>. QED BY <2>1, <3>1, <3>2, <3>3, <3>4
  <2>. QED BY <2>3, <2>4
<1>6. DataInOrder(F, sent, e, k, j) /\ out[j] = F[j]
  BY <1>1, <1>5
<1>7. \A i \in 0 .. j - 1 : NoData(out, i, j) => NoData(F, i, j)
  <2>. SUFFICES ASSUME NEW i \in 0 .. j - 1, NoData(out, i, j), NEW x \in i + 1 .. j - 1
                PROVE  ~IsData(F[x])
    BY DEF NoData
  <2>1. x \in 1 .. Len(out)
    BY <1>1
  <2>. QED BY <1>1, <2>1 DEF NoData
<1>8. NoData(out, 0, j) => out[j] = <<"p", 1, 1>>
  <2>1. 0 \in 0 .. j - 1
    OBVIOUS
  <2>. QED BY <1>6, <1>7, <2>1 DEF DataInOrder
<1>9. ASSUME NEW i \in 1 .. j - 1, IsData(out[i]), NoData(out, i, j)
      PROVE  out[j] = Following(out[i])
  <2>1. i \in 1 .. Len(out) /\ i \in 0 .. j - 1
    BY <1>1
  <2>2. out[i] = F[i] /\ IsData(F[i]) /\ NoData(F, i, j)
    BY <1>1, <1>7, <1>9, <2>1
  <2>3. out[j] = Follow(out[i], sent, e)
    BY <1>6, <2>2 DEF DataInOrder
  <2>. DEFINE b == out[i]
  <2>4. /\ b[2] \in 1 .. Current /\ b[3] \in Nat /\ sent[b[2]] \in Nat
        /\ ~(b[2] <= e) => b[2] = e + 1 /\ b[3] <= k /\ k <= sent[e + 1]
    BY <1>5, <1>9, <2>1
  <2>5. /\ DataInOrder(F, sent, e, k, j) /\ F[j] = out[j] /\ F[j][3] \in Nat
    BY <1>1, <1>6, ByteTyped
  <2>. HIDE DEF b
  <2>6. CASE b[2] <= e
    <3>1. b[2] = Current => pc # "serialize"
      BY <1>3, <1>4, <2>4, <2>6 DEF Composing
    <3>. QED BY <2>3, <2>6, <3>1 DEF Follow, Following, Ends, b
  <2>7. CASE ~(b[2] <= e)
    <3>1. out[j] = <<"p", b[2], b[3] + 1>> /\ b[2] = e + 1
      BY <2>3, <2>4, <2>7 DEF Follow, b
    <3>2. F[j][2] = e + 1 /\ F[j][3] = b[3] + 1
      BY <2>5, <3>1
    <3>3. F[j][3] <= k
      <4>1. ~(F[j][2] <= e)
        BY <2>7, <3>1, <3>2
      <4>. QED BY <2>5, <4>1 DEF DataInOrder
    <3>4. b[3] # sent[b[2]]
      BY <1>3, <2>4, <2>7, <3>1, <3>2, <3>3
    <3>. QED BY <3>1, <3>4 DEF Following, Ends, b
  <2>. QED BY <2>6, <2>7
<1>. QED BY <1>5, <1>8, <1>9

LEMMA LengthsOnTheWire ==
  ASSUME TypeInv, NEW F, NEW e, NEW k, OnTheWire(F, e, k), NEW i \in 1 .. Len(out), Starts(out, i)
  PROVE  LET n == out[i][2]
             next == i + 2 + n
         IN  /\ n \in Nat
             /\ i + 1 \in 1 .. Len(out) => out[i + 1] = <<"h", n, 2>>
             /\ \A j \in (i + 2) .. (next - 1) : j \in 1 .. Len(out) => IsData(out[j])
             /\ next \in 1 .. Len(out) => Starts(out, next)
             /\ n = 0 => i > 1 /\ IsData(out[i - 1]) /\ Ends(out[i - 1])
             /\ (n > 0 /\ i > 1 /\ IsData(out[i - 1])) =>
                   \A j \in {i + 2} \cap 1 .. Len(out) : out[j][2] = out[i - 1][2]
             /\ n <= MaxChunk
             /\ (n > 0 /\ n < MinChunk /\ next \in 1 .. Len(out)) => out[next][2] = 0
<1>. DEFINE n == out[i][2]
            z == i + 2 + n
            a == i - 1
<1>1. /\ \A x \in 1 .. Len(out) : out[x] = F[x] /\ x \in 1 .. Len(F)
      /\ F \in Seq(Byte) /\ Len(F) \in Nat /\ Len(out) \in Nat /\ Len(out) <= Len(F)
  BY OutByte
<1>2. LengthOK(F, sent, e) /\ SizesOK(F, TRUE) /\ e \in 0 .. Current /\ Current \in Nat
  BY SentTyped DEF OnTheWire, Given, Framing
<1>3. out[i] = F[i] /\ Starts(F, i) /\ i \in 1 .. Len(F) /\ F[i][2] = n
  BY <1>1 DEF Starts
<1>4. ChunkOK(F, sent, e, i, n) /\ SizeOK(F, TRUE, i, n) /\ n \in Nat
  BY <1>1, <1>2, <1>3, ByteTyped DEF LengthOK, SizesOK
<1>5. /\ z <= Len(F) + 1 /\ F[i + 1] = <<"h", n, 2>>
  BY <1>4 DEF ChunkOK
<1>6. \A j \in (i + 2) .. (i + 1 + n) : IsData(F[j])
  BY <1>4 DEF ChunkOK
<1>7. z <= Len(F) => Starts(F, z)
  BY <1>4 DEF ChunkOK
<1>8. n = 0 => i > 1 /\ IsData(F[a]) /\ F[a][2] <= e /\ F[a][3] = sent[F[a][2]]
  BY <1>4 DEF ChunkOK
<1>9. n > 0 /\ i > 1 /\ IsData(F[a]) => F[i + 2][2] = F[a][2]
  BY <1>4 DEF ChunkOK
<1>10. n <= MaxChunk /\ (n > 0 /\ n < MinChunk => (z <= Len(F) => F[z][2] = 0))
  BY <1>4 DEF SizeOK
<1>. HIDE DEF n
<1>11. z - 1 = i + 1 + n /\ (i > 1 => a \in 1 .. Len(out))
  BY <1>1, <1>4
<1>12. z \in 1 .. Len(out) => z <= Len(F)
  BY <1>1
<1>13. \A x \in {i + 2} \cap 1 .. Len(out) : x = i + 2 /\ x \in 1 .. Len(out)
  OBVIOUS
<1>. HIDE DEF a, z
<1>14. i + 1 \in 1 .. Len(out) => out[i + 1] = <<"h", n, 2>>
  BY <1>1, <1>5
<1>15. \A j \in (i + 2) .. (z - 1) : j \in 1 .. Len(out) => IsData(out[j])
  BY <1>1, <1>6, <1>11
<1>16. z \in 1 .. Len(out) => Starts(out, z)
  BY <1>1, <1>7, <1>12 DEF Starts
<1>17. n = 0 => i > 1 /\ IsData(out[a]) /\ Ends(out[a])
  <2>. SUFFICES ASSUME n = 0 PROVE i > 1 /\ IsData(out[a]) /\ Ends(out[a])
    OBVIOUS
  <2>1. i > 1 /\ IsData(F[a]) /\ F[a][2] <= e /\ F[a][3] = sent[F[a][2]]
    BY <1>8
  <2>2. out[a] = F[a] /\ a \in 1 .. Len(F)
    BY <1>1, <1>11, <2>1
  <2>3. F[a][2] \in Nat
    BY <1>1, <2>2, ByteTyped
  <2>4. pc = "serialize" => e < Current
    BY DEF OnTheWire, Composing
  <2>5. F[a][2] = Current => pc # "serialize"
    BY <1>2, <2>1, <2>3, <2>4
  <2>. QED BY <2>1, <2>2, <2>5 DEF Ends
<1>18. (n > 0 /\ i > 1 /\ IsData(out[a])) =>
                   \A j \in {i + 2} \cap 1 .. Len(out) : out[j][2] = out[a][2]
  BY <1>1, <1>9, <1>11, <1>13
<1>19. (n > 0 /\ n < MinChunk /\ z \in 1 .. Len(out)) => out[z][2] = 0
  BY <1>1, <1>10, <1>12
<1>. QED BY <1>4, <1>10, <1>14, <1>15, <1>16, <1>17, <1>18, <1>19 DEF n, z, a

\* The server can read what the socket has taken: chunk lengths with as many
\* bytes behind them, the bytes of the messages in order and once, and the
\* length 0 exactly behind the last byte of a message, whatever the socket
\* takes of each write and wherever it fails.
THEOREM WireFramedTheorem == Spec => []WireFramed
<1>1. TypeInv /\ SendInv => WireFramed
  <2>. SUFFICES ASSUME TypeInv, SendInv PROVE WireFramed
    OBVIOUS
  <2>1. PICK F, e, k : OnTheWire(F, e, k)
    BY OutHolds DEF OutInv
  <2>2. out \in Seq(Byte) /\ Len(out) \in Nat /\ DOMAIN out = 1 .. Len(out)
    BY SentTyped, LenProperties
  <2>. DEFINE data == {i \in DOMAIN out : IsData(out[i])}
              adjacent(i, j) == i < j /\ \A x \in (i + 1) .. (j - 1) : x \notin data
  <2>3. \A i \in 1 .. Len(out) : i \in data <=> IsData(out[i])
    BY <2>2
  <2>4. data \subseteq 1 .. Len(out)
    BY <2>2
  <2>. HIDE DEF data
  <2>5. ASSUME NEW j \in data, NEW i \in 0 .. Len(out), adjacent(i, j)
        PROVE  NoData(out, i, j) /\ i \in 0 .. j - 1
    <3>1. j \in 1 .. Len(out) /\ i < j
      BY <2>4, <2>5
    <3>2. \A x \in i + 1 .. j - 1 : x \in 1 .. Len(out) /\ x \notin data
      BY <2>2, <2>5, <3>1
    <3>3. i \in 0 .. j - 1
      BY <2>2, <3>1
    <3>. QED BY <2>3, <3>2, <3>3 DEF NoData
  <2>6. ASSUME NEW j \in data
        PROVE  /\ out[j][2] <= Current /\ out[j][3] <= sent[out[j][2]]
               /\ adjacent(0, j) => out[j] = <<"p", 1, 1>>
               /\ \A i \in data : adjacent(i, j) => out[j] = Following(out[i])
    <3>1. j \in 1 .. Len(out) /\ IsData(out[j])
      BY <2>3, <2>4
    <3>2. /\ out[j][2] \in 1 .. Current /\ out[j][3] <= sent[out[j][2]]
          /\ NoData(out, 0, j) => out[j] = <<"p", 1, 1>>
          /\ \A i \in 1 .. j - 1 : IsData(out[i]) /\ NoData(out, i, j) => out[j] = Following(out[i])
      BY <2>1, <3>1, DataOnTheWire
    <3>3. out[j][2] <= Current
      BY <3>2, SentTyped
    <3>4. adjacent(0, j) => out[j] = <<"p", 1, 1>>
      <4>1. 0 \in 0 .. Len(out)
        BY <2>2
      <4>. QED BY <2>5, <3>2, <4>1
    <3>5. ASSUME NEW i \in data, adjacent(i, j) PROVE out[j] = Following(out[i])
      <4>1. i \in 1 .. Len(out) /\ i \in 0 .. Len(out) /\ IsData(out[i])
        BY <2>2, <2>3, <2>4
      <4>2. NoData(out, i, j) /\ i \in 0 .. j - 1
        BY <2>5, <3>5, <4>1
      <4>3. i \in 1 .. j - 1
        BY <4>1, <4>2
      <4>. QED BY <3>2, <4>1, <4>2, <4>3
    <3>. QED BY <3>2, <3>3, <3>4, <3>5
  <2>7. LengthStarts(out) = {i \in 1 .. Len(out) : Starts(out, i)}
    BY <2>2 DEF LengthStarts, Starts
  <2>8. out # <<>> => 1 \in LengthStarts(out)
    <3>. SUFFICES ASSUME out # <<>> PROVE 1 \in 1 .. Len(out) /\ Starts(out, 1)
      BY <2>7
    <3>1. 1 \in 1 .. Len(out)
      BY <2>2, EmptySeq
    <3>2. out[1] = F[1] /\ 1 \in 1 .. Len(F)
      BY <2>1, <3>1, OutByte
    <3>3. Len(F) > 0 => Starts(F, 1)
      BY <2>1 DEF OnTheWire, Given, Framing, LengthOK
    <3>. QED BY <3>1, <3>2, <3>3 DEF Starts
  <2>9. ASSUME NEW i \in LengthStarts(out)
        PROVE  LET n == out[i][2]
                   next == i + 2 + n
               IN  /\ i + 1 \in DOMAIN out => out[i + 1] = <<"h", n, 2>>
                   /\ \A j \in (i + 2) .. (next - 1) : j \in DOMAIN out => IsData(out[j])
                   /\ next \in DOMAIN out => next \in LengthStarts(out)
                   /\ n = 0 => i > 1 /\ IsData(out[i - 1]) /\ Ends(out[i - 1])
                   /\ (n > 0 /\ i > 1 /\ IsData(out[i - 1])) =>
                         \A j \in {i + 2} \cap DOMAIN out : out[j][2] = out[i - 1][2]
    <3>1. i \in 1 .. Len(out) /\ Starts(out, i)
      BY <2>7
    <3>2. /\ i + 1 \in 1 .. Len(out) => out[i + 1] = <<"h", out[i][2], 2>>
          /\ \A j \in (i + 2) .. ((i + 2 + out[i][2]) - 1) : j \in 1 .. Len(out) => IsData(out[j])
          /\ i + 2 + out[i][2] \in 1 .. Len(out) => Starts(out, i + 2 + out[i][2])
          /\ out[i][2] = 0 => i > 1 /\ IsData(out[i - 1]) /\ Ends(out[i - 1])
          /\ (out[i][2] > 0 /\ i > 1 /\ IsData(out[i - 1])) =>
                \A j \in {i + 2} \cap 1 .. Len(out) : out[j][2] = out[i - 1][2]
      BY <2>1, <3>1, LengthsOnTheWire
    <3>. DEFINE n == out[i][2]
                z == i + 2 + n
    <3>3. /\ i + 1 \in DOMAIN out => out[i + 1] = <<"h", n, 2>>
          /\ n = 0 => i > 1 /\ IsData(out[i - 1]) /\ Ends(out[i - 1])
          /\ z \in DOMAIN out => z \in LengthStarts(out)
      BY <2>2, <2>7, <3>2
    <3>4. \A j \in (i + 2) .. (z - 1) : j \in DOMAIN out => IsData(out[j])
      <4>1. \A j \in (i + 2) .. (z - 1) : j \in 1 .. Len(out) => IsData(out[j])
        BY <3>2
      <4>. HIDE DEF z
      <4>. QED BY <2>2, <4>1
    <3>5. (n > 0 /\ i > 1 /\ IsData(out[i - 1])) =>
             \A j \in {i + 2} \cap DOMAIN out : out[j][2] = out[i - 1][2]
      BY <2>2, <3>2
    <3>. HIDE DEF n, z
    <3>. QED BY <3>3, <3>4, <3>5 DEF n, z
  <2>. QED BY <2>6, <2>8, <2>9 DEF WireFramed, data, Following, Ends
<1>. QED BY <1>1, TypeInvariant, SendInvariant, PTL

\* No chunk is longer than snd_max_chunk_size, and one shorter than
\* snd_min_chunk_size is the last of its message: chunking_writev and
\* chunking_close, for all sizes of writes.
THEOREM ChunksBoundedTheorem == Spec => []ChunksBounded
<1>1. TypeInv /\ SendInv => ChunksBounded
  <2>. SUFFICES ASSUME TypeInv, SendInv, NEW i \in LengthStarts(out)
                PROVE  /\ out[i][2] <= MaxChunk
                       /\ (out[i][2] > 0 /\ out[i][2] < MinChunk /\ i + 2 + out[i][2] \in DOMAIN out) =>
                             out[i + 2 + out[i][2]][2] = 0
    BY DEF ChunksBounded
  <2>1. PICK F, e, k : OnTheWire(F, e, k)
    BY OutHolds DEF OutInv
  <2>2. DOMAIN out = 1 .. Len(out)
    BY SentTyped, LenProperties
  <2>3. i \in 1 .. Len(out) /\ Starts(out, i)
    BY <2>2 DEF LengthStarts, Starts
  <2>. QED BY <2>1, <2>2, <2>3, LengthsOnTheWire
<1>. QED BY <1>1, TypeInvariant, SendInvariant, PTL

\* When neo4j_message_send returns with the socket up, nothing of the message
\* is left in the ring: chunking_close has written the end and
\* buffering_flush has handed over all of it.
THEOREM SentIsFlushedTheorem == Spec => []SentIsFlushed
<1>1. TypeInv /\ SendInv => SentIsFlushed
  <2>. SUFFICES ASSUME TypeInv, SendInv, pc = "sender", up
                PROVE  /\ snd.used = 0
                       /\ sent # <<>> => /\ out[Len(out)] = <<"h", 0, 2>>
                                         /\ out[Len(out) - 2] = <<"p", Current, sent[Current]>>
    BY DEF SentIsFlushed
  <2>1. LiveInv
    BY LiveBefore DEF Sending
  <2>2. snd.used = 0 /\ flushed = 0 /\ todo = <<>> /\ Given(Fed, sent, Current, 0, TRUE)
    BY <2>1 DEF LiveInv, Ended, Started, Composing
  <2>3. Fed = out
    <3>1. RbData(snd) \in Seq(Byte) /\ Len(RbData(snd)) = 0
      BY <2>2, SentTyped, Constants, RingData
    <3>2. RbData(snd) = <<>> /\ <<>> \in Seq(Byte)
      BY <3>1, EmptySeq
    <3>3. From(<<>>, 0 + 1) = <<>>
      BY <3>2, FromAll
    <3>4. out \in Seq(Byte)
      BY SentTyped
    <3>. QED BY <2>2, <3>2, <3>3, <3>4, ConcatEmptySeq DEF Fed, Pending
  <2>4. EndOK(out, sent, Current, 0)
    BY <2>2, <2>3 DEF Given, Framing
  <2>5. sent # <<>> => Current > 0
    BY SentTyped, EmptySeq DEF Current
  <2>. QED BY <2>2, <2>4, <2>5 DEF EndOK
<1>. QED BY <1>1, TypeInvariant, SendInvariant, PTL

-------------------------------------------------------------------------------
(* Progress *)

\* A write that the socket has answered takes at least one byte: either the
\* socket took it, or it made room for it in the ring.
LEMMA WriteMoves ==
  ASSUME NEW S, NEW size \in Nat \ {0}, NEW rb \in Ring(S, size), NEW bytes \in Seq(S),
         NEW w \in 1 .. rb.used + Len(bytes), Len(bytes) > RbSpace(rb)
  PROVE  AfterWrite(rb, bytes, w).n > 0
<1>0. rb.size = size /\ rb.used \in 0 .. size /\ rb.used \in Nat /\ Len(bytes) \in Nat /\ w \in Nat /\ w > 0
  BY RingTyped, LenProperties
<1>1. Len(bytes) > 0
  BY <1>0 DEF RbSpace
<1>2. CASE w < rb.used
  <2>. DEFINE ring == RbDiscard(rb, w)
              rest == From(bytes, 0 + 1)
  <2>1. rest = bytes
    BY FromAll
  <2>2. Lesser(w, rb.used) = w
    BY <1>2 DEF Lesser
  <2>3. ring \in Ring(S, size) /\ ring.used = rb.used - w
    <3>1. w \in Nat
      BY <1>0
    <3>2. /\ RbDiscard(rb, w) \in Ring(S, size)
          /\ RbDiscard(rb, w).used = rb.used - Lesser(w, rb.used)
      BY <3>1, RingDiscard
    <3>. QED BY <2>2, <3>2
  <2>. HIDE DEF ring, rest
  <2>4. RbAppend(ring, bytes).used = ring.used + Lesser(Len(bytes), size - ring.used)
    BY <2>3, RingAppend
  <2>5. AfterWrite(rb, bytes, w).n = 0 + (RbAppend(ring, rest).used - ring.used)
    BY <1>2 DEF AfterWrite, ring, rest
  <2>. DEFINE u == ring.used
              l == Lesser(Len(bytes), size - u)
  <2>6. u \in Nat /\ size - u > 0 /\ l > 0 /\ l \in Nat
    BY <1>0, <1>1, <1>2, <2>3 DEF Lesser
  <2>7. AfterWrite(rb, bytes, w).n = 0 + ((u + l) - u)
    BY <2>1, <2>4, <2>5
  <2>. HIDE DEF u, l
  <2>. QED BY <2>6, <2>7
<1>3. CASE ~(w < rb.used)
  <2>. DEFINE ring == RbClear(rb)
              taken == w - rb.used
              rest == From(bytes, taken + 1)
  <2>1. taken \in 0 .. Len(bytes) /\ taken + 1 \in 1 .. Len(bytes) + 1
    BY <1>0, <1>3
  <2>2. rest \in Seq(S) /\ Len(rest) = Len(bytes) + 1 - (taken + 1)
    BY <2>1, FromTyped
  <2>3. ring \in Ring(S, size) /\ ring.used = 0
    BY RingClear
  <2>5. AfterWrite(rb, bytes, w).n = taken + (RbAppend(ring, rest).used - ring.used)
    BY <1>3 DEF AfterWrite
  <2>. HIDE DEF ring, rest, taken
  <2>4. RbAppend(ring, rest).used = ring.used + Lesser(Len(rest), size - ring.used)
    BY <2>2, <2>3, RingAppend
  <2>. DEFINE l == Lesser(Len(rest), size - 0)
  <2>6. l \in Nat /\ (taken = 0 => l > 0)
    BY <1>0, <1>1, <2>1, <2>2 DEF Lesser
  <2>7. AfterWrite(rb, bytes, w).n = taken + ((0 + l) - 0)
    BY <2>3, <2>4, <2>5
  <2>. HIDE DEF l
  <2>. QED BY <2>1, <2>6, <2>7
<1>. QED BY <1>2, <1>3

LEMMA WriteThroughMoves ==
  ASSUME TypeInv, NEW w \in 1 .. snd.used + Len(todo), WriteThrough(w), pc' = pc
  PROVE  Len(todo') < Len(todo)
<1>. DEFINE n == AfterWrite(snd, todo, w).n
<1>0. snd \in Ring(Byte, SndSize) /\ todo \in Seq(Byte) /\ SndSize \in Nat \ {0}
  BY Constants DEF TypeInv, SendTypes
<1>1. snd.used \in Nat /\ Len(todo) \in Nat /\ w \in 0 .. snd.used + Len(todo) /\ Len(todo) > RbSpace(snd)
  BY <1>0, RingTyped, LenProperties DEF WriteThrough
<1>2. n \in 0 .. Len(todo)
  BY <1>0, <1>1, RingAfterWrite
<1>3. n > 0
  BY <1>0, <1>1, WriteMoves
<1>. HIDE DEF n
<1>4. todo' = From(todo, n + 1)
  BY DEF WriteThrough, n
<1>5. n + 1 \in 1 .. Len(todo) + 1
  BY <1>1, <1>2
<1>6. Len(todo') = Len(todo) + 1 - (n + 1)
  BY <1>0, <1>4, <1>5, FromTyped
<1>. QED BY <1>1, <1>2, <1>3, <1>6

LEMMA WriteBufferedMoves ==
  ASSUME TypeInv, WriteBuffered
  PROVE  Len(todo') < Len(todo)
<1>1. todo \in Seq(Byte) /\ todo # <<>> /\ todo' = <<>>
  BY DEF TypeInv, SendTypes, WriteBuffered
<1>2. Len(todo') = 0 /\ Len(todo) \in Nat /\ Len(todo) # 0
  BY <1>1, EmptySeq, LenProperties
<1>. QED BY <1>2

LEMMA FlushMoves ==
  ASSUME TypeInv, NEW w \in 1 .. snd.used - flushed, Flush(w), pc' = pc
  PROVE  flushed' > flushed
<1>1. snd.used \in Nat /\ flushed \in Nat
  BY Constants, RingTyped DEF TypeInv, SendTypes
<1>2. flushed' = flushed + w
  BY DEF Flush
<1>. QED BY <1>1, <1>2

LEMMA ReadBufferedMoves ==
  ASSUME TypeInv, ReadBuffered
  PROVE  Len(part') > Len(part)
<1>. DEFINE ext == RbExtract(rcv, Missing)
<1>0. RecvTypes /\ rcv \in Ring(Byte, RcvSize) /\ part \in Seq(Byte) /\ rcv.used >= Missing /\ Missing > 0
  BY DEF TypeInv, RecvTypes, ReadBuffered
<1>1. Missing \in Nat /\ Len(part) \in Nat
  BY <1>0, TotalTyped
<1>2. Lesser(Missing, rcv.used) = Missing
  <2>1. rcv.used \in Nat
    BY <1>0, Constants, RingTyped
  <2>. QED BY <1>0, <1>1, <2>1 DEF Lesser
<1>3. ext.bytes \in Seq(Byte) /\ Len(ext.bytes) = Missing
  BY <1>0, <1>1, <1>2, Constants, RingExtract
<1>. HIDE DEF ext
<1>4. part' = part \o ext.bytes
  BY DEF ReadBuffered, ext
<1>5. Len(part') = Len(part) + Missing
  BY <1>0, <1>3, <1>4, ConcatProperties
<1>. QED BY <1>0, <1>1, <1>5

LEMMA ReadThroughMoves ==
  ASSUME TypeInv, NEW n, n \in 1 .. Len(in), ReadThrough(n)
  PROVE  Len(part') > Len(part)
<1>. DEFINE data == SubSeq(in, 1, n)
            ext == RbExtract(rcv, Missing)
            k == Lesser(Missing - Len(ext.bytes), Len(data))
            more == SubSeq(data, 1, k)
<1>0. /\ RecvTypes /\ rcv \in Ring(Byte, RcvSize) /\ part \in Seq(Byte) /\ in \in Seq(Byte)
      /\ rcv.used < Missing
  BY DEF TypeInv, RecvTypes, ReadThrough
<1>1. Missing \in Nat /\ Len(part) \in Nat /\ rcv.used \in Nat /\ Len(in) \in Nat
  BY <1>0, TotalTyped, Constants, RingTyped, LenProperties
<1>2. data \in Seq(Byte) /\ Len(data) = n /\ n \in Nat /\ n > 0
  <2>1. n \in 0 .. Len(in) /\ n \in Nat /\ n > 0
    BY <1>1
  <2>. QED BY <1>0, <2>1, TakeTyped
<1>3. ext.bytes \in Seq(Byte) /\ Len(ext.bytes) = rcv.used
  <2>1. Lesser(Missing, rcv.used) = rcv.used
    BY <1>0, <1>1 DEF Lesser
  <2>. QED BY <1>0, <1>1, <2>1, Constants, RingExtract
<1>. HIDE DEF data, ext
<1>4. k \in 0 .. Len(data) /\ k > 0
  BY <1>0, <1>1, <1>2, <1>3 DEF Lesser
<1>5. more \in Seq(Byte) /\ Len(more) = k
  BY <1>2, <1>4, TakeTyped
<1>6. part' = part \o (ext.bytes \o more)
  BY DEF ReadThrough, AfterRead, data, ext
<1>. HIDE DEF more, k
<1>7. ext.bytes \o more \in Seq(Byte) /\ Len(ext.bytes \o more) = rcv.used + k
  <2>. DEFINE e == ext.bytes
  <2>1. e \in Seq(Byte) /\ Len(e) = rcv.used
    BY <1>3
  <2>. HIDE DEF e
  <2>2. e \o more \in Seq(Byte) /\ Len(e \o more) = Len(e) + Len(more)
    BY <1>5, <2>1, ConcatProperties
  <2>. QED BY <1>5, <2>1, <2>2 DEF e
<1>8. Len(part') = Len(part) + (rcv.used + k)
  BY <1>0, <1>6, <1>7, ConcatProperties
<1>9. k \in Nat
  BY <1>2, <1>4
<1>. QED BY <1>1, <1>4, <1>8, <1>9

LEMMA ReadEndsMoves ==
  ASSUME TypeInv, NEW k, k \in 0 .. iov.data, ReadEnds(k)
  PROVE  /\ pc' = pc => Len(part') > Len(part)
         /\ pc' = "chunk" => need' < need \/ read > 0
<1>0. /\ pc = "readv" /\ RecvTypes /\ rcv \in Ring(Byte, RcvSize) /\ part \in Seq(Byte)
      /\ (k > 0 => part = <<>>)
  BY DEF ReadEnds, TypeInv, RecvTypes
<1>1. Len(part) \in Nat /\ rcv.used \in Nat
  BY <1>0, TotalTyped, Constants, RingTyped
<1>2. CASE rcv.used > 0
  <2>1. part' = part \o RbData(rcv) /\ pc' = pc
    BY <1>2 DEF ReadEnds
  <2>2. RbData(rcv) \in Seq(Byte) /\ Len(RbData(rcv)) = rcv.used
    BY <1>0, Constants, RingData
  <2>3. Len(part') = Len(part) + rcv.used
    BY <1>0, <2>1, <2>2, ConcatProperties
  <2>. QED BY <1>0, <1>1, <1>2, <2>1, <2>3
<1>3. CASE ~(rcv.used > 0)
  <2>. DEFINE b == LastBytes(k)
  <2>1. /\ need' = need - Len(b)
        /\ pc' = IF read + Len(b) = 0 THEN "failed" ELSE IF need' = 0 THEN "deserialize" ELSE "chunk"
    BY <1>3 DEF ReadEnds, LastBytes
  <2>2. Len(b) \in Nat
    BY <1>0, LastBytesTyped
  <2>. HIDE DEF b
  <2>3. read \in Nat /\ need \in Nat
    BY <1>0, Constants DEF RecvTypes
  <2>4. pc' = "chunk" => read + Len(b) # 0
    BY <2>1
  <2>5. pc' = "chunk" => need' < need \/ read > 0
    BY <2>1, <2>2, <2>3, <2>4
  <2>. QED BY <1>0, <2>1, <2>5
<1>. QED BY <1>2, <1>3

LEMMA ChunkDoneMoves ==
  ASSUME TypeInv, NEW length \in 0 .. MaxChunk, ChunkDone(length)
  PROVE  /\ pc' # "readv"
         /\ pc' = "chunk" => need' < need \/ read > 0 \/ rem' > 0
<1>1. pc = "readv" /\ need' = need - iov.data
  BY DEF ChunkDone
<1>2. iov.data \in Nat /\ need \in Nat /\ read \in Nat /\ length \in Nat
  BY <1>1, Constants, IovWanted DEF TypeInv, RecvTypes
<1>3. \/ pc' = "deserialize"
      \/ /\ rem' = IF length = 0 THEN -1 ELSE length
         /\ pc' = IF need - iov.data = 0 THEN "deserialize"
                  ELSE IF length = 0 /\ read + iov.data = 0 THEN "failed" ELSE "chunk"
  BY DEF ChunkDone
<1>4. pc' # "readv"
  BY <1>3
<1>5. ASSUME pc' = "chunk" PROVE need' < need \/ read > 0 \/ rem' > 0
  <2>1. CASE length = 0
    <3>1. read + iov.data # 0
      BY <1>3, <1>5, <2>1
    <3>. QED BY <1>1, <1>2, <3>1
  <2>2. CASE length # 0
    <3>1. rem' = length
      BY <1>3, <1>5, <2>2
    <3>. QED BY <1>2, <2>2, <3>1
  <2>. QED BY <2>1, <2>2
<1>. QED BY <1>4, <1>5

\* What Progress says of a step.
Moves ==
    /\ (pc' = pc /\ up' = up) =>
          /\ pc \in {"write", "close"} => Len(todo') < Len(todo)
          /\ pc = "flush" => flushed' > flushed
          /\ pc = "readv" => Len(part') > Len(part)
    /\ (pc = "readv" /\ pc' = "chunk") => (need' < need \/ read > 0 \/ rem' > 0)

LEMMA SendMoves ==
  ASSUME TypeInv, Send
  PROVE  Moves
<1>1. CASE StartMessage \/ CloseMessage \/ RingAssertFails
  BY <1>1 DEF StartMessage, CloseMessage, RingAssertFails, Moves
<1>2. CASE WriteBuffered
  BY <1>2, WriteBufferedMoves DEF WriteBuffered, Moves
<1>3. CASE WriteFails \/ Written \/ FlushNothing
  BY <1>3 DEF WriteFails, Written, FlushNothing, Moves
<1>4. ASSUME NEW n \in 1 .. MaxLength, Serialize(n) PROVE Moves
  BY <1>4 DEF Serialize, Moves
<1>5. ASSUME NEW w \in 1 .. snd.used + Len(todo), WriteThrough(w) PROVE Moves
  <2>1. pc \in {"write", "close"}
    BY <1>5 DEF WriteThrough
  <2>2. pc' = pc => Len(todo') < Len(todo)
    BY <1>5, WriteThroughMoves
  <2>. QED BY <2>1, <2>2 DEF Moves
<1>6. ASSUME NEW w \in 1 .. snd.used - flushed, Flush(w) PROVE Moves
  <2>1. pc = "flush"
    BY <1>6 DEF Flush
  <2>2. pc' = pc => flushed' > flushed
    BY <1>6, FlushMoves
  <2>. QED BY <2>1, <2>2 DEF Moves
<1>7. ASSUME NEW w \in 0 .. snd.used, FlushFails(w) PROVE Moves
  BY <1>7 DEF FlushFails, Moves
<1>. QED BY <1>1, <1>2, <1>3, <1>4, <1>5, <1>6, <1>7 DEF Send

LEMMA ReceiveMoves ==
  ASSUME TypeInv, Receive
  PROVE  Moves
<1>1. CASE NextMessage \/ ChunkRead \/ MessageDone
  BY <1>1 DEF NextMessage, ChunkRead, MessageDone, Moves
<1>2. CASE ReadBuffered
  BY <1>2, ReadBufferedMoves DEF ReadBuffered, Moves
<1>3. ASSUME NEW n \in 1 .. (MaxReply + Excess), ReadAll(n) PROVE Moves
  BY <1>3 DEF ReadAll, Moves
<1>4. ASSUME NEW n \in 1 .. Len(in), ReadThrough(n) PROVE Moves
  <2>1. pc = "readv" /\ pc' = pc
    BY <1>4 DEF ReadThrough
  <2>2. Len(part') > Len(part)
    BY <1>4, ReadThroughMoves
  <2>. QED BY <2>1, <2>2 DEF Moves
<1>5. ASSUME NEW k \in 0 .. iov.data, ReadEnds(k) PROVE Moves
  <2>1. pc = "readv"
    BY <1>5 DEF ReadEnds
  <2>2. /\ pc' = pc => Len(part') > Len(part)
        /\ pc' = "chunk" => need' < need \/ read > 0
    BY <1>5, ReadEndsMoves
  <2>. QED BY <2>1, <2>2 DEF Moves
<1>6. ASSUME NEW length \in 0 .. MaxChunk, ChunkDone(length) PROVE Moves
  <2>1. pc = "readv"
    BY <1>6 DEF ChunkDone
  <2>2. pc' # "readv" /\ (pc' = "chunk" => need' < need \/ read > 0 \/ rem' > 0)
    BY <1>6, ChunkDoneMoves
  <2>. QED BY <2>1, <2>2 DEF Moves
<1>. QED BY <1>1, <1>2, <1>3, <1>4, <1>5, <1>6 DEF Receive

\* No loop of iostream.c, of buffering_flush or of chunking_read turns without
\* having moved a byte, whatever the socket takes and gives.
THEOREM ProgressTheorem == Spec => Progress
<1>1. TypeInv /\ [Next]_vars => [Moves]_vars
  <2>1. ASSUME TypeInv, Next PROVE Moves
    <3>1. CASE SocketFails
      BY <3>1 DEF SocketFails, Moves
    <3>. QED BY <2>1, <3>1, SendMoves, ReceiveMoves DEF Next
  <2>. QED BY <2>1
<1>2. Spec => [][Moves]_vars
  BY <1>1, TypeInvariant, PTL DEF Spec
<1>. QED BY <1>2 DEF Progress, Moves
===============================================================================
