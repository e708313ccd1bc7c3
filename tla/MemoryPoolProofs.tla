-------------------------- MODULE MemoryPoolProofs --------------------------
(***************************************************************************)
(* Memory pools are stacks, for all sizes of blocks, any number of pools   *)
(* and pointers.                                                           *)
(***************************************************************************)
EXTENDS MemoryPool, SequenceLemmas, FiniteSetTheorems

-----------------------------------------------------------------------------
(* A list of blocks, the newest first, has the cells of the oldest first.   *)
Whole(l) == FlattenSeq(Reverse(l))

LEMMA ReverseTyped ==
  ASSUME NEW S, NEW l \in Seq(S)
  PROVE  /\ Reverse(l) \in Seq(S) /\ Len(Reverse(l)) = Len(l)
         /\ \A i \in 1 .. Len(l) : Reverse(l)[i] = l[Len(l) - i + 1]
<1>1. Len(l) \in Nat /\ l \in [1 .. Len(l) -> S]
  OBVIOUS
<1>2. \A i \in 1 .. Len(l) : Len(l) - i + 1 \in 1 .. Len(l)
  BY <1>1
<1>3. Reverse(l) \in [1 .. Len(l) -> S]
  BY <1>1, <1>2 DEF Reverse
<1>. QED BY <1>1, <1>3 DEF Reverse

LEMMA ReverseAppend ==
  ASSUME NEW S, NEW l \in Seq(S), NEW b \in S
  PROVE  Reverse(Append(l, b)) = <<b>> \o Reverse(l)
<1>. DEFINE n == Len(l)
            a == Append(l, b)
            r == Reverse(a)
            t == <<b>> \o Reverse(l)
<1>1. n \in Nat /\ a \in Seq(S) /\ Len(a) = n + 1
      /\ a[n + 1] = b /\ \A i \in 1 .. n : a[i] = l[i]
  BY AppendProperties
<1>. HIDE DEF a
<1>2. r \in Seq(S) /\ Len(r) = n + 1
      /\ \A i \in 1 .. n + 1 : r[i] = a[n + 1 - i + 1]
  BY <1>1, ReverseTyped
<1>3. Reverse(l) \in Seq(S) /\ Len(Reverse(l)) = n
      /\ \A i \in 1 .. n : Reverse(l)[i] = l[n - i + 1]
  BY ReverseTyped
<1>4. <<b>> \in Seq(S) /\ Len(<<b>>) = 1 /\ <<b>>[1] = b
  OBVIOUS
<1>5. t \in Seq(S) /\ Len(t) = 1 + n
      /\ \A i \in 1 .. 1 + n : t[i] = IF i <= 1 THEN <<b>>[i] ELSE Reverse(l)[i - 1]
  BY <1>3, <1>4, ConcatProperties
<1>. HIDE DEF r, t, n
<1>6. ASSUME NEW i \in 1 .. n + 1 PROVE r[i] = t[i]
  <2>1. CASE i = 1
    BY <1>1, <1>2, <1>4, <1>5, <2>1
  <2>2. CASE i # 1
    <3>1. i - 1 \in 1 .. n /\ n + 1 - i + 1 \in 1 .. n /\ n - (i - 1) + 1 = n + 1 - i + 1
          /\ ~(i <= 1) /\ i \in 1 .. 1 + n
      BY <1>1, <2>2
    <3>2. t[i] = Reverse(l)[i - 1]
      BY <1>5, <3>1
    <3>3. r[i] = a[n + 1 - i + 1]
      BY <1>2
    <3>4. Reverse(l)[i - 1] = l[n - (i - 1) + 1]
      BY <1>3, <3>1
    <3>. QED BY <1>1, <3>1, <3>2, <3>3, <3>4
  <2>. QED BY <2>1, <2>2
<1>7. r = t
  <2>1. Len(r) = Len(t) /\ \A i \in 1 .. Len(r) : r[i] = t[i]
    BY <1>1, <1>2, <1>5, <1>6
  <2>. QED BY <1>2, <1>5, <2>1, SeqEqual
<1>. QED BY <1>7 DEF r, t, a

LEMMA ReverseCons ==
  ASSUME NEW S, NEW l \in Seq(S), NEW b \in S
  PROVE  Reverse(<<b>> \o l) = Append(Reverse(l), b)
<1>. DEFINE n == Len(l)
            c == <<b>> \o l
            r == Reverse(c)
            t == Append(Reverse(l), b)
<1>1. <<b>> \in Seq(S) /\ Len(<<b>>) = 1 /\ <<b>>[1] = b /\ n \in Nat
  OBVIOUS
<1>2. c \in Seq(S) /\ Len(c) = 1 + n
      /\ \A i \in 1 .. 1 + n : c[i] = IF i <= 1 THEN <<b>>[i] ELSE l[i - 1]
  BY <1>1, ConcatProperties
<1>. HIDE DEF c
<1>3. r \in Seq(S) /\ Len(r) = 1 + n /\ \A i \in 1 .. 1 + n : r[i] = c[1 + n - i + 1]
  BY <1>2, ReverseTyped
<1>4. Reverse(l) \in Seq(S) /\ Len(Reverse(l)) = n
      /\ \A i \in 1 .. n : Reverse(l)[i] = l[n - i + 1]
  BY ReverseTyped
<1>5. t \in Seq(S) /\ Len(t) = n + 1 /\ t[n + 1] = b
      /\ \A i \in 1 .. n : t[i] = Reverse(l)[i]
  BY <1>4, AppendProperties
<1>. HIDE DEF r, t, n
<1>6. ASSUME NEW i \in 1 .. n + 1 PROVE r[i] = t[i]
  <2>1. CASE i = n + 1
    <3>1. 1 + n - i + 1 = 1 /\ 1 \in 1 .. 1 + n /\ i \in 1 .. 1 + n
      BY <1>1, <2>1
    <3>2. c[1] = b
      BY <1>1, <1>2, <3>1
    <3>. QED BY <1>3, <1>5, <2>1, <3>1, <3>2
  <2>2. CASE i # n + 1
    <3>1. i \in 1 .. n /\ 1 + n - i + 1 \in 1 .. 1 + n /\ ~(1 + n - i + 1 <= 1)
          /\ 1 + n - i + 1 - 1 = n - i + 1 /\ i \in 1 .. 1 + n
      BY <1>1, <2>2
    <3>2. PICK j \in 1 .. 1 + n : j = 1 + n - i + 1 /\ j - 1 = n - i + 1 /\ ~(j <= 1)
      BY <1>1, <3>1
    <3>3. c[j] = l[j - 1]
      BY <1>2, <3>2
    <3>. QED BY <1>3, <1>4, <1>5, <3>1, <3>2, <3>3
  <2>. QED BY <2>1, <2>2
<1>7. r = t
  BY <1>1, <1>3, <1>5, <1>6, SeqEqual
<1>. QED BY <1>7 DEF r, t, c

LEMMA WholeTyped ==
  ASSUME NEW S, NEW l \in Seq(Seq(S))
  PROVE  Whole(l) \in Seq(S)
  BY ReverseTyped, FlattenTyped DEF Whole

LEMMA WholeEmpty == Whole(<<>>) = <<>>
<1>1. <<>> \in Seq({}) /\ Len(<<>>) = 0
  OBVIOUS
<1>2. Reverse(<<>>) \in Seq({}) /\ Len(Reverse(<<>>)) = 0
  BY <1>1, ReverseTyped
<1>3. Reverse(<<>>) = <<>>
  BY <1>2, EmptySeq
<1>. QED BY <1>1, <1>3 DEF Whole, FlattenSeq

LEMMA WholeCons ==
  ASSUME NEW S, NEW l \in Seq(Seq(S)), NEW b \in Seq(S)
  PROVE  Whole(<<b>> \o l) = Whole(l) \o b
<1>1. Reverse(<<b>> \o l) = Append(Reverse(l), b)
  BY ReverseCons
<1>2. Reverse(l) \in Seq(Seq(S))
  BY ReverseTyped
<1>. QED BY <1>1, <1>2, FlattenAppend DEF Whole

LEMMA WholeAppend ==
  ASSUME NEW S, NEW l \in Seq(Seq(S)), NEW b \in Seq(S)
  PROVE  Whole(Append(l, b)) = b \o Whole(l)
<1>1. Reverse(Append(l, b)) = <<b>> \o Reverse(l)
  BY ReverseAppend
<1>2. Reverse(l) \in Seq(Seq(S))
  BY ReverseTyped
<1>. QED BY <1>1, <1>2, FlattenHead DEF Whole

LEMMA WholeConcat ==
  ASSUME NEW S, NEW l \in Seq(Seq(S)), NEW m \in Seq(Seq(S))
  PROVE  Whole(l \o m) = Whole(m) \o Whole(l)
<1>. DEFINE T == {k \in Seq(Seq(S)) : Whole(l \o k) = Whole(k) \o Whole(l)}
<1>0. Whole(l) \in Seq(S)
  BY WholeTyped
<1>1. <<>> \in T
  <2>1. <<>> \in Seq(Seq(S)) /\ l \o <<>> = l /\ <<>> \o Whole(l) = Whole(l)
    BY <1>0, ConcatEmptySeq
  <2>. QED BY <2>1, WholeEmpty
<1>2. ASSUME NEW k \in Seq(Seq(S)), NEW b \in Seq(S), k \in T PROVE Append(k, b) \in T
  <2>1. <<b>> \in Seq(Seq(S)) /\ Append(k, b) = k \o <<b>> /\ Append(k, b) \in Seq(Seq(S))
        /\ l \o k \in Seq(Seq(S))
    BY AppendIsConcat, AppendProperties, ConcatProperties
  <2>2. l \o Append(k, b) = Append(l \o k, b)
    BY <2>1, ConcatAssociative, AppendIsConcat
  <2>3. Whole(Append(l \o k, b)) = b \o Whole(l \o k)
    BY <2>1, WholeAppend
  <2>4. Whole(l \o k) = Whole(k) \o Whole(l) /\ Whole(Append(k, b)) = b \o Whole(k)
    BY <1>2, WholeAppend
  <2>5. Whole(k) \in Seq(S)
    BY WholeTyped
  <2>6. b \o (Whole(k) \o Whole(l)) = (b \o Whole(k)) \o Whole(l)
    BY <1>0, <2>5, ConcatAssociative
  <2>. QED BY <2>1, <2>2, <2>3, <2>4, <2>6
<1>. HIDE DEF T
<1>3. Seq(Seq(S)) \subseteq T
  BY <1>1, <1>2, SequencesInSet
<1>. QED BY <1>3 DEF T

\* A list that is not empty has a first block.
LEMMA FirstBlock ==
  ASSUME NEW S, NEW l \in Seq(S), l # <<>>
  PROVE  /\ l[1] \in S /\ Tail(l) \in Seq(S) /\ l = <<l[1]>> \o Tail(l)
         /\ Len(l) \in Nat \ {0} /\ Len(Tail(l)) = Len(l) - 1
         /\ \A i \in 1 .. Len(l) - 1 : Tail(l)[i] = l[i + 1]
<1>1. Len(l) \in Nat \ {0} /\ 1 \in 1 .. Len(l) /\ Len(l) \in 1 .. Len(l) /\ 1 + 1 = 2
  BY EmptySeq
<1>2. SubSeq(l, 1, Len(l)) = <<l[1]>> \o SubSeq(l, 2, Len(l))
  BY <1>1, SubSeqRecursiveFirst
<1>. QED BY <1>1, <1>2, SubSeqFull, TailIsSubSeq, HeadTailProperties, ElementOfSeq

-----------------------------------------------------------------------------
(* The cells of blocks.                                                     *)
LEMMA CopyTyped ==
  ASSUME NEW dst \in Seq(Nat), NEW src \in Seq(Nat), NEW d \in Int, NEW s \in Nat \ {0},
         NEW n \in Nat, s + n - 1 <= Len(src)
  PROVE  /\ Copy(dst, d, src, s, n) \in Seq(Nat) /\ Len(Copy(dst, d, src, s, n)) = Len(dst)
         /\ \A c \in 1 .. Len(dst) : Copy(dst, d, src, s, n)[c] =
                           IF c \in d .. d + n - 1 THEN src[s + c - d] ELSE dst[c]
<1>. DEFINE m == Len(dst)
            f == Copy(dst, d, src, s, n)
<1>1. m \in Nat /\ DOMAIN dst = 1 .. m /\ Len(src) \in Nat
  OBVIOUS
<1>2. f = [c \in 1 .. m |-> IF c \in d .. d + n - 1 THEN src[s + c - d] ELSE dst[c]]
  BY <1>1 DEF Copy
<1>3. ASSUME NEW c \in 1 .. m
      PROVE  (IF c \in d .. d + n - 1 THEN src[s + c - d] ELSE dst[c]) \in Nat
  <2>1. CASE c \in d .. d + n - 1
    <3>1. s + c - d \in 1 .. Len(src)
      BY <1>1, <2>1
    <3>. QED BY <2>1, <3>1, ElementOfSeq
  <2>2. CASE c \notin d .. d + n - 1
    BY <2>2, ElementOfSeq
  <2>. QED BY <2>1, <2>2
<1>. HIDE DEF f
<1>4. f \in [1 .. m -> Nat]
  BY <1>2, <1>3
<1>5. f \in Seq(Nat) /\ Len(f) = m
  BY <1>1, <1>4
<1>. QED BY <1>2, <1>5 DEF f

LEMMA BlockTyped ==
  ASSUME NEW size \in Nat \ {0}
  PROVE  Block(size) \in Seq(Nat) /\ Len(Block(size)) = size - 1
<1>1. size - 1 \in Nat /\ Block(size) \in [1 .. size - 1 -> Nat]
  BY DEF Block
<1>. QED BY <1>1

LEMMA StackedEmpty ==
  ASSUME NEW n
  PROVE  Stacked(<<>>, n) = <<>>
  BY DEF Stacked

LEMMA StackedCons ==
  ASSUME NEW S, NEW l \in Seq(Seq(S)), NEW b \in Seq(S), NEW n
  PROVE  Stacked(<<b>> \o l, n) = Whole(l) \o SubSeq(b, 1, n)
<1>. DEFINE c == <<b>> \o l
<1>1. <<b>> \in Seq(Seq(S)) /\ Len(<<b>>) = 1 /\ Len(l) \in Nat
  OBVIOUS
<1>2. c \in Seq(Seq(S)) /\ Len(c) = 1 + Len(l) /\ c[1] = b
      /\ \A i \in 1 .. 1 + Len(l) : c[i] = IF i <= 1 THEN <<b>>[i] ELSE l[i - 1]
  BY <1>1, ConcatProperties
<1>. HIDE DEF c
<1>3. c # <<>>
  BY <1>1, <1>2
<1>4. Tail(c) \in Seq(Seq(S)) /\ Len(Tail(c)) = Len(l)
      /\ \A i \in 1 .. Len(l) : Tail(c)[i] = c[i + 1]
  BY <1>1, <1>2, <1>3, HeadTailProperties
<1>5. ASSUME NEW i \in 1 .. Len(l) PROVE Tail(c)[i] = l[i]
  <2>1. i + 1 \in 1 .. 1 + Len(l) /\ ~(i + 1 <= 1) /\ i + 1 - 1 = i
    BY <1>1
  <2>. QED BY <1>2, <1>4, <2>1
<1>6. Tail(c) = l
  BY <1>4, <1>5, SeqEqual
<1>. QED BY <1>2, <1>3, <1>6 DEF Stacked, Whole, c

LEMMA StackedFirst ==
  ASSUME NEW S, NEW l \in Seq(Seq(S)), l # <<>>, NEW n \in 0 .. Len(l[1])
  PROVE  /\ Stacked(l, n) = Whole(Tail(l)) \o SubSeq(l[1], 1, n)
         /\ Whole(Tail(l)) \in Seq(S) /\ SubSeq(l[1], 1, n) \in Seq(S)
         /\ Len(SubSeq(l[1], 1, n)) = n
         /\ Stacked(l, n) \in Seq(S) /\ Len(Stacked(l, n)) = Len(Whole(Tail(l))) + n
<1>1. l[1] \in Seq(S) /\ Tail(l) \in Seq(Seq(S))
  BY FirstBlock
<1>2. Len(l[1]) \in Nat /\ n \in Nat /\ n - 1 + 1 = n /\ 1 \in 1 .. Len(l[1]) + 1
      /\ (~(1 <= n) => n = 0)
  BY <1>1
<1>3. SubSeq(l[1], 1, n) \in Seq(S) /\ Len(SubSeq(l[1], 1, n)) = n
  BY <1>1, <1>2, SubSeqTyped
<1>4. Whole(Tail(l)) \in Seq(S)
  BY <1>1, WholeTyped
<1>5. Stacked(l, n) = Whole(Tail(l)) \o SubSeq(l[1], 1, n)
  BY DEF Stacked, Whole
<1>. QED BY <1>3, <1>4, <1>5, ConcatProperties

\* Where all blocks are full.
LEMMA StackedFull ==
  ASSUME NEW S, NEW l \in Seq(Seq(S)), NEW n, l # <<>> => Len(l[1]) = n
  PROVE  Stacked(l, n) = Whole(l)
<1>1. CASE l = <<>>
  BY <1>1, StackedEmpty, WholeEmpty
<1>2. CASE l # <<>>
  <2>1. l[1] \in Seq(S) /\ Tail(l) \in Seq(Seq(S)) /\ l = <<l[1]>> \o Tail(l)
    BY <1>2, FirstBlock
  <2>2. SubSeq(l[1], 1, n) = l[1]
    BY <1>2, <2>1, SubSeqFull
  <2>3. Stacked(l, n) = Whole(Tail(l)) \o SubSeq(l[1], 1, n)
    BY <1>2 DEF Stacked, Whole
  <2>. QED BY <2>1, <2>2, <2>3, WholeCons
<1>. QED BY <1>1, <1>2
-----------------------------------------------------------------------------
(* A pool.  Its depth is what it counts of its pointers.                    *)
Cells(n) == {b \in Seq(Nat) : Len(b) = n}

Pool == [allocator : Allocators, block_size : Nat, debounce : Seq(Nat), ptrs : Seq(Seq(Nat)),
         offset : Nat, depth : Nat]

Shape(p) ==
  /\ p \in Pool
  /\ p.block_size >= Debounce + 2 /\ p.offset \in 1 .. p.block_size
  /\ Len(p.debounce) <= Debounce
  /\ p.debounce # <<>> => p.offset = p.block_size
  /\ p.ptrs \in Seq(Cells(p.block_size - 1))

PoolOK(p) == Shape(p) /\ p.depth = Len(Contents(p))

LEMMA CellsTyped ==
  ASSUME NEW n, NEW l \in Seq(Cells(n))
  PROVE  /\ l \in Seq(Seq(Nat)) /\ \A k \in DOMAIN l : Len(l[k]) = n
         /\ Len(l) \in Nat
         /\ l # <<>> => l[1] \in Cells(n) /\ Tail(l) \in Seq(Cells(n)) /\ l = <<l[1]>> \o Tail(l)
<1>1. Len(l) \in Nat /\ DOMAIN l = 1 .. Len(l)
  OBVIOUS
<1>2. \A k \in 1 .. Len(l) : l[k] \in Cells(n)
  BY ElementOfSeq
<1>3. \A k \in 1 .. Len(l) : l[k] \in Seq(Nat) /\ Len(l[k]) = n
  BY <1>2 DEF Cells
<1>4. l \in [1 .. Len(l) -> Seq(Nat)]
  BY <1>1, <1>3
<1>. QED BY <1>1, <1>3, <1>4, FirstBlock

\* The sizes in it, as numbers.
LEMMA Sizes ==
  ASSUME NEW p, Shape(p)
  PROVE  /\ p.block_size \in Nat /\ p.block_size - 1 \in Nat /\ p.offset \in Nat
         /\ p.block_size >= 3 /\ Debounce \in Nat \ {0} /\ p.offset - 1 \in Nat
         /\ p.offset >= 1 /\ p.offset <= p.block_size /\ Len(p.debounce) \in Nat
         /\ Len(p.debounce) <= p.block_size - 2
         /\ p.debounce \in Seq(Nat) /\ p.ptrs \in Seq(Seq(Nat)) /\ Len(p.ptrs) \in Nat
         /\ p.depth \in Nat /\ p.allocator \in Allocators
         /\ p.ptrs \in Seq(Cells(p.block_size - 1))
         /\ p.ptrs # <<>> =>
              /\ p.ptrs[1] \in Seq(Nat) /\ Len(p.ptrs[1]) = p.block_size - 1
              /\ Tail(p.ptrs) \in Seq(Seq(Nat)) /\ Tail(p.ptrs) \in Seq(Cells(p.block_size - 1))
              /\ p.ptrs = <<p.ptrs[1]>> \o Tail(p.ptrs)
<1>1. /\ p.block_size \in Nat /\ p.offset \in Nat /\ p.debounce \in Seq(Nat)
      /\ p.ptrs \in Seq(Seq(Nat)) /\ p.depth \in Nat /\ p.allocator \in Allocators
  BY DEF Shape, Pool
<1>2. Debounce \in Nat \ {0}
  BY MemoryPoolAssumption
<1>3. Len(p.debounce) \in Nat /\ Len(p.ptrs) \in Nat
  BY <1>1
<1>4. ASSUME p.ptrs # <<>>
      PROVE  /\ p.ptrs[1] \in Seq(Nat) /\ Len(p.ptrs[1]) = p.block_size - 1
             /\ Tail(p.ptrs) \in Seq(Seq(Nat)) /\ Tail(p.ptrs) \in Seq(Cells(p.block_size - 1))
             /\ p.ptrs = <<p.ptrs[1]>> \o Tail(p.ptrs)
  <2>1. p.ptrs \in Seq(Cells(p.block_size - 1))
    BY DEF Shape
  <2>2. /\ p.ptrs[1] \in Cells(p.block_size - 1) /\ Tail(p.ptrs) \in Seq(Cells(p.block_size - 1))
        /\ p.ptrs = <<p.ptrs[1]>> \o Tail(p.ptrs)
    BY <1>4, <2>1, CellsTyped
  <2>3. Tail(p.ptrs) \in Seq(Seq(Nat))
    BY <2>2, CellsTyped
  <2>. QED BY <2>2, <2>3 DEF Cells
<1>5. /\ p.block_size >= Debounce + 2 /\ p.offset \in 1 .. p.block_size
      /\ Len(p.debounce) <= Debounce /\ p.ptrs \in Seq(Cells(p.block_size - 1))
  BY DEF Shape
<1>6. /\ p.block_size - 1 \in Nat /\ p.block_size >= 3 /\ p.offset - 1 \in Nat
      /\ p.offset >= 1 /\ p.offset <= p.block_size
      /\ Len(p.debounce) <= p.block_size - 2
  BY ONLY <1>1, <1>2, <1>3, <1>5
<1>. QED BY <1>1, <1>2, <1>3, <1>4, <1>5, <1>6

\* What a pool contains: full blocks, a part of the first, the debounce region.
LEMMA ContentsTyped ==
  ASSUME NEW p, Shape(p)
  PROVE  /\ Contents(p) \in Seq(Nat) /\ Stacked(p.ptrs, p.offset - 1) \in Seq(Nat)
         /\ Len(Contents(p)) = Len(Stacked(p.ptrs, p.offset - 1)) + Len(p.debounce)
         /\ p.debounce = <<>> => Contents(p) = Stacked(p.ptrs, p.offset - 1)
         /\ p.ptrs # <<>> =>
              /\ Stacked(p.ptrs, p.offset - 1) =
                   Whole(Tail(p.ptrs)) \o SubSeq(p.ptrs[1], 1, p.offset - 1)
              /\ Len(Stacked(p.ptrs, p.offset - 1)) = Len(Whole(Tail(p.ptrs))) + p.offset - 1
<1>. DEFINE a == Stacked(p.ptrs, p.offset - 1)
            d == p.debounce
<1>0. d \in Seq(Nat) /\ p.offset \in Nat /\ Contents(p) = a \o d
  BY Sizes DEF Contents
<1>1. ASSUME p.ptrs # <<>>
      PROVE  /\ a \in Seq(Nat)
             /\ a = Whole(Tail(p.ptrs)) \o SubSeq(p.ptrs[1], 1, p.offset - 1)
             /\ Len(a) = Len(Whole(Tail(p.ptrs))) + p.offset - 1
  <2>0. /\ p.offset - 1 \in Nat /\ p.offset \in Nat /\ p.block_size \in Nat
        /\ p.offset <= p.block_size /\ Len(p.ptrs[1]) = p.block_size - 1
    BY <1>1, Sizes
  <2>1. p.offset - 1 \in 0 .. Len(p.ptrs[1]) /\ p.ptrs \in Seq(Seq(Nat))
    <3>1. p.offset - 1 \in 0 .. Len(p.ptrs[1])
      BY ONLY <2>0
    <3>. QED BY <3>1, Sizes
  <2>2. /\ a \in Seq(Nat) /\ Len(a) = Len(Whole(Tail(p.ptrs))) + (p.offset - 1)
        /\ a = Whole(Tail(p.ptrs)) \o SubSeq(p.ptrs[1], 1, p.offset - 1)
        /\ Whole(Tail(p.ptrs)) \in Seq(Nat)
    BY <1>1, <2>1, StackedFirst
  <2>3. Len(Whole(Tail(p.ptrs))) \in Nat
    BY <2>2
  <2>4. Len(Whole(Tail(p.ptrs))) + (p.offset - 1) = Len(Whole(Tail(p.ptrs))) + p.offset - 1
    BY <1>0, <2>3
  <2>. QED BY <2>2, <2>4
<1>2. p.ptrs = <<>> => a = <<>>
  BY StackedEmpty
<1>. HIDE DEF a, d
<1>3. a \in Seq(Nat)
  <2>1. <<>> \in Seq(Nat)
    OBVIOUS
  <2>. QED BY <1>1, <1>2, <2>1
<1>4. /\ Contents(p) \in Seq(Nat) /\ Len(Contents(p)) = Len(a) + Len(d)
      /\ d = <<>> => Contents(p) = a
  BY <1>0, <1>3, ConcatProperties, ConcatEmptySeq
<1>. QED BY <1>1, <1>3, <1>4 DEF a, d

-----------------------------------------------------------------------------
(* Adding pointers.                                                         *)
LEMMA ReplaceFirst ==
  ASSUME NEW S, NEW l \in Seq(S), l # <<>>, NEW e \in S
  PROVE  [l EXCEPT ![1] = e] = <<e>> \o Tail(l)
<1>. DEFINE r == [l EXCEPT ![1] = e]
            t == <<e>> \o Tail(l)
            n == Len(l)
<1>1. /\ Tail(l) \in Seq(S) /\ n \in Nat \ {0} /\ Len(Tail(l)) = n - 1
      /\ \A i \in 1 .. n - 1 : Tail(l)[i] = l[i + 1]
  BY FirstBlock
<1>2. <<e>> \in Seq(S) /\ Len(<<e>>) = 1 /\ <<e>>[1] = e /\ 1 + (n - 1) = n
  BY <1>1
<1>3. t \in Seq(S) /\ Len(t) = 1 + (n - 1)
      /\ \A i \in 1 .. 1 + (n - 1) : t[i] = IF i <= 1 THEN <<e>>[i] ELSE Tail(l)[i - 1]
  BY <1>1, <1>2, ConcatProperties
<1>4. r \in Seq(S) /\ Len(r) = n /\ \A i \in 1 .. n : r[i] = IF i = 1 THEN e ELSE l[i]
  <2>1. 1 \in 1 .. n
    BY <1>1
  <2>2. DOMAIN l = 1 .. n
    OBVIOUS
  <2>3. r \in Seq(S) /\ Len(r) = n
    BY <2>1, ExceptSeq
  <2>. QED BY <2>1, <2>2, <2>3
<1>. HIDE DEF r, t, n
<1>5. ASSUME NEW i \in 1 .. n PROVE r[i] = t[i]
  <2>1. CASE i = 1
    BY <1>2, <1>3, <1>4, <2>1
  <2>2. CASE i # 1
    <3>1. PICK j \in 1 .. n - 1 : j = i - 1 /\ i = j + 1
      <4>1. i - 1 \in 1 .. n - 1 /\ i = (i - 1) + 1
        BY <1>1, <2>2
      <4>. QED BY <4>1
    <3>2. ~(i <= 1)
      BY <2>2
    <3>. QED BY <1>1, <1>2, <1>3, <1>4, <2>2, <3>1, <3>2
  <2>. QED BY <2>1, <2>2
<1>6. Len(r) = Len(t) /\ \A i \in 1 .. Len(r) : r[i] = t[i]
  BY <1>2, <1>3, <1>4, <1>5
<1>7. r = t
  BY <1>3, <1>4, <1>6, SeqEqual
<1>. QED BY <1>7 DEF r, t

\* Parts of sequences, by their length.
LEMMA SubSeqPart ==
  ASSUME NEW S, NEW s \in Seq(S), NEW m \in Nat, NEW n \in Nat, m + n <= Len(s)
  PROVE  /\ SubSeq(s, m + 1, m + n) \in Seq(S) /\ Len(SubSeq(s, m + 1, m + n)) = n
         /\ \A i \in 1 .. n : SubSeq(s, m + 1, m + n)[i] = s[m + i]
<1>. DEFINE f == m + 1
            l == m + n
<1>1. Len(s) \in Nat
  OBVIOUS
<1>2. f \in 1 .. Len(s) + 1 /\ l \in 0 .. Len(s) /\ l - f + 1 = n /\ (~(f <= l) => n = 0)
      /\ \A i \in 1 .. n : f + i - 1 = m + i
  BY <1>1
<1>. HIDE DEF f, l
<1>3. /\ SubSeq(s, f, l) \in Seq(S)
      /\ Len(SubSeq(s, f, l)) = IF f <= l THEN l - f + 1 ELSE 0
      /\ \A i \in 1 .. l - f + 1 : SubSeq(s, f, l)[i] = s[f + i - 1]
  BY <1>2, SubSeqTyped
<1>4. /\ SubSeq(s, f, l) \in Seq(S) /\ Len(SubSeq(s, f, l)) = n
      /\ \A i \in 1 .. n : SubSeq(s, f, l)[i] = s[m + i]
  BY <1>2, <1>3
<1>. QED BY <1>4 DEF f, l

LEMMA SubSeqStart ==
  ASSUME NEW S, NEW s \in Seq(S), NEW n \in 0 .. Len(s)
  PROVE  /\ SubSeq(s, 1, n) \in Seq(S) /\ Len(SubSeq(s, 1, n)) = n
         /\ \A i \in 1 .. n : SubSeq(s, 1, n)[i] = s[i]
<1>1. n \in Nat /\ 0 + n <= Len(s) /\ 0 + 1 = 1 /\ 0 + n = n /\ \A i \in 1 .. n : 0 + i = i
  OBVIOUS
<1>2. /\ SubSeq(s, 0 + 1, 0 + n) \in Seq(S) /\ Len(SubSeq(s, 0 + 1, 0 + n)) = n
      /\ \A i \in 1 .. n : SubSeq(s, 0 + 1, 0 + n)[i] = s[0 + i]
  BY <1>1, SubSeqPart
<1>. QED BY <1>1, <1>2

\* What has been copied to the start of a block is at the start of it.
LEMMA CopyStart ==
  ASSUME NEW dst \in Seq(Nat), NEW src \in Seq(Nat), NEW s \in Nat, NEW n \in Nat,
         s + n <= Len(src), n <= Len(dst)
  PROVE  \A m \in 0 .. n : SubSeq(Copy(dst, 1, src, s + 1, n), 1, m) = SubSeq(src, s + 1, s + m)
<1>. TAKE m \in 0 .. n
<1>. DEFINE f == Copy(dst, 1, src, s + 1, n)
            a == SubSeq(f, 1, m)
            b == SubSeq(src, s + 1, s + m)
            k == Len(dst)
<1>1. k \in Nat /\ Len(src) \in Nat /\ s + 1 \in Nat \ {0} /\ (s + 1) + n - 1 <= Len(src) /\ m \in Nat
  OBVIOUS
<1>2. f \in Seq(Nat) /\ Len(f) = k
      /\ \A c \in 1 .. k : f[c] = IF c \in 1 .. 1 + n - 1 THEN src[(s + 1) + c - 1] ELSE dst[c]
  BY <1>1, CopyTyped
<1>. HIDE DEF f, k
<1>3. a \in Seq(Nat) /\ Len(a) = m /\ \A i \in 1 .. m : a[i] = f[i]
  <2>1. m \in 0 .. Len(f)
    BY <1>1, <1>2 DEF k
  <2>. QED BY <1>2, <2>1, SubSeqStart
<1>4. b \in Seq(Nat) /\ Len(b) = m /\ \A i \in 1 .. m : b[i] = src[s + i]
  <2>1. s + m <= Len(src)
    BY <1>1
  <2>. QED BY <1>1, <2>1, SubSeqPart
<1>. HIDE DEF a, b
<1>5. ASSUME NEW i \in 1 .. m PROVE a[i] = b[i]
  <2>1. i \in 1 .. k /\ i \in 1 .. 1 + n - 1 /\ (s + 1) + i - 1 = s + i
    BY <1>1 DEF k
  <2>. QED BY <1>2, <1>3, <1>4, <2>1
<1>6. Len(a) = Len(b) /\ \A i \in 1 .. Len(a) : a[i] = b[i]
  BY <1>3, <1>4, <1>5
<1>7. a = b
  BY <1>3, <1>4, <1>6, SeqEqual
<1>. QED BY <1>7 DEF a, b, f

\* A block that holds a sequence.
LEMMA BlockOf ==
  ASSUME NEW size \in Nat \ {0}, NEW src \in Seq(Nat), NEW n \in Nat, n <= Len(src), n < size,
         NEW b, b = Copy(Block(size), 1, src, 1, n)
  PROVE  b \in Cells(size - 1) /\ SubSeq(b, 1, n) = SubSeq(src, 1, n)
<1>1. Block(size) \in Seq(Nat) /\ Len(Block(size)) = size - 1
  BY BlockTyped
<1>2. 1 + n - 1 <= Len(src) /\ 0 + n <= Len(src) /\ n <= Len(Block(size)) /\ 0 + 1 = 1
      /\ 0 + n = n /\ n \in 0 .. n
  BY <1>1
<1>. DEFINE blk == Block(size)
            o == 1
            z == 0
<1>3. blk \in Seq(Nat) /\ o \in Nat \ {0} /\ o \in Int /\ z \in Nat /\ o + n - 1 <= Len(src)
      /\ z + n <= Len(src) /\ n <= Len(blk)
  BY <1>1, <1>2
<1>4. b = Copy(blk, o, src, o, n) /\ z + n = n /\ z + 1 = o
  BY <1>2
<1>. HIDE DEF blk, o, z
<1>5. Copy(blk, o, src, o, n) \in Seq(Nat) /\ Len(Copy(blk, o, src, o, n)) = Len(blk)
  BY ONLY <1>3, n \in Nat, src \in Seq(Nat), CopyTyped
<1>6. SubSeq(Copy(blk, 1, src, z + 1, n), 1, n) = SubSeq(src, z + 1, z + n)
  <2>1. n \in 0 .. n
    BY <1>2
  <2>2. \A m \in 0 .. n : SubSeq(Copy(blk, 1, src, z + 1, n), 1, m) = SubSeq(src, z + 1, z + m)
    BY ONLY <1>3, n \in Nat, src \in Seq(Nat), CopyStart
  <2>. QED BY <2>1, <2>2
<1>. QED BY <1>1, <1>4, <1>5, <1>6 DEF Cells, o, blk

\* remove_debounce moves the debounce region to a block of its own.
LEMMA RemoveDebounceKeeps ==
  ASSUME NEW p, Shape(p), p.offset = p.block_size, NEW r, r = RemoveDebounce(p)
  PROVE  /\ Shape(r) /\ Contents(r) = Contents(p)
         /\ r.debounce = <<>> /\ r.ptrs # <<>> /\ r.offset < r.block_size
         /\ r.block_size = p.block_size /\ r.allocator = p.allocator /\ r.depth = p.depth
<1>. DEFINE n == Len(p.debounce)
            bs == p.block_size
            b == Copy(Block(bs), 1, p.debounce, 1, n)
<1>1. /\ n \in Nat /\ bs \in Nat /\ bs - 1 \in Nat /\ n <= bs - 2 /\ bs >= 3
      /\ p.debounce \in Seq(Nat) /\ p.ptrs \in Seq(Seq(Nat)) /\ p.ptrs \in Seq(Cells(bs - 1))
      /\ p.depth \in Nat /\ p.allocator \in Allocators
      /\ p.ptrs # <<>> => Len(p.ptrs[1]) = bs - 1
  BY Sizes
<1>. HIDE DEF n, bs
<1>2. b \in Cells(bs - 1) /\ SubSeq(b, 1, n) = p.debounce
  <2>1. n <= Len(p.debounce) /\ n < bs /\ bs \in Nat \ {0}
    BY <1>1 DEF n
  <2>2. b \in Cells(bs - 1) /\ SubSeq(b, 1, n) = SubSeq(p.debounce, 1, n)
    BY <1>1, <2>1, BlockOf
  <2>3. SubSeq(p.debounce, 1, n) = p.debounce
    BY <1>1, SubSeqFull DEF n
  <2>. QED BY <2>2, <2>3
<1>3. b \in Seq(Nat) /\ Len(b) = bs - 1
  BY <1>2 DEF Cells
<1>. HIDE DEF b
<1>5. r = [p EXCEPT !.ptrs = <<b>> \o p.ptrs, !.offset = n + 1, !.debounce = <<>>]
  BY DEF RemoveDebounce, b, n, bs
<1>7. <<b>> \o p.ptrs \in Seq(Cells(bs - 1)) /\ <<b>> \o p.ptrs # <<>>
  <2>1. <<b>> \in Seq(Cells(bs - 1)) /\ Len(<<b>>) = 1 /\ Len(p.ptrs) \in Nat
    BY <1>1, <1>2
  <2>2. Len(<<b>> \o p.ptrs) = 1 + Len(p.ptrs)
    BY <1>1, <2>1, ConcatProperties
  <2>3. <<b>> \o p.ptrs # <<>>
    BY <2>1, <2>2
  <2>. QED BY <1>1, <2>1, <2>3, ConcatProperties
<1>8. <<b>> \o p.ptrs \in Seq(Seq(Nat))
  BY <1>7, CellsTyped
<1>9. /\ r.ptrs = <<b>> \o p.ptrs /\ r.offset = n + 1 /\ r.debounce = <<>>
      /\ r.block_size = bs /\ r.allocator = p.allocator /\ r.depth = p.depth
  BY <1>5 DEF Shape, Pool, bs
<1>10. r \in Pool
  <2>1. n + 1 \in Nat /\ <<>> \in Seq(Nat)
    BY <1>1
  <2>. QED BY <1>5, <1>8, <2>1 DEF Shape, Pool
<1>11. Shape(r)
  <2>1. r.offset \in 1 .. r.block_size
    BY <1>1, <1>9
  <2>2. Len(r.debounce) <= Debounce
    BY <1>9, MemoryPoolAssumption
  <2>. QED BY <1>7, <1>9, <1>10, <2>1, <2>2 DEF Shape, bs
<1>12. Contents(r) = Contents(p)
  <2>1. Contents(r) = Stacked(r.ptrs, r.offset - 1)
    BY <1>9, <1>11, ContentsTyped
  <2>2. r.offset - 1 = n
    BY <1>1, <1>9
  <2>3. Stacked(<<b>> \o p.ptrs, n) = Whole(p.ptrs) \o SubSeq(b, 1, n)
    BY <1>1, <1>3, StackedCons
  <2>4. Stacked(p.ptrs, bs - 1) = Whole(p.ptrs)
    BY <1>1, StackedFull
  <2>5. Contents(p) = Stacked(p.ptrs, bs - 1) \o p.debounce
    BY DEF Contents, bs
  <2>. QED BY <1>2, <1>9, <2>1, <2>2, <2>3, <2>4, <2>5
<1>13. r.offset < r.block_size
  BY <1>1, <1>9
<1>. QED BY <1>7, <1>9, <1>11, <1>12, <1>13 DEF bs

LEMMA FlatKeeps ==
  ASSUME NEW p, Shape(p), NEW r, r = Flat(p)
  PROVE  /\ Shape(r) /\ Contents(r) = Contents(p) /\ r.debounce = <<>>
         /\ r.block_size = p.block_size /\ r.allocator = p.allocator /\ r.depth = p.depth
         /\ PoolOK(p) => PoolOK(r)
<1>1. CASE p.debounce = <<>>
  BY <1>1 DEF Flat
<1>2. CASE p.debounce # <<>>
  <2>1. p.offset = p.block_size /\ r = RemoveDebounce(p)
    BY <1>2 DEF Flat, Shape
  <2>. QED BY <2>1, RemoveDebounceKeeps DEF PoolOK
<1>. QED BY <1>1, <1>2

\* Cells that are copied behind the first k of a block follow them.
LEMMA CopyBehind ==
  ASSUME NEW dst \in Seq(Nat), NEW src \in Seq(Nat), NEW o \in Nat, o >= 1, NEW n \in Nat,
         n <= Len(src), (o - 1) + n <= Len(dst)
  PROVE  /\ Copy(dst, o, src, 1, n) \in Seq(Nat) /\ Len(Copy(dst, o, src, 1, n)) = Len(dst)
         /\ \A m \in 0 .. n : SubSeq(Copy(dst, o, src, 1, n), 1, (o - 1) + m) =
                                SubSeq(dst, 1, o - 1) \o SubSeq(src, 1, m)
<1>. DEFINE f == Copy(dst, o, src, 1, n)
            k == Len(dst)
            first == 1
<1>1. k \in Nat /\ Len(src) \in Nat /\ o \in Int /\ first + n - 1 <= Len(src) /\ first \in Nat \ {0}
      /\ o - 1 \in Nat
  OBVIOUS
<1>2. f \in Seq(Nat) /\ Len(f) = k
      /\ \A c \in 1 .. k : f[c] = IF c \in o .. o + n - 1 THEN src[first + c - o] ELSE dst[c]
  <2>. HIDE DEF first
  <2>1. /\ Copy(dst, o, src, first, n) \in Seq(Nat) /\ Len(Copy(dst, o, src, first, n)) = Len(dst)
        /\ \A c \in 1 .. Len(dst) : Copy(dst, o, src, first, n)[c] =
                IF c \in o .. o + n - 1 THEN src[first + c - o] ELSE dst[c]
    BY <1>1, CopyTyped
  <2>. QED BY <2>1 DEF first
<1>. HIDE DEF f
<1>3. ASSUME NEW m \in 0 .. n
      PROVE  SubSeq(f, 1, (o - 1) + m) = SubSeq(dst, 1, o - 1) \o SubSeq(src, 1, m)
  <2>. DEFINE a == SubSeq(f, 1, (o - 1) + m)
              b == SubSeq(dst, 1, o - 1)
              c == SubSeq(src, 1, m)
              t == b \o c
              h == (o - 1) + m
  <2>0. o - 1 \in 0 .. Len(dst) /\ m \in 0 .. Len(src) /\ h \in 0 .. Len(dst) /\ h \in Nat /\ m \in Nat
    BY <1>1
  <2>1. a \in Seq(Nat) /\ Len(a) = h /\ \A i \in 1 .. h : a[i] = f[i]
    <3>. HIDE DEF h
    <3>1. SubSeq(f, 1, h) \in Seq(Nat) /\ Len(SubSeq(f, 1, h)) = h
          /\ \A i \in 1 .. h : SubSeq(f, 1, h)[i] = f[i]
      BY <1>2, <2>0, SubSeqStart
    <3>. QED BY <3>1 DEF h
  <2>2. b \in Seq(Nat) /\ Len(b) = o - 1 /\ \A i \in 1 .. o - 1 : b[i] = dst[i]
    BY <2>0, SubSeqStart
  <2>3. c \in Seq(Nat) /\ Len(c) = m /\ \A i \in 1 .. m : c[i] = src[i]
    BY <2>0, SubSeqStart
  <2>. HIDE DEF a, b, c
  <2>4. t \in Seq(Nat) /\ Len(t) = h
        /\ \A i \in 1 .. h : t[i] = IF i <= o - 1 THEN b[i] ELSE c[i - (o - 1)]
    <3>1. /\ t \in Seq(Nat) /\ Len(t) = Len(b) + Len(c)
          /\ \A i \in 1 .. Len(b) + Len(c) : t[i] = IF i <= Len(b) THEN b[i] ELSE c[i - Len(b)]
      <4>1. b \in Seq(Nat) /\ c \in Seq(Nat)
        BY <2>2, <2>3
      <4>. QED BY ONLY <4>1, ConcatProperties
    <3>. QED BY <2>2, <2>3, <3>1
  <2>. HIDE DEF t
  <2>5. ASSUME NEW i \in 1 .. h PROVE a[i] = t[i]
    <3>1. i \in 1 .. k /\ i \in Nat
      BY <1>1, <2>0
    <3>2. CASE i <= o - 1
      <4>1. i \in 1 .. o - 1 /\ i \notin o .. o + n - 1
        BY <1>1, <3>1, <3>2
      <4>. QED BY <1>2, <2>1, <2>2, <2>4, <3>1, <3>2, <4>1
    <3>3. CASE ~(i <= o - 1)
      <4>1. PICK j \in 1 .. m : j = i - (o - 1) /\ first + i - o = j
        <5>1. i - (o - 1) \in 1 .. m /\ first + i - o = i - (o - 1)
          BY <1>1, <2>0, <3>1, <3>3
        <5>. QED BY <5>1
      <4>2. i \in o .. o + n - 1
        BY <1>1, <2>0, <3>1, <3>3
      <4>. HIDE DEF first
      <4>3. f[i] = src[j]
        BY <1>2, <3>1, <4>1, <4>2
      <4>4. t[i] = c[j]
        BY <2>4, <3>3, <4>1
      <4>. QED BY <2>1, <2>3, <4>1, <4>3, <4>4
    <3>. QED BY <3>2, <3>3
  <2>6. Len(a) = Len(t) /\ \A i \in 1 .. Len(a) : a[i] = t[i]
    BY <2>1, <2>4, <2>5
  <2>7. a = t
    BY <2>1, <2>4, <2>6, SeqEqual
  <2>. QED BY <2>7 DEF a, b, c, t
<1>. QED BY <1>2, <1>3 DEF f

\* The first block is filled from cell o on.
Filled(l, o, src, n) == [l EXCEPT ![1] = Copy(l[1], o, src, 1, n)]

LEMMA FillStacks ==
  ASSUME NEW cells \in Nat, NEW l \in Seq(Cells(cells)), l # <<>>, NEW o \in Nat, o >= 1,
         NEW src \in Seq(Nat), NEW n \in Nat, n <= Len(src), (o - 1) + n <= cells
  PROVE  /\ Filled(l, o, src, n) \in Seq(Cells(cells)) /\ Filled(l, o, src, n) # <<>>
         /\ \A m \in 0 .. n : Stacked(Filled(l, o, src, n), (o - 1) + m) =
                                Stacked(l, o - 1) \o SubSeq(src, 1, m)
<1>. DEFINE r == Filled(l, o, src, n)
            e == Copy(l[1], o, src, 1, n)
            t == Tail(l)
            b == l[1]
<1>1. b \in Cells(cells) /\ t \in Seq(Cells(cells)) /\ l \in Seq(Seq(Nat))
  BY CellsTyped
<1>2. b \in Seq(Nat) /\ Len(b) = cells /\ t \in Seq(Seq(Nat))
  BY <1>1, CellsTyped DEF Cells
<1>. HIDE DEF b
<1>3. (o - 1) + n <= Len(b)
  BY <1>2
<1>4. /\ Copy(b, o, src, 1, n) \in Seq(Nat) /\ Len(Copy(b, o, src, 1, n)) = Len(b)
      /\ \A m \in 0 .. n : SubSeq(Copy(b, o, src, 1, n), 1, (o - 1) + m) =
                             SubSeq(b, 1, o - 1) \o SubSeq(src, 1, m)
  <2>1. b \in Seq(Nat)
    BY <1>2
  <2>. QED BY <1>3, <2>1, CopyBehind
<1>. HIDE DEF e
<1>5. e = Copy(b, o, src, 1, n) /\ e \in Cells(cells)
  BY <1>2, <1>4 DEF e, b, Cells
<1>6. r = <<e>> \o t
  BY <1>5, ReplaceFirst DEF e, Filled
<1>. HIDE DEF t, r
<1>7. r \in Seq(Cells(cells)) /\ r # <<>>
  <2>1. <<e>> \in Seq(Cells(cells)) /\ Len(<<e>>) = 1 /\ Len(t) \in Nat
    BY <1>1, <1>5
  <2>2. r \in Seq(Cells(cells)) /\ Len(r) = 1 + Len(t)
    BY <1>1, <1>6, <2>1, ConcatProperties
  <2>. QED BY <2>1, <2>2
<1>8. ASSUME NEW m \in 0 .. n
      PROVE  Stacked(r, (o - 1) + m) = Stacked(l, o - 1) \o SubSeq(src, 1, m)
  <2>1. e \in Seq(Nat)
    BY <1>4, <1>5
  <2>2. Stacked(r, (o - 1) + m) = Whole(t) \o SubSeq(e, 1, (o - 1) + m)
    <3>1. Stacked(<<e>> \o t, (o - 1) + m) = Whole(t) \o SubSeq(e, 1, (o - 1) + m)
      <4>1. t \in Seq(Seq(Nat)) /\ e \in Seq(Nat)
        BY <1>2, <2>1
      <4>. QED BY ONLY <4>1, StackedCons
    <3>. QED BY <1>6, <3>1
  <2>3. SubSeq(e, 1, (o - 1) + m) = SubSeq(b, 1, o - 1) \o SubSeq(src, 1, m)
    BY <1>4, <1>5
  <2>4. Stacked(l, o - 1) = Whole(t) \o SubSeq(b, 1, o - 1)
        /\ Whole(t) \in Seq(Nat) /\ SubSeq(b, 1, o - 1) \in Seq(Nat)
    <3>1. o - 1 \in 0 .. Len(l[1])
      BY <1>2 DEF b
    <3>. QED BY <1>1, <3>1, StackedFirst DEF b, t
  <2>5. SubSeq(src, 1, m) \in Seq(Nat)
    <3>1. m \in 0 .. Len(src)
      OBVIOUS
    <3>. QED BY <3>1, SubSeqStart
  <2>. DEFINE w == Whole(t)
              c == SubSeq(b, 1, o - 1)
              d == SubSeq(src, 1, m)
  <2>. HIDE DEF w, c, d
  <2>6. (w \o c) \o d = w \o (c \o d)
    <3>1. w \in Seq(Nat) /\ c \in Seq(Nat) /\ d \in Seq(Nat)
      BY <2>4, <2>5 DEF w, c, d
    <3>. QED BY <3>1, ConcatAssociative
  <2>. QED BY <2>2, <2>3, <2>4, <2>6 DEF w, c, d
<1>. QED BY <1>7, <1>8 DEF r

\* neo4j_mpool_add puts a pointer on top.
LEMMA PutAdds ==
  ASSUME NEW p, Shape(p), p.debounce = <<>>, p.ptrs # <<>>, p.offset < p.block_size,
         NEW x \in Nat, NEW r, r = Put(p, x)
  PROVE  Shape(r) /\ Contents(r) = Append(Contents(p), x) /\ r.depth = p.depth + 1
<1>. DEFINE b == p.ptrs[1]
            o == p.offset
            size == p.block_size
            e == [b EXCEPT ![o] = x]
            l == [p.ptrs EXCEPT ![1] = e]
<1>1. /\ o \in Nat /\ o >= 1 /\ size \in Nat /\ size - 1 \in Nat /\ o <= size - 1
      /\ b \in Seq(Nat) /\ Len(b) = size - 1 /\ p.ptrs \in Seq(Cells(size - 1))
      /\ p.depth \in Nat /\ p.allocator \in Allocators
  <2>1. /\ p.offset \in Nat /\ p.offset >= 1 /\ p.block_size \in Nat /\ p.block_size - 1 \in Nat
        /\ p.ptrs[1] \in Seq(Nat) /\ Len(p.ptrs[1]) = p.block_size - 1
        /\ p.ptrs \in Seq(Cells(p.block_size - 1))
        /\ p.depth \in Nat /\ p.allocator \in Allocators
    BY Sizes
  <2>2. p.offset <= p.block_size - 1
    BY <2>1
  <2>. QED BY <2>1, <2>2
<1>2. e = Copy(b, o, <<x>>, 1, 1)
  <2>1. DOMAIN b = 1 .. size - 1
    BY <1>1
  <2>2. e = [c \in DOMAIN b |-> IF c = o THEN x ELSE b[c]]
    OBVIOUS
  <2>3. ASSUME NEW c \in DOMAIN b
        PROVE  (IF c = o THEN x ELSE b[c]) = IF c \in o .. o + 1 - 1 THEN <<x>>[1 + c - o] ELSE b[c]
    <3>1. c \in Int /\ o \in Int
      BY <1>1, <2>1
    <3>. HIDE DEF b, o
    <3>2. CASE c = o
      <4>1. 1 + c - o = 1 /\ c \in o .. o + 1 - 1
        BY <3>1, <3>2
      <4>2. <<x>>[1] = x
        OBVIOUS
      <4>. QED BY <3>2, <4>1, <4>2
    <3>3. CASE c # o
      <4>1. c \notin o .. o + 1 - 1
        BY <3>1, <3>3
      <4>. QED BY <3>3, <4>1
    <3>. QED BY <3>2, <3>3
  <2>. HIDE DEF b, o, e
  <2>. QED BY <2>2, <2>3 DEF Copy
<1>. HIDE DEF e
<1>3. l = [p.ptrs EXCEPT ![1] = Copy(p.ptrs[1], o, <<x>>, 1, 1)]
  BY <1>2
<1>4. r = [p EXCEPT !.ptrs = l, !.offset = o + 1, !.depth = p.depth + 1]
  BY DEF Put, e
<1>. HIDE DEF l
<1>5. /\ l \in Seq(Cells(size - 1)) /\ l # <<>>
      /\ Stacked(l, o) = Append(Stacked(p.ptrs, o - 1), x)
  <2>. DEFINE s == <<x>>
              cells == size - 1
              n == 1
  <2>1. s \in Seq(Nat) /\ n <= Len(s) /\ n \in Nat /\ SubSeq(s, 1, n) = <<x>> /\ cells \in Nat
        /\ (o - 1) + n = o
    <3>1. s \in Seq(Nat) /\ Len(s) = 1
      OBVIOUS
    <3>2. SubSeq(s, 1, 1) = s
      BY <3>1, SubSeqFull
    <3>. QED BY <1>1, <3>1, <3>2
  <2>2. (o - 1) + n <= cells
    BY <1>1
  <2>3. l = [p.ptrs EXCEPT ![1] = Copy(p.ptrs[1], o, s, 1, n)]
    BY <1>3
  <2>4. p.ptrs \in Seq(Cells(cells))
    BY <1>1
  <2>. HIDE DEF s, n, cells, o
  <2>5. /\ l \in Seq(Cells(cells)) /\ l # <<>>
        /\ \A m \in 0 .. n : Stacked(l, (o - 1) + m) = Stacked(p.ptrs, o - 1) \o SubSeq(s, 1, m)
    <3>1. s \in Seq(Nat) /\ n <= Len(s) /\ n \in Nat /\ cells \in Nat /\ o \in Nat /\ o >= 1
      BY <1>1, <2>1
    <3>. DEFINE k == Filled(p.ptrs, o, s, n)
    <3>2. /\ k \in Seq(Cells(cells)) /\ k # <<>>
          /\ \A m \in 0 .. n : Stacked(k, (o - 1) + m) = Stacked(p.ptrs, o - 1) \o SubSeq(s, 1, m)
      <4>1. p.ptrs # <<>>
        OBVIOUS
      <4>. QED BY ONLY <2>2, <2>4, <3>1, <4>1, FillStacks
    <3>. QED BY <2>3, <3>2 DEF Filled
  <2>6. Stacked(l, o) = Stacked(p.ptrs, o - 1) \o <<x>>
    <3>1. n \in 0 .. n
      BY <2>1
    <3>. QED BY <2>1, <2>5, <3>1
  <2>7. Stacked(p.ptrs, o - 1) \in Seq(Nat)
    BY ContentsTyped DEF o
  <2>. QED BY <2>5, <2>6, <2>7, AppendIsConcat DEF cells
<1>6. /\ r.ptrs = l /\ r.offset = o + 1 /\ r.debounce = <<>> /\ r.block_size = size
      /\ r.allocator = p.allocator /\ r.depth = p.depth + 1
  BY <1>4 DEF Shape, Pool
<1>7. Shape(r)
  <2>1. l \in Seq(Seq(Nat))
    BY <1>5, CellsTyped
  <2>2. o + 1 \in Nat /\ o + 1 \in 1 .. size /\ p.depth + 1 \in Nat
    BY <1>1
  <2>3. r \in Pool
    BY <1>4, <2>1, <2>2 DEF Shape, Pool
  <2>4. Len(r.debounce) <= Debounce /\ r.block_size >= Debounce + 2
    BY <1>6 DEF Shape
  <2>. QED BY <1>5, <1>6, <2>2, <2>3, <2>4 DEF Shape
<1>8. Contents(r) = Stacked(l, o) /\ Contents(p) = Stacked(p.ptrs, o - 1)
  <2>1. Contents(r) = Stacked(r.ptrs, r.offset - 1) /\ Contents(p) = Stacked(p.ptrs, p.offset - 1)
    BY <1>6, <1>7, ContentsTyped
  <2>2. r.offset - 1 = o
    BY <1>1, <1>6
  <2>. QED BY <1>6, <2>1, <2>2
<1>. QED BY <1>5, <1>6, <1>7, <1>8

\* It does so in the debounce region when the last block is full.
LEMMA DebounceAdds ==
  ASSUME NEW p, Shape(p), p.offset >= p.block_size, Len(p.debounce) # Debounce,
         NEW x \in Nat, NEW r, r = [p EXCEPT !.debounce = Append(p.debounce, x), !.depth = p.depth + 1]
  PROVE  Shape(r) /\ Contents(r) = Append(Contents(p), x) /\ r.depth = p.depth + 1
<1>1. /\ p.debounce \in Seq(Nat) /\ Len(p.debounce) \in Nat /\ Debounce \in Nat /\ p.depth \in Nat
      /\ p.offset \in Nat /\ p.block_size \in Nat /\ p.offset <= p.block_size
  BY Sizes
<1>2. p.offset = p.block_size
  BY <1>1
<1>3. Append(p.debounce, x) \in Seq(Nat) /\ Len(Append(p.debounce, x)) = Len(p.debounce) + 1
  BY <1>1, AppendProperties
<1>4. Len(p.debounce) + 1 <= Debounce /\ p.depth + 1 \in Nat
  BY <1>1 DEF Shape
<1>5. r \in Pool
  BY <1>3, <1>4 DEF Shape, Pool
<1>6. /\ r.ptrs = p.ptrs /\ r.offset = p.offset /\ r.debounce = Append(p.debounce, x)
      /\ r.block_size = p.block_size /\ r.depth = p.depth + 1
  BY DEF Shape, Pool
<1>7. Shape(r)
  BY <1>2, <1>3, <1>4, <1>5, <1>6 DEF Shape
<1>8. Contents(r) = Append(Contents(p), x)
  <2>. DEFINE s == Stacked(p.ptrs, p.offset - 1)
  <2>1. Contents(r) = s \o Append(p.debounce, x) /\ Contents(p) = s \o p.debounce
    BY <1>6 DEF Contents
  <2>2. s \in Seq(Nat)
    BY ContentsTyped
  <2>. HIDE DEF s
  <2>3. <<x>> \in Seq(Nat) /\ s \o p.debounce \in Seq(Nat)
    BY <1>1, <2>2, ConcatProperties
  <2>4. Append(p.debounce, x) = p.debounce \o <<x>>
    BY <1>1, AppendIsConcat
  <2>5. Append(s \o p.debounce, x) = (s \o p.debounce) \o <<x>>
    BY <2>3, AppendIsConcat
  <2>. DEFINE d == p.debounce
              y == <<x>>
  <2>. HIDE DEF d, y
  <2>6. (s \o d) \o y = s \o (d \o y)
    <3>1. s \in Seq(Nat) /\ d \in Seq(Nat) /\ y \in Seq(Nat)
      BY <1>1, <2>2, <2>3 DEF d, y
    <3>. QED BY ONLY <3>1, ConcatAssociative
  <2>. QED BY <2>1, <2>4, <2>5, <2>6 DEF d, y
<1>. QED BY <1>6, <1>7, <1>8

-----------------------------------------------------------------------------
(* Merging: the blocks of the second pool are copied on top of the first.   *)
LEMMA JoinedInOrder ==
  ASSUME NEW a \in Seq(Nat), NEW b \in Seq(Nat), NEW c \in Seq(Nat)
  PROVE  (a \o b) \o c = a \o (b \o c)
  BY ConcatAssociative

LEMMA SplitAt ==
  ASSUME NEW S, NEW s \in Seq(S), NEW m \in Nat, NEW n \in Nat, m + n <= Len(s)
  PROVE  /\ SubSeq(s, 1, m) \o SubSeq(s, m + 1, m + n) = SubSeq(s, 1, m + n)
         /\ SubSeq(s, 1, m) \in Seq(S) /\ SubSeq(s, m + 1, m + n) \in Seq(S)
         /\ SubSeq(s, 1, m + n) \in Seq(S)
<1>. DEFINE k == m + n
<1>1. Len(s) \in Nat
  OBVIOUS
<1>2. 1 \in 1 .. Len(s) + 1 /\ m \in 1 - 1 .. Len(s) /\ k \in m .. Len(s) /\ m \in 0 .. Len(s)
      /\ k \in 0 .. Len(s)
  BY <1>1
<1>3. SubSeq(s, 1, m) \in Seq(S) /\ SubSeq(s, m + 1, m + n) \in Seq(S)
  BY <1>2, SubSeqStart, SubSeqPart
<1>. HIDE DEF k
<1>4. SubSeq(s, 1, m) \o SubSeq(s, m + 1, k) = SubSeq(s, 1, k) /\ SubSeq(s, 1, k) \in Seq(S)
  BY <1>2, ConcatAdjacentSubSeq, SubSeqStart
<1>. QED BY <1>3, <1>4 DEF k

LEMMA FlattenPrefix ==
  ASSUME NEW S, NEW u \in Seq(Seq(S)), NEW k \in Nat, k + 1 <= Len(u)
  PROVE  /\ FlattenSeq(SubSeq(u, 1, k + 1)) = FlattenSeq(SubSeq(u, 1, k)) \o u[k + 1]
         /\ FlattenSeq(SubSeq(u, 1, k)) \in Seq(S) /\ u[k + 1] \in Seq(S)
<1>. DEFINE n == k + 1
<1>1. Len(u) \in Nat
  OBVIOUS
<1>2. 1 \in 1 .. Len(u) /\ n \in 1 .. Len(u) /\ n - 1 = k /\ k \in 0 .. Len(u)
  BY <1>1
<1>. HIDE DEF n
<1>3. SubSeq(u, 1, n) = SubSeq(u, 1, n - 1) \o <<u[n]>>
  BY <1>2, SubSeqRecursiveSecond
<1>4. SubSeq(u, 1, k) \in Seq(Seq(S)) /\ u[n] \in Seq(S)
  BY <1>2, SubSeqStart, ElementOfSeq
<1>5. SubSeq(u, 1, n) = Append(SubSeq(u, 1, k), u[n])
  BY <1>2, <1>3, <1>4, AppendIsConcat
<1>6. FlattenSeq(SubSeq(u, 1, n)) = FlattenSeq(SubSeq(u, 1, k)) \o u[n]
  BY <1>4, <1>5, FlattenAppend
<1>7. FlattenSeq(SubSeq(u, 1, k)) \in Seq(S)
  BY <1>4, FlattenTyped
<1>. QED BY <1>4, <1>6, <1>7 DEF n

\* What is shifted into two blocks follows what was there.
LEMMA ShiftStacks ==
  ASSUME NEW p, Shape(p), p.offset < p.block_size,
         NEW ptrs \in Seq(Cells(p.block_size - 1)), ptrs # <<>>,
         NEW block \in Cells(p.block_size - 1), NEW n \in 0 .. p.offset - 1
  PROVE  /\ ShiftInto(p, ptrs, block, n) \in Seq(Cells(p.block_size - 1))
         /\ ShiftInto(p, ptrs, block, n) # <<>>
         /\ Stacked(ShiftInto(p, ptrs, block, n), n) =
              Stacked(ptrs, p.offset - 1) \o SubSeq(block, 1, (p.block_size - p.offset) + n)
<1>. DEFINE o == p.offset
            cells == p.block_size - 1
            space == p.block_size - p.offset
            g == Filled(ptrs, o, block, space)
            e == Copy(block, 1, block, space + 1, n)
            base == Stacked(ptrs, o - 1)
<1>1. /\ o \in Nat /\ o >= 1 /\ cells \in Nat /\ space \in Nat /\ n \in Nat /\ space + n <= cells
      /\ n <= cells /\ (o - 1) + space = cells /\ space <= cells /\ o - 1 \in 0 .. cells
      /\ (o - 1) + space <= cells
  <2>1. /\ p.offset \in Nat /\ p.offset >= 1 /\ p.block_size \in Nat
    BY Sizes
  <2>. QED BY <2>1
<1>2. block \in Seq(Nat) /\ Len(block) = cells
  BY DEF Cells
<1>3. ShiftInto(p, ptrs, block, n) = <<e>> \o g
  BY DEF ShiftInto, Fill, Filled
<1>4. ptrs \in Seq(Cells(cells)) /\ ptrs \in Seq(Seq(Nat)) /\ ptrs # <<>> /\ Len(ptrs[1]) = cells
  <2>1. ptrs \in Seq(Cells(cells))
    OBVIOUS
  <2>. QED BY <2>1, CellsTyped DEF Cells
<1>. HIDE DEF o, cells, space, g, e
<1>5. /\ g \in Seq(Cells(cells)) /\ g # <<>>
      /\ \A m \in 0 .. space : Stacked(g, (o - 1) + m) = base \o SubSeq(block, 1, m)
  <2>1. space <= Len(block)
    BY <1>1, <1>2
  <2>. QED BY <1>1, <1>2, <1>4, <2>1, FillStacks DEF g
<1>6. Stacked(g, cells) = base \o SubSeq(block, 1, space)
  <2>1. space \in 0 .. space
    BY <1>1
  <2>2. Stacked(g, (o - 1) + space) = base \o SubSeq(block, 1, space)
    BY <1>5, <2>1
  <2>. QED BY <1>1, <2>2
<1>7. Whole(g) = Stacked(g, cells) /\ g \in Seq(Seq(Nat))
  <2>1. g \in Seq(Seq(Nat)) /\ Len(g[1]) = cells
    BY <1>5, CellsTyped DEF Cells
  <2>. QED BY <2>1, StackedFull
<1>8. e \in Seq(Nat) /\ e \in Cells(cells) /\ SubSeq(e, 1, n) = SubSeq(block, space + 1, space + n)
  <2>. DEFINE z == 1
              s == space + 1
  <2>1. z \in Int /\ s \in Nat \ {0} /\ s + n - 1 <= Len(block) /\ space + n <= Len(block)
        /\ n <= Len(block)
    BY <1>1, <1>2
  <2>2. Copy(block, z, block, s, n) \in Seq(Nat) /\ Len(Copy(block, z, block, s, n)) = Len(block)
    <3>. HIDE DEF z, s
    <3>1. block \in Seq(Nat) /\ n \in Nat
      BY <1>1, <1>2
    <3>. QED BY ONLY <2>1, <3>1, CopyTyped
  <2>3. \A m \in 0 .. n : SubSeq(Copy(block, 1, block, space + 1, n), 1, m) = SubSeq(block, space + 1, space + m)
    <3>1. block \in Seq(Nat) /\ n \in Nat /\ space \in Nat /\ space + n <= Len(block) /\ n <= Len(block)
      BY <1>1, <1>2, <2>1
    <3>. QED BY ONLY <3>1, CopyStart
  <2>4. n \in 0 .. n
    BY <1>1
  <2>. QED BY <1>2, <2>2, <2>3, <2>4 DEF e, Cells
<1>9. <<e>> \o g \in Seq(Cells(cells)) /\ <<e>> \o g # <<>>
  <2>1. <<e>> \in Seq(Cells(cells)) /\ Len(<<e>>) = 1 /\ Len(g) \in Nat
    BY <1>5, <1>8
  <2>2. <<e>> \o g \in Seq(Cells(cells)) /\ Len(<<e>> \o g) = Len(<<e>>) + Len(g)
    BY <1>5, <2>1, ConcatProperties
  <2>3. Len(<<e>> \o g) = 1 + Len(g)
    BY <2>1, <2>2
  <2>4. <<e>> \o g # <<>>
    BY <2>1, <2>3
  <2>. QED BY <2>2, <2>4
<1>10. Stacked(<<e>> \o g, n) = base \o SubSeq(block, 1, space + n)
  <2>. DEFINE x == SubSeq(block, 1, space)
              y == SubSeq(block, space + 1, space + n)
  <2>1. Stacked(<<e>> \o g, n) = Whole(g) \o SubSeq(e, 1, n)
    BY <1>7, <1>8, StackedCons
  <2>2. x \o y = SubSeq(block, 1, space + n) /\ x \in Seq(Nat) /\ y \in Seq(Nat)
    <3>1. block \in Seq(Nat) /\ n \in Nat /\ space \in Nat /\ space + n <= Len(block)
      BY <1>1, <1>2
    <3>. QED BY <3>1, SplitAt
  <2>3. base \in Seq(Nat)
    <3>1. o - 1 \in 0 .. Len(ptrs[1])
      BY <1>1, <1>4
    <3>. QED BY <1>4, <3>1, StackedFirst
  <2>. HIDE DEF x, y, base
  <2>4. (base \o x) \o y = base \o (x \o y)
    <3>1. base \in Seq(Nat) /\ x \in Seq(Nat) /\ y \in Seq(Nat)
      BY <2>2, <2>3
    <3>. QED BY <3>1, ConcatAssociative
  <2>. QED BY <1>6, <1>7, <1>8, <2>1, <2>2, <2>4 DEF x, y
<1>. QED BY <1>3, <1>9, <1>10 DEF cells, space, o

\* merge_pools' loop.
LEMMA ShiftLoop ==
  ASSUME NEW p, Shape(p), p.ptrs # <<>>, p.offset < p.block_size,
         NEW u \in Seq(Cells(p.block_size - 1)), NEW f,
         \A k \in 0 .. Len(u) :
             f[k] = IF k = 0 THEN p.ptrs ELSE ShiftInto(p, f[k - 1], u[k], p.offset - 1)
  PROVE  \A k \in 0 .. Len(u) :
             /\ f[k] \in Seq(Cells(p.block_size - 1)) /\ f[k] # <<>>
             /\ Stacked(f[k], p.offset - 1) =
                  Stacked(p.ptrs, p.offset - 1) \o FlattenSeq(SubSeq(u, 1, k))
<1>. DEFINE c == Stacked(p.ptrs, p.offset - 1)
            bs == p.block_size
            Holds(k) == /\ f[k] \in Seq(Cells(bs - 1)) /\ f[k] # <<>>
                        /\ Stacked(f[k], p.offset - 1) = c \o FlattenSeq(SubSeq(u, 1, k))
            P == {k \in Nat : k <= Len(u) => Holds(k)}
<1>0. /\ Len(u) \in Nat /\ u \in Seq(Seq(Nat)) /\ c \in Seq(Nat) /\ p.ptrs \in Seq(Cells(bs - 1))
      /\ \A k \in DOMAIN u : Len(u[k]) = bs - 1
  BY CellsTyped, ContentsTyped, Sizes
<1>a. /\ p.offset \in Nat /\ bs \in Nat /\ p.offset >= 1 /\ p.offset - 1 \in 0 .. p.offset - 1
      /\ (bs - p.offset) + (p.offset - 1) = bs - 1
  <2>1. p.offset \in Nat /\ p.block_size \in Nat /\ p.offset >= 1
    BY Sizes
  <2>. QED BY <2>1
<1>1. 0 \in P
  <2>1. 0 \in 0 .. Len(u)
    BY <1>0
  <2>2. f[0] = p.ptrs
    BY <2>1
  <2>3. SubSeq(u, 1, 0) = <<>> /\ FlattenSeq(<<>>) = <<>>
    BY SubSeqEmpty DEF FlattenSeq
  <2>4. c \o <<>> = c
    BY <1>0, ConcatEmptySeq
  <2>. QED BY <1>0, <2>2, <2>3, <2>4
<1>2. ASSUME NEW k \in Nat, k \in P PROVE k + 1 \in P
  <2>. SUFFICES ASSUME k + 1 <= Len(u) PROVE Holds(k + 1)
    OBVIOUS
  <2>1. k + 1 \in 0 .. Len(u) /\ k + 1 \in 1 .. Len(u) /\ (k + 1) - 1 = k /\ k + 1 # 0 /\ k <= Len(u)
    BY <1>0
  <2>2. Holds(k)
    BY <1>2, <2>1
  <2>. DEFINE block == u[k + 1]
              g == ShiftInto(p, f[k], block, p.offset - 1)
  <2>3. f[k + 1] = g
    BY <2>1
  <2>4. block \in Cells(bs - 1)
    BY <2>1, ElementOfSeq
  <2>. HIDE DEF block
  <2>5. /\ g \in Seq(Cells(bs - 1)) /\ g # <<>>
        /\ Stacked(g, p.offset - 1) =
             Stacked(f[k], p.offset - 1) \o SubSeq(block, 1, (bs - p.offset) + (p.offset - 1))
    BY <1>a, <2>2, <2>4, ShiftStacks
  <2>6. SubSeq(block, 1, (bs - p.offset) + (p.offset - 1)) = block /\ block \in Seq(Nat)
    <3>1. block \in Seq(Nat) /\ Len(block) = bs - 1
      BY <2>4 DEF Cells
    <3>. QED BY <1>a, <3>1, SubSeqFull
  <2>. DEFINE d == FlattenSeq(SubSeq(u, 1, k))
  <2>7. FlattenSeq(SubSeq(u, 1, k + 1)) = d \o block /\ d \in Seq(Nat)
    BY <1>0, FlattenPrefix DEF block
  <2>. HIDE DEF g, d, c
  <2>8. (c \o d) \o block = c \o (d \o block)
    <3>1. c \in Seq(Nat) /\ d \in Seq(Nat) /\ block \in Seq(Nat)
      BY <1>0, <2>6, <2>7
    <3>. QED BY <3>1, ConcatAssociative
  <2>9. Stacked(f[k], p.offset - 1) = c \o d
    BY <2>2 DEF d
  <2>. QED BY <2>3, <2>5, <2>6, <2>7, <2>8, <2>9
<1>. HIDE DEF P
<1>3. Nat \subseteq P
  BY <1>1, <1>2, NaturalsInSet
<1>4. ASSUME NEW k \in 0 .. Len(u) PROVE Holds(k)
  <2>1. k \in Nat /\ k <= Len(u)
    BY <1>0
  <2>2. k \in P
    BY <1>3, <2>1
  <2>. QED BY <2>1, <2>2 DEF P
<1>. QED BY <1>4

\* The function of that loop exists.
Below(p, rev, n, full, f) ==
  f = [k \in 0 .. full |->
         IF k = 0 THEN p.ptrs ELSE ShiftInto(p, f[k - 1], rev[k], n)]

LEMMA BelowExists ==
  ASSUME NEW p, NEW rev, NEW n, NEW full \in Nat
  PROVE  \E f : Below(p, rev, n, full, f)
<1>. DEFINE P == {m \in Nat : \E f : Below(p, rev, n, m, f)}
<1>1. 0 \in P
  <2>. DEFINE f == [k \in 0 .. 0 |-> p.ptrs]
  <2>1. Below(p, rev, n, 0, f)
    BY DEF Below
  <2>. QED BY <2>1
<1>2. ASSUME NEW m \in Nat, m \in P PROVE m + 1 \in P
  <2>1. PICK f : Below(p, rev, n, m, f)
    BY <1>2
  <2>. DEFINE Turn(k, h) == IF k = 0 THEN p.ptrs ELSE ShiftInto(p, h[k - 1], rev[k], n)
              g == [k \in 0 .. m + 1 |-> IF k <= m THEN f[k] ELSE Turn(k, f)]
  <2>2. \A k \in 0 .. m : f[k] = Turn(k, f)
    BY <2>1 DEF Below
  <2>3. \A k \in 0 .. m : g[k] = f[k]
    OBVIOUS
  <2>4. ASSUME NEW k \in 0 .. m + 1 PROVE g[k] = Turn(k, g)
    <3>1. CASE k = 0
      BY <3>1, <2>2
    <3>2. CASE k # 0
      <4>1. k - 1 \in 0 .. m
        BY <3>2
      <4>2. g[k - 1] = f[k - 1] /\ g[k] = Turn(k, f)
        BY <4>1, <2>2, <2>3
      <4>. HIDE DEF g
      <4>. QED BY <3>2, <4>2
    <3>. QED BY <3>1, <3>2
  <2>5. Below(p, rev, n, m + 1, g)
    BY <2>4 DEF Below
  <2>. QED BY <2>5
<1>. HIDE DEF P
<1>3. Nat \subseteq P
  BY <1>1, <1>2, NaturalsInSet
<1>. QED BY <1>3 DEF P

\* The blocks of q, but for its debounce region, on top of those of p.
LEMMA MergedBlocksStack ==
  ASSUME NEW p, Shape(p), p.ptrs # <<>>, p.offset < p.block_size,
         NEW q, Shape(q), q.block_size = p.block_size,
         NEW r, r = MergedBlocks(p, q)
  PROVE  /\ r.ptrs \in Seq(Cells(p.block_size - 1)) /\ r.ptrs # <<>>
         /\ r.offset \in 1 .. p.block_size - 1
         /\ Stacked(r.ptrs, r.offset - 1) =
              Stacked(p.ptrs, p.offset - 1) \o Stacked(q.ptrs, q.offset - 1)
<1>. DEFINE bs == p.block_size
            o == p.offset
            t == q.offset
            space == bs - o
            base == Stacked(p.ptrs, o - 1)
<1>0. /\ o \in Nat /\ o >= 1 /\ bs \in Nat /\ o <= bs - 1 /\ t \in Nat /\ t >= 1 /\ t <= bs
      /\ bs - 1 \in Nat
  <2>1. /\ p.offset \in Nat /\ p.offset >= 1 /\ p.block_size \in Nat /\ q.offset \in Nat
        /\ q.offset >= 1 /\ q.offset <= q.block_size
    BY Sizes
  <2>. QED BY <2>1
<1>1. /\ o \in Nat /\ o >= 1 /\ bs \in Nat /\ o <= bs - 1 /\ t \in Nat /\ t >= 1 /\ t <= bs
      /\ bs - 1 \in Nat /\ p.ptrs \in Seq(Cells(bs - 1)) /\ q.ptrs \in Seq(Cells(bs - 1))
  <2>1. /\ p.ptrs \in Seq(Cells(p.block_size - 1)) /\ q.ptrs \in Seq(Cells(q.block_size - 1))
    BY Sizes
  <2>. QED BY <1>0, <2>1
<1>2. base \in Seq(Nat)
  BY ContentsTyped
<1>3. CASE q.ptrs = <<>>
  <2>1. r.ptrs = p.ptrs /\ r.offset = o
    BY <1>3 DEF MergedBlocks
  <2>2. Stacked(q.ptrs, t - 1) = <<>>
    BY <1>3, StackedEmpty
  <2>3. base \o <<>> = base
    BY <1>2, ConcatEmptySeq
  <2>4. o \in 1 .. bs - 1
    BY <1>1
  <2>. QED BY <1>1, <2>1, <2>2, <2>3, <2>4
<1>4. CASE q.ptrs # <<>>
  <2>. DEFINE rev == Reverse(q.ptrs)
              u == Reverse(Tail(q.ptrs))
              top == q.ptrs[1]
              full == Len(rev) - 1
              n == q.block_size - 1 - space
              d == FlattenSeq(u)
  <2>1. /\ top \in Cells(bs - 1) /\ Tail(q.ptrs) \in Seq(Cells(bs - 1))
        /\ q.ptrs = <<top>> \o Tail(q.ptrs)
    BY <1>1, <1>4, CellsTyped
  <2>2. u \in Seq(Cells(bs - 1)) /\ rev = Append(u, top)
    BY <2>1, ReverseTyped, ReverseCons
  <2>3. /\ Len(u) \in Nat /\ Len(rev) = Len(u) + 1 /\ full = Len(u) /\ rev[full + 1] = top
        /\ \A k \in 1 .. Len(u) : rev[k] = u[k]
    <3>1. /\ Len(u) \in Nat /\ Len(Append(u, top)) = Len(u) + 1 /\ Append(u, top)[Len(u) + 1] = top
          /\ \A k \in 1 .. Len(u) : Append(u, top)[k] = u[k]
      BY <2>1, <2>2, AppendProperties
    <3>. QED BY <2>2, <3>1
  <2>4. n = o - 1
    BY <1>1
  <2>5. \E f : Below(p, rev, n, full, f)
    BY <2>3, BelowExists
  <2>6. PICK f : /\ Below(p, rev, n, full, f)
                 /\ Shifted(p, q, rev) =
                      IF space < t
                        THEN [ptrs |-> ShiftInto(p, f[full], rev[full + 1], t - 1 - space),
                              offset |-> t - space]
                        ELSE [ptrs |-> Fill(p, f[full], rev[full + 1], t),
                              offset |-> o + t - 1]
    <3>1. Below(p, rev, n, full, CHOOSE f : Below(p, rev, n, full, f))
      BY <2>5
    <3>. HIDE DEF rev
    <3>. QED BY <3>1 DEF Below, Shifted
  <2>7. \A k \in 0 .. Len(u) :
             f[k] = IF k = 0 THEN p.ptrs ELSE ShiftInto(p, f[k - 1], u[k], o - 1)
    <3>. TAKE k \in 0 .. Len(u)
    <3>1. f[k] = IF k = 0 THEN p.ptrs ELSE ShiftInto(p, f[k - 1], rev[k], n)
      <4>. HIDE DEF rev, u, n
      <4>. QED BY <2>3, <2>6 DEF Below
    <3>2. k # 0 => k \in 1 .. Len(u)
      BY <2>3
    <3>. HIDE DEF rev, u, n
    <3>. QED BY <2>3, <2>4, <3>1, <3>2
  <2>. DEFINE g == f[Len(u)]
  <2>. HIDE DEF rev, u, top, full, n
  <2>8. /\ g \in Seq(Cells(bs - 1)) /\ g # <<>>
        /\ Stacked(g, o - 1) = base \o FlattenSeq(SubSeq(u, 1, Len(u)))
    <3>1. Len(u) \in 0 .. Len(u)
      BY <2>3
    <3>2. \A k \in 0 .. Len(u) :
             /\ f[k] \in Seq(Cells(p.block_size - 1)) /\ f[k] # <<>>
             /\ Stacked(f[k], p.offset - 1) =
                  Stacked(p.ptrs, p.offset - 1) \o FlattenSeq(SubSeq(u, 1, k))
      BY <2>2, <2>7, ShiftLoop
    <3>. QED BY <3>1, <3>2
  <2>9. Stacked(g, o - 1) = base \o d /\ d \in Seq(Nat)
    <3>1. SubSeq(u, 1, Len(u)) = u
      BY <2>2, SubSeqFull
    <3>2. u \in Seq(Seq(Nat))
      BY <2>2, CellsTyped
    <3>. QED BY <2>8, <3>1, <3>2, FlattenTyped
  <2>10. top \in Seq(Nat) /\ Len(top) = bs - 1
    BY <2>1 DEF Cells
  <2>11. Stacked(q.ptrs, t - 1) = d \o SubSeq(top, 1, t - 1) /\ SubSeq(top, 1, t - 1) \in Seq(Nat)
    <3>1. t - 1 \in 0 .. Len(top)
      BY <1>1, <2>10
    <3>. QED BY <1>4, <2>10, <3>1, SubSeqStart DEF Stacked, u, top
  <2>. DEFINE x == SubSeq(top, 1, t - 1)
  <2>12. SUFFICES /\ r.ptrs \in Seq(Cells(bs - 1)) /\ r.ptrs # <<>> /\ r.offset \in 1 .. bs - 1
                  /\ Stacked(r.ptrs, r.offset - 1) = Stacked(g, o - 1) \o x
    <3>. HIDE DEF base, d, x
    <3>1. (base \o d) \o x = base \o (d \o x)
      <4>1. base \in Seq(Nat) /\ d \in Seq(Nat) /\ x \in Seq(Nat)
        BY <1>2, <2>9, <2>11 DEF x
      <4>. QED BY ONLY <4>1, JoinedInOrder
    <3>. QED BY <2>9, <2>11, <3>1 DEF base, x
  <2>13. r = Shifted(p, q, rev)
    BY <1>4 DEF MergedBlocks, rev
  <2>14. CASE space < t
    <3>. DEFINE m == t - 1 - space
    <3>1. r.ptrs = ShiftInto(p, g, top, m) /\ r.offset = t - space
      BY <2>3, <2>6, <2>13, <2>14
    <3>2. m \in 0 .. o - 1 /\ t - space \in 1 .. bs - 1 /\ (t - space) - 1 = m /\ space + m = t - 1
      BY ONLY <1>0, <2>14
    <3>. HIDE DEF m, g
    <3>3. /\ ShiftInto(p, g, top, m) \in Seq(Cells(bs - 1)) /\ ShiftInto(p, g, top, m) # <<>>
          /\ Stacked(ShiftInto(p, g, top, m), m) = Stacked(g, o - 1) \o SubSeq(top, 1, space + m)
      BY <2>1, <2>8, <3>2, ShiftStacks
    <3>. QED BY <3>1, <3>2, <3>3
  <2>15. CASE ~(space < t)
    <3>1. r.ptrs = Filled(g, o, top, t) /\ r.offset = o + t - 1
      BY <2>3, <2>6, <2>13, <2>15 DEF Filled, Fill
    <3>2. /\ t <= Len(top) /\ (o - 1) + t <= bs - 1 /\ o + t - 1 \in 1 .. bs - 1
          /\ t - 1 \in 0 .. t /\ (o + t - 1) - 1 = (o - 1) + (t - 1)
      <4>1. t <= Len(top)
        BY <1>0, <2>10, <2>15
      <4>2. (o - 1) + t <= bs - 1 /\ o + t - 1 \in 1 .. bs - 1
            /\ t - 1 \in 0 .. t /\ (o + t - 1) - 1 = (o - 1) + (t - 1)
        BY ONLY <1>0, <2>15
      <4>. QED BY <4>1, <4>2
    <3>. HIDE DEF g
    <3>3. /\ Filled(g, o, top, t) \in Seq(Cells(bs - 1)) /\ Filled(g, o, top, t) # <<>>
          /\ \A m \in 0 .. t : Stacked(Filled(g, o, top, t), (o - 1) + m) =
                                 Stacked(g, o - 1) \o SubSeq(top, 1, m)
      <4>. DEFINE cells == bs - 1
      <4>1. /\ cells \in Nat /\ g \in Seq(Cells(cells)) /\ g # <<>> /\ o \in Nat /\ o >= 1
            /\ top \in Seq(Nat) /\ t \in Nat /\ t <= Len(top) /\ (o - 1) + t <= cells
        BY <1>1, <2>8, <2>10, <3>2
      <4>. HIDE DEF cells, o, t
      <4>2. /\ Filled(g, o, top, t) \in Seq(Cells(cells)) /\ Filled(g, o, top, t) # <<>>
            /\ \A m \in 0 .. t : Stacked(Filled(g, o, top, t), (o - 1) + m) =
                                 Stacked(g, o - 1) \o SubSeq(top, 1, m)
        BY ONLY <4>1, FillStacks
      <4>. QED BY <4>2 DEF cells, o, t
    <3>4. Stacked(Filled(g, o, top, t), (o - 1) + (t - 1)) = Stacked(g, o - 1) \o x
      BY <3>2, <3>3
    <3>. QED BY <3>1, <3>2, <3>3, <3>4
  <2>. QED BY <2>14, <2>15
<1>. QED BY <1>3, <1>4

\* merge_pools puts the second pool on top of the first.
LEMMA MergedStacks ==
  ASSUME NEW p, Shape(p), p.ptrs # <<>>, p.offset < p.block_size, p.debounce = <<>>,
         NEW q, Shape(q), q.block_size = p.block_size,
         NEW r, r = Merged(p, q)
  PROVE  /\ Shape(r) /\ Contents(r) = Contents(p) \o Contents(q)
         /\ r.depth = p.depth + q.depth
<1>. DEFINE bs == p.block_size
            b == MergedBlocks(p, q)
            o == b.offset
            d == q.debounce
            n == Min2(bs - o, Len(d))
            l == Filled(b.ptrs, o, d, n)
            rest == SubSeq(d, n + 1, Len(d))
            base == Stacked(b.ptrs, o - 1)
            pp == Stacked(p.ptrs, p.offset - 1)
            qq == Stacked(q.ptrs, q.offset - 1)
<1>1. /\ b.ptrs \in Seq(Cells(bs - 1)) /\ b.ptrs # <<>> /\ o \in 1 .. bs - 1
      /\ base = pp \o qq
  BY MergedBlocksStack
<1>2. /\ bs \in Nat /\ bs - 1 \in Nat /\ d \in Seq(Nat) /\ Len(d) \in Nat /\ Len(d) <= Debounce
      /\ p.depth \in Nat /\ q.depth \in Nat /\ p.allocator \in Allocators /\ Debounce \in Nat
  BY Sizes DEF Shape
<1>3. pp \in Seq(Nat) /\ qq \in Seq(Nat)
  BY ContentsTyped
<1>4. r = [p EXCEPT !.ptrs = l, !.offset = o + n, !.debounce = rest, !.depth = p.depth + q.depth]
  BY DEF Merged, Filled
<1>. HIDE DEF b, bs, d, o, n, l, rest, base, pp, qq
<1>5. /\ n \in Nat /\ n <= Len(d) /\ (o - 1) + n <= bs - 1 /\ o \in Nat /\ o >= 1
      /\ o + n \in 1 .. bs /\ (n < Len(d) => o + n = bs) /\ (o + n) - 1 = (o - 1) + n
      /\ n + (Len(d) - n) = Len(d) /\ Len(d) - n \in Nat /\ n \in 0 .. n
  BY <1>1, <1>2 DEF n, Min2
<1>6. /\ l \in Seq(Cells(bs - 1)) /\ l # <<>>
      /\ Stacked(l, (o - 1) + n) = base \o SubSeq(d, 1, n)
  <2>. DEFINE cells == bs - 1
              e == b.ptrs
  <2>1. /\ cells \in Nat /\ e \in Seq(Cells(cells)) /\ e # <<>> /\ o \in Nat /\ o >= 1
        /\ d \in Seq(Nat) /\ n \in Nat /\ n <= Len(d) /\ (o - 1) + n <= cells
    BY <1>1, <1>2, <1>5
  <2>. HIDE DEF cells, e
  <2>2. /\ Filled(e, o, d, n) \in Seq(Cells(cells)) /\ Filled(e, o, d, n) # <<>>
        /\ \A m \in 0 .. n : Stacked(Filled(e, o, d, n), (o - 1) + m) =
                               Stacked(e, o - 1) \o SubSeq(d, 1, m)
    BY ONLY <2>1, FillStacks
  <2>. QED BY <1>5, <2>2 DEF cells, e, l, base
<1>. DEFINE x == SubSeq(d, 1, n)
<1>7. x \o rest = d /\ x \in Seq(Nat) /\ rest \in Seq(Nat) /\ Len(rest) = Len(d) - n
  <2>. DEFINE m == Len(d) - n
  <2>1. m \in Nat /\ n + m = Len(d)
    BY <1>5
  <2>2. n + m <= Len(d)
    BY <1>2, <2>1
  <2>. HIDE DEF m
  <2>3. x \o SubSeq(d, n + 1, n + m) = SubSeq(d, 1, n + m) /\ x \in Seq(Nat)
        /\ SubSeq(d, n + 1, n + m) \in Seq(Nat) /\ Len(SubSeq(d, n + 1, n + m)) = m
    <3>1. n \in Nat /\ m \in Nat /\ d \in Seq(Nat)
      BY <1>2, <1>5, <2>1
    <3>2. x \o SubSeq(d, n + 1, n + m) = SubSeq(d, 1, n + m) /\ x \in Seq(Nat)
      BY ONLY <2>2, <3>1, SplitAt
    <3>3. SubSeq(d, n + 1, n + m) \in Seq(Nat) /\ Len(SubSeq(d, n + 1, n + m)) = m
      BY ONLY <2>2, <3>1, SubSeqPart
    <3>. QED BY <3>2, <3>3
  <2>4. SubSeq(d, 1, Len(d)) = d
    BY <1>2, SubSeqFull
  <2>. QED BY <2>1, <2>3, <2>4 DEF rest, m
<1>8. /\ r.ptrs = l /\ r.offset = o + n /\ r.debounce = rest /\ r.depth = p.depth + q.depth
      /\ r.block_size = bs
  BY <1>4 DEF Shape, Pool, bs
<1>9. Shape(r)
  <2>1. o + n \in Nat /\ p.depth + q.depth \in Nat
    BY <1>2, <1>5
  <2>2. l \in Seq(Seq(Nat))
    BY <1>6, CellsTyped
  <2>3. r \in Pool
    BY <1>4, <1>7, <2>1, <2>2 DEF Shape, Pool
  <2>4. Len(rest) <= Debounce
    BY <1>2, <1>5, <1>7
  <2>5. rest # <<>> => o + n = bs
    <3>1. CASE n < Len(d)
      BY <1>5, <3>1
    <3>2. CASE ~(n < Len(d))
      <4>1. Len(rest) = 0
        <5>1. n \in Nat /\ Len(d) \in Nat /\ n <= Len(d)
          BY <1>2, <1>5
        <5>2. Len(d) - n = 0
          BY ONLY <3>2, <5>1
        <5>. QED BY <1>7, <5>2
      <4>. QED BY <1>7, <4>1, EmptySeq
    <3>. QED BY <3>1, <3>2
  <2>6. r.block_size >= Debounce + 2
    BY <1>8 DEF Shape, bs
  <2>. QED BY <1>5, <1>6, <1>8, <2>3, <2>4, <2>5, <2>6 DEF Shape
<1>10. Contents(r) = Contents(p) \o Contents(q)
  <2>1. Contents(r) = Stacked(l, (o + n) - 1) \o rest /\ Contents(q) = qq \o d /\ Contents(p) = pp
    <3>1. Contents(p) = pp
      BY ContentsTyped DEF pp
    <3>. QED BY <1>8, <3>1 DEF Contents, qq, d
  <2>2. Stacked(l, (o + n) - 1) = (pp \o qq) \o x
    BY <1>1, <1>5, <1>6
  <2>3. pp \o qq \in Seq(Nat)
    BY <1>3, ConcatProperties
  <2>. DEFINE s == pp \o qq
  <2>4. (s \o x) \o rest = s \o (x \o rest)
    <3>1. s \in Seq(Nat) /\ x \in Seq(Nat) /\ rest \in Seq(Nat)
      BY <1>7, <2>3
    <3>. HIDE DEF s, x
    <3>. QED BY ONLY <3>1, JoinedInOrder
  <2>5. (pp \o qq) \o d = pp \o (qq \o d)
    <3>1. pp \in Seq(Nat) /\ qq \in Seq(Nat) /\ d \in Seq(Nat)
      BY <1>2, <1>3
    <3>. QED BY ONLY <3>1, JoinedInOrder
  <2>. HIDE DEF x
  <2>. QED BY <1>7, <2>1, <2>2, <2>4, <2>5
<1>. QED BY <1>8, <1>9, <1>10

\* concat_pools does so, when the last block of the first is full.
LEMMA ConcatenatedStacks ==
  ASSUME NEW p, Shape(p), p.offset = p.block_size, p.debounce = <<>>,
         NEW q, Shape(q), q.block_size = p.block_size, q.ptrs # <<>>,
         NEW r, r = Concatenated(p, q)
  PROVE  /\ Shape(r) /\ Contents(r) = Contents(p) \o Contents(q)
         /\ r.depth = p.depth + q.depth
<1>. DEFINE bs == p.block_size
            l == q.ptrs \o p.ptrs
            top == q.ptrs[1]
            t == Tail(q.ptrs)
            n == q.offset - 1
            d == q.debounce
<1>1. /\ bs \in Nat /\ p.ptrs \in Seq(Cells(bs - 1)) /\ q.ptrs \in Seq(Cells(bs - 1))
      /\ p.depth \in Nat /\ q.depth \in Nat /\ d \in Seq(Nat)
      /\ p.ptrs # <<>> => Len(p.ptrs[1]) = bs - 1
  <2>1. /\ p.block_size \in Nat /\ p.ptrs \in Seq(Cells(p.block_size - 1))
        /\ q.ptrs \in Seq(Cells(q.block_size - 1)) /\ p.depth \in Nat /\ q.depth \in Nat
        /\ q.debounce \in Seq(Nat)
        /\ p.ptrs # <<>> => Len(p.ptrs[1]) = p.block_size - 1
    BY Sizes
  <2>. QED BY <2>1
<1>2. /\ top \in Cells(bs - 1) /\ t \in Seq(Cells(bs - 1)) /\ q.ptrs = <<top>> \o t
      /\ p.ptrs \in Seq(Seq(Nat)) /\ top \in Seq(Nat) /\ t \in Seq(Seq(Nat))
  <2>1. /\ top \in Cells(bs - 1) /\ t \in Seq(Cells(bs - 1)) /\ q.ptrs = <<top>> \o t
        /\ p.ptrs \in Seq(Seq(Nat))
    BY <1>1, CellsTyped
  <2>2. t \in Seq(Seq(Nat)) /\ top \in Seq(Nat)
    BY <2>1, CellsTyped DEF Cells
  <2>. QED BY <2>1, <2>2
<1>3. l \in Seq(Cells(bs - 1)) /\ l # <<>>
  <2>1. Len(q.ptrs) \in Nat \ {0} /\ Len(p.ptrs) \in Nat
    BY <1>1, EmptySeq
  <2>2. l \in Seq(Cells(bs - 1)) /\ Len(l) = Len(q.ptrs) + Len(p.ptrs)
    BY <1>1, ConcatProperties
  <2>. QED BY <2>1, <2>2
<1>4. r = [p EXCEPT !.ptrs = l, !.offset = q.offset, !.debounce = d, !.depth = p.depth + q.depth]
  BY DEF Concatenated
<1>. HIDE DEF top, t
<1>5. Stacked(l, n) = Contents(p) \o Stacked(q.ptrs, n)
  <2>. DEFINE x == SubSeq(top, 1, n)
  <2>1. l = <<top>> \o (t \o p.ptrs)
    <3>1. <<top>> \in Seq(Seq(Nat))
      BY <1>2
    <3>2. (<<top>> \o t) \o p.ptrs = <<top>> \o (t \o p.ptrs)
      <4>. DEFINE o == <<top>>
                  b == p.ptrs
      <4>1. o \in Seq(Seq(Nat)) /\ t \in Seq(Seq(Nat)) /\ b \in Seq(Seq(Nat))
        BY <1>2, <3>1
      <4>. HIDE DEF o, b
      <4>2. (o \o t) \o b = o \o (t \o b)
        BY ONLY <4>1, ConcatAssociative
      <4>. QED BY <4>2 DEF o, b
    <3>. QED BY <1>2, <3>2
  <2>2. t \o p.ptrs \in Seq(Seq(Nat))
    BY <1>2, ConcatProperties
  <2>3. Stacked(l, n) = Whole(t \o p.ptrs) \o x
    <3>. DEFINE y == t \o p.ptrs
    <3>1. y \in Seq(Seq(Nat)) /\ top \in Seq(Nat)
      BY <1>2, <2>2
    <3>. HIDE DEF y
    <3>2. Stacked(<<top>> \o y, n) = Whole(y) \o SubSeq(top, 1, n)
      BY <3>1, StackedCons
    <3>. QED BY <2>1, <3>2 DEF y
  <2>4. Stacked(q.ptrs, n) = Whole(t) \o x
    BY DEF Stacked, Whole, top, t
  <2>5. Whole(t \o p.ptrs) = Whole(p.ptrs) \o Whole(t)
    BY <1>2, WholeConcat
  <2>6. Contents(p) = Whole(p.ptrs)
    <3>1. Contents(p) = Stacked(p.ptrs, bs - 1)
      BY ContentsTyped
    <3>. QED BY <1>1, <1>2, <3>1, StackedFull
  <2>7. Whole(p.ptrs) \in Seq(Nat) /\ Whole(t) \in Seq(Nat) /\ x \in Seq(Nat)
    <3>1. n \in 0 .. Len(top)
      <4>1. q.offset \in Nat /\ q.offset >= 1 /\ q.offset <= q.block_size /\ q.block_size \in Nat
        BY Sizes
      <4>2. Len(top) = q.block_size - 1
        BY <1>2 DEF Cells
      <4>. QED BY <4>1, <4>2
    <3>. QED BY <1>2, <3>1, SubSeqStart, WholeTyped
  <2>. DEFINE a == Whole(p.ptrs)
              c == Whole(t)
  <2>. HIDE DEF a, c, x
  <2>8. (a \o c) \o x = a \o (c \o x)
    <3>1. a \in Seq(Nat) /\ c \in Seq(Nat) /\ x \in Seq(Nat)
      BY <2>7 DEF a, c
    <3>. QED BY ONLY <3>1, JoinedInOrder
  <2>. QED BY <2>3, <2>4, <2>5, <2>6, <2>8 DEF a, c
<1>6. /\ r.ptrs = l /\ r.offset = q.offset /\ r.debounce = d /\ r.depth = p.depth + q.depth
      /\ r.block_size = bs
  BY <1>4 DEF Shape, Pool
<1>7. Shape(r)
  <2>1. p.depth + q.depth \in Nat
    BY <1>1
  <2>2. l \in Seq(Seq(Nat))
    BY <1>3, CellsTyped
  <2>3. r \in Pool
    BY <1>1, <1>4, <2>1, <2>2 DEF Shape, Pool
  <2>. QED BY <1>3, <1>6, <2>3 DEF Shape
<1>8. Contents(r) = Contents(p) \o Contents(q)
  <2>. DEFINE c == Contents(p)
              s == Stacked(q.ptrs, n)
  <2>1. Contents(r) = (c \o s) \o d /\ Contents(q) = s \o d
    BY <1>5, <1>6 DEF Contents
  <2>2. c \in Seq(Nat) /\ s \in Seq(Nat) /\ d \in Seq(Nat)
    BY <1>1, ContentsTyped
  <2>. HIDE DEF c, s, d
  <2>3. (c \o s) \o d = c \o (s \o d)
    BY ONLY <2>2, JoinedInOrder
  <2>. QED BY <2>1, <2>3 DEF c
<1>. QED BY <1>6, <1>7, <1>8

\* A pool that has been merged into another contains nothing.
LEMMA EmptiedIsEmpty ==
  ASSUME NEW q, Shape(q), NEW r, r = Emptied(q) \/ r = Deallocated(q)
  PROVE  PoolOK(r) /\ Contents(r) = <<>>
<1>. DEFINE o == r.offset
<1>1. Shape(Flat(q)) /\ Flat(q).block_size = q.block_size
  BY FlatKeeps
<1>2. /\ q.block_size \in 1 .. q.block_size /\ q.block_size \in Nat
      /\ Flat(q).offset \in 1 .. q.block_size /\ Flat(q).offset \in Nat
  <2>1. q.block_size \in Nat /\ q.block_size >= 3 /\ Flat(q).offset \in Nat
    BY <1>1, Sizes
  <2>. QED BY <1>1, <2>1 DEF Shape
<1>3. \E t \in 1 .. q.block_size :
         t \in Nat /\ r = [q EXCEPT !.debounce = <<>>, !.ptrs = <<>>, !.offset = t, !.depth = 0]
  BY <1>2 DEF Emptied, Deallocated
<1>4. PICK t \in 1 .. q.block_size :
         t \in Nat /\ r = [q EXCEPT !.debounce = <<>>, !.ptrs = <<>>, !.offset = t, !.depth = 0]
  BY <1>3
<1>5. /\ r.ptrs = <<>> /\ r.offset = t /\ r.debounce = <<>> /\ r.depth = 0
      /\ r.block_size = q.block_size
  BY <1>4 DEF Shape, Pool
<1>6. <<>> \in Seq(Cells(q.block_size - 1)) /\ <<>> \in Seq(Seq(Nat)) /\ <<>> \in Seq(Nat)
      /\ Len(<<>>) = 0 /\ 0 \in Nat
  OBVIOUS
<1>7. r \in Pool
  BY <1>4, <1>6 DEF Shape, Pool
<1>8. Shape(r)
  <2>1. Len(r.debounce) <= Debounce
    BY <1>5, MemoryPoolAssumption
  <2>. QED BY <1>5, <1>6, <1>7, <2>1 DEF Shape
<1>9. Contents(r) = <<>>
  BY <1>5, StackedEmpty DEF Contents
<1>. QED BY <1>5, <1>6, <1>8, <1>9 DEF PoolOK

-----------------------------------------------------------------------------
(* Resizing: the pointers are copied to blocks of another size, the newest  *)
(* first.                                                                   *)

\* Cells that are copied behind the first i come before the k that follow them.
CopiedBehind(dst, i, src, j, n) == Copy(dst, i + 1, src, j + 1, n)
Behind(s, i, w) == SubSeq(s, i + 1, w)

LEMMA CopyBefore ==
  ASSUME NEW dst \in Seq(Nat), NEW src \in Seq(Nat), NEW i \in Nat, NEW j \in Nat, NEW n \in Nat,
         j + n <= Len(src), i + n <= Len(dst)
  PROVE  /\ CopiedBehind(dst, i, src, j, n) \in Seq(Nat)
         /\ Len(CopiedBehind(dst, i, src, j, n)) = Len(dst)
         /\ \A w, x, y \in Nat : w <= Len(dst) /\ x = i + n /\ y = j + n /\ x <= w =>
               Behind(CopiedBehind(dst, i, src, j, n), i, w) = Behind(src, j, y) \o Behind(dst, x, w)
<1>0. /\ CopiedBehind(dst, i, src, j, n) \in Seq(Nat)
      /\ Len(CopiedBehind(dst, i, src, j, n)) = Len(dst)
  <2>. DEFINE d == i + 1
              s == j + 1
  <2>1. /\ dst \in Seq(Nat) /\ src \in Seq(Nat) /\ n \in Nat /\ d \in Int /\ s \in Nat \ {0}
        /\ s + n - 1 <= Len(src) /\ Len(dst) \in Nat /\ Len(src) \in Nat
    OBVIOUS
  <2>. HIDE DEF d, s
  <2>2. Copy(dst, d, src, s, n) \in Seq(Nat) /\ Len(Copy(dst, d, src, s, n)) = Len(dst)
    BY ONLY <2>1, CopyTyped
  <2>. QED BY <2>2 DEF CopiedBehind, d, s
<1>. SUFFICES ASSUME NEW w \in Nat, i + n <= w, w <= Len(dst)
              PROVE  SubSeq(CopiedBehind(dst, i, src, j, n), i + 1, w) =
                       SubSeq(src, j + 1, j + n) \o SubSeq(dst, (i + n) + 1, w)
  BY <1>0 DEF Behind
<1>. DEFINE k == w - (i + n)
            d == i + 1
            s == j + 1
            f == Copy(dst, d, src, s, n)
            m == i + n
            len == n + k
            a == SubSeq(f, i + 1, i + len)
            b == SubSeq(src, j + 1, j + n)
            c == SubSeq(dst, m + 1, m + k)
            t == b \o c
<1>1. /\ Len(dst) \in Nat /\ Len(src) \in Nat /\ d \in Int /\ s \in Nat \ {0}
      /\ s + n - 1 <= Len(src) /\ m \in Nat /\ len \in Nat /\ i + len = m + k
      /\ m + k <= Len(dst) /\ i + len <= Len(dst) /\ k \in Nat /\ m + k = w
  OBVIOUS
<1>2. f \in Seq(Nat) /\ Len(f) = Len(dst)
      /\ \A x \in 1 .. Len(dst) : f[x] = IF x \in d .. d + n - 1 THEN src[s + x - d] ELSE dst[x]
  <2>1. dst \in Seq(Nat) /\ src \in Seq(Nat) /\ n \in Nat
    OBVIOUS
  <2>. HIDE DEF d, s
  <2>. QED BY ONLY <1>1, <2>1, CopyTyped
<1>. HIDE DEF f
<1>3. a \in Seq(Nat) /\ Len(a) = len /\ \A x \in 1 .. len : a[x] = f[i + x]
  <2>. HIDE DEF len
  <2>1. f \in Seq(Nat) /\ i \in Nat /\ len \in Nat /\ i + len <= Len(f)
    BY <1>1, <1>2
  <2>. QED BY ONLY <2>1, SubSeqPart
<1>. HIDE DEF k
<1>4. b \in Seq(Nat) /\ Len(b) = n /\ \A x \in 1 .. n : b[x] = src[j + x]
  BY SubSeqPart
<1>5. c \in Seq(Nat) /\ Len(c) = k /\ \A x \in 1 .. k : c[x] = dst[m + x]
  <2>1. dst \in Seq(Nat) /\ k \in Nat
    BY <1>1
  <2>. HIDE DEF m
  <2>. QED BY ONLY <1>1, <2>1, SubSeqPart
<1>. HIDE DEF a, b, c
<1>6. t \in Seq(Nat) /\ Len(t) = len
      /\ \A x \in 1 .. len : t[x] = IF x <= n THEN b[x] ELSE c[x - n]
  <2>1. b \in Seq(Nat) /\ c \in Seq(Nat)
    BY <1>4, <1>5
  <2>2. /\ t \in Seq(Nat) /\ Len(t) = Len(b) + Len(c)
        /\ \A x \in 1 .. Len(b) + Len(c) : t[x] = IF x <= Len(b) THEN b[x] ELSE c[x - Len(b)]
    BY ONLY <2>1, ConcatProperties
  <2>. QED BY <1>4, <1>5, <2>2
<1>. HIDE DEF t
<1>7. ASSUME NEW x \in 1 .. len PROVE a[x] = t[x]
  <2>1. PICK y \in 1 .. Len(dst) : y = i + x
    <3>1. i + x \in 1 .. Len(dst)
      BY <1>1
    <3>. QED BY <3>1
  <2>2. CASE x <= n
    <3>1. y \in d .. d + n - 1 /\ s + y - d = j + x /\ x \in 1 .. n
      BY <1>1, <2>1, <2>2
    <3>. HIDE DEF d, s, len
    <3>2. f[y] = src[j + x]
      BY <1>2, <3>1
    <3>. QED BY <1>3, <1>4, <1>6, <2>1, <2>2, <3>1, <3>2
  <2>3. CASE ~(x <= n)
    <3>1. y \notin d .. d + n - 1
      BY <1>1, <2>1, <2>3
    <3>2. PICK z \in 1 .. k : z = x - n /\ m + z = y
      <4>1. x - n \in 1 .. k /\ m + (x - n) = y
        BY <1>1, <2>1, <2>3
      <4>. QED BY <4>1
    <3>. HIDE DEF d, s, len, m
    <3>3. f[y] = dst[y] /\ c[z] = dst[y]
      BY <1>2, <1>5, <3>1, <3>2
    <3>4. t[x] = c[z]
      BY <1>6, <2>3, <3>2
    <3>. QED BY <1>3, <2>1, <3>3, <3>4
  <2>. QED BY <2>2, <2>3
<1>8. Len(a) = Len(t) /\ \A x \in 1 .. Len(a) : a[x] = t[x]
  BY <1>3, <1>6, <1>7
<1>9. a = t
  BY <1>3, <1>6, <1>8, SeqEqual
<1>. QED BY <1>1, <1>2, <1>9 DEF a, b, c, t, f, CopiedBehind

\* How much of the oldest block of a list is used, if the newest is used up to cell n.
Width(l, n, cells) == IF l = <<>> THEN n ELSE cells

LEMMA LastBlock ==
  ASSUME NEW cells \in Nat, NEW l \in Seq(Cells(cells)), NEW b \in Cells(cells), NEW n \in 0 .. cells
  PROVE  /\ Stacked(Append(l, b), n) = SubSeq(b, 1, Width(l, n, cells)) \o Stacked(l, n)
         /\ Stacked(l, n) \in Seq(Nat) /\ Append(l, b) \in Seq(Cells(cells))
<1>1. b \in Seq(Nat) /\ Len(b) = cells
  BY DEF Cells
<1>2. l \in Seq(Seq(Nat)) /\ Append(l, b) \in Seq(Cells(cells)) /\ Append(l, b) # <<>>
  <2>1. Len(l) \in Nat /\ Append(l, b) \in Seq(Cells(cells)) /\ Len(Append(l, b)) = Len(l) + 1
    BY AppendProperties
  <2>2. Append(l, b) # <<>>
    BY <2>1
  <2>. QED BY <2>1, <2>2, CellsTyped
<1>3. CASE l = <<>>
  <2>1. Append(l, b) = <<b>> \o <<>> /\ <<>> \in Seq(Seq(Nat))
    BY <1>3
  <2>2. Stacked(<<b>> \o <<>>, n) = Whole(<<>>) \o SubSeq(b, 1, n)
    BY <1>1, <2>1, StackedCons
  <2>. DEFINE x == SubSeq(b, 1, n)
  <2>3. x \in Seq(Nat)
    BY <1>1, SubSeqStart
  <2>4. <<>> \o x = x /\ x \o <<>> = x
    BY <2>3, ConcatEmptySeq
  <2>5. Stacked(l, n) = <<>> /\ <<>> \in Seq(Nat)
    BY <1>3, StackedEmpty
  <2>. QED BY <1>2, <1>3, <2>1, <2>2, <2>4, <2>5, WholeEmpty DEF Width
<1>4. CASE l # <<>>
  <2>. DEFINE t == Tail(l)
              x == SubSeq(l[1], 1, n)
              w == Whole(t)
  <2>1. l[1] \in Cells(cells) /\ t \in Seq(Cells(cells)) /\ t \in Seq(Seq(Nat))
    BY <1>4, CellsTyped
  <2>2. l[1] \in Seq(Nat) /\ n \in 0 .. Len(l[1])
    BY <2>1 DEF Cells
  <2>3. Stacked(l, n) = w \o x /\ w \in Seq(Nat) /\ x \in Seq(Nat) /\ Stacked(l, n) \in Seq(Nat)
    BY <1>2, <1>4, <2>2, StackedFirst
  <2>4. Tail(Append(l, b)) = Append(t, b) /\ Append(l, b)[1] = l[1]
    <3>1. Tail(Append(l, b)) = Append(t, b)
      BY <1>2, <1>4, HeadTailAppend
    <3>2. 1 \in 1 .. Len(l)
      BY <1>2, <1>4, EmptySeq
    <3>. QED BY <1>2, <3>1, <3>2, AppendProperties
  <2>5. Stacked(Append(l, b), n) = Whole(Append(t, b)) \o x
    BY <1>2, <2>4 DEF Stacked, Whole
  <2>6. Whole(Append(t, b)) = b \o w
    BY <1>1, <2>1, WholeAppend
  <2>7. (b \o w) \o x = b \o (w \o x)
    <3>1. b \in Seq(Nat) /\ w \in Seq(Nat) /\ x \in Seq(Nat)
      BY <1>1, <2>3
    <3>. HIDE DEF w, x
    <3>. QED BY ONLY <3>1, JoinedInOrder
  <2>8. SubSeq(b, 1, cells) = b
    BY <1>1, SubSeqFull
  <2>. QED BY <1>2, <1>4, <2>3, <2>5, <2>6, <2>7, <2>8 DEF Width
<1>. QED BY <1>3, <1>4

\* What is still to be copied, and what has been: the last of the new blocks is b,
\* of which cells space + 1 and on are filled.
Copied(c, src, available, l, b, space, n, cells) ==
  c = Stacked(src, available) \o
        (SubSeq(b, space + 1, Width(l, n, cells)) \o Stacked(l, n))

\* n pointers are copied.
LEMMA CopyingKeeps ==
  ASSUME NEW c, NEW old \in Nat, NEW src \in Seq(Cells(old)), src # <<>>,
         NEW cells \in Nat, NEW l \in Seq(Cells(cells)), NEW b \in Cells(cells),
         NEW first \in 0 .. cells, NEW i \in Nat, NEW j \in Nat, NEW n \in Nat,
         j + n <= old, i + n <= Width(l, first, cells),
         Copied(c, src, j + n, l, b, i + n, first, cells)
  PROVE  /\ Copy(b, i + 1, src[1], j + 1, n) \in Cells(cells)
         /\ Copied(c, src, j, l, Copy(b, i + 1, src[1], j + 1, n), i, first, cells)
         /\ Len(Stacked(src, j + n)) = Len(Stacked(src, j)) + n
         /\ Len(Stacked(src, j)) \in Nat
<1>. DEFINE top == src[1]
            w == Width(l, first, cells)
            k == w - (i + n)
            e == Copy(b, i + 1, top, j + 1, n)
            rest == Whole(Tail(src))
            x == SubSeq(top, 1, j)
            y == SubSeq(top, j + 1, j + n)
            z == SubSeq(b, (i + n) + 1, w)
            new == SubSeq(e, i + 1, w)
            done == Stacked(l, first)
<1>1. /\ top \in Seq(Nat) /\ Len(top) = old /\ src \in Seq(Seq(Nat)) /\ b \in Seq(Nat)
      /\ Len(b) = cells
  <2>1. top \in Cells(old) /\ src \in Seq(Seq(Nat))
    BY CellsTyped
  <2>. QED BY <2>1 DEF Cells
<1>2. w \in Nat /\ w <= cells /\ k \in Nat /\ (i + n) + k = w
  <2>1. w \in Nat /\ w <= cells
    BY DEF Width
  <2>. HIDE DEF w
  <2>. QED BY <2>1 DEF w
<1>3. done \in Seq(Nat)
  BY LastBlock
<1>4. e \in Seq(Nat) /\ Len(e) = cells /\ new = y \o z
  <2>. HIDE DEF w, k, top
  <2>1. /\ b \in Seq(Nat) /\ top \in Seq(Nat) /\ i \in Nat /\ j \in Nat /\ n \in Nat
        /\ j + n <= Len(top) /\ i + n <= Len(b) /\ w \in i + n .. Len(b)
        /\ Len(top) \in Nat /\ Len(b) \in Nat
    BY <1>1, <1>2
  <2>. DEFINE g == CopiedBehind(b, i, top, j, n)
  <2>2. /\ g \in Seq(Nat) /\ Len(g) = Len(b)
        /\ \A v \in i + n .. Len(b) :
              SubSeq(g, i + 1, v) = y \o SubSeq(b, (i + n) + 1, v)
    <3>1. g \in Seq(Nat)
      BY ONLY <2>1, CopyBefore
    <3>2. Len(g) = Len(b)
      BY ONLY <2>1, CopyBefore
    <3>3. \A v, t, u \in Nat : v <= Len(b) /\ t = i + n /\ u = j + n /\ t <= v =>
              Behind(g, i, v) = Behind(top, j, u) \o Behind(b, t, v)
      <4>1. b \in Seq(Nat) /\ top \in Seq(Nat) /\ j + n <= Len(top) /\ i + n <= Len(b)
        BY <2>1
      <4>. QED BY <4>1, CopyBefore
    <3>4. ASSUME NEW v \in i + n .. Len(b)
          PROVE  Behind(g, i, v) = Behind(top, j, j + n) \o Behind(b, i + n, v)
      <4>1. v \in Nat /\ v <= Len(b) /\ i + n <= v /\ i + n \in Nat /\ j + n \in Nat
        BY <2>1
      <4>. QED BY <3>3, <4>1
    <3>. QED BY <3>1, <3>2, <3>4 DEF Behind
  <2>3. SubSeq(g, i + 1, w) = y \o z
    BY <2>1, <2>2
  <2>. QED BY <1>1, <2>2, <2>3 DEF CopiedBehind
<1>5. z \in Seq(Nat)
  <2>. HIDE DEF w, k
  <2>1. b \in Seq(Nat) /\ i + n \in Nat /\ k \in Nat /\ (i + n) + k <= Len(b)
    BY <1>1, <1>2
  <2>. DEFINE m == i + n
  <2>2. SubSeq(b, m + 1, m + k) \in Seq(Nat)
    <3>. HIDE DEF m
    <3>1. m \in Nat /\ m + k <= Len(b)
      BY <2>1 DEF m
    <3>. QED BY ONLY <2>1, <3>1, SubSeqPart
  <2>. QED BY <1>2, <2>2
<1>6. SubSeq(top, 1, j + n) = x \o y /\ x \in Seq(Nat) /\ y \in Seq(Nat)
  <2>. HIDE DEF top
  <2>1. top \in Seq(Nat) /\ j \in Nat /\ n \in Nat /\ j + n <= Len(top)
    BY <1>1
  <2>. QED BY ONLY <2>1, SplitAt
<1>7. /\ Stacked(src, j + n) = rest \o SubSeq(top, 1, j + n) /\ Stacked(src, j) = rest \o x
      /\ rest \in Seq(Nat) /\ Len(Stacked(src, j + n)) = Len(rest) + (j + n)
      /\ Len(Stacked(src, j)) = Len(rest) + j
  <2>1. j + n \in 0 .. Len(src[1]) /\ j \in 0 .. Len(src[1])
    BY <1>1
  <2>. DEFINE m == j + n
  <2>2. /\ Stacked(src, m) = rest \o SubSeq(top, 1, m) /\ rest \in Seq(Nat)
        /\ Len(Stacked(src, m)) = Len(rest) + m
    <3>. HIDE DEF m
    <3>1. m \in 0 .. Len(src[1])
      BY <2>1 DEF m
    <3>. QED BY <1>1, <3>1, StackedFirst
  <2>. QED BY <1>1, <2>1, <2>2, StackedFirst
<1>8. Len(rest) \in Nat
  BY <1>7
<1>9. c = (rest \o (x \o y)) \o (z \o done)
  BY <1>6, <1>7 DEF Copied
<1>. HIDE DEF rest, x, y, z, done, w, new, e
<1>10. (rest \o (x \o y)) \o (z \o done) = (rest \o x) \o ((y \o z) \o done)
  <2>. DEFINE a == rest \o x
              d == z \o done
  <2>1. rest \o (x \o y) = a \o y
    BY ONLY <1>6, <1>7, JoinedInOrder
  <2>2. a \in Seq(Nat) /\ d \in Seq(Nat)
    BY <1>3, <1>5, <1>6, <1>7, ConcatProperties
  <2>. HIDE DEF a, d
  <2>3. (a \o y) \o d = a \o (y \o d)
    BY ONLY <1>6, <2>2, JoinedInOrder
  <2>4. (y \o z) \o done = y \o d
    BY <1>3, <1>5, <1>6, JoinedInOrder DEF d
  <2>. QED BY <2>1, <2>3, <2>4 DEF a, d
<1>11. Copied(c, src, j, l, e, i, first, cells)
  BY <1>4, <1>7, <1>9, <1>10 DEF Copied, new, w, done
<1>12. Len(Stacked(src, j + n)) = Len(Stacked(src, j)) + n /\ Len(Stacked(src, j)) \in Nat
  BY <1>7, <1>8
<1>13. e \in Cells(cells)
  BY <1>4 DEF Cells
<1>. QED BY <1>11, <1>12, <1>13 DEF e

\* A block that has been copied is done with, and a block that has been filled is
\* followed by another.
LEMMA CopiedBlock ==
  ASSUME NEW c, NEW old \in Nat, NEW src \in Seq(Cells(old)), src # <<>>,
         NEW cells \in Nat, NEW l \in Seq(Cells(cells)), NEW b \in Cells(cells),
         NEW first \in 0 .. cells, NEW space \in Nat,
         Copied(c, src, 0, l, b, space, first, cells)
  PROVE  /\ Copied(c, Tail(src), old, l, b, space, first, cells)
         /\ Stacked(Tail(src), old) = Stacked(src, 0)
<1>1. /\ src \in Seq(Seq(Nat)) /\ Tail(src) \in Seq(Cells(old))
      /\ src[1] \in Seq(Nat)
  BY CellsTyped DEF Cells
<1>2. Tail(src) \in Seq(Seq(Nat)) /\ (Tail(src) # <<>> => Len(Tail(src)[1]) = old)
  BY <1>1, CellsTyped DEF Cells
<1>3. Stacked(Tail(src), old) = Whole(Tail(src)) /\ Whole(Tail(src)) \in Seq(Nat)
  BY <1>2, StackedFull, WholeTyped
<1>4. Stacked(src, 0) = Whole(Tail(src)) \o SubSeq(src[1], 1, 0)
  BY DEF Stacked, Whole
<1>5. SubSeq(src[1], 1, 0) = <<>>
  BY SubSeqEmpty
<1>6. Stacked(src, 0) = Whole(Tail(src))
  BY <1>3, <1>4, <1>5, ConcatEmptySeq
<1>. QED BY <1>3, <1>6 DEF Copied

LEMMA FilledBlock ==
  ASSUME NEW c, NEW src, NEW available, NEW cells \in Nat,
         NEW l \in Seq(Cells(cells)), NEW b \in Cells(cells), NEW a \in Cells(cells),
         NEW first \in 0 .. cells, Copied(c, src, available, l, b, 0, first, cells)
  PROVE  /\ Append(l, b) \in Seq(Cells(cells)) /\ Width(Append(l, b), first, cells) = cells
         /\ Copied(c, src, available, Append(l, b), a, cells, first, cells)
<1>. DEFINE m == Append(l, b)
<1>1. /\ Stacked(m, first) = SubSeq(b, 1, Width(l, first, cells)) \o Stacked(l, first)
      /\ Stacked(l, first) \in Seq(Nat) /\ m \in Seq(Cells(cells))
  BY LastBlock
<1>2. m # <<>>
  <2>1. Len(l) \in Nat /\ Len(m) = Len(l) + 1
    BY AppendProperties
  <2>2. Len(m) # 0
    BY <2>1
  <2>. HIDE DEF m
  <2>. QED BY <2>2
<1>3. SubSeq(a, cells + 1, cells) = <<>>
  BY SubSeqEmpty
<1>4. Width(m, first, cells) = cells
  BY <1>2 DEF Width
<1>5. Stacked(m, first) \in Seq(Nat)
  <2>1. m \in Seq(Seq(Nat)) /\ m[1] \in Cells(cells)
    BY <1>1, <1>2, CellsTyped
  <2>2. first \in 0 .. Len(m[1])
    BY <2>1 DEF Cells
  <2>. QED BY <1>2, <2>1, <2>2, StackedFirst
<1>6. <<>> \o Stacked(m, first) = Stacked(m, first)
  BY <1>5, ConcatEmptySeq
<1>7. c = Stacked(src, available) \o (SubSeq(b, 0 + 1, Width(l, first, cells)) \o Stacked(l, first))
  BY DEF Copied
<1>. HIDE DEF m
<1>8. c = Stacked(src, available) \o Stacked(m, first)
  BY <1>1, <1>7
<1>9. Copied(c, src, available, m, a, cells, first, cells)
  BY <1>3, <1>4, <1>6, <1>8 DEF Copied
<1>. QED BY <1>1, <1>4, <1>9 DEF m

LEMMA ReplaceLast ==
  ASSUME NEW S, NEW l \in Seq(S), NEW b \in S, NEW e \in S
  PROVE  /\ Append(l, b)[Len(Append(l, b))] = b
         /\ [Append(l, b) EXCEPT ![Len(Append(l, b))] = e] = Append(l, e)
<1>. DEFINE a == Append(l, b)
            n == Len(l)
            m == n + 1
            r == [a EXCEPT ![m] = e]
            t == Append(l, e)
<1>1. n \in Nat /\ a \in Seq(S) /\ Len(a) = m /\ a[m] = b /\ \A i \in 1 .. n : a[i] = l[i]
  BY AppendProperties
<1>2. t \in Seq(S) /\ Len(t) = m /\ t[m] = e /\ \A i \in 1 .. n : t[i] = l[i]
  BY AppendProperties
<1>. HIDE DEF a, t
<1>3. m \in 1 .. m /\ DOMAIN a = 1 .. m
  BY <1>1
<1>4. r \in Seq(S) /\ Len(r) = m
  BY <1>1, <1>3, ExceptSeq
<1>5. ASSUME NEW i \in 1 .. m PROVE r[i] = t[i]
  <2>1. CASE i = m
    BY <1>2, <1>3, <2>1
  <2>2. CASE i # m
    <3>1. i \in 1 .. n
      BY <1>1, <2>2
    <3>2. r[i] = a[i]
      BY <1>3, <2>2
    <3>. QED BY <1>1, <1>2, <3>1, <3>2
  <2>. QED BY <2>1, <2>2
<1>6. Len(r) = Len(t) /\ \A i \in 1 .. Len(r) : r[i] = t[i]
  BY <1>2, <1>4, <1>5
<1>. HIDE DEF r, m
<1>7. r = t
  BY <1>2, <1>4, <1>6, SeqEqual
<1>. QED BY <1>1, <1>7 DEF r, t, a

\* The loop of resize_pool, when turn turns of it are over.
Recopying(r, c, old, cells, first, turn, turns) ==
  /\ r \in [src : Seq(Cells(old)), available : Nat, dst : Seq(Cells(cells)), space : Nat]
  /\ r.available <= old
  /\ \E l \in Seq(Cells(cells)), b \in Cells(cells) :
        /\ r.dst = Append(l, b) /\ r.space <= Width(l, first, cells)
        /\ Copied(c, r.src, r.available, l, b, r.space, first, cells)
  /\ \E k \in Int : Len(Stacked(r.src, r.available)) = r.space + k * cells
  /\ r.space = cells => r.src # <<>> /\ r.available > 0
  /\ r.src # <<>> =>
        Len(r.src) + Len(Stacked(r.src, r.available)) + (IF r.space = 0 THEN 1 ELSE 0) + turn <= turns

LEMMA TurnFields ==
  ASSUME NEW a, NEW b \in Nat, NEW c, NEW d, NEW n \in Nat
  PROVE  /\ [[src |-> a, available |-> b, dst |-> c, space |-> d] EXCEPT !.available = @ - n]
             = [src |-> a, available |-> b - n, dst |-> c, space |-> d]
         /\ d \in Nat => [[src |-> a, available |-> b, dst |-> c, space |-> d] EXCEPT !.space = @ - n]
                           = [src |-> a, available |-> b, dst |-> c, space |-> d - n]
OBVIOUS

LEMMA RecopyTurnKeeps ==
  ASSUME NEW c, NEW oldSize \in Nat, oldSize >= 3, NEW size \in Nat, size >= 3,
         NEW first \in 0 .. size - 1, NEW turn \in Nat, NEW turns \in Nat,
         NEW r, Recopying(r, c, oldSize - 1, size - 1, first, turn, turns), r.src # <<>>,
         NEW t, t = RecopyTurn(r, oldSize, size)
  PROVE  Recopying(t, c, oldSize - 1, size - 1, first, turn + 1, turns)
<1>. DEFINE old == oldSize - 1
            cells == size - 1
            space == r.space
            available == r.available
            src == r.src
            n == Min2(space, available)
            i == space - n
            j == available - n
            rem == Len(Stacked(src, available))
<1>1. old \in Nat /\ old >= 2 /\ cells \in Nat /\ cells >= 2 /\ first \in 0 .. cells
  OBVIOUS
<1>2. /\ r \in [src : Seq(Cells(old)), available : Nat, dst : Seq(Cells(cells)), space : Nat]
      /\ available <= old /\ available \in Nat /\ space \in Nat /\ src \in Seq(Cells(old))
  BY DEF Recopying
<1>3. PICK l \in Seq(Cells(cells)), b \in Cells(cells) :
        /\ r.dst = Append(l, b) /\ space <= Width(l, first, cells)
        /\ Copied(c, src, available, l, b, space, first, cells)
  BY DEF Recopying
<1>4. PICK k \in Int : rem = space + k * cells
  BY DEF Recopying
<1>5. /\ space = cells => available > 0
      /\ Len(src) + rem + (IF space = 0 THEN 1 ELSE 0) + turn <= turns
  BY DEF Recopying
<1>. DEFINE e == Copy(b, i + 1, src[1], j + 1, n)
            w == Width(l, first, cells)
<1>6. /\ n \in Nat /\ i \in Nat /\ j \in Nat /\ i + n = space /\ j + n = available
      /\ i + n <= w /\ j + n <= old /\ (i = 0 \/ j = 0)
      /\ (n = 0 => i = 0 \/ space # cells) /\ i # cells
  <2>. HIDE DEF w
  <2>1. n \in {space, available} /\ n <= space /\ n <= available
    BY <1>2 DEF Min2
  <2>2. space <= w /\ w <= cells /\ w \in Nat
    BY <1>1, <1>3 DEF Width, w
  <2>3. space = cells => available > 0
    BY <1>5
  <2>. HIDE DEF n, cells, space, available, old
  <2>. QED BY ONLY <1>1, <1>2, <2>1, <2>2, <2>3 DEF i, j
<1>7. /\ e \in Cells(cells) /\ Copied(c, src, j, l, e, i, first, cells)
      /\ rem = Len(Stacked(src, j)) + n /\ Len(Stacked(src, j)) \in Nat
  <2>1. Copied(c, src, j + n, l, b, i + n, first, cells) /\ rem = Len(Stacked(src, j + n))
    BY <1>3, <1>6
  <2>2. j + n <= old /\ i + n <= Width(l, first, cells)
    BY <1>6
  <2>3. /\ old \in Nat /\ cells \in Nat /\ first \in 0 .. cells /\ src \in Seq(Cells(old)) /\ src # <<>>
        /\ n \in Nat /\ i \in Nat /\ j \in Nat
    BY <1>1, <1>2, <1>6
  <2>4. /\ Copy(b, i + 1, src[1], j + 1, n) \in Cells(cells)
        /\ Copied(c, src, j, l, Copy(b, i + 1, src[1], j + 1, n), i, first, cells)
        /\ Len(Stacked(src, j + n)) = Len(Stacked(src, j)) + n
        /\ Len(Stacked(src, j)) \in Nat
    <3>. HIDE DEF n, i, j, old, cells, src, space, available
    <3>. QED BY <2>1, <2>2, <2>3, CopyingKeeps
  <2>. QED BY ONLY <2>1, <2>4
<1>8. /\ j = 0 => t = [src |-> Tail(src), available |-> old, dst |-> Append(l, e), space |-> i]
      /\ j # 0 => t = [src |-> src, available |-> j,
                       dst |-> Append(Append(l, e), Block(size)), space |-> cells]
  <2>1. /\ Append(l, b)[Len(Append(l, b))] = b
        /\ [Append(l, b) EXCEPT ![Len(Append(l, b))] = e] = Append(l, e)
    <3>. HIDE DEF e, cells
    <3>. QED BY <1>7, ReplaceLast
  <2>2. r = [src |-> src, available |-> available, dst |-> Append(l, b), space |-> space]
    BY <1>2, <1>3
  <2>. DEFINE u == [src |-> src, available |-> j, dst |-> Append(l, e), space |-> i]
  <2>. DEFINE last == Len(Append(l, b))
              r1 == [src |-> src, available |-> available, dst |-> Append(l, e), space |-> space]
              r2 == [src |-> src, available |-> available, dst |-> Append(l, e), space |-> i]
  <2>3. [r EXCEPT !.dst[Len(r.dst)] = Copy(@, space - n + 1, src[1], available - n + 1, n),
                  !.space = @ - n, !.available = @ - n] = u
    <3>1. [r EXCEPT !.dst[Len(r.dst)] = Copy(@, space - n + 1, src[1], available - n + 1, n)]
            = [r EXCEPT !.dst[last] = e]
      BY <1>3, <2>1
    <3>2. [r EXCEPT !.dst[last] = e] = r1
      <4>1. [r EXCEPT !.dst[last] = e] = [r EXCEPT !.dst = [Append(l, b) EXCEPT ![last] = e]]
        BY <1>3
      <4>. DEFINE f == Append(l, e)
      <4>2. [r EXCEPT !.dst[last] = e] = [r EXCEPT !.dst = f]
        BY <2>1, <4>1
      <4>3. r \in [src : Seq(Cells(old)), available : Nat, dst : Seq(Cells(cells)), space : Nat]
        BY <1>2
      <4>. HIDE DEF f
      <4>4. [r EXCEPT !.dst = f] = [src |-> src, available |-> available, dst |-> f, space |-> space]
        BY ONLY <4>3
      <4>. QED BY <4>2, <4>4 DEF f
    <3>. HIDE DEF e
    <3>3. [r1 EXCEPT !.space = @ - n] = r2 /\ [r2 EXCEPT !.available = @ - n] = u
      <4>1. available \in Nat /\ space \in Nat /\ n \in Nat
        BY <1>2, <1>6
      <4>. DEFINE f == Append(l, e)
      <4>. HIDE DEF src, available, space, n, f
      <4>2. /\ [[src |-> src, available |-> available, dst |-> f, space |-> space]
                  EXCEPT !.space = @ - n]
                = [src |-> src, available |-> available, dst |-> f, space |-> space - n]
            /\ [[src |-> src, available |-> available, dst |-> f, space |-> i]
                  EXCEPT !.available = @ - n]
                = [src |-> src, available |-> available - n, dst |-> f, space |-> i]
        <5>. HIDE DEF i
        <5>. QED BY ONLY <4>1, TurnFields
      <4>. QED BY ONLY <4>2 DEF i, j, f
    <3>5. [r EXCEPT !.dst[Len(r.dst)] = Copy(@, space - n + 1, src[1], available - n + 1, n),
                    !.space = @ - n, !.available = @ - n]
            = [[[r EXCEPT !.dst[Len(r.dst)] = Copy(@, space - n + 1, src[1], available - n + 1, n)]
                  EXCEPT !.space = @ - n] EXCEPT !.available = @ - n]
      OBVIOUS
    <3>. HIDE DEF r1, r2, u, n
    <3>. QED BY <3>1, <3>2, <3>3, <3>5
  <2>4. t = IF u.available = 0
              THEN [u EXCEPT !.src = Tail(@), !.available = oldSize - 1]
              ELSE [u EXCEPT !.dst = Append(@, Block(size)), !.space = size - 1]
    BY <2>3 DEF RecopyTurn
  <2>. HIDE DEF e, i, j
  <2>. QED BY <2>4
<1>. HIDE DEF e, i, j, n, old, cells, w, rem
<1>9. CASE j = 0
  <2>1. /\ Copied(c, Tail(src), old, l, e, i, first, cells)
        /\ Stacked(Tail(src), old) = Stacked(src, 0)
    <3>1. /\ old \in Nat /\ cells \in Nat /\ first \in 0 .. cells /\ i \in Nat
          /\ src \in Seq(Cells(old)) /\ src # <<>>
      BY <1>1, <1>2, <1>6
    <3>2. Copied(c, src, 0, l, e, i, first, cells) /\ e \in Cells(cells)
      BY <1>7, <1>9
    <3>. HIDE DEF src, space, available
    <3>. QED BY ONLY <3>1, <3>2, CopiedBlock
  <2>. DEFINE s == Tail(src)
  <2>2. s \in Seq(Cells(old)) /\ Len(s) = Len(src) - 1 /\ Len(src) \in Nat
    BY <1>2, HeadTailProperties
  <2>3. Append(l, e) \in Seq(Cells(cells))
    BY <1>3, <1>7, AppendProperties
  <2>. HIDE DEF s
  <2>4. t.src = s /\ t.available = old /\ t.dst = Append(l, e) /\ t.space = i
    BY <1>8, <1>9 DEF s
  <2>5. t \in [src : Seq(Cells(old)), available : Nat, dst : Seq(Cells(cells)), space : Nat]
    <3>1. t = [src |-> s, available |-> old, dst |-> Append(l, e), space |-> i]
      BY <1>8, <1>9 DEF s
    <3>2. old \in Nat /\ i \in Nat
      BY <1>1, <1>6
    <3>. QED BY ONLY <2>2, <2>3, <3>1, <3>2
  <2>6. i <= Width(l, first, cells)
    BY <1>6, <1>1 DEF w, Width
  <2>7. Len(Stacked(s, old)) = i + k * cells
    <3>1. Len(Stacked(s, old)) + n = rem
      BY <1>7, <1>9, <2>1 DEF s
    <3>2. k * cells \in Int
      BY <1>1
    <3>3. Len(Stacked(s, old)) \in Nat
      BY <1>7, <1>9, <2>1 DEF s
    <3>. QED BY ONLY <1>2, <1>4, <1>6, <3>1, <3>2, <3>3
  <2>8. Len(s) + Len(Stacked(s, old)) + (IF i = 0 THEN 1 ELSE 0) + (turn + 1) <= turns
    <3>1. Len(Stacked(s, old)) + n = rem /\ Len(Stacked(s, old)) \in Nat
      BY <1>7, <1>9, <2>1 DEF s
    <3>2. /\ Len(src) + rem + (IF space = 0 THEN 1 ELSE 0) + turn <= turns
          /\ i \in Nat /\ n \in Nat /\ i + n = space
      BY <1>5, <1>6
    <3>3. n >= 1 \/ (i = 0 => space = 0)
      <4>. HIDE DEF space
      <4>. QED BY ONLY <3>2
    <3>. HIDE DEF space, src, available
    <3>. QED BY ONLY <2>2, <3>1, <3>2, <3>3, turn \in Nat, turns \in Nat
  <2>9. Copied(c, s, old, l, e, i, first, cells)
    BY <2>1 DEF s
  <2>10. \E m \in Int : Len(Stacked(s, old)) = i + m * cells
    BY <1>4, <2>7
  <2>11. \E m \in Seq(Cells(cells)), a \in Cells(cells) :
           /\ t.dst = Append(m, a) /\ t.space <= Width(m, first, cells)
           /\ Copied(c, t.src, t.available, m, a, t.space, first, cells)
    BY <1>3, <1>7, <2>4, <2>6, <2>9
  <2>12. Recopying(t, c, old, cells, first, turn + 1, turns)
    <3>1. old <= old /\ (i = cells => FALSE)
      BY <1>1, <1>6
    <3>. QED BY ONLY <2>4, <2>5, <2>8, <2>10, <2>11, <3>1 DEF Recopying
  <2>. QED BY <2>12 DEF old, cells
<1>10. CASE j # 0
  <2>. DEFINE a == Block(size)
              m == Append(l, e)
  <2>1. i = 0 /\ n = space /\ j > 0 /\ j <= old
    <3>1. old \in Nat /\ space \in Nat /\ n \in Nat /\ i \in Nat /\ j \in Nat
      BY <1>1, <1>2, <1>6
    <3>2. i + n = space /\ j + n <= old /\ (i = 0 \/ j = 0)
      BY <1>6
    <3>. HIDE DEF space
    <3>. QED BY ONLY <1>10, <3>1, <3>2
  <2>2. a \in Cells(cells)
    BY BlockTyped DEF Cells, cells
  <2>. HIDE DEF a, m
  <2>3. Copied(c, src, j, l, e, 0, first, cells)
    BY <1>7, <2>1
  <2>4. /\ m \in Seq(Cells(cells)) /\ Width(m, first, cells) = cells
        /\ Copied(c, src, j, m, a, cells, first, cells)
    BY <1>1, <1>3, <1>7, <2>2, <2>3, FilledBlock DEF m
  <2>5. t.src = src /\ t.available = j /\ t.dst = Append(m, a) /\ t.space = cells
    BY <1>8, <1>10 DEF m, a
  <2>6. Append(m, a) \in Seq(Cells(cells))
    BY <2>2, <2>4, AppendProperties
  <2>7. t \in [src : Seq(Cells(old)), available : Nat, dst : Seq(Cells(cells)), space : Nat]
    <3>1. t = [src |-> src, available |-> j, dst |-> Append(m, a), space |-> cells]
      BY <1>8, <1>10 DEF m, a
    <3>2. src \in Seq(Cells(old)) /\ j \in Nat /\ cells \in Nat
      BY <1>1, <1>2, <1>6
    <3>. QED BY ONLY <2>6, <3>1, <3>2
  <2>8. \E o \in Seq(Cells(cells)), x \in Cells(cells) :
          /\ t.dst = Append(o, x) /\ t.space <= Width(o, first, cells)
          /\ Copied(c, t.src, t.available, o, x, t.space, first, cells)
    <3>1. cells <= Width(m, first, cells)
      BY <1>1, <2>4
    <3>. QED BY <2>2, <2>4, <2>5, <3>1
  <2>9. Len(Stacked(src, j)) = cells + (k - 1) * cells
    <3>1. k * cells \in Int /\ (k - 1) * cells = k * cells - cells
      BY <1>1
    <3>. QED BY <1>1, <1>2, <1>4, <1>7, <2>1, <3>1
  <2>10. \E o \in Int : Len(Stacked(src, j)) = cells + o * cells
    BY <2>9
  <2>11. Len(src) + Len(Stacked(src, j)) + (IF cells = 0 THEN 1 ELSE 0) + (turn + 1) <= turns
    <3>1. Len(src) \in Nat
      BY <1>2
    <3>2. Len(Stacked(src, j)) + space = rem
      BY <1>7, <2>1
    <3>3. /\ Len(src) + rem + (IF space = 0 THEN 1 ELSE 0) + turn <= turns
          /\ space \in Nat /\ Len(Stacked(src, j)) \in Nat /\ cells # 0
      BY <1>1, <1>2, <1>5, <1>7
    <3>4. 1 <= space + (IF space = 0 THEN 1 ELSE 0)
      BY <3>3
    <3>. HIDE DEF space, src
    <3>. QED BY ONLY <3>1, <3>2, <3>3, <3>4, turn \in Nat, turns \in Nat
  <2>12. Recopying(t, c, old, cells, first, turn + 1, turns)
    BY <2>1, <2>5, <2>7, <2>8, <2>10, <2>11 DEF Recopying
  <2>. QED BY <2>12 DEF old, cells
<1>. QED BY <1>9, <1>10

\* The function of the loop exists.
Turns(r, turns, oldSize, newSize, f) ==
  f = [turn \in 0 .. turns |->
         IF turn = 0 THEN r
         ELSE IF f[turn - 1].src = <<>> THEN f[turn - 1]
         ELSE RecopyTurn(f[turn - 1], oldSize, newSize)]

LEMMA TurnsExist ==
  ASSUME NEW r, NEW oldSize, NEW newSize, NEW turns \in Nat
  PROVE  \E f : Turns(r, turns, oldSize, newSize, f)
<1>. DEFINE P == {m \in Nat : \E f : Turns(r, m, oldSize, newSize, f)}
<1>1. 0 \in P
  <2>. DEFINE f == [k \in 0 .. 0 |-> r]
  <2>1. Turns(r, 0, oldSize, newSize, f)
    BY DEF Turns
  <2>. QED BY <2>1
<1>2. ASSUME NEW m \in Nat, m \in P PROVE m + 1 \in P
  <2>1. PICK f : Turns(r, m, oldSize, newSize, f)
    BY <1>2
  <2>. DEFINE Turn(k, h) == IF k = 0 THEN r
                            ELSE IF h[k - 1].src = <<>> THEN h[k - 1]
                            ELSE RecopyTurn(h[k - 1], oldSize, newSize)
              g == [k \in 0 .. m + 1 |-> IF k <= m THEN f[k] ELSE Turn(k, f)]
  <2>2. \A k \in 0 .. m : f[k] = Turn(k, f)
    BY <2>1 DEF Turns
  <2>3. \A k \in 0 .. m : g[k] = f[k]
    OBVIOUS
  <2>4. ASSUME NEW k \in 0 .. m + 1 PROVE g[k] = Turn(k, g)
    <3>1. CASE k = 0
      BY <3>1, <2>2
    <3>2. CASE k # 0
      <4>1. k - 1 \in 0 .. m
        BY <3>2
      <4>2. g[k - 1] = f[k - 1] /\ g[k] = Turn(k, f)
        BY <4>1, <2>2, <2>3
      <4>. HIDE DEF g
      <4>. QED BY <3>2, <4>2
    <3>. QED BY <3>1, <3>2
  <2>5. Turns(r, m + 1, oldSize, newSize, g)
    BY <2>4 DEF Turns
  <2>. QED BY <2>5
<1>. HIDE DEF P
<1>3. Nat \subseteq P
  BY <1>1, <1>2, NaturalsInSet
<1>. QED BY <1>3 DEF P

\* As many turns as there are blocks and pointers, and one, are enough.
LEMMA RecopiedStack ==
  ASSUME NEW c, NEW oldSize \in Nat, oldSize >= 3, NEW size \in Nat, size >= 3,
         NEW first \in 0 .. size - 1, first # size - 1, NEW turns \in Nat,
         NEW r, Recopying(r, c, oldSize - 1, size - 1, first, 0, turns),
         NEW d, d = Recopied(r, turns, oldSize, size)
  PROVE  /\ d \in Seq(Cells(size - 1)) /\ d # <<>> /\ Stacked(d, first) = c
<1>. DEFINE Holds(h, k) == Recopying(h, c, oldSize - 1, size - 1, first, k, turns)
<1>1. \E f : Turns(r, turns, oldSize, size, f)
  BY TurnsExist
<1>2. PICK f : Turns(r, turns, oldSize, size, f) /\ d = f[turns].dst
  <2>1. Turns(r, turns, oldSize, size, CHOOSE f : Turns(r, turns, oldSize, size, f))
    BY <1>1
  <2>. QED BY <2>1 DEF Turns, Recopied
<1>. DEFINE P == {k \in Nat : k <= turns => Holds(f[k], k)}
<1>3. 0 \in P
  BY <1>2 DEF Turns
<1>4. ASSUME NEW k \in Nat, k \in P PROVE k + 1 \in P
  <2>. SUFFICES ASSUME k + 1 <= turns PROVE Holds(f[k + 1], k + 1)
    OBVIOUS
  <2>1. Holds(f[k], k)
    BY <1>4
  <2>2. f[k + 1] = IF f[k].src = <<>> THEN f[k] ELSE RecopyTurn(f[k], oldSize, size)
    <3>1. k + 1 \in 0 .. turns /\ (k + 1) - 1 = k /\ k + 1 # 0
      OBVIOUS
    <3>. QED BY <1>2, <3>1 DEF Turns
  <2>3. CASE f[k].src = <<>>
    BY <2>1, <2>2, <2>3 DEF Recopying
  <2>4. CASE f[k].src # <<>>
    <3>. DEFINE h == f[k]
                t == f[k + 1]
    <3>1. t = RecopyTurn(h, oldSize, size) /\ h.src # <<>>
      BY <2>2, <2>4
    <3>. HIDE DEF h, t
    <3>2. Recopying(h, c, oldSize - 1, size - 1, first, k, turns)
      BY <2>1 DEF h
    <3>3. Recopying(t, c, oldSize - 1, size - 1, first, k + 1, turns)
      BY <3>1, <3>2, RecopyTurnKeeps
    <3>. QED BY <3>3 DEF t
  <2>. QED BY <2>3, <2>4
<1>. HIDE DEF P
<1>5. Nat \subseteq P
  BY <1>3, <1>4, NaturalsInSet
<1>. DEFINE h == f[turns]
            cells == size - 1
            old == oldSize - 1
<1>6. Recopying(h, c, old, cells, first, turns, turns)
  BY <1>5 DEF P
<1>. HIDE DEF h
<1>7. cells \in Nat /\ cells >= 2 /\ old \in Nat /\ first \in 0 .. cells /\ first # cells
  OBVIOUS
<1>. HIDE DEF cells, old
<1>8. /\ h \in [src : Seq(Cells(old)), available : Nat, dst : Seq(Cells(cells)), space : Nat]
      /\ h.available <= old /\ (h.space = cells => h.src # <<>>)
  BY <1>6 DEF Recopying
<1>9. PICK l \in Seq(Cells(cells)), b \in Cells(cells) :
        /\ h.dst = Append(l, b) /\ h.space <= Width(l, first, cells)
        /\ Copied(c, h.src, h.available, l, b, h.space, first, cells)
  BY <1>6 DEF Recopying
<1>10. PICK k \in Int : Len(Stacked(h.src, h.available)) = h.space + k * cells
  BY <1>6 DEF Recopying
<1>11. h.src = <<>>
  <2>. SUFFICES ASSUME h.src # <<>> PROVE FALSE
    OBVIOUS
  <2>1. Len(h.src) + Len(Stacked(h.src, h.available)) + (IF h.space = 0 THEN 1 ELSE 0) + turns <= turns
    BY <1>6 DEF Recopying
  <2>2. Len(h.src) \in Nat /\ Len(h.src) # 0
    BY <1>8, EmptySeq
  <2>3. Len(Stacked(h.src, h.available)) \in Nat
    <3>1. h.src \in Seq(Seq(Nat)) /\ h.src[1] \in Cells(old)
      BY <1>8, CellsTyped
    <3>2. h.available \in 0 .. Len(h.src[1])
      BY <1>7, <1>8, <3>1 DEF Cells
    <3>3. Stacked(h.src, h.available) \in Seq(Nat)
      BY <3>1, <3>2, StackedFirst
    <3>. QED BY <3>3
  <2>. DEFINE n == Len(h.src)
              m == Len(Stacked(h.src, h.available))
              o == IF h.space = 0 THEN 1 ELSE 0
  <2>4. n \in Nat /\ n # 0 /\ m \in Nat /\ o \in Nat /\ n + m + o + turns <= turns
    BY <2>1, <2>2, <2>3
  <2>. HIDE DEF n, m, o
  <2>. QED BY ONLY <2>4, turns \in Nat
<1>12. h.space = 0
  <2>1. Len(Stacked(h.src, h.available)) = 0
    BY <1>11, StackedEmpty
  <2>2. 0 = h.space + k * cells /\ h.space \in Nat /\ h.space # cells
    BY <1>8, <1>10, <1>11, <2>1
  <2>3. h.space <= cells
    BY <1>7, <1>8, <1>9 DEF Width
  <2>. DEFINE s == h.space
  <2>. HIDE DEF s
  <2>4. s \in Nat /\ s < cells /\ 0 = s + k * cells
    BY <1>7, <2>2, <2>3 DEF s
  <2>5. k >= 1 => k * cells >= cells
    BY <1>7
  <2>6. k <= -1 => k * cells <= -cells
    BY <1>7
  <2>7. k * cells \in Int /\ (k = 0 => k * cells = 0)
    BY <1>7
  <2>8. s = 0
    BY <1>7, <2>4, <2>5, <2>6, <2>7
  <2>. QED BY <2>8 DEF s
<1>13. /\ Stacked(Append(l, b), first) = SubSeq(b, 1, Width(l, first, cells)) \o Stacked(l, first)
       /\ Append(l, b) \in Seq(Cells(cells)) /\ Stacked(l, first) \in Seq(Nat)
  BY <1>7, LastBlock
<1>14. c = SubSeq(b, 1, Width(l, first, cells)) \o Stacked(l, first)
  <2>. DEFINE x == SubSeq(b, 1, Width(l, first, cells)) \o Stacked(l, first)
  <2>1. c = <<>> \o x
    <3>1. c = Stacked(h.src, h.available) \o
                (SubSeq(b, h.space + 1, Width(l, first, cells)) \o Stacked(l, first))
      BY <1>9 DEF Copied
    <3>2. h.space + 1 = 1
      BY <1>12
    <3>3. Stacked(h.src, h.available) = <<>>
      BY <1>11, StackedEmpty
    <3>. QED BY <3>1, <3>2, <3>3
  <2>2. x \in Seq(Nat)
    <3>1. b \in Seq(Nat) /\ Len(b) = cells /\ Width(l, first, cells) \in 0 .. cells
      BY <1>7 DEF Cells, Width
    <3>2. SubSeq(b, 1, Width(l, first, cells)) \in Seq(Nat)
      BY <3>1, SubSeqStart
    <3>. QED BY <1>13, <3>2, ConcatProperties
  <2>. HIDE DEF x
  <2>3. c = x
    BY <2>1, <2>2, ConcatEmptySeq
  <2>. QED BY <2>3 DEF x
<1>15. d = Append(l, b)
  BY <1>2, <1>9 DEF h
<1>16. d # <<>>
  <2>1. Len(Append(l, b)) = Len(l) + 1 /\ Len(l) \in Nat
    BY AppendProperties
  <2>. DEFINE m == Append(l, b)
  <2>2. Len(m) # 0
    BY <2>1
  <2>. HIDE DEF m
  <2>3. m # <<>>
    BY <2>2
  <2>. QED BY <1>15, <2>3 DEF m
<1>. QED BY <1>13, <1>14, <1>15, <1>16 DEF cells

LEMMA Remainder ==
  ASSUME NEW m \in Nat, NEW n \in Nat, n > 0
  PROVE  m % n \in Nat /\ m % n < n /\ \E k \in Int : m = (m % n) + k * n
<1>1. m % n \in Nat /\ m % n < n /\ m \div n \in Int
  OBVIOUS
<1>2. m = (m % n) + (m \div n) * n
  OBVIOUS
<1>. QED BY <1>1, <1>2

\* resize_pool: the same pointers in blocks of another size.
LEMMA ResizedKeeps ==
  ASSUME NEW p, PoolOK(p), p.debounce = <<>>, NEW size \in Nat, size >= Debounce + 2,
         NEW q, q = Resized(p, size)
  PROVE  /\ PoolOK(q) /\ Contents(q) = Contents(p) /\ q.ptrs # <<>> /\ q.debounce = <<>>
         /\ q.block_size = size /\ q.allocator = p.allocator /\ q.depth = p.depth
<1>. DEFINE cells == size - 1
            old == p.block_size - 1
            first == p.depth % cells
            c == Contents(p)
            r == [src |-> p.ptrs, available |-> p.offset - 1, dst |-> <<Block(size)>>, space |-> first]
            turns == Len(p.ptrs) + p.depth + 1
            d == Recopied(r, turns, p.block_size, size)
            b == Block(size)
<1>1. /\ p.block_size \in Nat /\ p.block_size >= 3 /\ p.offset \in Nat /\ p.offset - 1 \in Nat
      /\ p.offset <= p.block_size /\ p.ptrs \in Seq(Cells(old)) /\ Len(p.ptrs) \in Nat
      /\ p.depth \in Nat /\ p.allocator \in Allocators /\ Debounce \in Nat \ {0}
  BY Sizes DEF PoolOK
<1>2. size >= 3 /\ cells \in Nat /\ cells > 0 /\ old \in Nat /\ p.offset - 1 <= old
  BY <1>1
<1>3. first \in Nat /\ first < cells /\ \E k \in Int : p.depth = first + k * cells
  <2>. HIDE DEF cells
  <2>. QED BY <1>1, <1>2, Remainder
<1>4. c \in Seq(Nat) /\ c = Stacked(p.ptrs, p.offset - 1) /\ Len(c) = p.depth
  BY ContentsTyped DEF PoolOK
<1>5. b \in Cells(cells)
  BY <1>2, BlockTyped DEF Cells
<1>6. Copied(c, p.ptrs, p.offset - 1, <<>>, b, first, first, cells)
  <2>1. SubSeq(b, first + 1, first) = <<>>
    BY <1>3, SubSeqEmpty
  <2>2. Stacked(<<>>, first) = <<>>
    BY StackedEmpty
  <2>3. c \o (<<>> \o <<>>) = c
    BY <1>4, ConcatEmptySeq
  <2>. HIDE DEF first, b, cells, c
  <2>. QED BY <1>4, <2>1, <2>2, <2>3 DEF Copied, Width
<1>. HIDE DEF first, b, cells, c, old, turns
<1>7. Recopying(r, c, old, cells, first, 0, turns)
  <2>1. r \in [src : Seq(Cells(old)), available : Nat, dst : Seq(Cells(cells)), space : Nat]
    <3>1. <<b>> \in Seq(Cells(cells))
      BY <1>5
    <3>. QED BY <1>1, <1>3, <3>1 DEF b
  <2>2. \E l \in Seq(Cells(cells)), a \in Cells(cells) :
           /\ r.dst = Append(l, a) /\ r.space <= Width(l, first, cells)
           /\ Copied(c, r.src, r.available, l, a, r.space, first, cells)
    <3>1. <<>> \in Seq(Cells(cells)) /\ <<b>> = Append(<<>>, b)
      OBVIOUS
    <3>2. first <= Width(<<>>, first, cells)
      BY <1>3 DEF Width
    <3>3. r.dst = Append(<<>>, b) /\ r.space = first /\ r.src = p.ptrs /\ r.available = p.offset - 1
      BY <3>1 DEF b
    <3>. HIDE DEF r
    <3>. QED BY <1>5, <1>6, <3>1, <3>2, <3>3
  <2>3. Len(Stacked(r.src, r.available)) = p.depth
    BY <1>4
  <2>4. first # cells
    BY <1>2, <1>3
  <2>5. Len(p.ptrs) + p.depth + (IF first = 0 THEN 1 ELSE 0) + 0 <= turns
    BY <1>1 DEF turns
  <2>6. r.space = first /\ r.src = p.ptrs /\ r.available = p.offset - 1
    OBVIOUS
  <2>. HIDE DEF r
  <2>7. r.available <= old
    BY <1>2, <2>6
  <2>8. \E k \in Int : Len(Stacked(r.src, r.available)) = r.space + k * cells
    BY <1>3, <2>3, <2>6
  <2>. QED BY ONLY <2>1, <2>2, <2>3, <2>4, <2>5, <2>6, <2>7, <2>8 DEF Recopying
<1>. HIDE DEF r, d
<1>8. d \in Seq(Cells(cells)) /\ d # <<>> /\ Stacked(d, first) = c
  <2>1. /\ p.block_size \in Nat /\ p.block_size >= 3 /\ size >= 3 /\ first \in 0 .. size - 1
        /\ first # size - 1 /\ turns \in Nat
    <3>1. size >= 3 /\ first \in Nat /\ first < size - 1
      BY <1>2, <1>3 DEF cells
    <3>2. first \in 0 .. size - 1 /\ first # size - 1
      BY ONLY <3>1, size \in Nat
    <3>3. turns \in Nat
      BY <1>1 DEF turns
    <3>. QED BY <1>1, <3>1, <3>2, <3>3
  <2>2. Recopying(r, c, p.block_size - 1, size - 1, first, 0, turns)
    BY <1>7 DEF old, cells
  <2>3. d \in Seq(Cells(size - 1)) /\ d # <<>> /\ Stacked(d, first) = c
    BY <2>1, <2>2, RecopiedStack DEF d
  <2>. QED BY <2>3 DEF cells
<1>9. q = [NewPool(p.allocator, size) EXCEPT !.ptrs = d, !.offset = first + 1, !.depth = p.depth]
  BY DEF Resized, d, turns, r, first, cells
<1>10. /\ q.ptrs = d /\ q.offset = first + 1 /\ q.depth = p.depth /\ q.debounce = <<>>
       /\ q.block_size = size /\ q.allocator = p.allocator
  <2>1. Max2(size, Debounce + 2) = size
    BY <1>1 DEF Max2
  <2>. QED BY <1>9, <2>1 DEF NewPool
<1>11. q \in Pool
  <2>1. NewPool(p.allocator, size) \in Pool
    <3>1. Max2(size, Debounce + 2) = size
      BY <1>1 DEF Max2
    <3>. QED BY <1>1, <3>1 DEF NewPool, Pool
  <2>2. d \in Seq(Seq(Nat)) /\ first + 1 \in Nat
    <3>1. d \in Seq(Seq(Nat))
      BY <1>8, CellsTyped
    <3>. QED BY <1>3, <3>1
  <2>. QED BY <1>1, <1>9, <2>1, <2>2 DEF Pool
<1>12. Shape(q)
  <2>1. q.offset \in 1 .. q.block_size /\ q.block_size >= Debounce + 2 /\ Len(q.debounce) <= Debounce
    BY <1>1, <1>3, <1>10 DEF cells
  <2>. QED BY <1>8, <1>10, <1>11, <2>1 DEF Shape, cells
<1>13. Contents(q) = c
  <2>1. Contents(q) = Stacked(q.ptrs, q.offset - 1)
    BY <1>10, <1>12, ContentsTyped
  <2>2. q.offset - 1 = first
    BY <1>3, <1>10
  <2>. QED BY <1>8, <1>10, <2>1, <2>2
<1>14. PoolOK(q)
  BY <1>4, <1>10, <1>12, <1>13 DEF PoolOK
<1>. QED BY <1>8, <1>10, <1>13, <1>14 DEF c

-----------------------------------------------------------------------------
(* The pointers of a sequence, and their number.                            *)
Distinct(s) == \A i, j \in DOMAIN s : s[i] = s[j] => i = j

LEMMA ConcatElements ==
  ASSUME NEW f \in Seq(Nat), NEW g \in Seq(Nat)
  PROVE  /\ ToSet(f \o g) = ToSet(f) \cup ToSet(g)
         /\ Distinct(f \o g) <=> Distinct(f) /\ Distinct(g) /\ ToSet(f) \cap ToSet(g) = {}
<1>. DEFINE m == Len(f)
            n == Len(g)
            c == f \o g
<1>1. /\ m \in Nat /\ n \in Nat /\ DOMAIN f = 1 .. m /\ DOMAIN g = 1 .. n
      /\ c \in Seq(Nat) /\ DOMAIN c = 1 .. m + n
      /\ \A i \in 1 .. m + n : c[i] = IF i <= m THEN f[i] ELSE g[i - m]
  <2>1. c \in Seq(Nat) /\ Len(c) = m + n
        /\ \A i \in 1 .. m + n : c[i] = IF i <= m THEN f[i] ELSE g[i - m]
    BY ConcatProperties
  <2>. HIDE DEF c
  <2>. QED BY <2>1
<1>. HIDE DEF c
<1>2. ASSUME NEW i \in 1 .. m PROVE i \in 1 .. m + n /\ c[i] = f[i]
  <2>1. i \in 1 .. m + n /\ i <= m
    BY <1>1
  <2>. QED BY <1>1, <2>1
<1>3. ASSUME NEW i \in 1 .. n PROVE m + i \in 1 .. m + n /\ c[m + i] = g[i]
  <2>1. m + i \in 1 .. m + n /\ ~(m + i <= m) /\ (m + i) - m = i
    BY <1>1
  <2>. QED BY <1>1, <2>1
<1>4. ASSUME NEW i \in 1 .. m + n
      PROVE  i \in 1 .. m \/ \E j \in 1 .. n : i = m + j
  <2>1. CASE i <= m
    BY <1>1, <2>1
  <2>2. CASE ~(i <= m)
    <3>1. i - m \in 1 .. n /\ i = m + (i - m)
      BY <1>1, <2>2
    <3>. QED BY <3>1
  <2>. QED BY <2>1, <2>2
<1>. HIDE DEF m, n
<1>5. ToSet(c) = ToSet(f) \cup ToSet(g)
  <2>1. ASSUME NEW x \in ToSet(c) PROVE x \in ToSet(f) \cup ToSet(g)
    <3>1. PICK i \in 1 .. m + n : x = c[i]
      BY <1>1 DEF ToSet
    <3>2. CASE i \in 1 .. m
      BY <1>1, <1>2, <3>1, <3>2 DEF ToSet
    <3>3. CASE i \notin 1 .. m
      <4>1. PICK j \in 1 .. n : i = m + j
        BY <1>4, <3>3
      <4>2. x = g[j]
        BY <1>3, <3>1, <4>1
      <4>. QED BY <1>1, <4>2 DEF ToSet
    <3>. QED BY <3>2, <3>3
  <2>2. ASSUME NEW x \in ToSet(f) PROVE x \in ToSet(c)
    BY <1>1, <1>2 DEF ToSet
  <2>3. ASSUME NEW x \in ToSet(g) PROVE x \in ToSet(c)
    <3>1. PICK i \in 1 .. n : x = g[i]
      BY <1>1 DEF ToSet
    <3>2. PICK j \in 1 .. m + n : x = c[j]
      BY <1>3, <3>1
    <3>. QED BY <1>1, <3>2 DEF ToSet
  <2>. QED BY <2>1, <2>2, <2>3
<1>6. ASSUME Distinct(c) PROVE Distinct(f) /\ Distinct(g) /\ ToSet(f) \cap ToSet(g) = {}
  <2>1. Distinct(f)
    BY <1>1, <1>2, <1>6 DEF Distinct
  <2>2. ASSUME NEW i \in 1 .. n, NEW j \in 1 .. n, g[i] = g[j] PROVE i = j
    <3>1. m + i = m + j
      BY <1>1, <1>3, <1>6, <2>2 DEF Distinct
    <3>. QED BY <1>1, <3>1
  <2>3. ASSUME NEW i \in 1 .. m, NEW j \in 1 .. n, f[i] = g[j] PROVE FALSE
    <3>1. i = m + j
      BY <1>1, <1>2, <1>3, <1>6, <2>3 DEF Distinct
    <3>. QED BY <1>1, <3>1
  <2>. QED BY <1>1, <2>1, <2>2, <2>3 DEF Distinct, ToSet
<1>7. ASSUME Distinct(f), Distinct(g), ToSet(f) \cap ToSet(g) = {} PROVE Distinct(c)
  <2>. SUFFICES ASSUME NEW i \in 1 .. m + n, NEW j \in 1 .. m + n, c[i] = c[j] PROVE i = j
    BY <1>1 DEF Distinct
  <2>1. \A k \in 1 .. m, l \in 1 .. n : f[k] # g[l]
    BY <1>1, <1>7 DEF ToSet
  <2>2. CASE i \in 1 .. m
    <3>1. j \in 1 .. m
      BY <1>2, <1>3, <1>4, <2>1, <2>2
    <3>. QED BY <1>1, <1>2, <1>7, <2>2, <3>1 DEF Distinct
  <2>3. CASE i \notin 1 .. m
    <3>1. PICK k \in 1 .. n : i = m + k
      BY <1>4, <2>3
    <3>2. j \notin 1 .. m
      BY <1>2, <1>3, <2>1, <3>1
    <3>3. PICK l \in 1 .. n : j = m + l
      BY <1>4, <3>2
    <3>4. g[k] = g[l]
      BY <1>3, <3>1, <3>3
    <3>. QED BY <1>1, <1>7, <3>1, <3>3, <3>4 DEF Distinct
  <2>. QED BY <2>2, <2>3
<1>. QED BY <1>5, <1>6, <1>7 DEF c

LEMMA EmptyElements == ToSet(<<>>) = {} /\ Distinct(<<>>)
  BY DEF ToSet, Distinct

LEMMA AppendElements ==
  ASSUME NEW s \in Seq(Nat), NEW x \in Nat
  PROVE  /\ ToSet(Append(s, x)) = ToSet(s) \cup {x}
         /\ Distinct(Append(s, x)) <=> Distinct(s) /\ x \notin ToSet(s)
<1>1. Append(s, x) = s \o <<x>> /\ <<x>> \in Seq(Nat)
  BY AppendIsConcat
<1>2. DOMAIN <<x>> = {1} /\ <<x>>[1] = x
  OBVIOUS
<1>3. ToSet(<<x>>) = {x} /\ Distinct(<<x>>)
  BY <1>2 DEF ToSet, Distinct
<1>. DEFINE g == <<x>>
<1>4. g \in Seq(Nat) /\ Append(s, x) = s \o g /\ ToSet(g) = {x} /\ Distinct(g)
  BY <1>1, <1>3
<1>. HIDE DEF g
<1>5. /\ ToSet(s \o g) = ToSet(s) \cup ToSet(g)
      /\ Distinct(s \o g) <=> Distinct(s) /\ Distinct(g) /\ ToSet(s) \cap ToSet(g) = {}
  BY <1>4, ConcatElements
<1>6. ToSet(s) \cap {x} = {} <=> x \notin ToSet(s)
  OBVIOUS
<1>. QED BY <1>4, <1>5, <1>6

\* How often each of distinct pointers occurs.
LEMMA OccursOnce ==
  ASSUME NEW s \in Seq(Nat), Distinct(s), NEW x
  PROVE  Cardinality({n \in DOMAIN s : s[n] = x}) = IF x \in ToSet(s) THEN 1 ELSE 0
<1>1. CASE x \in ToSet(s)
  <2>1. PICK i \in DOMAIN s : s[i] = x
    BY <1>1 DEF ToSet
  <2>2. {n \in DOMAIN s : s[n] = x} = {i}
    BY <2>1 DEF Distinct
  <2>. QED BY <1>1, <2>2, FS_Singleton
<1>2. CASE x \notin ToSet(s)
  <2>1. {n \in DOMAIN s : s[n] = x} = {}
    BY <1>2 DEF ToSet
  <2>. QED BY <1>2, <2>1, FS_EmptySet
<1>. QED BY <1>1, <1>2

-----------------------------------------------------------------------------
(* Draining pointers: the newest are taken off.                             *)
LEMMA DropBlock ==
  ASSUME NEW p, Shape(p), p.debounce = <<>>, p.ptrs # <<>>,
         NEW r, r = [p EXCEPT !.ptrs = Tail(p.ptrs), !.offset = p.block_size]
  PROVE  /\ Shape(r) /\ r.debounce = <<>> /\ r.ptrs = Tail(p.ptrs)
         /\ Len(p.ptrs) \in Nat /\ Len(r.ptrs) = Len(p.ptrs) - 1
         /\ SubSeq(p.ptrs[1], 1, p.offset - 1) \in Seq(Nat)
         /\ Len(SubSeq(p.ptrs[1], 1, p.offset - 1)) = p.offset - 1
         /\ Contents(p) = Contents(r) \o SubSeq(p.ptrs[1], 1, p.offset - 1)
<1>1. /\ p.block_size \in Nat /\ p.block_size - 1 \in Nat /\ p.offset - 1 \in Nat /\ p.offset \in Nat
      /\ p.offset >= 1 /\ p.offset <= p.block_size /\ p.ptrs \in Seq(Seq(Nat))
      /\ Tail(p.ptrs) \in Seq(Seq(Nat)) /\ Tail(p.ptrs) \in Seq(Cells(p.block_size - 1))
      /\ p.ptrs[1] \in Seq(Nat) /\ Len(p.ptrs[1]) = p.block_size - 1 /\ p.block_size >= 3
  BY Sizes
<1>2. /\ r.ptrs = Tail(p.ptrs) /\ r.offset = p.block_size /\ r.debounce = <<>>
      /\ r.block_size = p.block_size
  BY DEF Shape, Pool
<1>3. Shape(r)
  <2>1. r \in Pool
    BY <1>1 DEF Shape, Pool
  <2>2. p.block_size \in 1 .. p.block_size
    BY <1>1
  <2>. QED BY <1>1, <1>2, <2>1, <2>2 DEF Shape
<1>4. Len(p.ptrs) \in Nat /\ Len(Tail(p.ptrs)) = Len(p.ptrs) - 1
  BY <1>1, HeadTailProperties
<1>5. Contents(p) = Whole(Tail(p.ptrs)) \o SubSeq(p.ptrs[1], 1, p.offset - 1)
  BY ContentsTyped
<1>6. Contents(r) = Whole(Tail(p.ptrs))
  <2>1. Contents(r) = Stacked(Tail(p.ptrs), p.block_size - 1)
    BY <1>2, <1>3, ContentsTyped
  <2>2. Tail(p.ptrs) # <<>> => Len(Tail(p.ptrs)[1]) = p.block_size - 1
    BY <1>1, CellsTyped DEF Cells
  <2>. QED BY <1>1, <2>1, <2>2, StackedFull
<1>7. /\ SubSeq(p.ptrs[1], 1, p.offset - 1) \in Seq(Nat)
      /\ Len(SubSeq(p.ptrs[1], 1, p.offset - 1)) = p.offset - 1
  <2>1. p.offset - 1 \in 0 .. Len(p.ptrs[1])
    BY <1>1
  <2>. QED BY <1>1, <2>1, SubSeqStart
<1>. QED BY <1>2, <1>3, <1>4, <1>5, <1>6, <1>7

Newest(p, n) == SubSeq(p.ptrs[1], p.offset - n, p.offset - 1)
CellsDropped(p, n, m) == [p EXCEPT !.offset = p.offset - n, !.depth = m]

LEMMA DropCells ==
  ASSUME NEW p, Shape(p), p.debounce = <<>>, p.ptrs # <<>>, NEW n \in Nat, n <= p.offset - 1,
         NEW m \in Nat, NEW r, r = CellsDropped(p, n, m)
  PROVE  /\ Shape(r) /\ r.depth = m
         /\ Newest(p, n) \in Seq(Nat) /\ Len(Newest(p, n)) = n
         /\ Contents(p) = Contents(r) \o Newest(p, n)
<1>. DEFINE top == p.ptrs[1]
            rest == Whole(Tail(p.ptrs))
<1>1. /\ p.block_size \in Nat /\ p.offset \in Nat /\ p.offset <= p.block_size
      /\ top \in Seq(Nat) /\ Len(top) = p.block_size - 1 /\ p.offset >= 1
      /\ Tail(p.ptrs) \in Seq(Seq(Nat)) /\ p.ptrs \in Seq(Cells(p.block_size - 1))
  BY Sizes
<1>2. PICK k \in Nat : k = p.offset - 1 - n
  BY <1>1
<1>3. k + n <= Len(top) /\ p.offset - n = k + 1 /\ p.offset - 1 = k + n /\ k + 1 <= p.block_size
  <2>. DEFINE l == Len(top)
  <2>1. /\ p.block_size \in Nat /\ p.offset \in Nat /\ p.offset <= p.block_size
        /\ l = p.block_size - 1 /\ k = p.offset - 1 - n
    BY <1>1, <1>2
  <2>. HIDE DEF l
  <2>. QED BY ONLY <2>1, k \in Nat, n \in Nat DEF l
<1>4. /\ r.ptrs = p.ptrs /\ r.offset = k + 1 /\ r.debounce = <<>> /\ r.depth = m
      /\ r.block_size = p.block_size
  BY <1>3 DEF Shape, Pool, CellsDropped
<1>5. Shape(r)
  <2>1. r \in Pool
    <3>1. p.offset - n \in Nat
      BY <1>3
    <3>. QED BY <3>1 DEF Shape, Pool, CellsDropped
  <2>2. k + 1 \in 1 .. p.block_size
    BY <1>1, <1>3
  <2>. QED BY <1>1, <1>4, <2>1, <2>2 DEF Shape
<1>. HIDE DEF top, rest
<1>6. /\ SubSeq(top, 1, k) \o SubSeq(top, k + 1, k + n) = SubSeq(top, 1, k + n)
      /\ SubSeq(top, 1, k) \in Seq(Nat) /\ SubSeq(top, k + 1, k + n) \in Seq(Nat)
      /\ Len(SubSeq(top, k + 1, k + n)) = n
  <2>1. top \in Seq(Nat) /\ k + n <= Len(top)
    BY <1>1, <1>3
  <2>. QED BY <2>1, SplitAt, SubSeqPart
<1>7. Contents(p) = rest \o SubSeq(top, 1, k + n) /\ rest \in Seq(Nat)
  <2>1. Contents(p) = rest \o SubSeq(top, 1, p.offset - 1)
    BY ContentsTyped DEF rest, top
  <2>2. rest \in Seq(Nat)
    BY <1>1, WholeTyped DEF rest
  <2>. QED BY <1>3, <2>1, <2>2
<1>8. Contents(r) = rest \o SubSeq(top, 1, k)
  <2>1. Contents(r) = Whole(Tail(r.ptrs)) \o SubSeq(r.ptrs[1], 1, r.offset - 1)
    BY <1>4, <1>5, ContentsTyped
  <2>2. r.offset - 1 = k
    BY <1>4
  <2>. QED BY <1>4, <2>1, <2>2 DEF rest, top
<1>9. (rest \o SubSeq(top, 1, k)) \o SubSeq(top, k + 1, k + n)
        = rest \o (SubSeq(top, 1, k) \o SubSeq(top, k + 1, k + n))
  <2>. DEFINE x == SubSeq(top, 1, k)
              y == SubSeq(top, k + 1, k + n)
  <2>1. x \in Seq(Nat) /\ y \in Seq(Nat) /\ rest \in Seq(Nat)
    BY <1>6, <1>7
  <2>. HIDE DEF x, y
  <2>2. (rest \o x) \o y = rest \o (x \o y)
    BY ONLY <2>1, JoinedInOrder
  <2>. QED BY <2>2 DEF x, y
<1>. QED BY <1>3, <1>4, <1>5, <1>6, <1>7, <1>8, <1>9 DEF top, Newest

LEMMA DropDebounced ==
  ASSUME NEW p, Shape(p), NEW n \in Nat, n <= Len(p.debounce),
         NEW r, r = [p EXCEPT !.debounce = SubSeq(p.debounce, 1, Len(p.debounce) - n)]
  PROVE  /\ Shape(r) /\ Len(r.debounce) = Len(p.debounce) - n
         /\ SubSeq(p.debounce, Len(p.debounce) - n + 1, Len(p.debounce)) \in Seq(Nat)
         /\ Len(SubSeq(p.debounce, Len(p.debounce) - n + 1, Len(p.debounce))) = n
         /\ Contents(p) = Contents(r) \o
                            SubSeq(p.debounce, Len(p.debounce) - n + 1, Len(p.debounce))
<1>. DEFINE d == p.debounce
            l == Len(d)
            st == Stacked(p.ptrs, p.offset - 1)
<1>1. d \in Seq(Nat) /\ l \in Nat /\ l <= Debounce /\ Debounce \in Nat
  BY Sizes DEF Shape
<1>2. PICK k \in Nat : k = l - n
  BY <1>1
<1>3. k + n = l /\ l - n = k /\ k <= l
  BY <1>1, <1>2
<1>4. /\ SubSeq(d, 1, k) \o SubSeq(d, k + 1, k + n) = SubSeq(d, 1, k + n)
      /\ SubSeq(d, 1, k) \in Seq(Nat) /\ SubSeq(d, k + 1, k + n) \in Seq(Nat)
      /\ Len(SubSeq(d, k + 1, k + n)) = n /\ Len(SubSeq(d, 1, k)) = k
  <2>. HIDE DEF d
  <2>1. d \in Seq(Nat) /\ k + n <= Len(d) /\ k \in 0 .. Len(d)
    BY <1>1, <1>3
  <2>. QED BY ONLY <2>1, k \in Nat, n \in Nat, SplitAt, SubSeqPart, SubSeqStart
<1>5. SubSeq(d, 1, k + n) = d
  <2>. HIDE DEF d
  <2>. QED BY <1>1, <1>3, SubSeqFull
<1>6. /\ r.ptrs = p.ptrs /\ r.offset = p.offset /\ r.debounce = SubSeq(d, 1, k)
      /\ r.block_size = p.block_size
  BY <1>3 DEF Shape, Pool
<1>7. r \in Pool
  <2>1. SubSeq(d, 1, l - n) \in Seq(Nat)
    BY <1>3, <1>4
  <2>. QED BY <2>1 DEF Shape, Pool
<1>8. Shape(r)
  <2>1. Len(r.debounce) <= Debounce
    BY <1>1, <1>3, <1>4, <1>6
  <2>2. ASSUME r.debounce # <<>> PROVE p.debounce # <<>>
    <3>1. k # 0
      BY <1>6, <2>2, SubSeqEmpty
    <3>. QED BY <1>3, <3>1
  <2>. QED BY <1>6, <1>7, <2>1, <2>2 DEF Shape
<1>9. Contents(p) = st \o d /\ Contents(r) = st \o SubSeq(d, 1, k) /\ st \in Seq(Nat)
  <2>1. st \in Seq(Nat)
    BY ContentsTyped
  <2>. QED BY <1>6, <2>1 DEF Contents
<1>. HIDE DEF st, d
<1>10. (st \o SubSeq(d, 1, k)) \o SubSeq(d, k + 1, k + n) =
         st \o (SubSeq(d, 1, k) \o SubSeq(d, k + 1, k + n))
  <2>. DEFINE x == SubSeq(d, 1, k)
              y == SubSeq(d, k + 1, k + n)
  <2>1. x \in Seq(Nat) /\ y \in Seq(Nat) /\ st \in Seq(Nat)
    BY <1>4, <1>9
  <2>. HIDE DEF x, y
  <2>2. (st \o x) \o y = st \o (x \o y)
    BY ONLY <2>1, JoinedInOrder
  <2>. QED BY <2>2 DEF x, y
<1>11. l - n + 1 = k + 1
  BY <1>3
<1>. QED BY <1>3, <1>4, <1>5, <1>6, <1>8, <1>9, <1>10, <1>11 DEF d

\* The pointers of s in some order.
Rearranges(f, s) ==
  f \in Seq(Nat) /\ ToSet(f) = ToSet(s) /\ (Distinct(s) => Distinct(f))

\* Of the pointers c of a pool, a are in it and the others have been freed.
FreedFrom(c, a, f) == \E rest \in Seq(Nat) : c = a \o rest /\ Rearranges(f, rest)

LEMMA FreedFurther ==
  ASSUME NEW c, NEW f, NEW b \in Seq(Nat), NEW part \in Seq(Nat), FreedFrom(c, b \o part, f)
  PROVE  /\ FreedFrom(c, b, f \o part) /\ Len(b \o part) = Len(b) + Len(part)
         /\ Len(b) \in Nat
<1>1. PICK rest \in Seq(Nat) : c = (b \o part) \o rest /\ Rearranges(f, rest)
  BY DEF FreedFrom
<1>. DEFINE more == part \o rest
<1>2. more \in Seq(Nat) /\ c = b \o more
  <2>1. (b \o part) \o rest = b \o (part \o rest)
    BY ONLY b \in Seq(Nat), part \in Seq(Nat), rest \in Seq(Nat), JoinedInOrder
  <2>2. part \o rest \in Seq(Nat)
    BY ConcatProperties
  <2>. QED BY <1>1, <2>1, <2>2
<1>3. f \in Seq(Nat) /\ ToSet(f) = ToSet(rest) /\ (Distinct(rest) => Distinct(f))
  BY <1>1 DEF Rearranges
<1>4. /\ ToSet(part \o rest) = ToSet(part) \cup ToSet(rest)
      /\ Distinct(part \o rest) <=>
           Distinct(part) /\ Distinct(rest) /\ ToSet(part) \cap ToSet(rest) = {}
      /\ ToSet(f \o part) = ToSet(f) \cup ToSet(part)
      /\ Distinct(f \o part) <=> Distinct(f) /\ Distinct(part) /\ ToSet(f) \cap ToSet(part) = {}
  BY <1>3, ConcatElements
<1>5. f \o part \in Seq(Nat)
  BY <1>3, ConcatProperties
<1>6. ToSet(f \o part) = ToSet(more)
  BY <1>3, <1>4
<1>7. Distinct(more) => Distinct(f \o part)
  BY <1>3, <1>4
<1>. HIDE DEF more
<1>8. Rearranges(f \o part, more)
  BY <1>5, <1>6, <1>7 DEF Rearranges
<1>9. Len(b \o part) = Len(b) + Len(part) /\ Len(b) \in Nat
  BY ConcatProperties
<1>. QED BY <1>2, <1>8, <1>9 DEF FreedFrom

\* The loop of neo4j_mpool_drainto.
Draining(d, c, depth) ==
  /\ Shape(d.p) /\ d.todrain \in Nat /\ depth + d.todrain = Len(Contents(d.p))
  /\ d.p.debounce # <<>> => d.todrain = 0
  /\ FreedFrom(c, Contents(d.p), d.frees)

LEMMA DrainDebounceKeeps ==
  ASSUME NEW p, PoolOK(p), NEW depth \in Nat, depth < p.depth,
         NEW d, d = DrainDebounce(p, depth)
  PROVE  Draining(d, Contents(p), depth) /\ d.p.ptrs = p.ptrs
<1>. DEFINE c == Contents(p)
            l == Len(p.debounce)
            n == Min2(l, p.depth - depth)
            r == [p EXCEPT !.debounce = SubSeq(p.debounce, 1, l - n)]
            part == SubSeq(p.debounce, l - n + 1, l)
<1>1. Shape(p) /\ p.depth = Len(c) /\ c \in Seq(Nat) /\ p.depth \in Nat /\ l \in Nat
  BY Sizes, ContentsTyped DEF PoolOK
<1>. HIDE DEF c
<1>2. n \in Nat /\ n <= l /\ n <= p.depth - depth /\ (n = l \/ n = p.depth - depth)
  BY <1>1 DEF Min2
<1>3. d.p = r /\ d.todrain = p.depth - depth - n /\ d.frees = part
  BY DEF DrainDebounce
<1>. HIDE DEF n, part, r
<1>4. Shape(r) /\ Len(r.debounce) = l - n /\ part \in Seq(Nat) /\ Len(part) = n
      /\ c = Contents(r) \o part
  BY <1>1, <1>2, DropDebounced DEF c, r, part
<1>5. Contents(r) \in Seq(Nat)
  BY <1>4, ContentsTyped
<1>6. FreedFrom(c, c, <<>>)
  <2>1. c = c \o <<>> /\ <<>> \in Seq(Nat)
    BY <1>1, ConcatEmptySeq
  <2>2. Rearranges(<<>>, <<>>)
    BY EmptyElements DEF Rearranges
  <2>. QED BY <2>1, <2>2 DEF FreedFrom
<1>7. /\ FreedFrom(c, Contents(r), <<>> \o part) /\ Len(c) = Len(Contents(r)) + Len(part)
      /\ Len(Contents(r)) \in Nat
  <2>. DEFINE a == Contents(r)
  <2>1. a \in Seq(Nat) /\ part \in Seq(Nat) /\ FreedFrom(c, a \o part, <<>>)
    BY <1>4, <1>5, <1>6
  <2>2. c = a \o part
    BY <1>4
  <2>. HIDE DEF a
  <2>3. /\ FreedFrom(c, a, <<>> \o part) /\ Len(a \o part) = Len(a) + Len(part)
        /\ Len(a) \in Nat
    BY ONLY <2>1, FreedFurther
  <2>. QED BY <2>2, <2>3 DEF a
<1>8. <<>> \o part = part
  BY <1>4, ConcatEmptySeq
<1>9. depth + d.todrain = Len(Contents(r)) /\ d.todrain \in Nat
  BY <1>1, <1>2, <1>3, <1>4, <1>7
<1>10. r.debounce # <<>> => d.todrain = 0
  <2>. SUFFICES ASSUME r.debounce # <<>> PROVE d.todrain = 0
    OBVIOUS
  <2>1. r.debounce \in Seq(Nat)
    BY <1>4, Sizes
  <2>2. Len(r.debounce) # 0
    BY <2>1, EmptySeq
  <2>3. l - n # 0
    BY <1>4, <2>2
  <2>. QED BY <1>1, <1>2, <1>3, <2>3
<1>11. r.ptrs = p.ptrs
  BY <1>1 DEF r, Shape, Pool
<1>12. Draining(d, c, depth)
  BY <1>3, <1>4, <1>7, <1>8, <1>9, <1>10 DEF Draining
<1>. QED BY <1>3, <1>11, <1>12 DEF c

LEMMA DrainBlockKeeps ==
  ASSUME NEW c, NEW depth \in Nat, NEW d, Draining(d, c, depth), HasWholeBlock(d),
         NEW e, e = DrainBlock(d)
  PROVE  /\ Draining(e, c, depth) /\ Len(d.p.ptrs) \in Nat
         /\ Len(e.p.ptrs) = Len(d.p.ptrs) - 1
<1>. DEFINE p == d.p
            o == p.offset
            part == SubSeq(p.ptrs[1], 1, o - 1)
            r == [p EXCEPT !.ptrs = Tail(p.ptrs), !.offset = p.block_size]
<1>1. /\ Shape(p) /\ d.todrain \in Nat /\ depth + d.todrain = Len(Contents(p))
      /\ (p.debounce # <<>> => d.todrain = 0) /\ FreedFrom(c, Contents(p), d.frees)
      /\ p.ptrs # <<>> /\ d.todrain >= o - 1
  BY DEF Draining, HasWholeBlock
<1>. HIDE DEF p
<1>2. o \in Nat /\ o - 1 \in Nat
  BY <1>1, Sizes
<1>3. p.debounce = <<>>
  <2>. SUFFICES ASSUME p.debounce # <<>> PROVE FALSE
    OBVIOUS
  <2>1. o = p.block_size /\ p.block_size >= 3 /\ p.block_size \in Nat
    BY <1>1, Sizes DEF Shape
  <2>2. d.todrain = 0
    BY <1>1
  <2>. QED BY <1>1, <2>1, <2>2
<1>4. /\ Shape(r) /\ r.debounce = <<>> /\ part \in Seq(Nat) /\ Len(part) = o - 1
      /\ Contents(p) = Contents(r) \o part
      /\ Len(p.ptrs) \in Nat /\ Len(r.ptrs) = Len(p.ptrs) - 1
  <2>. HIDE DEF r
  <2>. QED BY <1>1, <1>3, DropBlock DEF r
<1>5. e.p = r /\ e.todrain = d.todrain - (o - 1) /\ e.frees = d.frees \o part
  BY DEF DrainBlock, p
<1>. HIDE DEF r, part
<1>6. Contents(p) \in Seq(Nat) /\ Contents(r) \in Seq(Nat)
  BY <1>1, <1>4, ContentsTyped
<1>7. /\ FreedFrom(c, Contents(r), d.frees \o part)
      /\ Len(Contents(p)) = Len(Contents(r)) + Len(part) /\ Len(Contents(r)) \in Nat
  <2>. DEFINE a == Contents(r)
  <2>1. a \in Seq(Nat) /\ part \in Seq(Nat) /\ FreedFrom(c, a \o part, d.frees)
    BY <1>1, <1>4, <1>6
  <2>2. Contents(p) = a \o part
    BY <1>4
  <2>. HIDE DEF a
  <2>3. /\ FreedFrom(c, a, d.frees \o part) /\ Len(a \o part) = Len(a) + Len(part)
        /\ Len(a) \in Nat
    BY ONLY <2>1, FreedFurther
  <2>. QED BY <2>2, <2>3 DEF a
<1>8. e.todrain \in Nat /\ depth + e.todrain = Len(Contents(r))
  <2>. DEFINE a == Len(Contents(r))
              m == d.todrain
              k == o - 1
  <2>1. a \in Nat /\ m \in Nat /\ k \in Nat /\ m >= k /\ depth + m = a + k
    BY <1>1, <1>2, <1>4, <1>7
  <2>2. e.todrain = m - k
    BY <1>5
  <2>. HIDE DEF a, m, k
  <2>3. m - k \in Nat /\ depth + (m - k) = a
    BY ONLY <2>1, depth \in Nat
  <2>. QED BY <2>2, <2>3 DEF a
<1>9. Draining(e, c, depth)
  BY <1>4, <1>5, <1>7, <1>8 DEF Draining
<1>. QED BY <1>4, <1>5, <1>9 DEF p

\* The function of the loop exists.
Blocks(d, m, f) ==
  f = [turn \in 0 .. m |->
         IF turn = 0 THEN d
         ELSE IF HasWholeBlock(f[turn - 1]) THEN DrainBlock(f[turn - 1])
         ELSE f[turn - 1]]

LEMMA BlocksExist ==
  ASSUME NEW d, NEW turns \in Nat
  PROVE  \E f : Blocks(d, turns, f)
<1>. DEFINE P == {m \in Nat : \E f : Blocks(d, m, f)}
<1>1. 0 \in P
  <2>. DEFINE f == [k \in 0 .. 0 |-> d]
  <2>1. Blocks(d, 0, f)
    BY DEF Blocks
  <2>. QED BY <2>1
<1>2. ASSUME NEW m \in Nat, m \in P PROVE m + 1 \in P
  <2>1. PICK f : Blocks(d, m, f)
    BY <1>2
  <2>. DEFINE Turn(k, h) == IF k = 0 THEN d
                            ELSE IF HasWholeBlock(h[k - 1]) THEN DrainBlock(h[k - 1])
                            ELSE h[k - 1]
              g == [k \in 0 .. m + 1 |-> IF k <= m THEN f[k] ELSE Turn(k, f)]
  <2>2. \A k \in 0 .. m : f[k] = Turn(k, f)
    BY <2>1 DEF Blocks
  <2>3. \A k \in 0 .. m : g[k] = f[k]
    OBVIOUS
  <2>4. ASSUME NEW k \in 0 .. m + 1 PROVE g[k] = Turn(k, g)
    <3>1. CASE k = 0
      BY <3>1, <2>2
    <3>2. CASE k # 0
      <4>1. k - 1 \in 0 .. m
        BY <3>2
      <4>2. g[k - 1] = f[k - 1] /\ g[k] = Turn(k, f)
        BY <4>1, <2>2, <2>3
      <4>. HIDE DEF g
      <4>. QED BY <3>2, <4>2
    <3>. QED BY <3>1, <3>2
  <2>5. Blocks(d, m + 1, g)
    BY <2>4 DEF Blocks
  <2>. QED BY <2>5
<1>. HIDE DEF P
<1>3. Nat \subseteq P
  BY <1>1, <1>2, NaturalsInSet
<1>. QED BY <1>3 DEF P

LEMMA DrainBlocksKeeps ==
  ASSUME NEW c, NEW depth \in Nat, NEW d, Draining(d, c, depth),
         NEW e, e = DrainBlocks(d)
  PROVE  Draining(e, c, depth) /\ ~HasWholeBlock(e)
<1>. DEFINE turns == Len(d.p.ptrs)
<1>0. turns \in Nat
  BY Sizes DEF Draining
<1>1. \E f : Blocks(d, turns, f)
  BY <1>0, BlocksExist
<1>2. PICK f : Blocks(d, turns, f) /\ e = f[turns]
  <2>1. Blocks(d, turns, CHOOSE f : Blocks(d, turns, f))
    BY <1>1
  <2>. QED BY <2>1 DEF Blocks, DrainBlocks
<1>. HIDE DEF turns
<1>. DEFINE Holds(k) == /\ Draining(f[k], c, depth)
                        /\ HasWholeBlock(f[k]) => Len(f[k].p.ptrs) + k <= turns
            P == {k \in Nat : k <= turns => Holds(k)}
<1>3. 0 \in P
  <2>1. f[0] = d
    BY <1>0, <1>2 DEF Blocks
  <2>2. Len(d.p.ptrs) + 0 <= turns
    BY <1>0 DEF turns
  <2>. QED BY <2>1, <2>2
<1>4. ASSUME NEW k \in Nat, k \in P PROVE k + 1 \in P
  <2>. SUFFICES ASSUME k + 1 <= turns PROVE Holds(k + 1)
    <3>. HIDE DEF Holds
    <3>. QED OBVIOUS
  <2>0. Holds(k)
    BY <1>0, <1>4
  <2>1. f[k + 1] = IF HasWholeBlock(f[k]) THEN DrainBlock(f[k]) ELSE f[k]
    <3>1. k + 1 \in 0 .. turns /\ (k + 1) - 1 = k /\ k + 1 # 0
      BY <1>0
    <3>. QED BY <1>2, <3>1 DEF Blocks
  <2>2. CASE ~HasWholeBlock(f[k])
    BY <2>0, <2>1, <2>2
  <2>3. CASE HasWholeBlock(f[k])
    <3>. DEFINE g == f[k]
                h == f[k + 1]
    <3>1. h = DrainBlock(g) /\ HasWholeBlock(g) /\ Draining(g, c, depth) /\ Len(g.p.ptrs) + k <= turns
      BY <2>0, <2>1, <2>3
    <3>. HIDE DEF g, h
    <3>2. Draining(h, c, depth) /\ Len(g.p.ptrs) \in Nat /\ Len(h.p.ptrs) = Len(g.p.ptrs) - 1
      BY <3>1, DrainBlockKeeps
    <3>3. Len(h.p.ptrs) + (k + 1) <= turns
      <4>. DEFINE a == Len(g.p.ptrs)
                  b == Len(h.p.ptrs)
      <4>1. a \in Nat /\ b = a - 1 /\ a + k <= turns
        BY <3>1, <3>2
      <4>. HIDE DEF a, b
      <4>. QED BY ONLY <1>0, <4>1, k \in Nat DEF b
    <3>. QED BY <3>2, <3>3 DEF h
  <2>. QED BY <2>2, <2>3
<1>. HIDE DEF P
<1>5. Nat \subseteq P
  BY <1>3, <1>4, NaturalsInSet
<1>6. Draining(e, c, depth) /\ (HasWholeBlock(e) => Len(e.p.ptrs) + turns <= turns)
  <2>1. turns \in P
    BY <1>0, <1>5
  <2>. QED BY <1>0, <1>2, <2>1 DEF P
<1>7. ASSUME HasWholeBlock(e) PROVE FALSE
  <2>1. e.p.ptrs \in Seq(Seq(Nat)) /\ e.p.ptrs # <<>>
    BY <1>6, <1>7, Sizes DEF Draining, HasWholeBlock
  <2>2. Len(e.p.ptrs) \in Nat /\ Len(e.p.ptrs) # 0
    BY <2>1, EmptySeq
  <2>. QED BY <1>0, <1>6, <1>7, <2>2
<1>. QED BY <1>6, <1>7

\* neo4j_mpool_drainto: what is above the depth is freed, and nothing else.
LEMMA DrainedKeeps ==
  ASSUME NEW p, PoolOK(p), NEW depth \in Nat, depth < p.depth,
         NEW d, d = Drained(p, depth)
  PROVE  /\ PoolOK(d.p) /\ d.p.depth = depth
         /\ FreedFrom(Contents(p), Contents(d.p), d.frees)
<1>. DEFINE c == Contents(p)
            w == DrainBlocks(DrainDebounce(p, depth))
            v == w.p
            n == w.todrain
            last == IF n = 0 THEN <<>> ELSE SubSeq(v.ptrs[1], v.offset - n, v.offset - 1)
            r == [v EXCEPT !.offset = v.offset - n, !.depth = depth]
<1>1. Draining(w, c, depth) /\ ~HasWholeBlock(w)
  BY DrainDebounceKeeps, DrainBlocksKeeps
<1>2. /\ Shape(v) /\ n \in Nat /\ depth + n = Len(Contents(v))
      /\ (v.debounce # <<>> => n = 0) /\ FreedFrom(c, Contents(v), w.frees)
      /\ (v.ptrs = <<>> \/ ~(n >= v.offset - 1))
  BY <1>1 DEF Draining, HasWholeBlock
<1>3. d.p = r /\ d.frees = w.frees \o last
  BY DEF Drained
<1>. HIDE DEF w, v, n
<1>4. v.offset \in Nat /\ v.offset - 1 \in Nat
  BY <1>2, Sizes
<1>5. Contents(v) \in Seq(Nat)
  BY <1>2, ContentsTyped
<1>6. /\ Shape(r) /\ r.depth = depth /\ last \in Seq(Nat) /\ Len(last) = n
      /\ Contents(v) = Contents(r) \o last
  <2>1. CASE n = 0
    <3>1. v.offset - n = v.offset
      BY <1>4, <2>1
    <3>2. /\ r.offset = v.offset /\ r.ptrs = v.ptrs /\ r.debounce = v.debounce
          /\ r.block_size = v.block_size /\ r.depth = depth /\ r \in Pool
      BY <1>2, <3>1 DEF Shape, Pool
    <3>. HIDE DEF r
    <3>3. Shape(r)
      BY <1>2, <3>2 DEF Shape
    <3>4. Contents(r) = Contents(v)
      BY <3>2 DEF Contents
    <3>5. last = <<>>
      BY <2>1
    <3>6. Contents(v) = Contents(v) \o <<>>
      BY <1>5, ConcatEmptySeq
    <3>7. <<>> \in Seq(Nat) /\ Len(<<>>) = 0
      OBVIOUS
    <3>. HIDE DEF last
    <3>. QED BY <2>1, <3>2, <3>3, <3>4, <3>5, <3>6, <3>7
  <2>2. CASE n # 0
    <3>1. v.debounce = <<>>
      BY <1>2, <2>2
    <3>2. v.ptrs # <<>>
      <4>. SUFFICES ASSUME v.ptrs = <<>> PROVE FALSE
        OBVIOUS
      <4>1. Contents(v) = Stacked(v.ptrs, v.offset - 1)
        BY <1>2, <3>1, ContentsTyped
      <4>2. Contents(v) = <<>>
        BY <4>1, StackedEmpty
      <4>3. depth + n = 0
        BY <1>2, <4>2
      <4>. QED BY ONLY <1>2, <2>2, <4>3, depth \in Nat
    <3>3. n <= v.offset - 1
      BY <1>2, <1>4, <3>2
    <3>. DEFINE x == Newest(v, n)
    <3>4. last = x
      BY <2>2 DEF Newest
    <3>. HIDE DEF r, last
    <3>5. /\ Shape(r) /\ r.depth = depth /\ x \in Seq(Nat) /\ Len(x) = n
          /\ Contents(v) = Contents(r) \o x
      <4>1. Shape(v) /\ n \in Nat
        BY <1>2
      <4>2. r = CellsDropped(v, n, depth)
        BY DEF r, CellsDropped
      <4>3. Shape(CellsDropped(v, n, depth)) /\ CellsDropped(v, n, depth).depth = depth
        BY ONLY <1>4, <4>1, <3>1, <3>2, <3>3, depth \in Nat, DropCells
      <4>4. x \in Seq(Nat) /\ Len(x) = n
        BY ONLY <1>4, <4>1, <3>1, <3>2, <3>3, depth \in Nat, DropCells
      <4>5. Contents(v) = Contents(CellsDropped(v, n, depth)) \o x
        BY ONLY <1>4, <4>1, <3>1, <3>2, <3>3, depth \in Nat, DropCells
      <4>. HIDE DEF x
      <4>. QED BY ONLY <4>2, <4>3, <4>4, <4>5
    <3>. QED BY <3>4, <3>5
  <2>. QED BY <2>1, <2>2
<1>. HIDE DEF r, last, c
<1>7. Contents(r) \in Seq(Nat)
  BY <1>6, ContentsTyped
<1>8. /\ FreedFrom(c, Contents(r), w.frees \o last)
      /\ Len(Contents(v)) = Len(Contents(r)) + Len(last) /\ Len(Contents(r)) \in Nat
  <2>. DEFINE a == Contents(r)
  <2>1. a \in Seq(Nat) /\ last \in Seq(Nat) /\ FreedFrom(c, a \o last, w.frees)
    BY <1>2, <1>6, <1>7
  <2>2. Contents(v) = a \o last
    BY <1>6
  <2>. HIDE DEF a
  <2>3. /\ FreedFrom(c, a, w.frees \o last) /\ Len(a \o last) = Len(a) + Len(last)
        /\ Len(a) \in Nat
    BY ONLY <2>1, FreedFurther
  <2>. QED BY <2>2, <2>3 DEF a
<1>9. Len(Contents(r)) = depth
  BY <1>2, <1>6, <1>8
<1>. QED BY <1>3, <1>6, <1>8, <1>9 DEF PoolOK, c

LEMMA FreedElements ==
  ASSUME NEW c \in Seq(Nat), Distinct(c), NEW a \in Seq(Nat), NEW f, FreedFrom(c, a, f)
  PROVE  /\ f \in Seq(Nat) /\ Distinct(f) /\ Distinct(a)
         /\ ToSet(c) = ToSet(a) \cup ToSet(f) /\ ToSet(a) \cap ToSet(f) = {}
         /\ ToSet(f) = {c[k] : k \in Len(a) + 1 .. Len(c)} /\ a = SubSeq(c, 1, Len(a))
<1>1. PICK rest \in Seq(Nat) : c = a \o rest /\ Rearranges(f, rest)
  BY DEF FreedFrom
<1>. DEFINE m == Len(a)
            n == Len(rest)
<1>2. /\ m \in Nat /\ n \in Nat /\ Len(c) = m + n /\ DOMAIN rest = 1 .. n
      /\ \A i \in 1 .. m + n : c[i] = IF i <= m THEN a[i] ELSE rest[i - m]
  BY <1>1, ConcatProperties
<1>3. /\ ToSet(c) = ToSet(a) \cup ToSet(rest) /\ Distinct(a) /\ Distinct(rest)
      /\ ToSet(a) \cap ToSet(rest) = {}
  BY <1>1, ConcatElements
<1>4. f \in Seq(Nat) /\ ToSet(f) = ToSet(rest) /\ Distinct(f)
  BY <1>1, <1>3 DEF Rearranges
<1>. HIDE DEF m, n
<1>5. ToSet(rest) = {c[k] : k \in m + 1 .. Len(c)}
  <2>1. ASSUME NEW i \in 1 .. n PROVE \E k \in m + 1 .. Len(c) : c[k] = rest[i]
    <3>1. /\ m + i \in 1 .. m + n /\ ~(m + i <= m) /\ (m + i) - m = i
          /\ m + i \in m + 1 .. Len(c)
      BY <1>2
    <3>2. c[m + i] = rest[i]
      BY <1>2, <3>1
    <3>. QED BY <3>1, <3>2
  <2>2. ASSUME NEW k \in m + 1 .. Len(c) PROVE \E i \in 1 .. n : c[k] = rest[i]
    <3>1. k \in 1 .. m + n /\ ~(k <= m) /\ k - m \in 1 .. n
      BY <1>2
    <3>2. c[k] = rest[k - m]
      BY <1>2, <3>1
    <3>. QED BY <3>1, <3>2
  <2>3. ToSet(rest) = {rest[i] : i \in 1 .. n}
    BY <1>2 DEF ToSet
  <2>. DEFINE o == m + 1
              l == Len(c)
  <2>4. \A y : y \in {rest[i] : i \in 1 .. n} <=> y \in {c[k] : k \in o .. l}
    <3>. HIDE DEF o, l
    <3>1. \A i \in 1 .. n : \E k \in o .. l : c[k] = rest[i]
      BY <2>1 DEF o, l
    <3>2. \A k \in o .. l : \E i \in 1 .. n : c[k] = rest[i]
      BY <2>2 DEF o, l
    <3>3. ASSUME NEW y \in {rest[i] : i \in 1 .. n} PROVE y \in {c[k] : k \in o .. l}
      <4>1. PICK i \in 1 .. n : y = rest[i]
        OBVIOUS
      <4>2. PICK k \in o .. l : c[k] = rest[i]
        BY <3>1
      <4>. QED BY <4>1, <4>2
    <3>4. ASSUME NEW y \in {c[k] : k \in o .. l} PROVE y \in {rest[i] : i \in 1 .. n}
      <4>1. PICK k \in o .. l : y = c[k]
        OBVIOUS
      <4>2. PICK i \in 1 .. n : c[k] = rest[i]
        BY <3>2
      <4>. QED BY <4>1, <4>2
    <3>. QED BY <3>3, <3>4
  <2>. QED BY <2>3, <2>4
<1>6. a = SubSeq(c, 1, m)
  <2>. DEFINE s == SubSeq(c, 1, m)
  <2>1. m \in 0 .. Len(c)
    BY <1>2
  <2>2. s \in Seq(Nat) /\ Len(s) = m /\ \A i \in 1 .. m : s[i] = c[i]
    BY <2>1, SubSeqStart
  <2>. HIDE DEF s
  <2>3. ASSUME NEW i \in 1 .. m PROVE s[i] = a[i]
    <3>1. i \in 1 .. m + n /\ i <= m
      BY <1>2
    <3>. QED BY <1>2, <2>2, <3>1
  <2>4. Len(s) = Len(a)
    BY <2>2 DEF m
  <2>5. \A i \in 1 .. Len(s) : s[i] = a[i]
    BY <2>2, <2>3
  <2>6. s = a
    BY <2>2, <2>4, <2>5, SeqEqual
  <2>. QED BY <2>6 DEF s
<1>. QED BY <1>3, <1>4, <1>5, <1>6 DEF m

-----------------------------------------------------------------------------
(* The invariants and the steps.                                            *)
StacksOf(f) == [i \in Pools |-> Contents(f[i])]

\* The inductive invariant of the types: the pools are what the functions above
\* keep.
PoolsInv ==
  /\ pool \in [Pools -> Pool] /\ \A i \in Pools : PoolOK(pool[i])
  /\ added \in 0 .. MaxPointers
  /\ crashed \in {"no", "allocators", "concat no block", "no block"}

\* That of the pointers: each is in one place of one pool, or freed, or neither,
\* when it has not been added.
PointersInv ==
  /\ released \in [1 .. MaxPointers -> {0, 1}]
  /\ \A i \in Pools : /\ Distinct(Contents(pool[i])) /\ ToSet(Contents(pool[i])) \subseteq 1 .. added
                      /\ \A x \in 1 .. MaxPointers : released[x] > 0 => x \notin ToSet(Contents(pool[i]))
  /\ \A i, j \in Pools : i # j => ToSet(Contents(pool[i])) \cap ToSet(Contents(pool[j])) = {}
  /\ \A x \in 1 .. MaxPointers : released[x] > 0 => x <= added

LEMMA OnePool ==
  ASSUME NEW f \in [Pools -> Pool], \A j \in Pools : PoolOK(f[j]), NEW i \in Pools,
         NEW r, PoolOK(r), NEW g, g = [f EXCEPT ![i] = r]
  PROVE  /\ g \in [Pools -> Pool] /\ \A j \in Pools : PoolOK(g[j])
         /\ \A j \in Pools : j # i => g[j] = f[j]
         /\ g[i] = r
<1>1. r \in Pool
  BY DEF PoolOK, Shape
<1>. QED BY <1>1

LEMMA InitPools == Init => PoolsInv /\ PointersInv /\ StacksOf(pool) = [i \in Pools |-> <<>>]
<1>. SUFFICES ASSUME Init PROVE PoolsInv /\ PointersInv /\ StacksOf(pool) = [i \in Pools |-> <<>>]
  OBVIOUS
<1>1. ASSUME NEW a \in Allocators, NEW size \in BlockSizes
      PROVE  PoolOK(NewPool(a, size)) /\ NewPool(a, size) \in Pool /\ Contents(NewPool(a, size)) = <<>>
  <2>. DEFINE p == NewPool(a, size)
              bs == Max2(size, Debounce + 2)
  <2>1. size \in Nat /\ Debounce \in Nat
    BY MemoryPoolAssumption
  <2>2. bs \in Nat /\ bs >= Debounce + 2 /\ bs \in 1 .. bs
    BY <2>1 DEF Max2
  <2>. HIDE DEF bs
  <2>3. p = [allocator |-> a, block_size |-> bs, debounce |-> <<>>,
             ptrs |-> <<>>, offset |-> bs, depth |-> 0]
    BY DEF NewPool, bs
  <2>4. p \in Pool
    BY <2>2, <2>3 DEF Pool
  <2>5. Shape(p)
    <3>1. <<>> \in Seq(Cells(bs - 1)) /\ Len(<<>>) = 0
      OBVIOUS
    <3>. HIDE DEF p
    <3>. QED BY <2>1, <2>2, <2>3, <2>4, <3>1 DEF Shape
  <2>6. Contents(p) = <<>>
    <3>1. Contents(p) = Stacked(<<>>, p.offset - 1)
      BY <2>3, <2>5, ContentsTyped
    <3>. QED BY <3>1, StackedEmpty
  <2>7. p.depth = Len(<<>>)
    BY <2>3
  <2>. QED BY <2>4, <2>5, <2>6, <2>7 DEF PoolOK
<1>2. /\ pool \in [Pools -> Pool] /\ \A i \in Pools : PoolOK(pool[i]) /\ Contents(pool[i]) = <<>>
      /\ added = 0 /\ crashed = "no" /\ released = [x \in 1 .. MaxPointers |-> 0]
  BY <1>1 DEF Init
<1>3. PoolsInv
  BY <1>2, MemoryPoolAssumption DEF PoolsInv
<1>4. PointersInv
  BY <1>2, EmptyElements DEF PointersInv
<1>. QED BY <1>2, <1>3, <1>4 DEF StacksOf

LEMMA AddedKeeps ==
  ASSUME NEW p, PoolOK(p), NEW x \in Nat, NEW r, Shape(r), Contents(r) = Append(Contents(p), x),
         r.depth = p.depth + 1
  PROVE  PoolOK(r)
<1>1. Contents(p) \in Seq(Nat) /\ p.depth = Len(Contents(p))
  BY ContentsTyped DEF PoolOK
<1>2. Len(Append(Contents(p), x)) = Len(Contents(p)) + 1
  BY <1>1, AppendProperties
<1>. QED BY <1>1, <1>2 DEF PoolOK

\* neo4j_mpool_add puts the pointer on top, when there is a block.
LEMMA AddStep ==
  ASSUME PoolsInv, NEW i \in Pools, Add(i)
  PROVE  /\ PoolsInv' /\ released' = released
         /\ \/ pool' = pool /\ added' = added
            \/ /\ \E r : /\ PoolOK(r) /\ pool' = [pool EXCEPT ![i] = r]
                         /\ Contents(r) = Append(Contents(pool[i]), added + 1)
               /\ added < MaxPointers /\ added' = added + 1
<1>. DEFINE p == pool[i]
            x == added + 1
            q == IF NeedsBlock(p) THEN RemoveDebounce(p) ELSE p
<1>1. /\ PoolOK(p) /\ Shape(p) /\ x \in Nat /\ added \in Nat /\ MaxPointers \in Nat
      /\ pool \in [Pools -> Pool] /\ \A j \in Pools : PoolOK(pool[j])
  <2>0. added \in 0 .. MaxPointers /\ MaxPointers \in Nat
    BY MemoryPoolAssumption DEF PoolsInv
  <2>1. added \in Nat /\ MaxPointers \in Nat /\ x \in Nat
    BY <2>0
  <2>2. pool \in [Pools -> Pool] /\ \A j \in Pools : PoolOK(pool[j])
    BY DEF PoolsInv
  <2>. QED BY <2>1, <2>2 DEF PoolOK
<1>2. /\ p.offset \in Nat /\ p.block_size \in Nat /\ p.offset <= p.block_size
      /\ Len(p.debounce) \in Nat /\ p.depth \in Nat
  BY <1>1, Sizes
<1>3. released' = released /\ crashed = "no" /\ added < MaxPointers
  BY DEF Add
<1>a. ASSUME NEW r, PoolOK(r), pool' = [pool EXCEPT ![i] = r], added' = x, crashed' = crashed,
             Contents(r) = Append(Contents(p), x)
      PROVE  /\ PoolsInv'
             /\ \E s : /\ PoolOK(s) /\ pool' = [pool EXCEPT ![i] = s]
                       /\ Contents(s) = Append(Contents(pool[i]), added + 1)
             /\ added' = added + 1
  <2>1. pool' \in [Pools -> Pool] /\ \A j \in Pools : PoolOK(pool'[j])
    BY <1>1, <1>a, OnePool
  <2>2. added' \in 0 .. MaxPointers
    BY <1>1, <1>3, <1>a
  <2>3. crashed' \in {"no", "allocators", "concat no block", "no block"}
    BY <1>3, <1>a
  <2>. QED BY <1>a, <2>1, <2>2, <2>3 DEF PoolsInv
<1>4. CASE p.offset >= p.block_size /\ ~NeedsBlock(p)
  <2>. DEFINE r == [p EXCEPT !.debounce = Append(p.debounce, x), !.depth = p.depth + 1]
  <2>1. /\ pool' = [pool EXCEPT ![i].debounce = Append(@, x), ![i].depth = @ + 1]
        /\ added' = x /\ crashed' = crashed
    BY <1>4 DEF Add
  <2>2. pool' = [pool EXCEPT ![i] = r]
    BY <1>1, <2>1 DEF Pool
  <2>3. Shape(r) /\ Contents(r) = Append(Contents(p), x) /\ r.depth = p.depth + 1
    <3>1. Len(p.debounce) # Debounce /\ p.offset >= p.block_size
      BY <1>4 DEF NeedsBlock
    <3>. HIDE DEF p, r, x
    <3>2. r = [p EXCEPT !.debounce = Append(p.debounce, x), !.depth = p.depth + 1]
      BY DEF r
    <3>. QED BY ONLY <1>1, <3>1, <3>2, DebounceAdds
  <2>. HIDE DEF r, p, x
  <2>4. PoolOK(r)
    BY <1>1, <2>3, AddedKeeps
  <2>. QED BY <1>a, <1>3, <2>1, <2>2, <2>3, <2>4
<1>5. CASE ~(p.offset >= p.block_size /\ ~NeedsBlock(p)) /\ q.ptrs # <<>>
  <2>. DEFINE r == Put(q, x)
  <2>1. pool' = [pool EXCEPT ![i] = r] /\ added' = x /\ crashed' = crashed
    BY <1>5 DEF Add
  <2>2. Shape(q) /\ Contents(q) = Contents(p) /\ q.debounce = <<>> /\ q.offset < q.block_size
        /\ q.depth = p.depth
    <3>1. CASE NeedsBlock(p)
      <4>1. p.offset = p.block_size
        BY <1>2, <3>1 DEF NeedsBlock
      <4>2. q = RemoveDebounce(p)
        BY <3>1
      <4>. HIDE DEF p, q
      <4>. QED BY <1>1, <4>1, <4>2, RemoveDebounceKeeps
    <3>2. CASE ~NeedsBlock(p)
      <4>1. p.offset < p.block_size
        BY <1>2, <1>5, <3>2
      <4>2. p.debounce = <<>>
        BY <1>1, <1>2, <4>1 DEF Shape
      <4>. QED BY <1>1, <3>2, <4>1, <4>2
    <3>. QED BY <3>1, <3>2
  <2>. HIDE DEF p, q, x, r
  <2>3. Shape(r) /\ Contents(r) = Append(Contents(q), x) /\ r.depth = q.depth + 1
    BY <1>1, <1>5, <2>2, PutAdds DEF r
  <2>4. PoolOK(r)
    <3>1. Contents(r) = Append(Contents(p), x) /\ r.depth = p.depth + 1
      BY <2>2, <2>3
    <3>. QED BY <1>1, <2>3, <3>1, AddedKeeps
  <2>. QED BY <1>a, <1>3, <2>1, <2>2, <2>3, <2>4
<1>6. CASE ~(p.offset >= p.block_size /\ ~NeedsBlock(p)) /\ q.ptrs = <<>>
  <2>1. crashed' = "no block" /\ pool' = pool /\ added' = added
    BY <1>6 DEF Add
  <2>2. PoolsInv'
    BY <2>1 DEF PoolsInv
  <2>. QED BY <1>3, <2>1, <2>2
<1>. QED BY <1>4, <1>5, <1>6

\* neo4j_mpool_drainto frees what is above the depth, each pointer once.
LEMMA DrainStep ==
  ASSUME PoolsInv, NEW i \in Pools, NEW depth \in Nat, DrainTo(i, depth)
  PROVE  /\ PoolsInv' /\ added' = added
         /\ \E r, f :
              /\ PoolOK(r) /\ r.depth = depth /\ pool' = [pool EXCEPT ![i] = r]
              /\ FreedFrom(Contents(pool[i]), Contents(r), f)
              /\ released' = [x \in DOMAIN released |->
                                released[x] + Cardinality({n \in DOMAIN f : f[n] = x})]
         /\ depth < Len(Contents(pool[i]))
<1>. DEFINE p == pool[i]
            d == Drained(p, depth)
            r == d.p
            f == d.frees
<1>1. pool \in [Pools -> Pool] /\ \A j \in Pools : PoolOK(pool[j])
  BY DEF PoolsInv
<1>2. /\ pool' = [pool EXCEPT ![i] = r] /\ added' = added /\ crashed' = crashed /\ depth < p.depth
      /\ released' = [x \in DOMAIN released |->
                        released[x] + Cardinality({n \in DOMAIN f : f[n] = x})]
  BY DEF DrainTo
<1>. HIDE DEF p
<1>3. PoolOK(p)
  BY <1>1 DEF p
<1>4. PoolOK(r) /\ r.depth = depth /\ FreedFrom(Contents(p), Contents(r), f)
  <2>. HIDE DEF r, d, f
  <2>. QED BY <1>2, <1>3, DrainedKeeps DEF r, d, f
<1>. HIDE DEF r, f, d
<1>5. pool' \in [Pools -> Pool] /\ \A j \in Pools : PoolOK(pool'[j])
  BY <1>1, <1>2, <1>4, OnePool
<1>6. PoolsInv'
  BY <1>2, <1>5 DEF PoolsInv
<1>7. depth < Len(Contents(p))
  BY <1>2, <1>3 DEF PoolOK
<1>. QED BY <1>2, <1>4, <1>6, <1>7 DEF p

LEMMA TwoPools ==
  ASSUME NEW f \in [Pools -> Pool], \A k \in Pools : PoolOK(f[k]), NEW i \in Pools, NEW j \in Pools,
         i # j, NEW r, PoolOK(r), NEW s, PoolOK(s), NEW g, g = [f EXCEPT ![i] = r, ![j] = s]
  PROVE  /\ g \in [Pools -> Pool] /\ \A k \in Pools : PoolOK(g[k])
         /\ g[i] = r /\ g[j] = s /\ \A k \in Pools : k # i /\ k # j => g[k] = f[k]
<1>1. r \in Pool /\ s \in Pool
  BY DEF PoolOK, Shape
<1>. QED BY <1>1

\* neo4j_mpool_merge puts the second pool on top of the first and empties it, when
\* it ends.
LEMMA MergeStep ==
  ASSUME PoolsInv, NEW i \in Pools, NEW j \in Pools, Merge(i, j)
  PROVE  /\ PoolsInv' /\ added' = added /\ released' = released /\ i # j
         /\ \/ pool' = pool
            \/ \E r, s :
                 /\ PoolOK(r) /\ PoolOK(s) /\ pool' = [pool EXCEPT ![i] = r, ![j] = s]
                 /\ Contents(r) = Contents(pool[i]) \o Contents(pool[j]) /\ Contents(s) = <<>>
<1>. DEFINE p == Flat(pool[i])
            resize == MustResize(p, pool[j])
            q == IF resize THEN Resized(Flat(pool[j]), p.block_size) ELSE pool[j]
            full == p.offset = p.block_size
            c == Contents(pool[i])
            d == Contents(pool[j])
<1>1. pool \in [Pools -> Pool] /\ (\A k \in Pools : PoolOK(pool[k])) /\ PoolOK(pool[i]) /\ PoolOK(pool[j])
  BY DEF PoolsInv
<1>2. /\ i # j /\ added' = added /\ released' = released
      /\ crashed' = IF p.allocator # q.allocator THEN "allocators"
                    ELSE IF full /\ q.ptrs = <<>> THEN "concat no block"
                    ELSE IF ~full /\ p.ptrs = <<>> THEN "no block"
                    ELSE "no"
      /\ IF crashed' # "no" THEN pool' = pool
         ELSE pool' = [pool EXCEPT ![i] = IF full THEN Concatenated(p, q) ELSE Merged(p, q),
                                   ![j] = IF resize THEN Deallocated(@) ELSE Emptied(@)]
  BY DEF Merge
<1>. DEFINE r == IF full THEN Concatenated(p, q) ELSE Merged(p, q)
            s == IF resize THEN Deallocated(pool[j]) ELSE Emptied(pool[j])
<1>3. CASE crashed' # "no"
  <2>1. pool' = pool /\ crashed' \in {"allocators", "concat no block", "no block"}
    BY <1>2, <1>3
  <2>2. PoolsInv'
    BY <1>2, <2>1 DEF PoolsInv
  <2>. QED BY <1>2, <2>1, <2>2
<1>4. CASE crashed' = "no"
  <2>1. /\ pool' = [pool EXCEPT ![i] = r, ![j] = s]
        /\ (full => q.ptrs # <<>>) /\ (~full => p.ptrs # <<>>)
    BY <1>1, <1>2, <1>4
  <2>2. Shape(p) /\ Contents(p) = c /\ p.debounce = <<>> /\ PoolOK(p)
    <3>. DEFINE o == pool[i]
    <3>1. PoolOK(o) /\ Shape(o) /\ p = Flat(o)
      BY <1>1 DEF PoolOK
    <3>. HIDE DEF o, p
    <3>2. Shape(p) /\ Contents(p) = Contents(o) /\ p.debounce = <<>> /\ PoolOK(p)
      BY <3>1, FlatKeeps
    <3>. QED BY <3>2 DEF o
  <2>. HIDE DEF p
  <2>3. PoolOK(q) /\ Contents(q) = d /\ q.block_size = p.block_size
    <3>1. CASE resize
      <4>. DEFINE o == pool[j]
                  e == Flat(o)
                  size == p.block_size
      <4>1. PoolOK(o) /\ Shape(o)
        BY <1>1 DEF PoolOK
      <4>2. size \in Nat /\ size >= Debounce + 2
        BY <2>2 DEF Shape, Pool
      <4>3. q = Resized(e, size)
        BY <3>1
      <4>. HIDE DEF o, e, size, q
      <4>4. PoolOK(e) /\ Contents(e) = Contents(o) /\ e.debounce = <<>>
        BY <4>1, FlatKeeps DEF e
      <4>5. PoolOK(q) /\ Contents(q) = Contents(e) /\ q.block_size = size
        BY <4>2, <4>3, <4>4, ResizedKeeps
      <4>. QED BY <4>4, <4>5 DEF o, size
    <3>2. CASE ~resize
      BY <1>1, <3>2 DEF MustResize
    <3>. QED BY <3>1, <3>2
  <2>4. PoolOK(s) /\ Contents(s) = <<>>
    <3>. DEFINE o == pool[j]
    <3>1. Shape(o)
      BY <1>1 DEF PoolOK
    <3>2. s = Emptied(o) \/ s = Deallocated(o)
      OBVIOUS
    <3>. HIDE DEF o, s
    <3>. QED BY <3>1, <3>2, EmptiedIsEmpty
  <2>. HIDE DEF q
  <2>5. Shape(q)
    BY <2>3 DEF PoolOK
  <2>6. Shape(r) /\ Contents(r) = Contents(p) \o Contents(q) /\ r.depth = p.depth + q.depth
    <3>1. CASE full
      <4>1. r = Concatenated(p, q) /\ p.offset = p.block_size /\ q.ptrs # <<>>
        BY <2>1, <3>1
      <4>. HIDE DEF r
      <4>. QED BY <2>2, <2>3, <2>5, <4>1, ConcatenatedStacks
    <3>2. CASE ~full
      <4>1. r = Merged(p, q) /\ p.ptrs # <<>>
        BY <2>1, <3>2
      <4>2. p.offset < p.block_size
        <5>1. p.offset \in Nat /\ p.block_size \in Nat /\ p.offset <= p.block_size
          BY <2>2, Sizes
        <5>. QED BY <3>2, <5>1
      <4>. HIDE DEF r
      <4>. QED BY <2>2, <2>3, <2>5, <4>1, <4>2, MergedStacks
    <3>. QED BY <3>1, <3>2
  <2>. HIDE DEF r, s
  <2>7. PoolOK(r)
    <3>1. Contents(p) \in Seq(Nat) /\ Contents(q) \in Seq(Nat)
      BY <2>2, <2>5, ContentsTyped
    <3>2. Len(Contents(p) \o Contents(q)) = Len(Contents(p)) + Len(Contents(q))
      BY <3>1, ConcatProperties
    <3>3. p.depth = Len(Contents(p)) /\ q.depth = Len(Contents(q))
      BY <2>2, <2>3 DEF PoolOK
    <3>. QED BY <2>6, <3>2, <3>3 DEF PoolOK
  <2>8. pool' \in [Pools -> Pool] /\ \A k \in Pools : PoolOK(pool'[k])
    <3>1. i # j
      BY <1>2
    <3>2. pool' = [pool EXCEPT ![i] = r, ![j] = s]
      BY <2>1
    <3>. QED BY ONLY <1>1, <3>1, <3>2, <2>4, <2>7, i \in Pools, j \in Pools, TwoPools
  <2>9. PoolsInv'
    BY <1>2, <1>4, <2>8 DEF PoolsInv
  <2>10. Contents(r) = Contents(pool[i]) \o Contents(pool[j])
    BY <2>2, <2>3, <2>6
  <2>. QED BY <1>2, <2>1, <2>4, <2>7, <2>9, <2>10
<1>. QED BY <1>3, <1>4

\* A merge that fails changes no pool but for where it keeps its pointers.
LEMMA MergeFailsStep ==
  ASSUME PoolsInv, NEW i \in Pools, NEW j \in Pools, MergeFails(i, j)
  PROVE  /\ PoolsInv' /\ added' = added /\ released' = released /\ StacksOf(pool') = StacksOf(pool)
         /\ \A k \in Pools : Contents(pool'[k]) = Contents(pool[k])
<1>1. pool \in [Pools -> Pool] /\ (\A k \in Pools : PoolOK(pool[k]))
  BY DEF PoolsInv
<1>2. PICK q \in {pool[j], Flat(pool[j])} : pool' = [pool EXCEPT ![i] = Flat(pool[i]), ![j] = q]
  BY <1>1 DEF MergeFails
<1>3. i # j /\ added' = added /\ released' = released /\ crashed' = crashed
  BY DEF MergeFails
<1>4. \A k \in Pools : PoolOK(Flat(pool[k])) /\ Contents(Flat(pool[k])) = Contents(pool[k])
  <2>. TAKE k \in Pools
  <2>. DEFINE o == pool[k]
              r == Flat(o)
  <2>1. PoolOK(o) /\ Shape(o)
    BY <1>1 DEF PoolOK
  <2>. HIDE DEF o, r
  <2>2. PoolOK(r) /\ Contents(r) = Contents(o)
    BY <2>1, FlatKeeps DEF r
  <2>. QED BY <2>2 DEF r, o
<1>. DEFINE r == Flat(pool[i])
<1>5. PoolOK(r) /\ PoolOK(q) /\ Contents(r) = Contents(pool[i]) /\ Contents(q) = Contents(pool[j])
  BY <1>1, <1>2, <1>4
<1>. HIDE DEF r
<1>6. /\ pool' \in [Pools -> Pool] /\ \A k \in Pools : PoolOK(pool'[k])
      /\ pool'[i] = r /\ pool'[j] = q /\ \A k \in Pools : k # i /\ k # j => pool'[k] = pool[k]
  <2>1. pool' = [pool EXCEPT ![i] = r, ![j] = q]
    BY <1>2 DEF r
  <2>. QED BY <1>1, <1>3, <1>5, <2>1, TwoPools
<1>7. \A k \in Pools : Contents(pool'[k]) = Contents(pool[k])
  BY <1>5, <1>6
<1>8. PoolsInv'
  BY <1>3, <1>6 DEF PoolsInv
<1>. QED BY <1>3, <1>7, <1>8 DEF StacksOf

-----------------------------------------------------------------------------
LEMMA PoolsStep == PoolsInv /\ [Next]_vars => PoolsInv'
<1>. SUFFICES ASSUME PoolsInv, [Next]_vars PROVE PoolsInv'
  OBVIOUS
<1>1. ASSUME NEW i \in Pools, Add(i) PROVE PoolsInv'
  BY <1>1, AddStep
<1>2. ASSUME NEW i \in Pools, NEW depth \in 0 .. MaxPointers, DrainTo(i, depth) PROVE PoolsInv'
  <2>1. depth \in Nat
    BY MemoryPoolAssumption
  <2>. QED BY <1>2, <2>1, DrainStep
<1>3. ASSUME NEW i \in Pools, NEW j \in Pools, Merge(i, j) PROVE PoolsInv'
  BY <1>3, MergeStep
<1>4. ASSUME NEW i \in Pools, NEW j \in Pools, MergeFails(i, j) PROVE PoolsInv'
  BY <1>4, MergeFailsStep
<1>5. CASE UNCHANGED vars
  BY <1>5 DEF vars, PoolsInv
<1>. QED BY <1>1, <1>2, <1>3, <1>4, <1>5 DEF Next

\* The records are those of pools, the blocks below the first are full, and depth
\* counts the pointers.
THEOREM TypeTheorem == Spec => []TypeOK
<1>1. Init => PoolsInv
  BY InitPools
<1>2. PoolsInv => TypeOK
  <2>. SUFFICES ASSUME PoolsInv, NEW i \in Pools
                PROVE  LET p == pool[i]
                       IN  /\ p.offset \in 1 .. p.block_size
                           /\ Len(p.debounce) <= Debounce
                           /\ p.debounce # <<>> => p.offset = p.block_size
                           /\ \A k \in DOMAIN p.ptrs : Len(p.ptrs[k]) = p.block_size - 1
                           /\ p.depth = Len(Contents(p))
    BY DEF PoolsInv, TypeOK
  <2>. DEFINE p == pool[i]
              cells == p.block_size - 1
  <2>1. PoolOK(p)
    BY DEF PoolsInv
  <2>. HIDE DEF p
  <2>2. \A k \in DOMAIN p.ptrs : Len(p.ptrs[k]) = cells
    <3>1. p.ptrs \in Seq(Cells(cells))
      BY <2>1 DEF PoolOK, Shape
    <3>. HIDE DEF cells
    <3>. QED BY <3>1, CellsTyped
  <2>3. /\ p.offset \in 1 .. p.block_size /\ Len(p.debounce) <= Debounce
        /\ (p.debounce # <<>> => p.offset = p.block_size) /\ p.depth = Len(Contents(p))
    BY <2>1 DEF PoolOK, Shape
  <2>. QED BY <2>2, <2>3 DEF p
<1>. QED BY <1>1, <1>2, PoolsStep, PTL DEF Spec

LEMMA ContentsOf ==
  ASSUME PoolsInv, NEW i \in Pools
  PROVE  Contents(pool[i]) \in Seq(Nat)
<1>1. Shape(pool[i])
  BY DEF PoolsInv, PoolOK
<1>. QED BY <1>1, ContentsTyped

\* What a step has freed.
LEMMA ReleasedOnce ==
  ASSUME PoolsInv, PointersInv, NEW i \in Pools, NEW f \in Seq(Nat), Distinct(f),
         ToSet(f) \subseteq ToSet(Contents(pool[i])),
         released' = [x \in DOMAIN released |->
                        released[x] + Cardinality({n \in DOMAIN f : f[n] = x})]
  PROVE  /\ released' \in [1 .. MaxPointers -> {0, 1}]
         /\ \A x \in 1 .. MaxPointers : released'[x] > 0 <=> released[x] > 0 \/ x \in ToSet(f)
         /\ ToSet(f) \subseteq 1 .. added /\ added \in 0 .. MaxPointers
<1>1. /\ released \in [1 .. MaxPointers -> {0, 1}] /\ DOMAIN released = 1 .. MaxPointers
      /\ ToSet(Contents(pool[i])) \subseteq 1 .. added
      /\ \A x \in 1 .. MaxPointers : released[x] > 0 => x \notin ToSet(Contents(pool[i]))
  BY DEF PointersInv
<1>2. ASSUME NEW x \in 1 .. MaxPointers
      PROVE  /\ released'[x] = IF x \in ToSet(f) THEN 1 ELSE released[x]
             /\ x \in ToSet(f) => released[x] = 0
  <2>1. released'[x] = released[x] + (IF x \in ToSet(f) THEN 1 ELSE 0)
    <3>1. released'[x] = released[x] + Cardinality({n \in DOMAIN f : f[n] = x})
      BY <1>1
    <3>2. Cardinality({n \in DOMAIN f : f[n] = x}) = IF x \in ToSet(f) THEN 1 ELSE 0
      BY OccursOnce
    <3>. QED BY <3>1, <3>2
  <2>2. released[x] \in {0, 1}
    BY <1>1
  <2>3. x \in ToSet(f) => released[x] = 0
    BY <1>1, <2>2
  <2>. QED BY <2>1, <2>2, <2>3
<1>3. \A x \in 1 .. MaxPointers : released[x] \in {0, 1}
  BY <1>1
<1>4. DOMAIN released' = 1 .. MaxPointers /\ \A x \in 1 .. MaxPointers : released'[x] \in {0, 1}
  BY <1>1, <1>2, <1>3
<1>5. released' \in [1 .. MaxPointers -> {0, 1}]
  <2>1. released' = [x \in 1 .. MaxPointers |-> released'[x]]
    BY <1>1
  <2>. QED BY <1>4, <2>1
<1>6. added \in 0 .. MaxPointers
  BY DEF PoolsInv
<1>. QED BY <1>1, <1>2, <1>3, <1>5, <1>6

LEMMA PointersStep == PoolsInv /\ PointersInv /\ [Next]_vars => PointersInv'
<1>. SUFFICES ASSUME PoolsInv, PointersInv, [Next]_vars PROVE PointersInv'
  OBVIOUS
<1>0. /\ pool \in [Pools -> Pool] /\ (\A k \in Pools : PoolOK(pool[k]))
      /\ \A k \in Pools : Contents(pool[k]) \in Seq(Nat)
      /\ added \in 0 .. MaxPointers /\ MaxPointers \in Nat
  BY ContentsOf, MemoryPoolAssumption DEF PoolsInv
<1>i. /\ released \in [1 .. MaxPointers -> {0, 1}]
      /\ \A i \in Pools : /\ Distinct(Contents(pool[i])) /\ ToSet(Contents(pool[i])) \subseteq 1 .. added
                          /\ \A x \in 1 .. MaxPointers : released[x] > 0 => x \notin ToSet(Contents(pool[i]))
      /\ \A i, j \in Pools : i # j => ToSet(Contents(pool[i])) \cap ToSet(Contents(pool[j])) = {}
      /\ \A x \in 1 .. MaxPointers : released[x] > 0 => x <= added
  BY DEF PointersInv
<1>s. ASSUME released' = released, added' = added,
             \A k \in Pools : Contents(pool'[k]) = Contents(pool[k])
      PROVE  PointersInv'
  BY <1>s DEF PointersInv
<1>1. ASSUME NEW i \in Pools, Add(i) PROVE PointersInv'
  <2>1. released' = released
    BY <1>1, AddStep
  <2>2. CASE pool' = pool /\ added' = added
    BY <1>s, <2>1, <2>2
  <2>3. CASE /\ \E r : /\ PoolOK(r) /\ pool' = [pool EXCEPT ![i] = r]
                       /\ Contents(r) = Append(Contents(pool[i]), added + 1)
             /\ added < MaxPointers /\ added' = added + 1
    <3>1. PICK r : /\ PoolOK(r) /\ pool' = [pool EXCEPT ![i] = r]
                   /\ Contents(r) = Append(Contents(pool[i]), added + 1)
      BY <2>3
    <3>. DEFINE c == Contents(pool[i])
                x == added + 1
    <3>2. /\ \A j \in Pools : j # i => pool'[j] = pool[j]
          /\ Contents(pool'[i]) = Append(c, x)
      BY <1>0, <3>1, OnePool
    <3>3. /\ x \in Nat /\ x \notin 1 .. added /\ 1 .. added \subseteq 1 .. x /\ x \in 1 .. x
          /\ c \in Seq(Nat) /\ added' = x
      BY <1>0, <2>3
    <3>4. Distinct(c) /\ ToSet(c) \subseteq 1 .. added
      BY <1>i
    <3>. HIDE DEF c, x
    <3>5. ToSet(Append(c, x)) = ToSet(c) \cup {x} /\ Distinct(Append(c, x))
      <4>1. x \notin ToSet(c)
        BY <3>3, <3>4
      <4>. QED BY <3>3, <3>4, <4>1, AppendElements
    <3>6. \A y \in 1 .. MaxPointers : released[y] > 0 => y # x /\ y <= x
      <4>. TAKE y \in 1 .. MaxPointers
      <4>1. released[y] > 0 => y <= added
        BY <1>i
      <4>2. y \in Nat
        OBVIOUS
      <4>. QED BY <1>0, <4>1, <4>2 DEF x
    <3>7. ASSUME NEW j \in Pools
          PROVE  /\ Distinct(Contents(pool'[j])) /\ ToSet(Contents(pool'[j])) \subseteq 1 .. x
                 /\ \A y \in 1 .. MaxPointers : released[y] > 0 => y \notin ToSet(Contents(pool'[j]))
      <4>1. CASE j = i
        <5>1. Contents(pool'[j]) = Append(c, x)
          BY <3>2, <4>1
        <5>2. \A y \in 1 .. MaxPointers : released[y] > 0 => y \notin ToSet(c)
          BY <1>i DEF c
        <5>3. ToSet(Append(c, x)) \subseteq 1 .. x
          BY <3>3, <3>4, <3>5
        <5>4. \A y \in 1 .. MaxPointers : released[y] > 0 => y \notin ToSet(Append(c, x))
          BY <3>5, <3>6, <5>2
        <5>. QED BY <3>5, <5>1, <5>3, <5>4
      <4>2. CASE j # i
        BY <1>i, <3>2, <3>3, <4>2
      <4>. QED BY <4>1, <4>2
    <3>8. ASSUME NEW j \in Pools, NEW k \in Pools, j # k
          PROVE  ToSet(Contents(pool'[j])) \cap ToSet(Contents(pool'[k])) = {}
      <4>1. \A l \in Pools : l # i =>
                ToSet(Contents(pool'[l])) = ToSet(Contents(pool[l])) /\ x \notin ToSet(Contents(pool[l]))
        BY <1>i, <3>2, <3>3
      <4>2. ToSet(Contents(pool'[i])) = ToSet(Contents(pool[i])) \cup {x}
        BY <3>2, <3>5 DEF c
      <4>3. \A l, m \in Pools : l # m => ToSet(Contents(pool[l])) \cap ToSet(Contents(pool[m])) = {}
        BY <1>i
      <4>4. CASE j = i
        BY <3>8, <4>1, <4>2, <4>3, <4>4
      <4>5. CASE k = i
        BY <3>8, <4>1, <4>2, <4>3, <4>5
      <4>6. CASE j # i /\ k # i
        BY <3>8, <4>1, <4>3, <4>6
      <4>. QED BY <4>4, <4>5, <4>6
    <3>. QED BY <1>i, <2>1, <3>3, <3>6, <3>7, <3>8 DEF PointersInv
  <2>. QED BY <1>1, <2>2, <2>3, AddStep
<1>2. ASSUME NEW i \in Pools, NEW depth \in 0 .. MaxPointers, DrainTo(i, depth) PROVE PointersInv'
  <2>0. depth \in Nat
    BY <1>0
  <2>1. added' = added
    BY <1>2, <2>0, DrainStep
  <2>2. PICK r, f :
          /\ PoolOK(r) /\ r.depth = depth /\ pool' = [pool EXCEPT ![i] = r]
          /\ FreedFrom(Contents(pool[i]), Contents(r), f)
          /\ released' = [x \in DOMAIN released |->
                            released[x] + Cardinality({n \in DOMAIN f : f[n] = x})]
    BY <1>2, <2>0, DrainStep
  <2>. DEFINE c == Contents(pool[i])
              a == Contents(r)
  <2>3. a \in Seq(Nat) /\ c \in Seq(Nat) /\ Distinct(c)
    <3>1. Shape(r)
      BY <2>2 DEF PoolOK
    <3>. QED BY <1>0, <1>i, <3>1, ContentsTyped
  <2>4. /\ \A j \in Pools : j # i => pool'[j] = pool[j]
        /\ Contents(pool'[i]) = a
    BY <1>0, <2>2, OnePool
  <2>. HIDE DEF c, a
  <2>5. /\ f \in Seq(Nat) /\ Distinct(f) /\ Distinct(a)
        /\ ToSet(c) = ToSet(a) \cup ToSet(f) /\ ToSet(a) \cap ToSet(f) = {}
    BY <2>2, <2>3, FreedElements DEF c, a
  <2>6. /\ released' \in [1 .. MaxPointers -> {0, 1}]
        /\ \A x \in 1 .. MaxPointers : released'[x] > 0 <=> released[x] > 0 \/ x \in ToSet(f)
        /\ ToSet(f) \subseteq 1 .. added
    <3>1. ToSet(f) \subseteq ToSet(Contents(pool[i]))
      BY <2>5 DEF c
    <3>. QED BY <2>2, <2>5, <3>1, ReleasedOnce
  <2>7. \A l, m \in Pools : l # m => ToSet(Contents(pool[l])) \cap ToSet(Contents(pool[m])) = {}
    BY <1>i
  <2>8. /\ ToSet(Contents(pool'[i])) = ToSet(a) /\ ToSet(Contents(pool[i])) = ToSet(a) \cup ToSet(f)
        /\ \A l \in Pools : l # i => ToSet(Contents(pool'[l])) = ToSet(Contents(pool[l]))
    BY <2>4, <2>5 DEF c
  <2>9. ASSUME NEW j \in Pools
        PROVE  /\ Distinct(Contents(pool'[j])) /\ ToSet(Contents(pool'[j])) \subseteq 1 .. added
               /\ \A y \in 1 .. MaxPointers : released'[y] > 0 => y \notin ToSet(Contents(pool'[j]))
    <3>0. /\ ToSet(Contents(pool[j])) \subseteq 1 .. added /\ Distinct(Contents(pool[j]))
          /\ \A x \in 1 .. MaxPointers : released[x] > 0 => x \notin ToSet(Contents(pool[j]))
      BY <1>i
    <3>1. CASE j = i
      BY <2>4, <2>5, <2>6, <2>8, <3>0, <3>1
    <3>2. CASE j # i
      <4>1. ToSet(Contents(pool[j])) \cap ToSet(Contents(pool[i])) = {}
        BY <2>7, <3>2
      <4>2. ToSet(f) \cap ToSet(Contents(pool[j])) = {}
        BY <2>8, <4>1
      <4>. QED BY <2>4, <2>6, <3>0, <3>2, <4>2
    <3>. QED BY <3>1, <3>2
  <2>10. ASSUME NEW j \in Pools, NEW k \in Pools, j # k
         PROVE  ToSet(Contents(pool'[j])) \cap ToSet(Contents(pool'[k])) = {}
    <3>1. \A l \in Pools : ToSet(Contents(pool'[l])) \subseteq ToSet(Contents(pool[l]))
      BY <2>8
    <3>2. ToSet(Contents(pool[j])) \cap ToSet(Contents(pool[k])) = {}
      BY <2>7, <2>10
    <3>. QED BY <3>1, <3>2
  <2>11. ASSUME NEW x \in 1 .. MaxPointers, released'[x] > 0 PROVE x <= added
    <3>1. released[x] > 0 => x <= added
      BY <1>i
    <3>2. x \in ToSet(f) => x <= added
      BY <2>6
    <3>. QED BY <2>6, <2>11, <3>1, <3>2
  <2>. QED BY <2>1, <2>6, <2>9, <2>10, <2>11 DEF PointersInv
<1>3. ASSUME NEW i \in Pools, NEW j \in Pools, Merge(i, j) PROVE PointersInv'
  <2>1. added' = added /\ released' = released /\ i # j
    BY <1>3, MergeStep
  <2>2. CASE pool' = pool
    BY <1>s, <2>1, <2>2
  <2>3. ASSUME NEW r, NEW s, PoolOK(r), PoolOK(s), pool' = [pool EXCEPT ![i] = r, ![j] = s],
               Contents(r) = Contents(pool[i]) \o Contents(pool[j]), Contents(s) = <<>>
        PROVE  PointersInv'
    <3>1. /\ pool'[i] = r /\ pool'[j] = s /\ \A k \in Pools : k # i /\ k # j => pool'[k] = pool[k]
      BY <1>0, <2>1, <2>3, TwoPools
    <3>. DEFINE c == Contents(pool[i])
                d == Contents(pool[j])
                E(k) == ToSet(Contents(pool[k]))
    <3>2. c \in Seq(Nat) /\ d \in Seq(Nat) /\ Distinct(c) /\ Distinct(d) /\ ToSet(c) \cap ToSet(d) = {}
      BY <1>0, <1>i, <2>1
    <3>3. ToSet(c \o d) = ToSet(c) \cup ToSet(d) /\ Distinct(c \o d)
      <4>. HIDE DEF c, d
      <4>. QED BY <3>2, ConcatElements
    <3>4. /\ Distinct(Contents(pool'[i])) /\ ToSet(Contents(pool'[i])) = E(i) \cup E(j)
          /\ Distinct(Contents(pool'[j])) /\ ToSet(Contents(pool'[j])) = {}
          /\ \A k \in Pools : k # i /\ k # j =>
                ToSet(Contents(pool'[k])) = E(k) /\ Contents(pool'[k]) = Contents(pool[k])
      BY <2>3, <3>1, <3>3, EmptyElements
    <3>5. \A l, m \in Pools : l # m => E(l) \cap E(m) = {}
      BY <1>i
    <3>6. \A k \in Pools : /\ Distinct(Contents(pool[k])) /\ E(k) \subseteq 1 .. added
                           /\ \A x \in 1 .. MaxPointers : released[x] > 0 => x \notin E(k)
      BY <1>i
    <3>. HIDE DEF E, c, d
    <3>7. ASSUME NEW k \in Pools
          PROVE  /\ Distinct(Contents(pool'[k])) /\ ToSet(Contents(pool'[k])) \subseteq 1 .. added
                 /\ \A y \in 1 .. MaxPointers : released[y] > 0 => y \notin ToSet(Contents(pool'[k]))
      <4>1. CASE k = i
        BY <3>4, <3>6, <4>1
      <4>2. CASE k = j
        BY <3>4, <4>2
      <4>3. CASE k # i /\ k # j
        BY <3>4, <3>6, <4>3
      <4>. QED BY <4>1, <4>2, <4>3
    <3>8. ASSUME NEW l \in Pools, NEW m \in Pools, l # m
          PROVE  ToSet(Contents(pool'[l])) \cap ToSet(Contents(pool'[m])) = {}
      <4>1. E(l) \cap E(m) = {} /\ E(i) \cap E(j) = {}
        BY <2>1, <3>5, <3>8
      <4>2. CASE l = j \/ m = j
        BY <3>4, <4>2
      <4>3. CASE l = i /\ m # j
        <5>1. E(j) \cap E(m) = {} /\ m # i
          BY <3>5, <3>8, <4>3
        <5>. QED BY <3>4, <4>1, <4>3, <5>1
      <4>4. CASE m = i /\ l # j
        <5>1. E(j) \cap E(l) = {} /\ l # i
          BY <3>5, <3>8, <4>4
        <5>. QED BY <3>4, <4>1, <4>4, <5>1
      <4>5. CASE l # i /\ l # j /\ m # i /\ m # j
        BY <3>4, <4>1, <4>5
      <4>. QED BY <4>2, <4>3, <4>4, <4>5
    <3>. QED BY <1>i, <2>1, <3>7, <3>8 DEF PointersInv
  <2>. QED BY <1>3, <2>2, <2>3, MergeStep
<1>4. ASSUME NEW i \in Pools, NEW j \in Pools, MergeFails(i, j) PROVE PointersInv'
  BY <1>s, <1>4, MergeFailsStep
<1>5. CASE UNCHANGED vars
  BY <1>5 DEF vars, PointersInv
<1>. QED BY <1>1, <1>2, <1>3, <1>4, <1>5 DEF Next

LEMMA PoolInvariant == Spec => [](PoolsInv /\ PointersInv)
  BY InitPools, PoolsStep, PointersStep, PTL DEF Spec

\* A pointer is freed once, and not while a pool has it.
THEOREM FreedOnceTheorem == Spec => []FreedOnce
<1>1. PoolsInv /\ PointersInv => FreedOnce
  <2>. SUFFICES ASSUME PoolsInv, PointersInv PROVE FreedOnce
    OBVIOUS
  <2>1. DOMAIN released = 1 .. MaxPointers /\ \A x \in 1 .. MaxPointers : released[x] \in {0, 1}
    BY DEF PointersInv
  <2>. QED BY <2>1 DEF PointersInv, FreedOnce
<1>. QED BY <1>1, PoolInvariant, PTL

-----------------------------------------------------------------------------
(* Pools are stacks: each step is one of the stacks, or none.               *)
LEMMA AddRefines ==
  ASSUME PoolsInv, NEW i \in Pools, Add(i)
  PROVE  Stacks!Add(i) \/ UNCHANGED <<StacksOf(pool), released, added>>
<1>1. released' = released
  BY AddStep
<1>2. CASE pool' = pool /\ added' = added
  BY <1>1, <1>2 DEF StacksOf
<1>3. CASE /\ \E r : /\ PoolOK(r) /\ pool' = [pool EXCEPT ![i] = r]
                     /\ Contents(r) = Append(Contents(pool[i]), added + 1)
           /\ added < MaxPointers /\ added' = added + 1
  <2>1. PICK r : /\ PoolOK(r) /\ pool' = [pool EXCEPT ![i] = r]
                 /\ Contents(r) = Append(Contents(pool[i]), added + 1)
    BY <1>3
  <2>2. StacksOf(pool') = [StacksOf(pool) EXCEPT ![i] = Contents(r)]
    <3>1. pool \in [Pools -> Pool] /\ \A k \in Pools : PoolOK(pool[k])
      BY DEF PoolsInv
    <3>2. pool'[i] = r /\ \A j \in Pools : j # i => pool'[j] = pool[j]
      BY <2>1, <3>1, OnePool
    <3>. QED BY <3>2 DEF StacksOf
  <2>3. StacksOf(pool') = [StacksOf(pool) EXCEPT ![i] = Append(@, added + 1)]
    BY <2>1, <2>2 DEF StacksOf
  <2>. QED BY <1>1, <1>3, <2>3 DEF Stacks!Add, StacksOf
<1>. QED BY <1>2, <1>3, AddStep

LEMMA DrainRefines ==
  ASSUME PoolsInv, PointersInv, NEW i \in Pools, NEW depth \in 0 .. MaxPointers, DrainTo(i, depth)
  PROVE  Stacks!DrainTo(i, depth)
<1>0. /\ depth \in Nat /\ pool \in [Pools -> Pool] /\ \A k \in Pools : PoolOK(pool[k])
  <2>1. pool \in [Pools -> Pool] /\ \A k \in Pools : PoolOK(pool[k])
    BY DEF PoolsInv
  <2>2. depth \in Nat
    BY MemoryPoolAssumption
  <2>. QED BY <2>1, <2>2
<1>1. PICK r, f :
        /\ PoolOK(r) /\ r.depth = depth /\ pool' = [pool EXCEPT ![i] = r]
        /\ FreedFrom(Contents(pool[i]), Contents(r), f)
        /\ released' = [x \in DOMAIN released |->
                          released[x] + Cardinality({n \in DOMAIN f : f[n] = x})]
  BY <1>0, DrainStep
<1>. DEFINE c == Contents(pool[i])
            a == Contents(r)
            s == StacksOf(pool)
<1>2. added' = added /\ depth < Len(c)
  BY <1>0, DrainStep
<1>3. a \in Seq(Nat) /\ c \in Seq(Nat) /\ Distinct(c) /\ Len(a) = depth
  <2>1. Shape(r) /\ Len(a) = depth
    BY <1>1 DEF PoolOK
  <2>. QED BY <2>1, ContentsOf, ContentsTyped DEF PointersInv
<1>4. StacksOf(pool') = [s EXCEPT ![i] = a]
  <2>1. pool'[i] = r /\ \A j \in Pools : j # i => pool'[j] = pool[j]
    BY <1>0, <1>1, OnePool
  <2>. QED BY <2>1 DEF StacksOf
<1>5. s[i] = c
  BY DEF StacksOf
<1>. HIDE DEF c, a
<1>6. /\ f \in Seq(Nat) /\ Distinct(f) /\ ToSet(c) = ToSet(a) \cup ToSet(f)
      /\ ToSet(f) = {c[k] : k \in Len(a) + 1 .. Len(c)} /\ a = SubSeq(c, 1, Len(a))
  BY <1>1, <1>3, FreedElements DEF c, a
<1>7. /\ released' \in [1 .. MaxPointers -> {0, 1}]
      /\ \A x \in 1 .. MaxPointers : released'[x] > 0 <=> released[x] > 0 \/ x \in ToSet(f)
      /\ ToSet(f) \subseteq 1 .. added /\ added \in 0 .. MaxPointers
  <2>1. ToSet(f) \subseteq ToSet(Contents(pool[i]))
    BY <1>6 DEF c
  <2>. QED BY <1>1, <1>6, <2>1, ReleasedOnce
<1>8. {x \in DOMAIN released' : released'[x] > 0} =
        {x \in DOMAIN released : released[x] > 0} \cup {c[k] : k \in depth + 1 .. Len(c)}
  <2>1. DOMAIN released = 1 .. MaxPointers
    BY DEF PointersInv
  <2>2. DOMAIN released' = 1 .. MaxPointers
    BY <1>7
  <2>3. ToSet(f) \subseteq 1 .. MaxPointers
    <3>1. 1 .. added \subseteq 1 .. MaxPointers
      BY <1>7, MemoryPoolAssumption
    <3>. QED BY <1>7, <3>1
  <2>4. {x \in 1 .. MaxPointers : released'[x] > 0} =
          {x \in 1 .. MaxPointers : released[x] > 0} \cup ToSet(f)
    BY <1>7, <2>3
  <2>5. ToSet(f) = {c[k] : k \in depth + 1 .. Len(c)}
    BY <1>3, <1>6
  <2>. QED BY <2>1, <2>2, <2>4, <2>5
<1>9. StacksOf(pool') = [s EXCEPT ![i] = SubSeq(@, 1, depth)]
  BY <1>3, <1>4, <1>5, <1>6
<1>10. depth < Len(s[i])
  BY <1>2, <1>5
<1>11. {c[k] : k \in depth + 1 .. Len(c)} = {s[i][k] : k \in depth + 1 .. Len(s[i])}
  BY <1>5
<1>. QED BY <1>2, <1>8, <1>9, <1>10, <1>11 DEF Stacks!DrainTo, StacksOf

LEMMA MergeRefines ==
  ASSUME PoolsInv, NEW i \in Pools, NEW j \in Pools, Merge(i, j)
  PROVE  /\ i # j
         /\ Stacks!Merge(i, j) \/ UNCHANGED <<StacksOf(pool), released, added>>
<1>1. added' = added /\ released' = released /\ i # j
  BY MergeStep
<1>2. CASE pool' = pool
  BY <1>1, <1>2 DEF StacksOf
<1>3. ASSUME NEW r, NEW s, PoolOK(r), PoolOK(s), pool' = [pool EXCEPT ![i] = r, ![j] = s],
             Contents(r) = Contents(pool[i]) \o Contents(pool[j]), Contents(s) = <<>>
      PROVE  Stacks!Merge(i, j)
  <2>1. StacksOf(pool') = [StacksOf(pool) EXCEPT ![i] = Contents(r), ![j] = Contents(s)]
    <3>1. pool \in [Pools -> Pool] /\ \A k \in Pools : PoolOK(pool[k])
      BY DEF PoolsInv
    <3>2. /\ pool'[i] = r /\ pool'[j] = s
          /\ \A k \in Pools : k # i /\ k # j => pool'[k] = pool[k]
      BY <1>1, <1>3, <3>1, TwoPools
    <3>. QED BY <1>1, <3>2 DEF StacksOf
  <2>2. StacksOf(pool') = [StacksOf(pool) EXCEPT ![i] = @ \o StacksOf(pool)[j], ![j] = <<>>]
    BY <1>3, <2>1 DEF StacksOf
  <2>. QED BY <1>1, <2>2 DEF Stacks!Merge, StacksOf
<1>. QED BY <1>1, <1>2, <1>3, MergeStep

\* memory.h: the pools are stacks of pointers, of which draining frees what is above
\* a depth and merging puts one on top of the other.
THEOREM PoolsAreStacks == Spec => ImplementsStacks
<1>1. Init => Stacks!Init
  <2>. SUFFICES ASSUME Init PROVE Stacks!Init
    OBVIOUS
  <2>1. StacksOf(pool) = [i \in Pools |-> <<>>]
    BY InitPools
  <2>2. released = [x \in 1 .. MaxPointers |-> 0] /\ added = 0
    BY DEF Init
  <2>3. {x \in DOMAIN released : released[x] > 0} = {}
    BY <2>2
  <2>. QED BY <2>1, <2>2, <2>3 DEF Stacks!Init, StacksOf
<1>2. PoolsInv /\ PointersInv /\ [Next]_vars => [Stacks!Next]_(Stacks!vars)
  <2>. SUFFICES ASSUME PoolsInv, PointersInv, [Next]_vars PROVE [Stacks!Next]_(Stacks!vars)
    OBVIOUS
  <2>s. ASSUME UNCHANGED <<StacksOf(pool), released, added>> PROVE UNCHANGED Stacks!vars
    BY <2>s DEF Stacks!vars, StacksOf
  <2>1. ASSUME NEW i \in Pools, Add(i) PROVE [Stacks!Next]_(Stacks!vars)
    BY <2>1, <2>s, AddRefines DEF Stacks!Next
  <2>2. ASSUME NEW i \in Pools, NEW depth \in 0 .. MaxPointers, DrainTo(i, depth)
        PROVE  Stacks!Next
    BY <2>2, DrainRefines DEF Stacks!Next
  <2>3. ASSUME NEW i \in Pools, NEW j \in Pools, Merge(i, j) PROVE [Stacks!Next]_(Stacks!vars)
    BY <2>3, <2>s, MergeRefines DEF Stacks!Next
  <2>4. ASSUME NEW i \in Pools, NEW j \in Pools, MergeFails(i, j) PROVE UNCHANGED Stacks!vars
    BY <2>4, <2>s, MergeFailsStep
  <2>5. CASE UNCHANGED vars
    BY <2>5, <2>s DEF vars, StacksOf
  <2>. QED BY <2>1, <2>2, <2>3, <2>4, <2>5 DEF Next
<1>. QED BY <1>1, <1>2, PoolInvariant, PTL DEF Spec, Stacks!Spec, ImplementsStacks
=============================================================================
