---------------------------- MODULE SequenceLemmas ----------------------------
(* Induction over the natural numbers and over sequences, in a form that      *)
(* takes a set instead of a predicate, and what follows from it for Filter    *)
(* and for FlattenSeq.                                                        *)
EXTENDS Filters, SequencesExt, FiniteSets, WellFoundedInduction, SequenceTheorems, TLAPS

\* A set of natural numbers that is not empty has a least element.
LEMMA LeastOfSet ==
  ASSUME NEW T \in SUBSET Nat, T # {}
  PROVE  \E n \in T : \A m \in T : n <= m
<1>. DEFINE R == OpToRel(<, Nat)
<1>1. IsWellFoundedOn(R, Nat)
  BY NatLessThanWellFounded
<1>2. R = {ss \in Nat \X Nat : ss[1] < ss[2]}
  BY DEF OpToRel
<1>. HIDE DEF R
<1>3. PICK n \in T : \A m \in T : <<m, n>> \notin R
  BY <1>1, WFMin
<1>4. ASSUME NEW m \in T PROVE n <= m
  <2>1. <<m, n>> \in Nat \X Nat /\ <<m, n>>[1] = m /\ <<m, n>>[2] = n
    OBVIOUS
  <2>2. ~(<<m, n>>[1] < <<m, n>>[2])
    BY <1>2, <1>3, <2>1
  <2>. QED BY <2>1, <2>2
<1>. QED BY <1>4

\* Induction: the set T takes the place of the predicate.
LEMMA NaturalsInSet ==
  ASSUME NEW T, 0 \in T, \A n \in Nat : n \in T => n + 1 \in T
  PROVE  Nat \subseteq T
<1>. SUFFICES ASSUME Nat \ T # {} PROVE FALSE
  OBVIOUS
<1>1. PICK n \in Nat \ T : \A m \in Nat \ T : n <= m
  BY LeastOfSet
<1>2. n - 1 \in Nat /\ n - 1 \notin T
  BY <1>1
<1>. QED BY <1>1, <1>2

\* Induction over the sequences that Append makes.
LEMMA SequencesInSet ==
  ASSUME NEW S, NEW T, <<>> \in T,
         \A s \in Seq(S), x \in S : s \in T => Append(s, x) \in T
  PROVE  Seq(S) \subseteq T
<1>. DEFINE P == {n \in Nat : \A s \in Seq(S) : Len(s) = n => s \in T}
<1>1. 0 \in P
  <2>1. \A s \in Seq(S) : Len(s) = 0 => s = <<>>
    BY EmptySeq
  <2>. QED BY <2>1
<1>2. ASSUME NEW n \in Nat, n \in P PROVE n + 1 \in P
  <2>. SUFFICES ASSUME NEW s \in Seq(S), Len(s) = n + 1 PROVE s \in T
    OBVIOUS
  <2>1. PICK t \in Seq(S), x \in S : s = Append(t, x)
    <3>1. s # <<>>
      OBVIOUS
    <3>. QED BY <3>1, SequenceEmptyOrAppend
  <2>2. Len(t) = n
    BY <2>1, AppendProperties
  <2>. QED BY <1>2, <2>1, <2>2
<1>. HIDE DEF P
<1>3. Nat \subseteq P
  BY <1>1, <1>2, NaturalsInSet
<1>4. ASSUME NEW s \in Seq(S) PROVE s \in T
  <2>1. Len(s) \in P
    BY <1>3
  <2>. QED BY <2>1 DEF P
<1>. QED BY <1>4
-----------------------------------------------------------------------------
(* The function that Filter is defined by exists.                           *)
Filtered(s, kept, n, f) ==
  f = [i \in 0 .. n |->
         IF i = 0 THEN <<>>
         ELSE IF s[i] \in kept THEN Append(f[i - 1], s[i]) ELSE f[i - 1]]

LEMMA FilteredExists ==
  ASSUME NEW s, NEW kept, NEW n \in Nat
  PROVE  \E f : Filtered(s, kept, n, f)
<1>. DEFINE P == {m \in Nat : \E f : Filtered(s, kept, m, f)}
<1>1. 0 \in P
  <2>. DEFINE f == [i \in 0 .. 0 |-> <<>>]
  <2>1. Filtered(s, kept, 0, f)
    BY DEF Filtered
  <2>. QED BY <2>1
<1>2. ASSUME NEW m \in Nat, m \in P PROVE m + 1 \in P
  <2>1. PICK f : Filtered(s, kept, m, f)
    BY <1>2
  <2>. DEFINE g == [i \in 0 .. m + 1 |->
                      IF i <= m THEN f[i]
                      ELSE IF s[i] \in kept THEN Append(f[i - 1], s[i]) ELSE f[i - 1]]
              Next(i, h) == IF i = 0 THEN <<>>
                            ELSE IF s[i] \in kept THEN Append(h[i - 1], s[i]) ELSE h[i - 1]
  <2>2. \A i \in 0 .. m : f[i] = Next(i, f)
    BY <2>1 DEF Filtered
  <2>3. \A i \in 0 .. m : g[i] = f[i]
    OBVIOUS
  <2>4. ASSUME NEW i \in 0 .. m + 1 PROVE g[i] = Next(i, g)
    <3>1. CASE i = 0
      BY <3>1, <2>2
    <3>2. CASE i # 0
      <4>1. i - 1 \in 0 .. m
        BY <3>2
      <4>. QED BY <3>2, <4>1, <2>2, <2>3
    <3>. QED BY <3>1, <3>2
  <2>5. Filtered(s, kept, m + 1, g)
    BY <2>4 DEF Filtered
  <2>. QED BY <2>5
<1>. HIDE DEF P
<1>3. Nat \subseteq P
  BY <1>1, <1>2, NaturalsInSet
<1>. QED BY <1>3 DEF P

LEMMA FilterAsFunction ==
  ASSUME NEW S, NEW s \in Seq(S), NEW kept
  PROVE  \E f : Filtered(s, kept, Len(s), f) /\ Filter(s, kept) = f[Len(s)]
<1>1. Len(s) \in Nat
  OBVIOUS
<1>2. \E f : Filtered(s, kept, Len(s), f)
  BY <1>1, FilteredExists
<1>3. Filtered(s, kept, Len(s), CHOOSE f : Filtered(s, kept, Len(s), f))
  BY <1>2
<1>. QED BY <1>3 DEF Filter, Filtered

\* Two such functions agree as far as the sequences they are of do.
LEMMA FilteredUnique ==
  ASSUME NEW s, NEW t, NEW kept, NEW m \in Nat, NEW n \in Nat, NEW f, NEW g,
         Filtered(s, kept, m, f), Filtered(t, kept, n, g),
         m <= n, \A i \in 1 .. m : s[i] = t[i]
  PROVE  f[m] = g[m]
<1>. DEFINE P == {k \in Nat : k <= m => f[k] = g[k]}
<1>1. 0 \in P
  BY DEF Filtered
<1>2. ASSUME NEW k \in Nat, k \in P PROVE k + 1 \in P
  <2>. SUFFICES ASSUME k + 1 <= m PROVE f[k + 1] = g[k + 1]
    OBVIOUS
  <2>1. k + 1 \in 1 .. m /\ k + 1 \in 1 .. n /\ (k + 1) - 1 = k /\ k + 1 \in 0 .. m /\ k + 1 \in 0 .. n
    OBVIOUS
  <2>2. f[k + 1] = IF s[k + 1] \in kept THEN Append(f[k], s[k + 1]) ELSE f[k]
    <3>1. \A i \in 0 .. m : f[i] = IF i = 0 THEN <<>>
             ELSE IF s[i] \in kept THEN Append(f[i - 1], s[i]) ELSE f[i - 1]
      BY DEF Filtered
    <3>. QED BY <3>1, <2>1
  <2>3. g[k + 1] = IF t[k + 1] \in kept THEN Append(g[k], t[k + 1]) ELSE g[k]
    <3>1. \A i \in 0 .. n : g[i] = IF i = 0 THEN <<>>
             ELSE IF t[i] \in kept THEN Append(g[i - 1], t[i]) ELSE g[i - 1]
      BY DEF Filtered
    <3>. QED BY <3>1, <2>1
  <2>4. s[k + 1] = t[k + 1] /\ f[k] = g[k]
    BY <1>2, <2>1
  <2>. QED BY <2>2, <2>3, <2>4
<1>. HIDE DEF P
<1>3. Nat \subseteq P
  BY <1>1, <1>2, NaturalsInSet
<1>. QED BY <1>3 DEF P
-----------------------------------------------------------------------------
LEMMA FilterEmpty ==
  ASSUME NEW kept
  PROVE  Filter(<<>>, kept) = <<>>
<1>1. <<>> \in Seq({}) /\ Len(<<>>) = 0
  OBVIOUS
<1>2. PICK f : Filtered(<<>>, kept, Len(<<>>), f) /\ Filter(<<>>, kept) = f[Len(<<>>)]
  BY <1>1, FilterAsFunction
<1>3. \A i \in 0 .. 0 : f[i] = IF i = 0 THEN <<>>
             ELSE IF <<>>[i] \in kept THEN Append(f[i - 1], <<>>[i]) ELSE f[i - 1]
  BY <1>1, <1>2 DEF Filtered
<1>. QED BY <1>1, <1>2, <1>3

LEMMA FilterAppend ==
  ASSUME NEW S, NEW s \in Seq(S), NEW x \in S, NEW kept
  PROVE  Filter(Append(s, x), kept) =
           IF x \in kept THEN Append(Filter(s, kept), x) ELSE Filter(s, kept)
<1>. DEFINE t == Append(s, x)
            n == Len(s)
<1>1. /\ t \in Seq(S) /\ n \in Nat /\ Len(t) = n + 1
      /\ t[n + 1] = x /\ \A i \in 1 .. n : s[i] = t[i]
  BY AppendProperties
<1>2. PICK f : Filtered(s, kept, n, f) /\ Filter(s, kept) = f[n]
  BY FilterAsFunction
<1>3. PICK g : Filtered(t, kept, n + 1, g) /\ Filter(t, kept) = g[n + 1]
  BY <1>1, FilterAsFunction
<1>. HIDE DEF t, n
<1>4. f[n] = g[n]
  <2>1. n <= n + 1 /\ n + 1 \in Nat
    BY <1>1
  <2>. QED BY <1>1, <1>2, <1>3, <2>1, FilteredUnique
<1>5. g[n + 1] = IF t[n + 1] \in kept THEN Append(g[n], t[n + 1]) ELSE g[n]
  <2>1. \A i \in 0 .. n + 1 : g[i] = IF i = 0 THEN <<>>
             ELSE IF t[i] \in kept THEN Append(g[i - 1], t[i]) ELSE g[i - 1]
    BY <1>3 DEF Filtered
  <2>2. n + 1 \in 0 .. n + 1 /\ (n + 1) - 1 = n /\ n + 1 # 0
    BY <1>1
  <2>. QED BY <2>1, <2>2
<1>. QED BY <1>1, <1>2, <1>3, <1>4, <1>5 DEF t

\* The elements of a sequence.
Elements(s) == {s[i] : i \in DOMAIN s}

LEMMA ElementsAppend ==
  ASSUME NEW S, NEW s \in Seq(S), NEW x \in S
  PROVE  Elements(Append(s, x)) = Elements(s) \cup {x}
<1>. DEFINE t == Append(s, x)
<1>1. /\ t \in Seq(S) /\ Len(t) = Len(s) + 1 /\ t[Len(s) + 1] = x
      /\ \A i \in 1 .. Len(s) : t[i] = s[i]
  BY AppendProperties
<1>2. DOMAIN t = 1 .. Len(s) + 1 /\ DOMAIN s = 1 .. Len(s) /\ Len(s) \in Nat
  BY <1>1
<1>. HIDE DEF t
<1>3. ASSUME NEW y \in Elements(t) PROVE y \in Elements(s) \cup {x}
  <2>1. PICK i \in 1 .. Len(s) + 1 : y = t[i]
    BY <1>2, <1>3 DEF Elements
  <2>2. CASE i = Len(s) + 1
    BY <1>1, <2>1, <2>2
  <2>3. CASE i \in 1 .. Len(s)
    BY <1>1, <1>2, <2>1, <2>3 DEF Elements
  <2>. QED BY <1>2, <2>1, <2>2, <2>3
<1>4. ASSUME NEW y \in Elements(s) \cup {x} PROVE y \in Elements(t)
  <2>1. CASE y = x
    <3>1. Len(s) + 1 \in DOMAIN t
      BY <1>2
    <3>. QED BY <1>1, <2>1, <3>1 DEF Elements
  <2>2. CASE y \in Elements(s)
    <3>1. PICK i \in 1 .. Len(s) : y = s[i]
      BY <1>2, <2>2 DEF Elements
    <3>2. i \in DOMAIN t /\ t[i] = y
      BY <1>1, <1>2, <3>1
    <3>. QED BY <3>2 DEF Elements
  <2>. QED BY <1>4, <2>1, <2>2
<1>5. Elements(t) = Elements(s) \cup {x}
  BY <1>3, <1>4
<1>. QED BY <1>5 DEF t

\* What is kept is what the sequence has of `kept'.
LEMMA FilterElements ==
  ASSUME NEW S, NEW s \in Seq(S), NEW kept
  PROVE  /\ Filter(s, kept) \in Seq(S)
         /\ Elements(Filter(s, kept)) = Elements(s) \cap kept
<1>. DEFINE T == {t \in Seq(S) : /\ Filter(t, kept) \in Seq(S)
                                 /\ Elements(Filter(t, kept)) = Elements(t) \cap kept}
<1>1. <<>> \in T
  <2>1. <<>> \in Seq(S) /\ Elements(<<>>) = {}
    BY DEF Elements
  <2>. QED BY <2>1, FilterEmpty
<1>2. ASSUME NEW t \in Seq(S), NEW x \in S, t \in T
      PROVE  Append(t, x) \in T
  <2>1. Append(t, x) \in Seq(S) /\ Elements(Append(t, x)) = Elements(t) \cup {x}
    BY ElementsAppend
  <2>2. CASE x \in kept
    <3>1. Filter(Append(t, x), kept) = Append(Filter(t, kept), x)
      BY <2>2, FilterAppend
    <3>2. /\ Append(Filter(t, kept), x) \in Seq(S)
          /\ Elements(Append(Filter(t, kept), x)) = Elements(Filter(t, kept)) \cup {x}
      BY <1>2, ElementsAppend
    <3>. QED BY <1>2, <2>1, <2>2, <3>1, <3>2
  <2>3. CASE x \notin kept
    <3>1. Filter(Append(t, x), kept) = Filter(t, kept)
      BY <2>3, FilterAppend
    <3>. QED BY <1>2, <2>1, <2>3, <3>1
  <2>. QED BY <2>2, <2>3
<1>. HIDE DEF T
<1>3. Seq(S) \subseteq T
  BY <1>1, <1>2, SequencesInSet
<1>. QED BY <1>3 DEF T
-----------------------------------------------------------------------------
\* Filtering is done from the front as well as from the back.
LEMMA FilterHead ==
  ASSUME NEW S, NEW s \in Seq(S), s # <<>>, NEW kept
  PROVE  Filter(s, kept) =
           IF Head(s) \in kept THEN <<Head(s)>> \o Filter(Tail(s), kept)
           ELSE Filter(Tail(s), kept)
<1>. DEFINE First(t) == IF Head(t) \in kept THEN <<Head(t)>> \o Filter(Tail(t), kept)
                        ELSE Filter(Tail(t), kept)
            T == {t \in Seq(S) : t # <<>> => Filter(t, kept) = First(t)}
<1>1. <<>> \in T
  OBVIOUS
<1>2. ASSUME NEW t \in Seq(S), NEW x \in S, t \in T
      PROVE  Append(t, x) \in T
  <2>. DEFINE u == Append(t, x)
  <2>1. u \in Seq(S) /\ u # <<>>
    BY AppendProperties
  <2>2. /\ Head(u) = IF t = <<>> THEN x ELSE Head(t)
        /\ Tail(u) = IF t = <<>> THEN <<>> ELSE Append(Tail(t), x)
    BY HeadTailAppend
  <2>3. Filter(u, kept) =
          IF x \in kept THEN Append(Filter(t, kept), x) ELSE Filter(t, kept)
    BY FilterAppend
  <2>4. CASE t = <<>>
    <3>1. Filter(t, kept) = <<>> /\ Filter(Tail(u), kept) = <<>>
      BY <2>2, <2>4, FilterEmpty
    <3>2. Append(<<>>, x) = <<x>> \o <<>>
      BY <1>2
    <3>. QED BY <2>1, <2>2, <2>3, <2>4, <3>1, <3>2
  <2>5. CASE t # <<>>
    <3>1. Tail(t) \in Seq(S) /\ Head(t) \in S
      BY <2>5, HeadTailProperties
    <3>2. Filter(Tail(u), kept) = IF x \in kept THEN Append(Filter(Tail(t), kept), x)
                                  ELSE Filter(Tail(t), kept)
      BY <2>2, <2>5, <3>1, FilterAppend
    <3>3. Filter(t, kept) = First(t)
      BY <1>2, <2>5
    <3>4. Filter(Tail(t), kept) \in Seq(S)
      BY <3>1, FilterElements
    <3>. DEFINE f == Filter(Tail(t), kept)
    <3>5. Append(<<Head(t)>> \o f, x) = <<Head(t)>> \o Append(f, x)
      <4>. HIDE DEF f
      <4>1. <<Head(t)>> \in Seq(S) /\ <<x>> \in Seq(S) /\ f \in Seq(S)
        BY <3>1, <3>4 DEF f
      <4>2. (<<Head(t)>> \o f) \o <<x>> = <<Head(t)>> \o (f \o <<x>>)
        BY <4>1, ConcatAssociative
      <4>3. <<Head(t)>> \o f \in Seq(S)
        BY <4>1, ConcatProperties
      <4>. QED BY <4>1, <4>2, <4>3, AppendIsConcat
    <3>. HIDE DEF u
    <3>6. x \in kept => Filter(u, kept) = First(u)
      <4>. HAVE x \in kept
      <4>1. Filter(u, kept) = Append(First(t), x)
        BY <2>3, <3>3
      <4>. QED BY <2>2, <2>5, <3>2, <3>5, <4>1
    <3>7. x \notin kept => Filter(u, kept) = First(u)
      BY <2>2, <2>3, <2>5, <3>2, <3>3
    <3>8. u \in T
      BY <2>1, <3>6, <3>7
    <3>. QED BY <3>8 DEF u
  <2>. QED BY <2>4, <2>5
<1>. HIDE DEF T
<1>3. Seq(S) \subseteq T
  BY <1>1, <1>2, SequencesInSet
<1>. QED BY <1>3 DEF T

\* What is all kept is left as it is.
LEMMA FilterAll ==
  ASSUME NEW S, NEW s \in Seq(S), NEW kept, S \subseteq kept
  PROVE  Filter(s, kept) = s
<1>. DEFINE T == {t \in Seq(S) : Filter(t, kept) = t}
<1>1. <<>> \in T
  BY FilterEmpty
<1>2. ASSUME NEW t \in Seq(S), NEW x \in S, t \in T
      PROVE  Append(t, x) \in T
  <2>1. Append(t, x) \in Seq(S)
    BY AppendProperties
  <2>2. Filter(Append(t, x), kept) = Append(Filter(t, kept), x)
    BY FilterAppend
  <2>. QED BY <1>2, <2>1, <2>2
<1>. HIDE DEF T
<1>3. Seq(S) \subseteq T
  BY <1>1, <1>2, SequencesInSet
<1>. QED BY <1>3 DEF T
-----------------------------------------------------------------------------
(* Parts of sequences.                                                      *)
LEMMA SubSeqTyped ==
  ASSUME NEW S, NEW s \in Seq(S), NEW m \in 1 .. Len(s) + 1, NEW n \in 0 .. Len(s)
  PROVE  /\ SubSeq(s, m, n) \in Seq(S)
         /\ Len(SubSeq(s, m, n)) = IF m <= n THEN n - m + 1 ELSE 0
         /\ \A i \in 1 .. n - m + 1 : SubSeq(s, m, n)[i] = s[m + i - 1]
<1>1. Len(s) \in Nat /\ m \in Int /\ n \in Int
  OBVIOUS
<1>2. \A i \in m .. n : s[i] \in S
  <2>. TAKE i \in m .. n
  <2>1. i \in 1 .. Len(s)
    BY <1>1
  <2>. QED BY <2>1, ElementOfSeq
<1>. QED BY <1>1, <1>2, SubSeqProperties

-----------------------------------------------------------------------------
(* FlattenSeq, of which only the pieces are known one by one.               *)
Flattened(ss, n, f) ==
  f = [i \in 1 .. n |-> IF i = 1 THEN ss[i] ELSE f[i - 1] \o ss[i]]

LEMMA FlattenedExists ==
  ASSUME NEW ss, NEW n \in Nat
  PROVE  \E f : Flattened(ss, n, f)
<1>. DEFINE P == {m \in Nat : \E f : Flattened(ss, m, f)}
<1>1. 0 \in P
  <2>. DEFINE f == [i \in 1 .. 0 |-> <<>>]
  <2>1. Flattened(ss, 0, f)
    BY DEF Flattened
  <2>. QED BY <2>1
<1>2. ASSUME NEW m \in Nat, m \in P PROVE m + 1 \in P
  <2>1. PICK f : Flattened(ss, m, f)
    BY <1>2
  <2>. DEFINE Step(i, h) == IF i = 1 THEN ss[i] ELSE h[i - 1] \o ss[i]
              g == [i \in 1 .. m + 1 |-> IF i <= m THEN f[i] ELSE Step(i, f)]
  <2>2. \A i \in 1 .. m : f[i] = Step(i, f)
    BY <2>1 DEF Flattened
  <2>3. \A i \in 1 .. m : g[i] = f[i]
    OBVIOUS
  <2>4. ASSUME NEW i \in 1 .. m + 1 PROVE g[i] = Step(i, g)
    <3>1. CASE i = 1
      BY <3>1, <2>2
    <3>2. CASE i # 1
      <4>1. i - 1 \in 1 .. m
        BY <3>2
      <4>2. g[i - 1] = f[i - 1] /\ g[i] = IF i <= m THEN f[i] ELSE Step(i, f)
        BY <4>1, <2>3
      <4>3. g[i] = Step(i, f)
        <5>1. i <= m => i \in 1 .. m
          OBVIOUS
        <5>. QED BY <2>2, <4>2, <5>1
      <4>. HIDE DEF g
      <4>. QED BY <3>2, <4>2, <4>3
    <3>. QED BY <3>1, <3>2
  <2>5. Flattened(ss, m + 1, g)
    BY <2>4 DEF Flattened
  <2>. QED BY <2>5
<1>. HIDE DEF P
<1>3. Nat \subseteq P
  BY <1>1, <1>2, NaturalsInSet
<1>. QED BY <1>3 DEF P

LEMMA FlattenAsFunction ==
  ASSUME NEW S, NEW ss \in Seq(Seq(S))
  PROVE  \E f : /\ Flattened(ss, Len(ss), f)
                /\ FlattenSeq(ss) = IF Len(ss) = 0 THEN <<>> ELSE f[Len(ss)]
<1>1. Len(ss) \in Nat
  OBVIOUS
<1>2. \E f : Flattened(ss, Len(ss), f)
  BY <1>1, FlattenedExists
<1>3. Flattened(ss, Len(ss), CHOOSE f : Flattened(ss, Len(ss), f))
  BY <1>2
<1>4. Len(ss) = 0 => ss = <<>>
  BY EmptySeq
<1>. QED BY <1>3, <1>4 DEF FlattenSeq, Flattened

\* Two such functions agree as far as the sequences they are of do.
LEMMA FlattenedUnique ==
  ASSUME NEW ss, NEW tt, NEW m \in Nat, NEW n \in Nat, NEW f, NEW g,
         Flattened(ss, m, f), Flattened(tt, n, g),
         m <= n, \A i \in 1 .. m : ss[i] = tt[i]
  PROVE  m > 0 => f[m] = g[m]
<1>. DEFINE P == {k \in Nat : k \in 1 .. m => f[k] = g[k]}
<1>1. 0 \in P
  OBVIOUS
<1>2. ASSUME NEW k \in Nat, k \in P PROVE k + 1 \in P
  <2>. SUFFICES ASSUME k + 1 \in 1 .. m PROVE f[k + 1] = g[k + 1]
    OBVIOUS
  <2>1. k + 1 \in 1 .. m /\ k + 1 \in 1 .. n /\ (k + 1) - 1 = k
    OBVIOUS
  <2>2. f[k + 1] = IF k + 1 = 1 THEN ss[k + 1] ELSE f[k] \o ss[k + 1]
    BY <2>1 DEF Flattened
  <2>3. g[k + 1] = IF k + 1 = 1 THEN tt[k + 1] ELSE g[k] \o tt[k + 1]
    BY <2>1 DEF Flattened
  <2>4. k + 1 # 1 => f[k] = g[k]
    BY <1>2, <2>1
  <2>. QED BY <2>1, <2>2, <2>3, <2>4
<1>. HIDE DEF P
<1>3. Nat \subseteq P
  BY <1>1, <1>2, NaturalsInSet
<1>. QED BY <1>3 DEF P

LEMMA FlattenOne ==
  ASSUME NEW S, NEW s \in Seq(S)
  PROVE  FlattenSeq(<<s>>) = s
<1>. DEFINE ss == <<s>>
<1>1. ss \in Seq(Seq(S)) /\ Len(ss) = 1 /\ ss[1] = s
  OBVIOUS
<1>. HIDE DEF ss
<1>2. PICK f : Flattened(ss, Len(ss), f) /\ FlattenSeq(ss) = IF Len(ss) = 0 THEN <<>> ELSE f[Len(ss)]
  BY <1>1, FlattenAsFunction
<1>3. f[1] = ss[1]
  BY <1>1, <1>2 DEF Flattened
<1>. QED BY <1>1, <1>2, <1>3 DEF ss

LEMMA FlattenAppend ==
  ASSUME NEW S, NEW ss \in Seq(Seq(S)), NEW s \in Seq(S)
  PROVE  FlattenSeq(Append(ss, s)) = FlattenSeq(ss) \o s
<1>. DEFINE tt == Append(ss, s)
            n == Len(ss)
<1>1. /\ tt \in Seq(Seq(S)) /\ n \in Nat /\ Len(tt) = n + 1
      /\ tt[n + 1] = s /\ \A i \in 1 .. n : tt[i] = ss[i]
  BY AppendProperties
<1>2. PICK f : Flattened(ss, n, f) /\ FlattenSeq(ss) = IF n = 0 THEN <<>> ELSE f[n]
  BY FlattenAsFunction
<1>. HIDE DEF tt, n
<1>3. PICK g : Flattened(tt, n + 1, g) /\ FlattenSeq(tt) = g[n + 1]
  <2>1. PICK g : Flattened(tt, Len(tt), g) /\ FlattenSeq(tt) = IF Len(tt) = 0 THEN <<>> ELSE g[Len(tt)]
    BY <1>1, FlattenAsFunction
  <2>2. n + 1 # 0
    BY <1>1
  <2>. QED BY <1>1, <2>1, <2>2
<1>4. n > 0 => f[n] = g[n]
  <2>1. n + 1 \in Nat /\ n <= n + 1 /\ \A i \in 1 .. n : ss[i] = tt[i]
    BY <1>1
  <2>. QED BY <1>1, <1>2, <1>3, <2>1, FlattenedUnique
<1>5. g[n + 1] = IF n + 1 = 1 THEN tt[n + 1] ELSE g[n + 1 - 1] \o tt[n + 1]
  <2>1. n + 1 \in 1 .. n + 1
    BY <1>1
  <2>. DEFINE k == n + 1
              Step(i) == IF i = 1 THEN tt[i] ELSE g[i - 1] \o tt[i]
  <2>2. g = [i \in 1 .. k |-> Step(i)]
    BY <1>3 DEF Flattened
  <2>. HIDE DEF k, Step
  <2>3. k \in 1 .. k => g[k] = Step(k)
    BY <2>2
  <2>4. g[k] = Step(k) /\ k = n + 1
    BY <2>1, <2>3 DEF k
  <2>. QED BY <1>1, <2>4 DEF Step
<1>6. CASE n = 0
  BY <1>1, <1>2, <1>3, <1>5, <1>6, ConcatEmptySeq DEF tt, n
<1>7. CASE n # 0
  <2>1. n \in 1 .. n /\ n + 1 - 1 = n /\ n + 1 # 1
    BY <1>1, <1>7
  <2>2. n > 0 /\ g[n + 1 - 1] = g[n]
    BY <1>1, <1>7, <2>1
  <2>3. g[n + 1] = g[n] \o s
    BY <1>1, <1>5, <2>1, <2>2
  <2>4. FlattenSeq(ss) = g[n]
    BY <1>2, <1>4, <1>7, <2>2
  <2>. QED BY <1>3, <2>3, <2>4 DEF tt
<1>. QED BY <1>6, <1>7

LEMMA FlattenTyped ==
  ASSUME NEW S, NEW ss \in Seq(Seq(S))
  PROVE  FlattenSeq(ss) \in Seq(S)
<1>. DEFINE T == {tt \in Seq(Seq(S)) : FlattenSeq(tt) \in Seq(S)}
<1>1. <<>> \in T
  <2>1. <<>> \in Seq(Seq(S)) /\ Len(<<>>) = 0 /\ <<>> \in Seq(S)
    OBVIOUS
  <2>. QED BY <2>1 DEF FlattenSeq
<1>2. ASSUME NEW tt \in Seq(Seq(S)), NEW s \in Seq(S), tt \in T
      PROVE  Append(tt, s) \in T
  <2>1. Append(tt, s) \in Seq(Seq(S))
    BY AppendProperties
  <2>2. FlattenSeq(tt) \o s \in Seq(S)
    BY <1>2, ConcatProperties
  <2>. QED BY <2>1, <2>2, FlattenAppend
<1>. HIDE DEF T
<1>3. Seq(Seq(S)) \subseteq T
  BY <1>1, <1>2, SequencesInSet
<1>. QED BY <1>3 DEF T

LEMMA FlattenHead ==
  ASSUME NEW S, NEW ss \in Seq(Seq(S)), NEW s \in Seq(S)
  PROVE  FlattenSeq(<<s>> \o ss) = s \o FlattenSeq(ss)
<1>. DEFINE T == {tt \in Seq(Seq(S)) : FlattenSeq(<<s>> \o tt) = s \o FlattenSeq(tt)}
<1>0. <<s>> \in Seq(Seq(S))
  OBVIOUS
<1>1. <<>> \in T
  <2>1. <<>> \in Seq(Seq(S)) /\ FlattenSeq(<<>>) = <<>>
    BY DEF FlattenSeq
  <2>2. <<s>> \o <<>> = <<s>> /\ s \o <<>> = s
    BY <1>0, ConcatEmptySeq
  <2>. QED BY <2>1, <2>2, FlattenOne
<1>2. ASSUME NEW tt \in Seq(Seq(S)), NEW x \in Seq(S), tt \in T
      PROVE  Append(tt, x) \in T
  <2>. DEFINE o == <<s>>
  <2>0. o \in Seq(Seq(S))
    BY <1>0
  <2>. HIDE DEF o
  <2>1. o \o Append(tt, x) = Append(o \o tt, x)
    <3>1. <<x>> \in Seq(Seq(S))
      OBVIOUS
    <3>2. Append(tt, x) = tt \o <<x>>
      BY AppendIsConcat
    <3>3. o \o tt \in Seq(Seq(S))
      BY <2>0, ConcatProperties
    <3>4. Append(o \o tt, x) = (o \o tt) \o <<x>>
      BY <3>3, AppendIsConcat
    <3>. QED BY <2>0, <3>1, <3>2, <3>4, ConcatAssociative
  <2>2. o \o tt \in Seq(Seq(S)) /\ Append(tt, x) \in Seq(Seq(S))
    BY <2>0, ConcatProperties, AppendProperties
  <2>3. FlattenSeq(o \o Append(tt, x)) = FlattenSeq(o \o tt) \o x
    BY <2>1, <2>2, FlattenAppend
  <2>4. FlattenSeq(o \o tt) = s \o FlattenSeq(tt)
    BY <1>2 DEF o
  <2>5. FlattenSeq(tt) \in Seq(S)
    BY FlattenTyped
  <2>6. (s \o FlattenSeq(tt)) \o x = s \o (FlattenSeq(tt) \o x)
    BY <2>5, ConcatAssociative
  <2>7. FlattenSeq(Append(tt, x)) = FlattenSeq(tt) \o x
    BY FlattenAppend
  <2>. QED BY <2>2, <2>3, <2>4, <2>6, <2>7 DEF o
<1>. HIDE DEF T
<1>3. Seq(Seq(S)) \subseteq T
  BY <1>1, <1>2, SequencesInSet
<1>. QED BY <1>3 DEF T
=============================================================================
