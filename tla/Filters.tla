------------------------------- MODULE Filters -------------------------------
(* The elements of a sequence that are in a set, in order: what SelectSeq    *)
(* is for a test, but as a recursive function, which can be reasoned about.  *)
EXTENDS Integers, Sequences

Filter(s, kept) ==
  LET upTo[n \in 0 .. Len(s)] ==
        IF n = 0 THEN <<>>
        ELSE IF s[n] \in kept THEN Append(upTo[n - 1], s[n]) ELSE upTo[n - 1]
  IN  upTo[Len(s)]
=============================================================================
