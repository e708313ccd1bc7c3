------------------------------- MODULE Versions -------------------------------
(* The versions of Bolt a client proposes: an array of four, shared by all   *)
(* configurations, and what parse_version_string makes of the text of one.   *)
EXTENDS Integers, Sequences

Spec_(major, minor, lower) == [major |-> major, minor |-> minor, lower |-> lower]
NoVersion == Spec_(0, 0, 0)
Refusal == [major |-> -1, minor |-> 0, lower |-> 0]

\* The array of client_config.c.
DefaultVersions == <<Spec_(5, 0, 0), Spec_(4, 4, 0), Spec_(3, 0, 0), Spec_(1, 0, 0)>>

\* The text of a range is a pair of tuples, <<major, minor>> or <<major>>, of
\* which the second may be empty.  A range from a major version alone to a major
\* version alone is read as its first part.
ParseVersion(from, to) ==
  LET m0 == IF Len(from) = 2 THEN from[2] ELSE 0
      m1 == IF Len(to) = 2 THEN to[2] ELSE 0
  IN  IF from = <<>> THEN Refusal
      ELSE IF to = <<>> \/ (Len(from) = 1 /\ Len(to) = 1) THEN Spec_(from[1], m0, 0)
      ELSE IF from[1] # to[1] THEN Refusal
      ELSE IF m1 >= m0 THEN Spec_(from[1], m1, m1 - m0)
      ELSE Spec_(from[1], m0, m0 - m1)

\* neo4j_config_set_supported_versions: at most four are read, and if there are
\* fewer, the next of the array is cleared; those behind it stay.
SetVersions(array, texts) ==
  LET n == IF Len(texts) < 4 THEN Len(texts) ELSE 4
      parsed(i) == ParseVersion(texts[i][1], texts[i][2])
  IN  IF \E i \in 1 .. n : parsed(i) = Refusal THEN DefaultVersions
      ELSE [i \in 1 .. 4 |-> IF i <= n THEN parsed(i)
                             ELSE IF i = n + 1 THEN NoVersion ELSE array[i]]

\* A server agrees to the first version proposed that it speaks.
Covers(spec, v) ==
  spec.major = v[1] /\ v[2] <= spec.minor /\ v[2] >= spec.minor - spec.lower
Agreed(array, speaks) ==
  LET ok == {x \in (1 .. 4) \X speaks : Covers(array[x[1]], x[2])}
  IN  IF ok = {} THEN <<0, 0>>
      ELSE (CHOOSE x \in ok : \A y \in ok :
              x[1] < y[1] \/ (x[1] = y[1] /\ x[2][2] >= y[2][2]))[2]

\* What the client makes of the four bytes of the reply.
Taken(v) == <<v[1] % 8, v[2] % 8>>
Accepted(v) == v[1] \in 1 .. 5
=============================================================================
