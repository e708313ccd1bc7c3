------------------------------ MODULE MCValues ------------------------------
(* Values of the constants of ValueTrip for TLC: of every type, on both      *)
(* sides of every limit of length and width, and nested in each other.        *)
EXTENDS ValueTrip

A == 97
Text_(n) == [i \in 1 .. n |-> A]
S(n) == String(Text_(n))
Raw(signature, fields) == Structure("", signature, fields)
Entry(k, v) == [key |-> k, value |-> v]

Numeric == {Integer(n) : n \in {-3, -2, 0, 2, 3, -18, 17, 18, -19, 647, 648, -649, 12345}}
             \cup {Float(n) : n \in {0, 7, 1679615}}
Sized == {String(Text_(n)) : n \in {0, 1, 2, 5, 6, 35, 36}}
           \cup {Bytes(Text_(n)) : n \in {0, 5, 6, 36}}
           \cup {List([i \in 1 .. n |-> Integer(i % 2)]) : n \in {0, 1, 2, 5, 6, 7, 35}}
           \cup {Map([i \in 1 .. n |-> Entry(S(i), Null)]) : n \in {0, 1, 2, 6}}
Quoted == {String(<<34, A, 92>>), String(<<A, 34>>),
           Map(<<Entry(String(<<A, 32>>), Boolean(TRUE)), Entry(String(<<96, A>>), S(1))>>)}
Nested == {List(<<List(<<S(1), Map(<<Entry(S(1), List(<<>>))>>)>>), Null>>),
           List(<<Boolean(FALSE), Float(0), Bytes(<<1, 2>>)>>),
           List(<<Raw(DateSignature, <<Integer(5)>>)>>),
           Raw(16, <<S(1), Map(<<>>)>>)}

Node_(id, labels, elementid) ==
  Raw(NodeSignature, <<Integer(id), List(labels), Map(<<>>)>> \o elementid)
Rel_(ids) ==
  Raw(RelSignature, <<Integer(1), Integer(2), Integer(3), S(1), Map(<<Entry(S(1), Null)>>)>> \o ids)
Unbound(elementid) == Raw(UnboundRelSignature, <<Integer(4), S(2), Map(<<>>)>> \o elementid)
PathOf(hops) ==
  Raw(PathSignature, <<List(<<Node_(1, <<S(1)>>, <<S(1)>>), Node_(2, <<>>, <<>>)>>),
                       List(<<Unbound(<<S(1)>>), Unbound(<<>>)>>),
                       List([i \in DOMAIN hops |-> Integer(hops[i])])>>)
Graph == {Node_(3, <<S(1), String(<<A, 32>>)>>, <<S(2)>>), Node_(7, <<>>, <<>>),
          Rel_(<<>>), Rel_(<<S(1), S(2), S(1)>>), Unbound(<<S(1)>>), Unbound(<<>>)}
           \cup {PathOf(h) : h \in {<<>>, <<1, 1>>, <<-1, 1, 2, 0>>, <<2, 1, -2, 1>>}}

Ints(s) == [i \in DOMAIN s |-> Integer(s[i])]
Temporal == {Raw(DateSignature, Ints(<<5>>)), Raw(TimeSignature, Ints(<<345, -7200>>)),
             Raw(LocalTimeSignature, Ints(<<300>>)), Raw(DateTimeSignature, Ints(<<1, 2, 3600>>)),
             Raw(LegacyDateTimeSignature, Ints(<<1, 0, 0>>)),
             Raw(LocalDateTimeSignature, Ints(<<1, 2>>)),
             Raw(DurationSignature, Ints(<<14, 33, 3723, 4>>)),
             Raw(DurationSignature, Ints(<<0, -1, 0, 0>>)),
             Raw(Point2DSignature, <<Integer(1), Float(1), Float(2)>>),
             Raw(Point3DSignature, <<Integer(1), Float(1), Float(2), Float(3)>>)}

MCMalformed ==
  {PathOf(h) : h \in {<<1>>, <<0, 1>>, <<3, 0>>, <<-3, 0>>, <<1, 2>>, <<1, -1>>}}
    \cup {Raw(NodeSignature, <<S(1), List(<<>>), Map(<<>>)>>), Node_(-1, <<>>, <<>>),
          Node_(1, <<Null>>, <<S(1)>>), Raw(DateSignature, <<S(1)>>),
          Raw(DateSignature, Ints(<<1, 2>>)), Raw(DurationSignature, Ints(<<1>>))}

MCSent == {Null, Boolean(TRUE)} \cup Numeric \cup Sized \cup Quoted \cup Nested
            \cup Graph \cup Temporal \cup MCMalformed
=============================================================================
