------------------------------ MODULE ValueTrip ------------------------------
(* A value on its way from the server to the program: the server writes it  *)
(* in a RECORD, all or some of the bytes arrive, the client reads them into  *)
(* a memory pool, and the program walks along it and prints it.  The server  *)
(* is external; it writes graph values as structures, `Sent'.                 *)
EXTENDS Printing

CONSTANTS Sent,        \* the values a server may send
          Malformed,   \* those of them that are no values of their type
          Depth,       \* of the memory pool
          MaxBuffer    \* of the program

VARIABLES pc, sent, wire, arrived, read, printed

vars == <<pc, sent, wire, arrived, read, printed>>

Record == 113

\* The value of the record: neo4j_result_field.
Held == ListGet(read.value.fields[1], 0)
NoResult == Refused(Depth, 0)

Init ==
  /\ pc = "written" /\ sent \in Sent
  /\ wire = Message(Record, <<List(<<sent>>)>>)
  /\ arrived = 0 /\ read = NoResult /\ printed = Buffer(0)

\* neo4j_message_recv, when so many bytes arrive before the connection ends.
Receive(n) ==
  /\ pc = "written"
  /\ arrived' = n
  /\ read' = ReceiveMessage(Take(wire, n), Depth)
  /\ pc' = "read"
  /\ UNCHANGED <<sent, wire, printed>>

\* neo4j_ntostring with a buffer of n bytes.
Show(n) ==
  /\ pc = "read" /\ read.ok
  /\ printed' = Ntostring(Held, Buffer(n))
  /\ pc' = "printed"
  /\ UNCHANGED <<sent, wire, arrived, read>>

Next ==
  \/ \E n \in 0 .. Len(wire) : Receive(n)
  \/ \E n \in 0 .. MaxBuffer : Show(n)

Spec == Init /\ [][Next]_vars
-----------------------------------------------------------------------------
\* What the client holds means what the server has sent: the same data in the
\* same order, of the type the signature stands for.
TypeFor(signature) ==
  CASE signature = NodeSignature -> "Node"
    [] signature \in {RelSignature, UnboundRelSignature} -> "Relationship"
    [] signature = PathSignature -> "Path"
    [] signature = DateSignature -> "Date"
    [] signature = TimeSignature -> "Time"
    [] signature = LocalTimeSignature -> "LocalTime"
    [] signature \in {DateTimeSignature, LegacyDateTimeSignature} -> "DateTime"
    [] signature = LocalDateTimeSignature -> "LocalDateTime"
    [] signature = DurationSignature -> "Duration"
    [] signature = Point2DSignature -> "Point2D"
    [] signature = Point3DSignature -> "Point3D"
    [] OTHER -> ""

RECURSIVE Means(_, _)
AllMean(s, h) == Len(s) <= Len(h) /\ \A i \in DOMAIN s : Means(s[i], h[i])
Means(s, h) ==
  CASE s.type = "Integer" -> h.type \in {"Integer", "Identity"} /\ h.int = s.int
    [] s.type = "String" -> h.type \in {"String", "ElementID"} /\ h.text = s.text
    [] s.type = "List" -> h.type = "List" /\ Len(h.items) = Len(s.items) /\ AllMean(s.items, h.items)
    [] s.type = "Map" ->
         /\ h.type = "Map" /\ Len(h.entries) = Len(s.entries)
         /\ \A i \in DOMAIN s.entries : /\ Means(s.entries[i].key, h.entries[i].key)
                                        /\ Means(s.entries[i].value, h.entries[i].value)
    [] s.type = "" -> h.type = TypeFor(s.signature) /\ AllMean(s.fields, h.fields)
    [] OTHER -> h = s

\* A record that arrives as a whole is read to its last byte, and the client
\* holds what was sent, which equals itself unless it is NaN; if the server
\* sends what is no value, it is refused.
Delivered ==
  pc # "written" /\ arrived = Len(wire) =>
    IF sent \in Malformed THEN ~read.ok
    ELSE /\ read.ok /\ read.rest = <<>>
         /\ Means(sent, Held)
         /\ Eq(Held, Held) \/ \E bits \in NaNs : sent = Float(bits)

\* A record that does not arrive as a whole is not taken for a shorter one,
\* and whatever fails, nothing of it is left in the pool.
NothingLeft ==
  pc # "written" =>
    /\ read.ok => arrived = Len(wire)
    /\ ~read.ok => read.depth = Depth

\* However small the buffer is, it gets as much of the text as it has room for
\* (an escaped character is not cut in two) and its NUL, and the length of the
\* whole text is returned.  (Times that do not fit, and those printed when no
\* room is left, are excepted: see PrintsAll.)
PrintsPrefixOf(text) ==
  /\ printed.l = Len(text)
  /\ printed.n > 0 =>
       LET room == IF Len(text) < printed.n THEN Len(text) ELSE printed.n - 1
       IN  \E length \in {room - 1, room} \cap Nat :
             /\ printed.cells[length + 1] = Nul
             /\ SubSeq(printed.cells, 1, length) = SubSeq(text, 1, length)
             /\ length = Len(text) \/ printed.n <= Len(text)
Excepted == printed.over # {} \/ \E i \in DOMAIN printed.cells : printed.cells[i] = Undefined
PrintsPrefix ==
  pc = "printed" /\ ~Excepted => PrintsPrefixOf(Text(Held))
PrintsAll == pc = "printed" => ~Excepted

\* Every path that is accepted can be walked from its first node to its last:
\* no accessor meets a place it asserts to be there.  (Of a path that has nodes.)
Walkable(p) ==
  /\ \A h \in 0 .. PathLength(p) : PathNode(p, h).type = "Node"
  /\ \A h \in 0 .. PathLength(p) - 1 : PathRelationship(p, h).type = "Relationship"
PathsWalkable ==
  (pc = "read" /\ read.ok /\ Held.type = "Path") => Walkable(Held)
=============================================================================
