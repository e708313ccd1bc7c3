----------------------------- MODULE PackStream -----------------------------
(* serialization.c, deserialization.c and the messages of messages.c.  The  *)
(* stream is a sequence of bytes.  Markers have their codes; the codes of a  *)
(* byte in a length or an integer are scaled: a byte has Byte values instead *)
(* of 256 and a half byte Nibble instead of 16, so that short values reach   *)
(* every class of length and width.                                          *)
EXTENDS Values, SequencesExt

CONSTANTS Nibble, Byte

ASSUME ByteAssumption == Nibble \in 1 .. 15 /\ Byte \in {2 * n : n \in 1 .. 8} /\ Nibble < Byte

\* The big-endian digits of a number in so many bytes, in two's complement.
Digits(n, width) ==
  [i \in 1 .. width |-> ((n % (Byte ^ width)) \div (Byte ^ (width - i))) % Byte]

\* The number of so many digits.
Unsigned(digits) ==
  FoldFunction(+, 0, [i \in DOMAIN digits |-> digits[i] * (Byte ^ (Len(digits) - i))])
Signed(digits) ==
  LET n == Unsigned(digits)
      range == Byte ^ Len(digits)
  IN  IF n >= range \div 2 THEN n - range ELSE n

\* The decimal digits of an integer, as character codes.
RECURSIVE Decimal(_)
Decimal(n) ==
  IF n < 0 THEN <<45>> \o Decimal(-n)
  ELSE IF n < 10 THEN <<48 + n>> ELSE Append(Decimal(n \div 10), 48 + (n % 10))
-----------------------------------------------------------------------------
(* Writing.                                                                 *)

\* The markers of a class: with the length in the marker, in one byte, in two
\* and in four.
StringMarkers == <<128, 208, 209, 210>>
BytesMarkers == <<0, 204, 205, 206>>
ListMarkers == <<144, 212, 213, 214>>
MapMarkers == <<160, 216, 217, 218>>
StructureMarkers == <<176, 220, 221, 0>>

BuildHeader(length, markers) ==
  IF markers[1] # 0 /\ length < Nibble THEN <<markers[1] + length>>
  ELSE IF length < Byte THEN <<markers[2]>> \o Digits(length, 1)
  ELSE IF length < Byte ^ 2 THEN <<markers[3]>> \o Digits(length, 2)
  ELSE <<markers[4]>> \o Digits(length, 4)

IntSerialize(n) ==
  LET fits(width) == n >= -(Byte ^ width) \div 2 /\ n < (Byte ^ width) \div 2
  IN  IF n >= -Nibble /\ n < Byte \div 2 THEN <<n % 256>>
      ELSE IF fits(1) THEN <<200>> \o Digits(n, 1)
      ELSE IF fits(2) THEN <<201>> \o Digits(n, 2)
      ELSE IF fits(4) THEN <<202>> \o Digits(n, 4)
      ELSE <<203>> \o Digits(n, 8)

RECURSIVE Serialize(_), SerializeAll(_)

SerializeAll(values) ==
  IF values = <<>> THEN <<>> ELSE Serialize(Head(values)) \o SerializeAll(Tail(values))

\* neo4j_serialize
Serialize(v) ==
  CASE v.type = "Null" -> <<192>>
    [] v.type = "Boolean" -> IF v.bool THEN <<195>> ELSE <<194>>
    [] v.type \in {"Integer", "Identity"} -> IntSerialize(v.int)
    [] v.type = "Float" -> <<193>> \o Digits(v.bits, 8)
    [] v.type \in {"String", "ElementID"} -> BuildHeader(Len(v.text), StringMarkers) \o v.text
    [] v.type = "Bytes" -> BuildHeader(Len(v.data), BytesMarkers) \o v.data
    [] v.type = "List" -> BuildHeader(Len(v.items), ListMarkers) \o SerializeAll(v.items)
    [] v.type = "Map" ->
         BuildHeader(Len(v.entries), MapMarkers)
           \o SerializeAll([i \in 1 .. 2 * Len(v.entries) |->
                              IF i % 2 = 1 THEN v.entries[(i + 1) \div 2].key
                                           ELSE v.entries[i \div 2].value])
    [] OTHER ->
         BuildHeader(Len(v.fields), StructureMarkers) \o <<v.signature>>
           \o SerializeAll(v.fields)

\* neo4j_message_send
Message(signature, argv) == Serialize(Struct(signature, argv))
-----------------------------------------------------------------------------
(* Reading.  A result has the value, what is left of the stream, the depth   *)
(* of the memory pool, and the allocations made outside of it.               *)

Read(value, rest, depth, heap) ==
  [ok |-> TRUE, value |-> value, rest |-> rest, depth |-> depth, heap |-> heap]
Refused(depth, heap) ==
  [ok |-> FALSE, value |-> Null, rest |-> <<>>, depth |-> depth, heap |-> heap]
ReadUnlessNull(v, r) == IF v = Null THEN Refused(r.depth, r.heap)
                        ELSE Read(v, r.rest, r.depth, r.heap)

\* The next so many bytes, if they arrive.
Take(in, n) == SubSeq(in, 1, n)
Skip(in, n) == SubSeq(in, n + 1, Len(in))

RECURSIVE Deserialize(_, _), DeserializeAll(_, _, _)

\* n values, one after the other; the value of the result is their sequence.
DeserializeAll(n, in, depth) ==
  IF n = 0 THEN Read(<<>>, in, depth, 0)
  ELSE LET r == Deserialize(in, depth)
           s == DeserializeAll(n - 1, r.rest, r.depth)
       IN  IF ~r.ok \/ ~s.ok THEN Refused(depth, r.heap + IF r.ok THEN s.heap ELSE 0)
           ELSE Read(<<r.value>> \o s.value, s.rest, s.depth, r.heap + s.heap)

Entries(values) ==
  Map([i \in 1 .. Len(values) \div 2 |->
         [key |-> values[2 * i - 1], value |-> values[2 * i]]])
Make(type, payload) ==
  CASE type = "String" -> String(payload)
    [] type = "Bytes" -> Bytes(payload)
    [] type = "List" -> List(payload)
    [] type = "Map" -> Entries(payload)

\* Text or data of a length, in memory of the pool.
DeserializeData(type, n, in, depth) ==
  IF n = 0 THEN Read(Make(type, <<>>), in, depth, 0)
  ELSE IF Len(in) < n THEN Refused(depth + 1, 0)
  ELSE Read(Make(type, Take(in, n)), Skip(in, n), depth + 1, 0)

\* Items of a container, in one more allocation of the pool.
DeserializeItems(type, n, in, depth) ==
  LET r == DeserializeAll(n, in, depth + IF n = 0 THEN 0 ELSE 1)
  IN  IF r.ok THEN ReadUnlessNull(Make(type, r.value), r) ELSE r

\* Before version 5 a server sends no element identifiers: the text of the
\* identity takes their place.
TextOf(v) == ElementID(Decimal(v.int))
WithElementIDs(f, ids, old) ==
  IF Len(f) = old
  THEN f \o [i \in 1 .. ids |-> TextOf(f[i])]
  ELSE [i \in DOMAIN f |-> IF i <= old THEN f[i] ELSE StringToElementID(f[i])]
WithIdentities(f, ids) ==
  [i \in DOMAIN f |-> IF i <= ids THEN Identity(f[i].int) ELSE f[i]]

\* A node or relationship with so many identities among its old fields.
IsEntity(f, ids, old) ==
  /\ Len(f) \in {old, old + ids}
  /\ \A i \in 1 .. ids : f[i].type = "Integer" /\ f[i].int >= 0
Entity(f, ids, old) == WithIdentities(WithElementIDs(f, ids, old), ids)

StructOf(signature, f) ==
  CASE signature = NodeSignature ->
         IF IsEntity(f, 1, 3) THEN Node(Entity(f, 1, 3)) ELSE Null
    [] signature = RelSignature ->
         IF IsEntity(f, 3, 5) THEN Relationship(Entity(f, 3, 5)) ELSE Null
    [] signature = UnboundRelSignature ->
         IF IsEntity(f, 1, 3) THEN UnboundRelationship(Entity(f, 1, 3)) ELSE Null
    [] signature = PathSignature -> IfSized(f, 3, Path(f))
    [] OTHER -> Struct(signature, f)

\* The texts of identities are allocated on the heap.
OnTheHeap(signature, f) ==
  LET texts(ids, old) == IF Len(f) = old /\ \A i \in 1 .. ids : f[i].type = "Integer"
                         THEN ids ELSE 0
  IN  CASE signature \in {NodeSignature, UnboundRelSignature} -> texts(1, 3)
        [] signature = RelSignature -> texts(3, 5)
        [] OTHER -> 0

DeserializeStruct(n, in, depth) ==
  IF in = <<>> THEN Refused(depth, 0)
  ELSE LET r == DeserializeAll(n, Tail(in), depth + IF n = 0 THEN 0 ELSE 1)
       IN  IF r.ok
           THEN [ReadUnlessNull(StructOf(Head(in), r.value), r) EXCEPT
                   !.heap = @ + OnTheHeap(Head(in), r.value)]
           ELSE r

\* Fault: a length is taken as it is in the order of the host.
LengthSwapped(bytes) == Unsigned(Reverse(bytes))

\* ntohs and ntohl of the bytes of a length.
LengthOf(bytes) == Unsigned(bytes)

\* A number of so many bytes, or a length of so many bytes and what follows it.
DeserializeNumber(type, width, in, depth) ==
  IF Len(in) < width THEN Refused(depth, 0)
  ELSE LET digits == Take(in, width)
       IN  Read(IF type = "Float" THEN Float(Unsigned(digits)) ELSE Integer(Signed(digits)),
                Skip(in, width), depth, 0)
OfLength(type, n, in, depth) ==
  CASE type \in {"String", "Bytes"} -> DeserializeData(type, n, in, depth)
    [] type = "List" -> DeserializeItems(type, n, in, depth)
    [] type = "Map" -> DeserializeItems(type, 2 * n, in, depth)
    [] OTHER -> DeserializeStruct(n, in, depth)
WithLength(type, width, in, depth) ==
  IF Len(in) < width THEN Refused(depth, 0)
  ELSE OfLength(type, LengthOf(Take(in, width)), Skip(in, width), depth)

\* The deserializer of the marker.  Four bytes of the length of a list are not
\* read as such: two are read, and all that is kept of them is zero.
OfMarker(m, in, depth) ==
  CASE m < 128 -> Read(Integer(m), in, depth, 0)
    [] m >= 240 -> Read(Integer(m - 256), in, depth, 0)
    [] m \in 128 .. 143 -> OfLength("String", m - 128, in, depth)
    [] m \in 144 .. 159 -> OfLength("List", m - 144, in, depth)
    [] m \in 160 .. 175 -> OfLength("Map", m - 160, in, depth)
    [] m \in 176 .. 191 -> OfLength("", m - 176, in, depth)
    [] m = 192 -> Read(Null, in, depth, 0)
    [] m = 193 -> DeserializeNumber("Float", 8, in, depth)
    [] m \in {194, 195} -> Read(Boolean(m = 195), in, depth, 0)
    [] m \in 200 .. 203 -> DeserializeNumber("Integer", 2 ^ (m - 200), in, depth)
    [] m \in 204 .. 206 -> WithLength("Bytes", 2 ^ (m - 204), in, depth)
    [] m \in 208 .. 210 -> WithLength("String", 2 ^ (m - 208), in, depth)
    [] m \in 212 .. 213 -> WithLength("List", 2 ^ (m - 212), in, depth)
    [] m = 214 -> IF Len(in) < 2 THEN Refused(depth, 0)
                  ELSE OfLength("List", 0, Skip(in, 2), depth)
    [] m \in 216 .. 218 -> WithLength("Map", 2 ^ (m - 216), in, depth)
    [] m \in 220 .. 221 -> WithLength("", 2 ^ (m - 220), in, depth)
    [] OTHER -> Refused(depth, 0)

\* Fault: a failure leaves what was allocated in the pool.
DrainNothing(r, depth) == r

\* A failure drains the pool to the depth it had.
Drain(r, depth) == IF r.ok THEN r ELSE Refused(depth, r.heap)

\* neo4j_deserialize
Deserialize(in, depth) ==
  IF in = <<>> THEN Refused(depth, 0)
  ELSE Drain(OfMarker(Head(in), Tail(in), depth), depth)

MessageSignatures == {1, 2, 14, 15, 16, 17, 18, 19, 47, 63, 112, 113, 126, 127}

\* neo4j_message_recv
ReceiveMessage(in, depth) ==
  LET r == Deserialize(in, depth)
  IN  IF r.ok /\ r.value.type = "" /\ r.value.signature \in MessageSignatures
      THEN r ELSE Drain([r EXCEPT !.ok = FALSE], depth)
=============================================================================
