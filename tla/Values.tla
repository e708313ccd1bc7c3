------------------------------- MODULE Values -------------------------------
(* Values of values.c: what the constructors accept, the comparison and the *)
(* walk along a path.  A value is a record with its type and, under a field *)
(* name of its class, its payload; the method table of the code is the CASE  *)
(* on the type.  Texts are sequences of character codes, and floats are bit  *)
(* patterns, of which only NaN and the two zeros compare unlike integers.    *)
EXTENDS Integers, Sequences

CONSTANTS NaNs, Zeros       \* the bit patterns that are NaN, those that are zero

Null == [type |-> "Null"]
Boolean(b) == [type |-> "Boolean", bool |-> b]
Integer(n) == [type |-> "Integer", int |-> n]
Identity(n) == IF n < 0 THEN Null ELSE [type |-> "Identity", int |-> n]
Float(bits) == [type |-> "Float", bits |-> bits]
String(text) == [type |-> "String", text |-> text]
ElementID(text) == [type |-> "ElementID", text |-> text]
StringToElementID(v) == IF v.type = "String" THEN ElementID(v.text) ELSE Null
Bytes(data) == [type |-> "Bytes", data |-> data]
List(items) == [type |-> "List", items |-> items]

AllOf(values, type) == \A i \in DOMAIN values : values[i].type = type

\* An entry of a map is [key, value].
Map(entries) ==
  IF \A i \in DOMAIN entries : entries[i].key.type = "String"
  THEN [type |-> "Map", entries |-> entries] ELSE Null
-----------------------------------------------------------------------------
(* Structures: a type of their own for what Bolt defines, else "".          *)

NodeSignature == 78
RelSignature == 82
UnboundRelSignature == 114
PathSignature == 80
DateSignature == 68
TimeSignature == 84
LocalTimeSignature == 116
DateTimeSignature == 73
LegacyDateTimeSignature == 70
LocalDateTimeSignature == 100
DurationSignature == 69
Point2DSignature == 88
Point3DSignature == 89

Structure(type, signature, fields) ==
  [type |-> type, signature |-> signature, fields |-> fields]
TypesOf(values) == [i \in DOMAIN values |-> values[i].type]

Node(f) ==
  IF /\ TypesOf(f) = <<"Identity", "List", "Map", "ElementID">>
     /\ AllOf(f[2].items, "String")
  THEN Structure("Node", NodeSignature, f) ELSE Null

\* The end may have any type when the start is Null.
Relationship(f) ==
  IF /\ f[1].type = "Identity" /\ f[2].type \in {"Identity", "Null"}
     /\ f[3].type = "Identity" \/ f[2].type = "Null"
     /\ f[4].type = "String" /\ f[5].type = "Map"
     /\ \A i \in 6 .. 8 : f[i].type = "ElementID"
  THEN Structure("Relationship", RelSignature, f) ELSE Null

\* The signature is that of a relationship that has its ends.
UnboundRelationship(f) ==
  IF TypesOf(f) = <<"Identity", "String", "Map", "ElementID">>
  THEN Structure("Relationship", RelSignature, f) ELSE Null

\* Fault: the place of a node may be just behind the last.
HopInRangeOrNext(rel, node, rels, nodes) ==
  /\ rel.type = "Integer" /\ node.type = "Integer"
  /\ rel.int # 0 /\ rel.int <= Len(rels) /\ -rel.int <= Len(rels)
  /\ node.int >= 0 /\ node.int <= Len(nodes)

\* A path has the distinct nodes and relationships it visits and, for each hop,
\* the place of a relationship, from 1 and negative against its direction, and
\* of a node, from 0.
HopInRange(rel, node, rels, nodes) ==
  /\ rel.type = "Integer" /\ node.type = "Integer"
  /\ rel.int # 0 /\ rel.int <= Len(rels) /\ -rel.int <= Len(rels)
  /\ node.int >= 0 /\ node.int < Len(nodes)

Path(f) ==
  IF /\ TypesOf(f) = <<"List", "List", "List">>
     /\ AllOf(f[1].items, "Node") /\ AllOf(f[2].items, "Relationship")
     /\ LET seq == f[3].items
        IN  /\ Len(seq) % 2 = 0
            /\ \A h \in 1 .. Len(seq) \div 2 :
                 HopInRange(seq[2 * h - 1], seq[2 * h], f[2].items, f[1].items)
  THEN Structure("Path", PathSignature, f) ELSE Null

\* A structure of numbers, whose fields at the given places are tested.
Numbers(type, signature, f, ints, floats) ==
  IF AllOf([i \in ints |-> f[i]], "Integer") /\ AllOf([i \in floats |-> f[i]], "Float")
  THEN Structure(type, signature, f) ELSE Null
Date(f) == Numbers("Date", DateSignature, f, {1}, {})
Time(f) == Numbers("Time", TimeSignature, f, {1}, {})
LocalTime(f) == Numbers("LocalTime", LocalTimeSignature, f, {1}, {})
DateTime(f) == Numbers("DateTime", DateTimeSignature, f, 1 .. 3, {})
LocalDateTime(f) == Numbers("LocalDateTime", LocalDateTimeSignature, f, {1, 2}, {})
Duration(f) == Numbers("Duration", DurationSignature, f, 1 .. 4, {})
Point2D(f) == Numbers("Point2D", Point2DSignature, f, {1}, {2, 3})
Point3D(f) == Numbers("Point3D", Point3DSignature, f, {1}, 2 .. 4)

IfSized(f, n, v) == IF Len(f) = n THEN v ELSE Null

\* neo4j_struct: the legacy signature of a date and time becomes the new one.
Struct(signature, f) ==
  CASE signature = DateSignature -> IfSized(f, 1, Date(f))
    [] signature = TimeSignature -> IfSized(f, 2, Time(f))
    [] signature = LocalTimeSignature -> IfSized(f, 1, LocalTime(f))
    [] signature \in {DateTimeSignature, LegacyDateTimeSignature} ->
         IfSized(f, 3, DateTime(f))
    [] signature = LocalDateTimeSignature -> IfSized(f, 2, LocalDateTime(f))
    [] signature = DurationSignature -> IfSized(f, 4, Duration(f))
    [] signature = Point2DSignature -> IfSized(f, 3, Point2D(f))
    [] signature = Point3DSignature -> IfSized(f, 4, Point3D(f))
    [] OTHER -> Structure("", signature, f)
-----------------------------------------------------------------------------
(* Comparison.                                                              *)

RECURSIVE Eq(_, _)

SeqEq(s, t) == Len(s) = Len(t) /\ \A i \in DOMAIN s : Eq(s[i], t[i])

\* strncmp ends with the first NUL of both.
StringEq(s, t) ==
  /\ Len(s) = Len(t)
  /\ \A i \in DOMAIN s :
       s[i] = t[i] \/ \E j \in 1 .. i - 1 : s[j] = 0

FloatEq(x, y) == x \notin NaNs /\ y \notin NaNs /\ (x = y \/ {x, y} \subseteq Zeros)

\* Each entry of the first is looked up in the second.
MapEq(e, f) ==
  /\ Len(e) = Len(f)
  /\ \A i \in DOMAIN e :
       \E j \in DOMAIN f :
         /\ Eq(e[i].key, f[j].key)
         /\ \A k \in 1 .. j - 1 : ~Eq(e[i].key, f[k].key)
         /\ Eq(e[i].value, f[j].value)

\* neo4j_eq
Eq(v, w) ==
  /\ v.type = w.type
  /\ CASE v.type = "Null" -> TRUE
       [] v.type = "Boolean" -> v.bool = w.bool
       [] v.type \in {"Integer", "Identity"} -> v.int = w.int
       [] v.type = "Float" -> FloatEq(v.bits, w.bits)
       [] v.type \in {"String", "ElementID"} -> StringEq(v.text, w.text)
       [] v.type = "Bytes" -> v.data = w.data
       [] v.type = "List" -> SeqEq(v.items, w.items)
       [] v.type = "Map" -> MapEq(v.entries, w.entries)
       [] OTHER -> v.signature = w.signature /\ SeqEq(v.fields, w.fields)
-----------------------------------------------------------------------------
(* Accessors.  The accessors of a type it is not return Null or zero.        *)

AssertionFails == [type |-> "assertion fails"]

MapKGet(v, key) ==
  LET found == {i \in DOMAIN v.entries : Eq(v.entries[i].key, key)}
  IN  IF found = {} THEN Null
      ELSE v.entries[CHOOSE i \in found : \A j \in found : i <= j].value

ListGet(v, index) == IF index < Len(v.items) THEN v.items[index + 1] ELSE Null

\* The end of a relationship: field is 2 for the start, 3 for the end.
RelationshipEnd(v, field) ==
  IF Len(v.fields) # 8 THEN Null
  ELSE IF v.fields[field].type = "Identity" THEN v.fields[field] ELSE AssertionFails

PathLength(v) == Len(v.fields[3].items) \div 2

PathNode(v, hops) ==
  LET nodes == v.fields[1].items
      seq == v.fields[3].items
      at == IF hops = 0 THEN 0 ELSE seq[2 * hops].int
  IN  IF hops > PathLength(v) THEN Null
      ELSE IF at \in 0 .. Len(nodes) - 1 THEN nodes[at + 1] ELSE AssertionFails

PathRelationship(v, hops) ==
  LET rels == v.fields[2].items
      seq == v.fields[3].items
      at == seq[2 * hops + 1].int
  IN  IF hops > PathLength(v) THEN Null
      ELSE IF 2 * hops >= Len(seq) THEN AssertionFails
      ELSE IF at > 0 THEN [forward |-> TRUE, type |-> "Relationship", of |-> rels[at]]
      ELSE [forward |-> FALSE, type |-> "Relationship", of |-> rels[-at]]
=============================================================================
