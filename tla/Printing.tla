------------------------------ MODULE Printing ------------------------------
(* print.c: the text of a value, written to a stream, or to a buffer that   *)
(* may be too small for it.  A nested call gets the rest of the buffer, and  *)
(* no room when nothing is left; here it goes on where its caller is, in the  *)
(* caller's buffer.  What the formats of strftime and %f give is opaque: only *)
(* its length matters.                                                        *)
EXTENDS PackStream

CONSTANTS BufLen,          \* the private buffers of print.c
          NanosPerSecond   \* scaled

\* A buffer of n cells, the length printed so far, and the places behind the
\* buffer that were written to.
Unset == -1
Undefined == -2
Nul == 0
Buffer(n) == [n |-> n, cells |-> [i \in 1 .. n |-> Unset], l |-> 0, over |-> {}]

Quote == 34
Backslash == 92
Backtick == 96
Comma == 44
Colon == 58
Minus == 45
Less == 60
Greater == 62
Open(c) == CASE c = "list" -> 91 [] c = "map" -> 123 [] c = "node" -> 40
Shut(c) == CASE c = "list" -> 93 [] c = "map" -> 125 [] c = "node" -> 41

\* The character goes to the place that has been reached, if there is room for
\* it and a NUL; at the start of a call, if there is room for it at all.
PutIf(b, c, room) ==
  [b EXCEPT !.l = @ + 1,
            !.cells = IF b.l + room < b.n THEN [@ EXCEPT ![b.l + 1] = c] ELSE @]

Put(b, c) == PutIf(b, c, 1)
PutFirst(b, c) == PutIf(b, c, 0)

\* Fault: a text that fills the buffer is not ended.
EndIfShort(b, base) ==
  IF b.l < b.n THEN [b EXCEPT !.cells[b.l + 1] = Nul] ELSE b

\* The NUL at the end of what was printed from base on.
EndAt(b, base) ==
  IF base < b.n THEN [b EXCEPT !.cells[1 + IF b.l < b.n - 1 THEN b.l ELSE b.n - 1] = Nul]
  ELSE b

\* snprintf, or a copy of as much as fits, with a NUL.
PutText(b, text) ==
  LET end == b.l + Len(text)
      filled == [b EXCEPT !.l = end,
                          !.cells = [i \in DOMAIN @ |->
                                       IF i > b.l /\ i <= end THEN text[i - b.l] ELSE @[i]]]
  IN  EndAt(filled, b.l)
PutTexts(b, texts) == FoldLeft(PutText, b, texts)

\* Nothing in the characters of these texts is a NUL or needs quotes.
NullText == <<110, 117, 108, 108>>
BooleanText(v) == IF v THEN <<116, 114, 117, 101>> ELSE <<102, 97, 108, 115, 101>>
Opaque(n, width) == [i \in 1 .. width |-> 48 + (n % 10)]
FloatText(bits) == Decimal(bits) \o Opaque(0, 7)
HexText(byte) == Opaque(byte, 2)
Letter(c) == c \in (48 .. 57) \cup (65 .. 90) \cup (97 .. 122) \cup {95}

\* string_str and string_fprint: quotes, and a backslash before quotes and
\* backslashes.
MustEscape(c, quot) == c \in {quot, Backslash}
Escape(b, c) ==
  IF b.l + 2 < b.n THEN PutFirst(PutFirst(b, Backslash), c)
  ELSE [b EXCEPT !.l = @ + 2,
                 !.cells = IF b.l + 1 < b.n THEN [@ EXCEPT ![b.l + 1] = Nul] ELSE @]
StringStr(b, quot, text) ==
  LET next(d, c) == IF MustEscape(c, quot) THEN Escape(d, c) ELSE Put(d, c)
  IN  EndAt(Put(FoldLeft(next, PutFirst(b, quot), text), quot), b.l)
StringText(quot, text) ==
  LET next(t, c) == t \o IF MustEscape(c, quot) THEN <<Backslash, c>> ELSE <<c>>
  IN  Append(FoldLeft(next, <<quot>>, text), quot)

\* An identifier is quoted if it has other characters than those of names.
Plain(text) == \A i \in DOMAIN text : Letter(text[i])
IdentifierStr(b, v) ==
  IF Plain(v.text) THEN PutText(b, v.text) ELSE StringStr(b, Backtick, v.text)
IdentifierText(v) == IF Plain(v.text) THEN v.text ELSE StringText(Backtick, v.text)
-----------------------------------------------------------------------------
(* Dates, times, durations and points.                                      *)

\* Division and remainder of C.
Quotient(a, b) == IF a < 0 THEN -((-a) \div b) ELSE a \div b
Remainder(a, b) == a - b * Quotient(a, b)

\* strftime leaves the rest of the buffer undefined if the text does not fit.
PutTime(b, text) ==
  IF b.l + Len(text) < b.n THEN PutText(b, text)
  ELSE [b EXCEPT !.l = @ + Len(text),
                 !.cells = [i \in DOMAIN @ |-> IF i > b.l THEN Undefined ELSE @[i]]]

\* The NUL of these, which is written although no room was left, unless there
\* is no buffer.
EndAlways(b, base) ==
  IF base < b.n \/ base = 0 THEN EndAt(b, base) ELSE [b EXCEPT !.over = @ \cup {b.l}]

Parens(n) == <<<<32, 40>>, Decimal(n), <<41>>>>
Fraction(nsecs) == IF nsecs > 0 THEN <<Opaque(nsecs, 10)>> ELSE <<>>
Offset(secs) ==
  LET two(n) == <<48 + (n \div 10), 48 + (n % 10)>>
      hours == Quotient(secs, 3600)
      size(n) == IF n < 0 THEN -n ELSE n
  IN  <<<<IF hours < 0 THEN Minus ELSE 43>> \o two(size(hours))
          \o two((size(secs) % 3600) \div 60)>>
IntField(v, i) == IF v.fields[i].type = "Integer" THEN v.fields[i].int ELSE 0

DateStr(v, b) ==
  EndAlways(PutTexts(PutTime(b, Opaque(IntField(v, 1), 10)),
                     Parens(86400 * IntField(v, 1))), b.l)
TimeStr(v, b) ==
  LET secs == Quotient(IntField(v, 1), NanosPerSecond)
      nsecs == Remainder(IntField(v, 1), NanosPerSecond)
  IN  EndAlways(PutTexts(PutTime(b, Opaque(secs, 8)),
                         Fraction(nsecs) \o Offset(IntField(v, 2)) \o Parens(secs)), b.l)
LocalTimeStr(v, b) ==
  LET secs == Quotient(IntField(v, 1), NanosPerSecond)
      nsecs == Remainder(IntField(v, 1), NanosPerSecond)
  IN  EndAlways(PutTexts(PutTime(b, Opaque(secs, 8)), Fraction(nsecs) \o Parens(secs)), b.l)
DateTimeStr(v, b) ==
  EndAlways(PutTexts(PutTime(b, Opaque(IntField(v, 1) + IntField(v, 3), 19)),
                     Fraction(IntField(v, 2)) \o Offset(IntField(v, 3))
                       \o Parens(IntField(v, 1))), b.l)
LocalDateTimeStr(v, b) ==
  EndAlways(PutTexts(PutTime(b, Opaque(IntField(v, 1), 19)),
                     Fraction(IntField(v, 2)) \o Parens(IntField(v, 1))), b.l)

\* Only what is more than zero is printed.
DurationStr(v, b) ==
  LET minutes == Quotient(IntField(v, 3), 60)
      secs == Remainder(IntField(v, 3), 60)
      hours == Quotient(minutes, 60)
      days == IntField(v, 2) + Quotient(hours, 24)
      months == IntField(v, 1) + Quotient(days, 30)
      nsecs == IntField(v, 4)
      some(n, unit) == IF n > 0 THEN Append(Decimal(n), unit) ELSE <<>>
      clock == some(Remainder(hours, 24), 72) \o some(Remainder(minutes, 60), 77)
                 \o IF nsecs > 0 THEN Decimal(secs) \o Opaque(nsecs, 10) \o <<83>>
                    ELSE some(secs, 83)
  IN  EndAlways(PutTexts(b, << <<80>>, some(Quotient(months, 12), 89),
                               some(Remainder(months, 12), 77), some(Remainder(days, 30), 68),
                               IF clock = <<>> THEN <<>> ELSE <<84>> \o clock >>), b.l)
-----------------------------------------------------------------------------
(* neo4j_ntostring.                                                         *)

RECURSIVE Ntostring(_, _)

\* What a private buffer of the given size has room for.
Scratch(v, size) ==
  LET b == Ntostring(v, Buffer(size))
  IN  SubSeq(b.cells, 1, IF b.l < size - 1 THEN b.l ELSE size - 1)

PointStr(v, b) ==
  LET next(c, i) ==
        LET d == PutText(c, Scratch(v.fields[i], BufLen - 1))
        IN  IF i < Len(v.fields) THEN PutText(d, <<Comma>>) ELSE d
  IN  EndAlways(PutText(FoldLeftDomain(next, PutText(b, <<Open("list")>>), v.fields),
                        <<Shut("list")>>), b.l)

BytesStr(v, b) ==
  LET next(c, byte) == PutText(c, HexText(byte))
  IN  EndAt(FoldLeft(next, PutFirst(b, 35), v.data), b.l)

ItemsStr(values, b) ==
  LET next(c, i) == LET d == Ntostring(values[i], c)
                    IN  IF i < Len(values) THEN Put(d, Comma) ELSE d
  IN  FoldLeftDomain(next, b, values)

ListStr(v, b) ==
  EndAt(Put(ItemsStr(v.items, PutFirst(b, Open("list"))), Shut("list")), b.l)

MapStr(v, b) ==
  LET next(c, i) ==
        LET d == Ntostring(v.entries[i].value, Put(IdentifierStr(c, v.entries[i].key), Colon))
        IN  IF i < Len(v.entries) THEN Put(d, Comma) ELSE d
  IN  EndAt(Put(FoldLeftDomain(next, PutFirst(b, Open("map")), v.entries), Shut("map")), b.l)

PropertiesStr(v, b) == IF v.entries = <<>> THEN b ELSE MapStr(v, b)

NodeStr(v, b) ==
  LET next(c, label) == IdentifierStr(Put(c, Colon), label)
      labels == FoldLeft(next, PutFirst(b, Open("node")), v.fields[2].items)
  IN  EndAt(Put(PropertiesStr(v.fields[3], labels), Shut("node")), b.l)

\* The place of the type of a relationship, before its properties.
TypeAt(v) == IF Len(v.fields) \in {5, 8} THEN 4 ELSE 2
RelStr(v, b) ==
  LET type == IdentifierStr(Put(PutFirst(PutFirst(b, Minus), Open("list")), Colon),
                            v.fields[TypeAt(v)])
      properties == PropertiesStr(v.fields[TypeAt(v) + 1], type)
  IN  EndAt(Put(Put(properties, Shut("list")), Minus), b.l)

PathStr(v, b) ==
  LET seq == v.fields[3].items
      rel(h) == seq[2 * h - 1].int
      relOf(h) == v.fields[2].items[IF rel(h) < 0 THEN -rel(h) ELSE rel(h)]
      next(c, h) ==
        LET from == RelStr(relOf(h), IF rel(h) < 0 THEN Put(c, Less) ELSE c)
        IN  NodeStr(v.fields[1].items[seq[2 * h].int + 1],
                    IF rel(h) > 0 THEN Put(from, Greater) ELSE from)
  IN  EndAt(FoldLeft(next, NodeStr(v.fields[1].items[1], b),
                     [h \in 1 .. Len(seq) \div 2 |-> h]), b.l)

\* "struct<0x" and two digits.
StructHead(signature) == <<115, 116, 114, 117, 99, 116, 60, 48, 120>>
                           \o HexText(signature) \o <<Greater>>
StructStr(v, b) ==
  EndAt(Put(ItemsStr(v.fields, Put(PutText(b, StructHead(v.signature)), Open("node"))),
            Shut("node")), b.l)

Ntostring(v, b) ==
  CASE v.type = "Null" -> PutText(b, NullText)
    [] v.type = "Boolean" -> PutText(b, BooleanText(v.bool))
    [] v.type \in {"Integer", "Identity"} -> PutText(b, Decimal(v.int))
    [] v.type = "Float" -> PutText(b, FloatText(v.bits))
    [] v.type \in {"String", "ElementID"} -> StringStr(b, Quote, v.text)
    [] v.type = "Bytes" -> BytesStr(v, b)
    [] v.type = "List" -> ListStr(v, b)
    [] v.type = "Map" -> MapStr(v, b)
    [] v.type = "Node" -> NodeStr(v, b)
    [] v.type = "Relationship" -> RelStr(v, b)
    [] v.type = "Path" -> PathStr(v, b)
    [] v.type = "Date" -> DateStr(v, b)
    [] v.type = "Time" -> TimeStr(v, b)
    [] v.type = "LocalTime" -> LocalTimeStr(v, b)
    [] v.type = "DateTime" -> DateTimeStr(v, b)
    [] v.type = "LocalDateTime" -> LocalDateTimeStr(v, b)
    [] v.type = "Duration" -> DurationStr(v, b)
    [] v.type \in {"Point2D", "Point3D"} -> PointStr(v, b)
    [] OTHER -> StructStr(v, b)
-----------------------------------------------------------------------------
(* neo4j_fprint.                                                            *)

RECURSIVE Text(_)

ItemsText(values) ==
  LET next(t, i) == t \o (IF i = 1 THEN <<>> ELSE <<Comma>>) \o Text(values[i])
  IN  FoldLeftDomain(next, <<>>, values)
MapText(v) ==
  LET next(t, i) == t \o (IF i = 1 THEN <<>> ELSE <<Comma>>)
                      \o IdentifierText(v.entries[i].key) \o <<Colon>>
                      \o Text(v.entries[i].value)
  IN  <<Open("map")>> \o FoldLeftDomain(next, <<>>, v.entries) \o <<Shut("map")>>
PropertiesText(v) == IF v.entries = <<>> THEN <<>> ELSE MapText(v)
NodeText(v) ==
  LET next(t, label) == t \o <<Colon>> \o IdentifierText(label)
  IN  FoldLeft(next, <<Open("node")>>, v.fields[2].items)
        \o PropertiesText(v.fields[3]) \o <<Shut("node")>>
RelText(v) ==
  <<Minus, Open("list"), Colon>> \o IdentifierText(v.fields[TypeAt(v)])
    \o PropertiesText(v.fields[TypeAt(v) + 1]) \o <<Shut("list"), Minus>>
PathText(v) ==
  LET seq == v.fields[3].items
      hop(t, h) ==
        LET r == seq[2 * h - 1].int
        IN  t \o (IF r < 0 THEN <<Less>> ELSE <<>>)
              \o RelText(v.fields[2].items[IF r < 0 THEN -r ELSE r])
              \o (IF r > 0 THEN <<Greater>> ELSE <<>>)
              \o NodeText(v.fields[1].items[seq[2 * h].int + 1])
  IN  FoldLeft(hop, NodeText(v.fields[1].items[1]), [h \in 1 .. Len(seq) \div 2 |-> h])
StructText(v) ==
  StructHead(v.signature) \o <<Open("node")>> \o ItemsText(v.fields) \o <<Shut("node")>>
BytesText(v) ==
  LET next(t, byte) == t \o HexText(byte) IN FoldLeft(next, <<35>>, v.data)

\* Times, durations and points are printed to a private buffer first.
Text(v) ==
  CASE v.type = "Null" -> NullText
    [] v.type = "Boolean" -> BooleanText(v.bool)
    [] v.type \in {"Integer", "Identity"} -> Decimal(v.int)
    [] v.type = "Float" -> FloatText(v.bits)
    [] v.type \in {"String", "ElementID"} -> StringText(Quote, v.text)
    [] v.type = "Bytes" -> BytesText(v)
    [] v.type = "List" -> <<Open("list")>> \o ItemsText(v.items) \o <<Shut("list")>>
    [] v.type = "Map" -> MapText(v)
    [] v.type = "Node" -> NodeText(v)
    [] v.type = "Relationship" -> RelText(v)
    [] v.type = "Path" -> PathText(v)
    [] v.type = "" -> StructText(v)
    [] OTHER -> Scratch(v, BufLen - 1)
=============================================================================
