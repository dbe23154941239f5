------------------------------ MODULE MCRecords -----------------------------
(***************************************************************************)
(* An instance of Records for TLC: events with strings in the middle and   *)
(* at the end, with properties of fixed and of found sizes, of a type that *)
(* the builder cannot fill, and with a name twice.                         *)
(***************************************************************************)
EXTENDS Records

CONSTANTS a, b, c

Prop(name, type, out, length) == [name |-> name, type |-> type, out |-> out, length |-> length]
Wide(name) == Prop(name, "UNICODESTRING", "STRING", 0)
Narrow(name) == Prop(name, "ANSISTRING", "STRING", 0)
Byte(name) == Prop(name, "UINT8", "UNSIGNEDBYTE", 1)

MCSchemas ==
  {<<Wide(a), Byte(b), Narrow(c)>>,
   <<Narrow(a), Narrow(b), Wide(c)>>,
   <<Prop(a, "BINARY", "IPV4", 4), Wide(b)>>,
   <<Byte(a), Prop(b, "SID", "STRING", 0)>>,
   <<Wide(a), Wide(a), Byte(b)>>,
   <<Prop(a, "COUNTEDSTRING", "STRING", 0), Byte(b)>>,
   <<Wide(a)>>}

\* "xY" and "", a byte that starts no string, and a SID of one part
MCSupplies ==
  {[type |-> "wstring", v |-> <<120, 89>>], [type |-> "wstring", v |-> <<>>],
   [type |-> "string", v |-> <<120>>], [type |-> "uint8", v |-> <<1>>],
   [type |-> "binary", v |-> <<1, 2, 3, 4>>],
   [type |-> "sid", v |-> <<1, 1, 0, 0, 0, 0, 0, 5, 18, 0, 0, 0>>]}

\* "", "x", "X", "y", "xY", "XyX"
MCTexts == {<<>>, <<120>>, <<88>>, <<121>>, <<120, 89>>, <<88, 121, 88>>}

MCArguments == {[id |-> 65536 + 7, version |-> 256 + 2, opcode |-> 1, level |-> 4]}

\* Records of one property, for which the layout of the bytes is all that matters.
Only(p, data, is32) ==
  [is |-> "record", schema |-> <<p>>, data |-> data, is32 |-> is32,
   extended |-> <<>>, buffer |-> <<>>,
   header |-> [id |-> 1, version |-> 0, opcode |-> 0, level |-> 4, pid |-> 5]]

\* Counted strings, also of half a character; strings of a length the schema tells, with
\* nulls behind and inside; one without a terminator; addresses; times, one beyond 9999;
\* a WBEMSID, and one with no SID; pointers; a BOOLEAN.
MCReceived ==
  {Only(Prop(a, "COUNTEDSTRING", "STRING", 0), <<4, 0, 120, 0, 89, 0>>, FALSE),
   Only(Prop(a, "COUNTEDSTRING", "STRING", 0), <<3, 0, 120, 0, 89, 0>>, FALSE),
   Only(Prop(a, "COUNTEDSTRING", "STRING", 0), <<0, 0>>, FALSE),
   Only(Prop(a, "UNICODESTRING", "STRING", 6), <<120, 0, 89, 0, 0, 0>>, FALSE),
   Only(Prop(a, "ANSISTRING", "STRING", 3), <<120, 0, 89>>, FALSE),
   Only(Narrow(a), <<120, 89, 120>>, FALSE),
   Only(Prop(a, "BINARY", "SOCKETADDRESS", 16), <<2>> \o Zeros(15), FALSE),
   Only(Prop(a, "BINARY", "IPV6", 16), <<1>> \o Zeros(15), FALSE),
   Only(Prop(a, "FILETIME", "DATETIME", 8), Zeros(7) \o <<1>>, FALSE),
   Only(Prop(a, "FILETIME", "DATETIME", 8), Zeros(7) \o <<127>>, FALSE),
   Only(Prop(a, "WBEMSID", "STRING", 28), Zeros(16) \o <<1, 1>> \o Zeros(10), FALSE),
   Only(Prop(a, "WBEMSID", "STRING", 16), Zeros(16), FALSE),
   Only(Prop(a, "POINTER", "HEXINT64", 8), <<1, 2, 3, 4>>, TRUE),
   Only(Prop(a, "BOOLEAN", "BOOLEAN", 4), <<0, 1, 0, 0>>, FALSE)}

MCGuid(n) == [data1 |-> <<222, 173, 190, n>>, data2 |-> <<0, 10>>, data3 |-> <<159, 160>>,
              part1 |-> <<255, n>>, part2 |-> <<1, 35, 69, 103, 137, 171>>]
MCContainerIds == {MCGuid(9), MCGuid(240)}
MCStartKeys == {<<1, 2, 3, 4, 5, 6, 7, 8>>}
=============================================================================
