------------------------------- MODULE Values -------------------------------
(***************************************************************************)
(* C++ values and the bytes of properties: the TDH types that values are   *)
(* packed as (testing/filler.hpp, testing/record_property_thunk.hpp), the  *)
(* place and the size of a property in a record (size_provider.hpp), and   *)
(* parser::parse<T>() with its type assertions (parser.hpp, parse_types.   *)
(* hpp, tdh_helpers.hpp).  A parser is a new one at each call here: Parser *)
(* shows that what was looked up before makes no difference.               *)
(*                                                                         *)
(* A C++ value is the sequence of its bytes, that of a string its          *)
(* characters, without the terminator.  A property is a record [name,      *)
(* type, out, length], a length of 0 to be found out; an event is a record *)
(* [schema, data, is32] with the properties in order.                      *)
(***************************************************************************)
EXTENDS Integers, Sequences

CONSTANT Debug     \* assertions are compiled in, as NDEBUG is not defined

ASSUME DebugAssumption == Debug \in BOOLEAN

WideTypes == {"UNICODESTRING"}
StringTypes == {"UNICODESTRING", "ANSISTRING"}
Width(type) == IF type \in WideTypes THEN 2 ELSE 1
Zeros(n) == [i \in 1..n |-> 0]

\* Characters of a string as bytes, little-endian; a character is a byte here
Encode(type, s) ==
  [i \in 1..(Len(s) * Width(type)) |->
     IF i % Width(type) = 1 % Width(type) THEN s[(i - 1) \div Width(type) + 1] ELSE 0]
-----------------------------------------------------------------------------
(* Types *)

SizeOf ==
  [int8 |-> 1, uint8 |-> 1, int16 |-> 2, uint16 |-> 2, int32 |-> 4, uint32 |-> 4,
   int64 |-> 8, uint64 |-> 8, float |-> 4, double |-> 8, hexint32 |-> 4, hexint64 |-> 8,
   guid |-> 16, filetime |-> 8, systemtime |-> 16]

\* tdh_morphism: what a value of a C++ type is packed as
Morphism ==
  [int8 |-> "INT8", uint8 |-> "UINT8", int16 |-> "INT16", uint16 |-> "UINT16",
   int32 |-> "INT32", uint32 |-> "UINT32", int64 |-> "INT64", uint64 |-> "UINT64",
   float |-> "FLOAT", double |-> "DOUBLE", hexint32 |-> "HEXINT32", hexint64 |-> "HEXINT64",
   guid |-> "GUID", filetime |-> "FILETIME", systemtime |-> "SYSTEMTIME",
   wstring |-> "UNICODESTRING", string |-> "ANSISTRING", bool |-> "BOOLEAN",
   pointer |-> "POINTER", sid |-> "SID", binary |-> "BINARY"]

\* how_many_bytes_to_fill; other types are an exception
FillSize ==
  [UNICODESTRING |-> 2, ANSISTRING |-> 1, INT8 |-> 1, UINT8 |-> 1, INT16 |-> 2, UINT16 |-> 2,
   INT32 |-> 4, UINT32 |-> 4, INT64 |-> 8, UINT64 |-> 8, FLOAT |-> 4, DOUBLE |-> 8,
   BOOLEAN |-> 4, BINARY |-> 1, GUID |-> 16, POINTER |-> 8, FILETIME |-> 8,
   SYSTEMTIME |-> 16, SID |-> 8, HEXINT32 |-> 4, HEXINT64 |-> 8]

\* record_property_thunk: strings get a terminator, a bool is widened to an int
ThunkBytes(T, v) ==
  CASE T \in {"wstring", "string"} -> Encode(Morphism[T], v) \o Zeros(Width(Morphism[T]))
    [] T = "bool"                  -> v \o Zeros(3)
    [] OTHER                       -> v

\* assert_valid_assignment: types whose mismatch is a type_mismatch_assert, and those
\* for which it is a runtime_error
Strict == {"wstring", "string", "int8", "uint8", "int16", "uint16", "int32", "uint32",
           "int64", "uint64", "float", "double", "filetime", "systemtime"}

Asserted(T, p) ==
  IF ~Debug THEN "ok"
  ELSE IF \/ T \in Strict /\ p.type # Morphism[T]
          \/ T = "counted" /\ p.type # "COUNTEDSTRING" THEN "mismatch"
  ELSE IF \/ T = "ip" /\ p.out \notin {"IPV4", "IPV6"}
          \/ T = "socket" /\ p.out # "SOCKETADDRESS"
          \/ T = "sid" /\ p.type \notin {"SID", "WBEMSID"}
          \/ T \in {"pointer", "bool"} /\ p.type # Morphism[T] THEN "error"
  ELSE "ok"
-----------------------------------------------------------------------------
(* Where a property is *)

\* The k-th character (from 0) at offset `at' is null
NullAt(data, at, w, k) == \A i \in 1..w : at + k * w + i <= Len(data) => data[at + k * w + i] = 0

\* get_heuristic_size: up to a null, or to the end of the record, in whole characters
HeuristicSize(data, at, p) ==
  LET w == Width(p.type)
      ends == {k \in 0..(Len(data) - at) : NullAt(data, at, w, k) \/ at + (k + 1) * w >= Len(data)}
  IN  IF p.out # "STRING" \/ p.type \notin StringTypes \/ at >= Len(data) THEN 0
      ELSE w * (1 + CHOOSE k \in ends : \A j \in ends : k <= j)

\* External: TdhGetPropertySize, whose errors are ignored.  It is asked by name, and so for
\* the first property of a name; the records here have one such property, or the builder
\* has packed the same bytes for all of them.
TdhSize(data, at, p) ==
  CASE p.type = "SID" /\ at + 2 <= Len(data)           -> 8 + 4 * data[at + 2]
    [] p.type = "COUNTEDSTRING" /\ at + 2 <= Len(data) -> 2 + data[at + 1]
    [] OTHER                                           -> 0

\* Mutant of PropertySizeAt: a string is measured up to its terminator only.
PropertySizeAtText(rec, at, p) ==
  IF p.length > 0 THEN IF p.type = "POINTER" THEN IF rec.is32 THEN 4 ELSE 8 ELSE p.length
  ELSE LET size == HeuristicSize(rec.data, at, p)
       IN  IF size = 0 THEN TdhSize(rec.data, at, p)
           ELSE IF size > Width(p.type) THEN size - Width(p.type) ELSE size

\* get_property_size, for a property without flags
PropertySizeAt(rec, at, p) ==
  IF p.length > 0 THEN IF p.type = "POINTER" THEN IF rec.is32 THEN 4 ELSE 8 ELSE p.length
  ELSE LET size == HeuristicSize(rec.data, at, p)
       IN  IF size = 0 THEN TdhSize(rec.data, at, p) ELSE size

Nowhere == [at |-> -1, size |-> 0]

\* The walk of find_property; nothing is found after a property that passes the end
Places(rec) ==
  LET fit(at, size) ==
        IF at + size <= Len(rec.data) THEN [at |-> at, size |-> size] ELSE Nowhere
      behind(last, at, p) ==
        IF last = Nowhere THEN Nowhere ELSE fit(at, PropertySizeAt(rec, at, p))
      place[i \in 0..Len(rec.schema)] ==
        IF i = 0 THEN fit(0, 0)
        ELSE behind(place[i - 1], place[i - 1].at + place[i - 1].size, rec.schema[i])
  IN  place

IndexOf(rec, name) ==
  LET is == {i \in DOMAIN rec.schema : rec.schema[i].name = name}
  IN  IF is = {} THEN 0 ELSE CHOOSE i \in is : \A j \in is : i <= j

\* property_info; a record without data has none, as UserData is null then
Find(rec, name) ==
  LET i == IndexOf(rec, name)
  IN  IF i = 0 \/ rec.data = <<>> THEN Nowhere ELSE Places(rec)[i]
-----------------------------------------------------------------------------
(* parse<T>() *)

Value(v) == [is |-> "value", v |-> v]
Failure == [is |-> "error", v |-> <<>>]
Mismatch == [is |-> "mismatch", v |-> <<>>]
\* Bytes from beyond the record are read
Beyond == [is |-> "beyond", v |-> <<>>]

\* n bytes from `at', whatever the size of the property
Read(rec, at, n) ==
  IF at + n <= Len(rec.data) THEN Value(SubSeq(rec.data, at + 1, at + n)) ELSE Beyond

\* Mutant of Content: one terminator is always taken off.
ContentDropsLast(rec, f, w) ==
  [i \in 1..(f.size \div w - 1) |-> rec.data[f.at + (i - 1) * w + 1]]

\* get_string_content_length: trailing nulls are not content
Content(rec, f, w) ==
  LET n == f.size \div w
      some == {k \in 1..n : ~NullAt(rec.data, f.at, w, k - 1)}
      length == IF some = {} THEN 0 ELSE CHOOSE k \in some : \A j \in some : j <= k
  IN  [i \in 1..length |-> rec.data[f.at + (i - 1) * w + 1]]

\* SIDs have revision 1, else ConvertSidToStringSid fails
SidFrom(rec, at) ==
  IF at + 8 > Len(rec.data) THEN Beyond
  ELSE IF rec.data[at + 1] # 1 THEN Failure ELSE Read(rec, at, 8 + 4 * rec.data[at + 2])

\* A WBEMSID is a SID after two pointers
ParseSid(rec, p, f) ==
  LET start == IF rec.is32 THEN 8 ELSE 16
  IN  CASE p.type = "SID" -> SidFrom(rec, f.at)
        [] p.type = "WBEMSID" /\ f.size > start -> SidFrom(rec, f.at + start)
        [] OTHER -> Failure

ParseIp(rec, p, f) ==
  CASE p.out = "IPV6" -> Read(rec, f.at, 16)
    [] p.out = "IPV4" -> Read(rec, f.at, 4) [] OTHER -> Failure

\* The size in the string is trusted, that of the property is not looked at
ParseCounted(rec, f) ==
  IF f.at + 2 > Len(rec.data) THEN Beyond
  ELSE LET r == Read(rec, f.at + 2, (rec.data[f.at + 1] \div 2) * 2)
       IN  IF r.is = "value" THEN Value([i \in 1..(Len(r.v) \div 2) |-> r.v[2 * i - 1]]) ELSE r

ParseAs(T, rec, p, f) ==
  CASE T = "wstring" -> Value(Content(rec, f, 2))
    [] T = "string"  -> Value(Content(rec, f, 1))
    [] T = "bool"    -> LET r == Read(rec, f.at, 4)
                        IN  IF r.is = "value" THEN Value(<<IF r.v = Zeros(4) THEN 0 ELSE 1>>) ELSE r
    [] T = "counted" -> ParseCounted(rec, f)
    [] T = "binary"  -> Value(SubSeq(rec.data, f.at + 1, f.at + f.size))
    [] T = "ip"      -> ParseIp(rec, p, f)
    [] T = "socket"  -> Read(rec, f.at, f.size)
    [] T = "sid"     -> ParseSid(rec, p, f)
    [] T = "pointer" -> IF f.size \in {4, 8} THEN Read(rec, f.at, f.size) ELSE Failure
    [] OTHER         -> IF f.size = SizeOf[T] THEN Read(rec, f.at, f.size) ELSE Failure

ParseFound(T, rec, p, f) ==
  IF f = Nowhere THEN Failure
  ELSE CASE Asserted(T, p) = "mismatch" -> Mismatch
         [] Asserted(T, p) = "error"    -> Failure
         [] OTHER                       -> ParseAs(T, rec, p, f)

ParseValue(T, rec, name) ==
  ParseFound(T, rec, rec.schema[IndexOf(rec, name)], Find(rec, name))
=============================================================================
