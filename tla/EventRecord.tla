----------------------------- MODULE EventRecord -----------------------------
(***************************************************************************)
(* The .NET view of an event (EventRecord.hpp, EventRecordMetadata.hpp):   *)
(* for each type of property a getter that throws, one that gives a        *)
(* default and one that tells whether it succeeded, over parser::parse and *)
(* try_parse; and the extended data.                                       *)
(***************************************************************************)
EXTENDS Values, GuidText

\* What a getter gives other than a value that has bytes
Throws(e) == [is |-> e, v |-> <<>>]
ParserException == Throws("ParserException")
TypeMismatchAssert == Throws("TypeMismatchAssert")
False == Throws("false")

\* r, with `instead' for an outcome that is not a value
Caught(r, outcome, instead) == IF r.is = outcome THEN instead ELSE r

GetValue(T, rec, name) ==
  Caught(Caught(ParseValue(T, rec, name), "mismatch", TypeMismatchAssert), "error", ParserException)

\* try_parse: in debug builds a type_mismatch_assert passes
TryParse(T, rec, name) == Caught(ParseValue(T, rec, name), "error", False)

\* Mutant of TryGetValue: a mismatch is a failure as others are.
TryGetValueQuiet(T, rec, name) == Caught(TryParse(T, rec, name), "mismatch", False)

TryGetValue(T, rec, name) == Caught(TryParse(T, rec, name), "mismatch", TypeMismatchAssert)

\* String(str.c_str()): up to the first null
FromCStr(v) ==
  LET nulls == {i \in DOMAIN v : v[i] = 0}
  IN  IF nulls = {} THEN v ELSE SubSeq(v, 1, (CHOOSE i \in nulls : \A j \in nulls : i <= j) - 1)

\* External: DateTime::FromFileTimeUtc takes times up to the end of 9999, 0x24C8...
FromFileTime(v) == IF v[8] > 36 THEN Throws("ArgumentOutOfRange") ELSE Value(v)

\* ConvertToByteArray gives null for no bytes
ToByteArray(v) == IF v = <<>> THEN Throws("null") ELSE Value(v)

\* ConvertToSocketAddress takes the size from the family (AF_INET is 2)
ToSocketAddress(v) ==
  IF Len(v) < 2 THEN Beyond
  ELSE LET n == IF v[1] = 2 THEN 16 ELSE 28
       IN  Value([i \in 1..n |-> IF i <= Len(v) THEN v[i] ELSE 0])

ToManaged(T, v) ==
  CASE T \in {"wstring", "string"} -> Value(FromCStr(v))
    [] T = "filetime"              -> FromFileTime(v)
    [] T = "binary"                -> ToByteArray(v)
    [] T = "socket"                -> ToSocketAddress(v)
    [] OTHER                       -> Value(v)

Managed(T, r) == IF r.is = "value" THEN ToManaged(T, r.v) ELSE r

Get(T, rec, name) == Managed(T, GetValue(T, rec, name))
TryGet(T, rec, name) == Managed(T, TryGetValue(T, rec, name))

\* The default, unless the Try form succeeds or throws
GetOr(T, rec, name, default) == Caught(TryGet(T, rec, name), "false", default)

Forms(T, rec, name, default) ==
  [get |-> Get(T, rec, name), try |-> TryGet(T, rec, name), or |-> GetOr(T, rec, name, default)]

UnicodeString(rec, name, d) == Forms("wstring", rec, name, d)
AnsiString(rec, name, d) == Forms("string", rec, name, d)
CountedString(rec, name, d) == Forms("counted", rec, name, d)
IPAddress(rec, name, d) == Forms("ip", rec, name, d)
SocketAddress(rec, name, d) == Forms("socket", rec, name, d)
SecurityIdentifier(rec, name, d) == Forms("sid", rec, name, d)
Pointer(rec, name, d) == Forms("pointer", rec, name, d)
DateTime(rec, name, d) == Forms("filetime", rec, name, d)
SmallInteger(T, rec, name, d) == Forms(T, rec, name, d)
LargeInteger(T, rec, name, d) == Forms(T, rec, name, d)

\* There is no GetBinary with a default
Binary(rec, name) == [get |-> Get("binary", rec, name), try |-> TryGet("binary", rec, name)]

\* What IEventRecord offers in three forms
InterfaceStrings(rec, name, d) == {UnicodeString(rec, name, d), AnsiString(rec, name, d),
                                   CountedString(rec, name, d)}
InterfaceObjects(rec, name, d) == {IPAddress(rec, name, d), SocketAddress(rec, name, d),
                                   DateTime(rec, name, d)}
InterfaceIntegers(rec, name, d) ==
  {SmallInteger(T, rec, name, d) : T \in {"int8", "uint8", "int16", "uint16"}}
    \cup {LargeInteger(T, rec, name, d) : T \in {"int32", "uint32", "int64", "uint64"}}
-----------------------------------------------------------------------------
(* Extended data *)

ItemData(rec, item) == SubSeq(rec.buffer, item.ptr + 1, item.ptr + item.size)

ItemsOf(rec, ext) == {i \in DOMAIN rec.extended : rec.extended[i].ext = ext}
FirstItem(rec, ext) ==
  rec.extended[CHOOSE i \in ItemsOf(rec, ext) : \A j \in ItemsOf(rec, ext) : i <= j]

\* The first container ID; text that is no GUID is a ContainerIdFormatException
TryGetContainerId(rec) ==
  IF ItemsOf(rec, "CONTAINER_ID") = {} THEN False
  ELSE LET g == ParseGuid(ItemData(rec, FirstItem(rec, "CONTAINER_ID")))
       IN  IF g = NoGuid THEN Throws("ContainerIdFormatException") ELSE Value(g)

TryGetProcessStartKey(rec) ==
  IF ItemsOf(rec, "PROCESS_START_KEY") = {} THEN False
  ELSE Value(ItemData(rec, FirstItem(rec, "PROCESS_START_KEY")))

\* schema::process_start_key(): 0 if there is none
ProcessStartKey(rec) ==
  IF ItemsOf(rec, "PROCESS_START_KEY") = {} THEN Zeros(8)
  ELSE ItemData(rec, FirstItem(rec, "PROCESS_START_KEY"))
-----------------------------------------------------------------------------
(* Properties *)

\* The forms of a getter tell the same of a property, whatever type it has: the default
\* replaces exactly what the Try form gives false for and the throwing form reports as a
\* ParserException; a type mismatch of a debug build is hidden by none of them
\* (EventRecord.hpp:808-865).
FormsAgree(f, default) ==
  IF f.get = ParserException THEN f.try = False /\ f.or = default
                             ELSE f.try = f.get /\ f.or = f.get
=============================================================================
