------------------------------- MODULE Records ------------------------------
(***************************************************************************)
(* Records, from the builder or from ETW, as the rest of the library sees  *)
(* them: through the predicates and through the getters of the .NET        *)
(* library, which read the same bytes along different paths.               *)
(***************************************************************************)
EXTENDS RecordBuilder, EventRecord, Predicates

CONSTANTS
  Texts,         \* strings that a client asks for
  Received       \* records that ETW delivers, all in their bounds

ASSUME RecordsAssumption ==
  /\ Texts \subseteq Seq(Nat)
  /\ \A r \in Received : r.is = "record" /\ IsSchema(r.schema) /\ r.data \in Seq(Octets)

Sub == INSTANCE SequencesExt

\* External: in place of a record that was built, one that ETW made; no builder then.
ReceiveRecord ==
  /\ adds = 0 /\ adds' = MaxAdds
  /\ built' \in Received
  /\ UNCHANGED <<schema, trim, header, thunks, items>>

RecordsNext == BuilderNext \/ ReceiveRecord
RecordsSpec == BuilderInit /\ [][RecordsNext]_rvars

Seen == UpToDate \/ built \in Received

\* A record without a schema reaches a predicate from ETW only.
SeenRecord == IF Seen THEN built ELSE [is |-> "no_schema", header |-> header]
-----------------------------------------------------------------------------
Ups(s) == [i \in DOMAIN s |-> Upper(s[i])]
Holds(s, t) == \E k \in 0..(Len(s) - Len(t)) : SubSeq(s, k + 1, k + Len(t)) = t

\* The eight predicates of a string, for what its getter gives.
Expected(r, t) ==
  LET says(P(_, _)) == Yes(r.is = "value" /\ P(r.v, t))
      saysUp(P(_, _)) == Yes(r.is = "value" /\ P(Ups(r.v), Ups(t)))
      equals(s, u) == s = u
      starts(s, u) == Sub!IsPrefix(u, s)
      ends(s, u) == Sub!IsSuffix(u, s)
  IN  [is |-> says(equals), iEquals |-> saysUp(equals),
       contains |-> says(Holds), iContains |-> saysUp(Holds),
       startsWith |-> says(starts), iStartsWith |-> saysUp(starts),
       endsWith |-> says(ends), iEndsWith |-> saysUp(ends)]

\* Strings with a null inside are cut by the getters, not by the predicates.
NoNulls(r) == \A i \in DOMAIN r.v : r.v[i] # 0

\* The property of that name has that type, or there is none.
Fits(name, type) ==
  IndexOf(built, name) # 0 => built.schema[IndexOf(built, name)].type = type

\* The predicates over a property read its bytes without the parser's conversions and type
\* assertions, and yet they say of a string what its getter gives: at the end of a record
\* without a terminator, behind strings of any length, for an empty string, for texts
\* longer than the string, and for a property that is not there (predicates.hpp:127-194,
\* comparers.hpp, view_adapters.hpp).
PredicatesAgree ==
  Seen =>
    \A name \in PropNames, t \in Texts :
      /\ Fits(name, "UNICODESTRING") /\ NoNulls(View("wide", built, name)) =>
           UnicodeStringIs(name, t, built) = Expected(UnicodeString(built, name, Failure).get, t)
      /\ Fits(name, "ANSISTRING") /\ NoNulls(View("narrow", built, name)) =>
           AnsiStringIs(name, t, built) = Expected(AnsiString(built, name, Failure).get, t)
      /\ Fits(name, "COUNTEDSTRING") =>
           CountedStringIs(name, t, built) = Expected(CountedString(built, name, Failure).get, t)
-----------------------------------------------------------------------------
\* Predicates of all outcomes: of the header, of a property, and their negations.
Asked ==
  {IdIs(header.id, SeenRecord), NotFilter(VersionIs(header.version + 1, SeenRecord)),
   AndFilter(OpcodeIs(header.opcode, SeenRecord), ProcessIdIs(header.pid + 1, SeenRecord))}
    \cup {OrFilter(NoEvent, PropertyIs(T, name, <<1>>, SeenRecord)) :
            T \in {"uint8"}, name \in PropNames}

Folded(F(_, _), start, list) ==
  LET f[i \in 0..Len(list)] == IF i = 0 THEN start ELSE F(f[i - 1], list[i])
  IN  f[Len(list)]

\* Lists of predicates are the chains of || and && that they stand for, for which an
\* exception counts only if nothing before it decides; none_of is all_of of the opposites,
\* but for empty lists: all_of gives false then (predicates.hpp:257-322).
ListsAreChains ==
  Seen \/ schema = NoSchema =>
    \A list \in UNION {[1..n -> Asked] : n \in 0..3} :
      /\ AnyOf(list) = Folded(OrFilter, NoEvent, list)
      /\ AllOf(list) = IF list = <<>> THEN NoEvent ELSE Folded(AndFilter, AnyEvent, list)
      /\ NoneOf(list) = IF list = <<>> THEN AnyEvent
                        ELSE AllOf([i \in DOMAIN list |-> NotFilter(list[i])])
-----------------------------------------------------------------------------
Default == [is |-> "default", v |-> <<>>]

\* All getters of an event agree in their three forms, for properties of all types and for
\* names there are not.
GettersAgree ==
  Seen =>
    \A name \in PropNames :
      /\ \A f \in InterfaceStrings(built, name, Default) \cup InterfaceObjects(built, name, Default)
                  \cup InterfaceIntegers(built, name, Default)
                  \cup {SecurityIdentifier(built, name, Default), Pointer(built, name, Default)} :
           FormsAgree(f, Default)
      /\ LET f == Binary(built, name)
         IN  IF f.get = ParserException THEN f.try = False ELSE f.try = f.get

\* An event carries its own extended data, however many items there are and whatever their
\* sizes: each item points to its bytes, and the getters give the first of their kind, the
\* GUID of a container though its text has no terminator
\* (extended_data_builder.hpp:125-182, EventRecordMetadata.hpp:208-263).
ExtendedDataFound ==
  UpToDate =>
    /\ \A i \in DOMAIN items : ItemData(built, built.extended[i]) = items[i].bytes
    /\ TryGetContainerId(built) =
         IF ItemsOf(built, "CONTAINER_ID") = {} THEN False
         ELSE Value(CHOOSE g \in ContainerIds :
                      StringFromGuid(g) = ItemData(built, FirstItem(built, "CONTAINER_ID")))
    /\ IF TryGetProcessStartKey(built) = False THEN ProcessStartKey(built) = Zeros(8)
       ELSE TryGetProcessStartKey(built) = Value(ProcessStartKey(built))

\* The container ID of an event, once read, is a GUID whose text reads as the same GUID;
\* looked at in records that carry nothing else.
ContainerIdParsesBack ==
  UpToDate /\ thunks = <<>> /\ Len(items) = 1 /\ items[1].ext = "CONTAINER_ID" =>
    ParsesBack(TryGetContainerId(built).v)
=============================================================================
