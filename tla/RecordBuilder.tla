---------------------------- MODULE RecordBuilder ----------------------------
(***************************************************************************)
(* krabs::testing::record_builder: a client adds properties and extended   *)
(* data, and packs them into a record by the schema of the event, which    *)
(* tests then push through a trace as if ETW had delivered it.             *)
(***************************************************************************)
EXTENDS Values, GuidText

CONSTANTS
  Schemas,        \* properties of the events there are
  NoSchema,       \* TDH knows no schema of the event
  PropNames,      \* names a client gives to properties
  Supplies,       \* [type, v]: C++ values a client gives
  Arguments,      \* [id, version, opcode, level], of the constructor
  ContainerIds,   \* GUIDs
  StartKeys,      \* the eight bytes of process start keys
  ProcessIds,     \* written to header()
  NotBuilt,       \* pack() has not been called yet
  MaxAdds         \* bound: calls that add something

\* Properties in order, each with a length
IsSchema(ps) == ps \in Seq({ps[i] : i \in DOMAIN ps}) /\ \A i \in DOMAIN ps : ps[i].length \in Nat

\* The bytes of a value of a C++ type; a SID is sizeof(SID) bytes, a pointer one of 64 bits
IsValue(T, v) ==
  /\ v \in Seq(Octets)
  /\ T \in DOMAIN SizeOf => Len(v) = SizeOf[T]
  /\ T = "bool" => v \in {<<0>>, <<1>>}
  /\ T = "pointer" => Len(v) = 8
  /\ T = "sid" => Len(v) = 12

\* ExtendedDataCount, a USHORT, holds the number of the items.
ASSUME BuilderAssumption ==
  /\ NoSchema \notin Schemas /\ MaxAdds \in Nat /\ MaxAdds < 65536
  /\ ContainerIds \subseteq Guids /\ StartKeys \subseteq [1..8 -> Octets]
  /\ \A ps \in Schemas : IsSchema(ps)
  /\ \A s \in Supplies : s.type \in DOMAIN Morphism /\ IsValue(s.type, s.v)

VARIABLES
  schema,        \* of the event that is built
  trim,          \* trim_string_null_terminator_
  header,        \* header_
  thunks,        \* properties_
  items,         \* extended_data_.items_
  built,         \* what the last pack() or pack_incomplete() gave
  adds

rvars == <<schema, trim, header, thunks, items, built, adds>>

\* The fields of EVENT_DESCRIPTOR are narrower than the arguments
HeaderOf(a) ==
  [id |-> a.id % 65536, version |-> a.version % 256, opcode |-> a.opcode % 256,
   level |-> a.level % 256, pid |-> 0]

BuilderInit ==
  /\ schema \in Schemas \cup {NoSchema}
  /\ trim \in BOOLEAN
  /\ \E a \in Arguments : header = HeaderOf(a)
  /\ thunks = <<>> /\ items = <<>> /\ built = NotBuilt /\ adds = 0

Add == adds < MaxAdds /\ adds' = adds + 1

Thunk(name, s) == [name |-> name, type |-> Morphism[s.type], bytes |-> ThunkBytes(s.type, s.v),
                   from |-> s]

AddProperties(ts) ==
  /\ Add
  /\ thunks' = thunks \o ts
  /\ UNCHANGED <<schema, trim, header, items, built>>

AddItem(item) ==
  /\ Add
  /\ items' = Append(items, item)
  /\ UNCHANGED <<schema, trim, header, thunks, built>>

\* The text of the GUID without braces and without a terminator
AddContainerId(g) == AddItem([ext |-> "CONTAINER_ID", bytes |-> StringFromGuid(g)])
AddProcessStartKey(k) == AddItem([ext |-> "PROCESS_START_KEY", bytes |-> k])

\* header() gives a reference
EditHeader(pid) ==
  /\ Add
  /\ header' = [header EXCEPT !.pid = pid]
  /\ UNCHANGED <<schema, trim, thunks, items, built>>
-----------------------------------------------------------------------------
(* pack_impl *)

\* The first property of that name; others of the same name are ignored
FirstThunk(name) ==
  LET is == {i \in DOMAIN thunks : thunks[i].name = name}
  IN  IF is = {} THEN 0 ELSE CHOOSE i \in is : \A j \in is : i <= j

Packing == [data |-> <<>>, unfilled |-> {}, toTrim |-> 0, error |-> "none"]

\* Mutant of PackProperty: bytes_to_trim is not reset for each property.
PackPropertyKeepsTrim(acc, p) ==
  LET i == FirstThunk(p.name) IN
  IF i # 0
  THEN IF thunks[i].type # p.type THEN [acc EXCEPT !.error = "invalid_argument"]
       ELSE [acc EXCEPT !.data = @ \o thunks[i].bytes,
                        !.toTrim = IF p.type \in StringTypes THEN Width(p.type) ELSE @]
  ELSE IF p.type \notin DOMAIN FillSize THEN [acc EXCEPT !.error = "runtime_error"]
  ELSE [acc EXCEPT !.data = @ \o Zeros(FillSize[p.type]), !.unfilled = @ \cup {p.name}]

\* One turn of the loop: a supplied property must have the type of the schema, the others
\* are filled with zeros
PackProperty(acc, p) ==
  LET i == FirstThunk(p.name) IN
  IF i # 0
  THEN IF thunks[i].type # p.type THEN [acc EXCEPT !.error = "invalid_argument"]
       ELSE [acc EXCEPT !.data = @ \o thunks[i].bytes,
                        !.toTrim = IF p.type \in StringTypes THEN Width(p.type) ELSE 0]
  ELSE IF p.type \notin DOMAIN FillSize THEN [acc EXCEPT !.error = "runtime_error"]
  ELSE [acc EXCEPT !.data = @ \o Zeros(FillSize[p.type]), !.toTrim = 0,
                   !.unfilled = @ \cup {p.name}]

\* An exception ends the loop; then the last terminator is trimmed
PackImpl ==
  LET packed[i \in 0..Len(schema)] ==
        IF i = 0 THEN Packing
        ELSE IF packed[i - 1].error # "none" THEN packed[i - 1]
        ELSE PackProperty(packed[i - 1], schema[i])
      all == packed[Len(schema)]
  IN  IF trim THEN [all EXCEPT !.data = SubSeq(@, 1, Len(@) - all.toTrim)] ELSE all

\* Mutant of DataPointers: the pointer stays at the beginning of the data.
DataPointersStay == [i \in DOMAIN items |-> 0]

\* Where the data of each item begins, behind the array of the items
DataPointers ==
  LET start[i \in 1..(Len(items) + 1)] ==
        IF i = 1 THEN 0 ELSE start[i - 1] + Len(items[i - 1].bytes)
  IN  [i \in DOMAIN items |-> start[i]]

\* extended_data_builder::pack(): DataSize is a USHORT
ExtendedData ==
  [i \in DOMAIN items |->
     [ext |-> items[i].ext, ptr |-> DataPointers[i], size |-> Len(items[i].bytes) % 65536]]

ExtendedBuffer ==
  LET upTo[i \in 0..Len(items)] == IF i = 0 THEN <<>> ELSE upTo[i - 1] \o items[i].bytes
  IN  upTo[Len(items)]

\* The data that UserDataLength, a USHORT, tells of
UserData(data) == SubSeq(data, 1, Len(data) % 65536)

\* create_stub_record, and the synth_record that owns the data
Record ==
  [is |-> "record", schema |-> schema, data |-> UserData(PackImpl.data), is32 |-> FALSE,
   header |-> header, extended |-> ExtendedData, buffer |-> ExtendedBuffer]

Exception(e) == [is |-> e]

Build(outcome) ==
  /\ built' = outcome
  /\ UNCHANGED <<schema, trim, header, thunks, items, adds>>

\* The constructor of krabs::schema throws first
PackIncomplete ==
  Build(IF schema = NoSchema THEN Exception("could_not_find_schema")
        ELSE IF PackImpl.error # "none" THEN Exception(PackImpl.error) ELSE Record)

Pack ==
  Build(IF schema = NoSchema THEN Exception("could_not_find_schema")
        ELSE IF PackImpl.error # "none" THEN Exception(PackImpl.error)
        ELSE IF PackImpl.unfilled # {} THEN Exception("invalid_argument") ELSE Record)

\* A value of the right type for each property of the schema, in order
CompleteSets ==
  IF schema = NoSchema THEN {}
  ELSE LET fits(i) == {s \in Supplies : Morphism[s.type] = schema[i].type}
       IN  {ts \in [DOMAIN schema -> Supplies] : \A i \in DOMAIN schema : ts[i] \in fits(i)}

BuilderNext ==
  \/ \E name \in PropNames, s \in Supplies : AddProperties(<<Thunk(name, s)>>)
  \/ \E ts \in CompleteSets :
       AddProperties([i \in DOMAIN schema |-> Thunk(schema[i].name, ts[i])])
  \/ \E g \in ContainerIds : AddContainerId(g)
  \/ \E k \in StartKeys : AddProcessStartKey(k)
  \/ \E pid \in ProcessIds : EditHeader(pid)
  \/ Pack
  \/ PackIncomplete

BuilderSpec == BuilderInit /\ [][BuilderNext]_rvars
-----------------------------------------------------------------------------
(* Properties *)

Built == built # NotBuilt /\ built.is = "record"

\* Nothing has been added since the record was built.
UpToDate == Built /\ schema # NoSchema /\ built = Record

Supplied(i) == FirstThunk(schema[i].name) # 0
SuppliedWith(i) == thunks[FirstThunk(schema[i].name)].from

PackedSize(i) ==
  IF Supplied(i) THEN Len(thunks[FirstThunk(schema[i].name)].bytes) ELSE FillSize[schema[i].type]

\* The schema finds of the property what is packed for it: strings end at their null, and
\* have none inside; a SID tells its own size, and sizeof(SID) has room for one part; of
\* all else the schema tells the size, which for a BINARY that is filled is one
\* (filler.hpp:39).
WellSized(i) ==
  LET p == schema[i]
  IN  IF p.type \in StringTypes
      THEN /\ p.length = 0 /\ p.out = "STRING"
           /\ Supplied(i) => \A k \in DOMAIN SuppliedWith(i).v : SuppliedWith(i).v[k] # 0
      ELSE IF p.type = "SID"
      THEN /\ p.length = 0
           /\ Supplied(i) => SuppliedWith(i).v[1] = 1 /\ SuppliedWith(i).v[2] = 1
      ELSE p.length > 0 /\ p.length = PackedSize(i)

\* The record is as it would be packed now, in less than 64 KB, and of such properties.
Readable ==
  /\ UpToDate /\ PackImpl.error = "none" /\ Len(PackImpl.data) < 65536
  /\ \A i \in DOMAIN schema : WellSized(i)

CppType(type) == CHOOSE T \in DOMAIN Morphism : Morphism[T] = type

\* A filled property reads as zeros, but eight zeros are no SID.
Filled(i) ==
  IF schema[i].type = "SID" THEN Failure
  ELSE IF schema[i].type \in StringTypes THEN Value(<<>>)
  ELSE IF schema[i].type = "BOOLEAN" THEN Value(<<0>>) ELSE Value(Zeros(FillSize[schema[i].type]))

\* Each property of a packed record, the first of its name, reads as the value supplied for
\* it first, or as the filler, whatever else was supplied, of any name, in any order, and
\* though the terminator of a last string was trimmed (record_builder.hpp:323-389).  A
\* record of one empty string without its terminator has no data: its property is not found.
RoundTrip ==
  Readable =>
    \A i \in {j \in DOMAIN schema : IndexOf(built, schema[j].name) = j} :
      LET r == ParseValue(CppType(schema[i].type), built, schema[i].name)
      IN  IF built.data = <<>> THEN r = Failure /\ trim
          ELSE r = IF Supplied(i) THEN Value(SuppliedWith(i).v) ELSE Filled(i)
=============================================================================
