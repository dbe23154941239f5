------------------------------- MODULE Parser -------------------------------
(***************************************************************************)
(* krabs::parser (krabs/parser.hpp): finds the properties of one event by  *)
(* name.  Their bytes follow one another in the record, and only the size  *)
(* of each tells where the next begins; the parser walks the record lazily *)
(* and remembers what it has passed.  It also remembers, as a hint, where  *)
(* the last lookup ended, and scans the names from there.                  *)
(*                                                                         *)
(* A lookup is find_property(), called by every parse(), try_parse() and   *)
(* view_of().  A step of the walk is one turn of its loop.                 *)
(***************************************************************************)
EXTENDS Integers

CONSTANTS
  Names,         \* property names
  Hints,         \* hints a client gives
  Layouts        \* events, with the layout of their properties

\* An event: how many properties (numbered from 0), their names, the bytes each
\* takes and where they begin, and the length of the record.  The size of a
\* property is told by its schema (a length, or the width of a pointer), by a scan
\* of the record for a null, or by TDH; the first two tell the size of one
\* element, which is that of the property unless it is an array.  TDH may fail.
LayoutType(l) ==
  /\ l.count \in Nat
  /\ l.name \in [0..(l.count - 1) -> Names]
  /\ l.size \in [0..(l.count - 1) -> Nat]
  /\ l.offset \in [0..l.count -> Nat]
  /\ l.length \in Nat
  /\ l.told \in [0..(l.count - 1) -> {"schema", "scan", "tdh"}]
  /\ l.element \in [0..(l.count - 1) -> Nat]
  /\ l.tdhFails \subseteq 0..(l.count - 1)

\* A schema that tells no length leaves it to the others.  A scan that begins in the
\* record takes a byte at least; a wide string may pass the end of the record by a byte.
ASSUME LayoutAssumption ==
  /\ Hints \subseteq Nat
  /\ \A l \in Layouts :
       /\ LayoutType(l)
       /\ l.offset[0] = 0
       /\ \A n \in 0..(l.count - 1) :
            /\ l.offset[n + 1] = l.offset[n] + l.size[n]
            /\ l.told[n] = "schema" => l.element[n] > 0
            /\ l.told[n] = "scan" /\ l.offset[n] < l.length =>
                 l.element[n] \in 1..(l.length - l.offset[n] + 1)

VARIABLES
  event,              \* the event and its schema; they do not change
  pBufferIndex_,      \* offset of the next byte to walk
  lastPropertyIndex_, \* properties walked
  nextHint_,
  propertyCache_,     \* where each property walked is
  pc,                 \* "idle", or "walk" in the loop of find_property
  asked, index,       \* the name looked up, and the property it resolved to
  result              \* what the last lookup gave

pvars == <<event, pBufferIndex_, lastPropertyIndex_, nextHint_, propertyCache_,
          pc, asked, index, result>>

Indices == 0..(event.count - 1)

\* What a lookup gives: property_info, which is NotFound when it was made by its
\* default constructor, or an exception.
None == [is |-> "none", at |-> 0, len |-> 0]
NotFound == [is |-> "not_found", at |-> 0, len |-> 0]
OutOfRange == [is |-> "out_of_range", at |-> 0, len |-> 0]
Found(at, len) == [is |-> "found", at |-> at, len |-> len]

\* The constructor.
ParserInit ==
  /\ event \in Layouts
  /\ pBufferIndex_ = 0
  /\ lastPropertyIndex_ = 0
  /\ nextHint_ = 0
  /\ propertyCache_ = [n \in Indices |-> NotFound]
  /\ pc = "idle"
  /\ asked \in Names
  /\ index = 0
  /\ result = None

-----------------------------------------------------------------------------
\* The name scan: n is the first property named name from the hint on, the scan
\* wrapping around at the end.
FromHint(hint, n) ==
  LET start == IF hint >= event.count THEN 0 ELSE hint IN
  IF n >= start THEN n - start ELSE n - start + event.count

Resolves(name, hint, n) ==
  /\ event.name[n] = name
  /\ \A m \in Indices : event.name[m] = name => FromHint(hint, n) <= FromHint(hint, m)

\* Mutant of FindProperty: the hint does not wrap around.
FindPropertyHintPastEnd(name, hint) ==
  /\ pc = "idle"
  /\ asked' = name
  /\ \/ /\ \A n \in Indices : event.name[n] # name
        /\ nextHint_' = hint
        /\ result' = NotFound
        /\ UNCHANGED <<pc, index>>
     \/ \E n \in Indices :
          /\ Resolves(name, hint, n)
          /\ nextHint_' = n + 1
          /\ index' = n
          /\ IF n < lastPropertyIndex_
             THEN result' = propertyCache_[n] /\ UNCHANGED pc
             ELSE pc' = "walk" /\ result' = None
  /\ UNCHANGED <<event, pBufferIndex_, lastPropertyIndex_, propertyCache_>>

\* find_property(name, hint), up to the loop.
FindProperty(name, hint) ==
  /\ pc = "idle"
  /\ asked' = name
  /\ \/ /\ \A n \in Indices : event.name[n] # name
        /\ nextHint_' = hint
        /\ result' = NotFound
        /\ UNCHANGED <<pc, index>>
     \/ \E n \in Indices :
          /\ Resolves(name, hint, n)
          /\ nextHint_' = (n + 1) % event.count
          /\ index' = n
          /\ IF n < lastPropertyIndex_
             THEN result' = propertyCache_[n] /\ UNCHANGED pc
             ELSE pc' = "walk" /\ result' = None
  /\ UNCHANGED <<event, pBufferIndex_, lastPropertyIndex_, propertyCache_>>

\* parse(name), and parse(name, hint), which stores the hint first.
Parse(name) == FindProperty(name, nextHint_)
ParseWithHint(name, hint) == FindProperty(name, hint)

\* The property that TDH takes a name for.
FirstNamed(n) ==
  CHOOSE m \in Indices : event.name[m] = event.name[n] /\ \A k \in 0..(m - 1) : event.name[k] # event.name[n]

\* get_tdh_size(): TdhGetPropertySize is asked by name only, for all elements of an
\* array.  Its errors are ignored: the size is then 0.
TdhAnswer(n) == IF FirstNamed(n) \in event.tdhFails THEN 0 ELSE event.size[FirstNamed(n)]

\* get_heuristic_size(): the scan for a null ends with the record.  In the wrong
\* place, any length can come out; at the end of the record it takes nothing.
HeuristicSizes(n, p) ==
  IF p >= event.length THEN {0}
  ELSE IF p = event.offset[n] THEN {event.element[n]}
  ELSE 1..(event.length - p + 1)

\* What get_property_size() may give for property n at offset p: the length in the
\* schema, whatever the count of elements; else that of the scan, unless it is 0;
\* else what TDH tells.
PropertySizes(n, p) ==
  IF event.told[n] = "schema" THEN {event.element[n]}
  ELSE IF event.told[n] = "scan" /\ HeuristicSizes(n, p) # {0} THEN HeuristicSizes(n, p)
  ELSE {TdhAnswer(n)}

\* Mutant of KeepProperty: it is kept as the property asked for.
KeepPropertyAsAsked(s) ==
  LET n == lastPropertyIndex_ IN
  /\ propertyCache_' = [propertyCache_ EXCEPT ![index] = Found(pBufferIndex_, s)]
  /\ pBufferIndex_' = pBufferIndex_ + s
  /\ lastPropertyIndex_' = n + 1
  /\ IF n = index THEN pc' = "idle" /\ result' = propertyCache_'[n]
                  ELSE UNCHANGED <<pc, result>>

\* The property takes s bytes: cache_property(), and on to the next one, if the
\* one asked for has not been reached.
KeepProperty(s) ==
  LET n == lastPropertyIndex_ IN
  /\ propertyCache_' = [propertyCache_ EXCEPT ![n] = Found(pBufferIndex_, s)]
  /\ pBufferIndex_' = pBufferIndex_ + s
  /\ lastPropertyIndex_' = n + 1
  /\ IF n = index THEN pc' = "idle" /\ result' = propertyCache_'[n]
                  ELSE UNCHANGED <<pc, result>>

\* Mutant of FallOff: the next walk starts at the first byte again.
FallOffRestarts ==
  /\ pc' = "idle"
  /\ result' = OutOfRange
  /\ pBufferIndex_' = 0
  /\ UNCHANGED <<lastPropertyIndex_, propertyCache_>>

\* A property that passes the end of the record is an exception.
FallOff ==
  /\ pc' = "idle"
  /\ result' = OutOfRange
  /\ UNCHANGED <<pBufferIndex_, lastPropertyIndex_, propertyCache_>>

\* Mutant of Walk: the end of the record is not checked.
WalkUnchecked ==
  /\ pc = "walk"
  /\ \E s \in PropertySizes(lastPropertyIndex_, pBufferIndex_) : KeepProperty(s)
  /\ UNCHANGED <<event, nextHint_, asked, index>>

\* One turn of the loop of find_property.
Walk ==
  /\ pc = "walk"
  /\ \E s \in PropertySizes(lastPropertyIndex_, pBufferIndex_) :
       IF pBufferIndex_ + s > event.length THEN FallOff ELSE KeepProperty(s)
  /\ UNCHANGED <<event, nextHint_, asked, index>>

ParserNext ==
  \/ \E name \in Names : Parse(name)
  \/ \E name \in Names, hint \in Hints : ParseWithHint(name, hint)
  \/ Walk

ParserSpec == ParserInit /\ [][ParserNext]_pvars

-----------------------------------------------------------------------------
(* What a client may rely on.                                              *)

Locations == [is : {"found"}, at : Nat, len : Nat] \cup {NotFound}

\* The types of the parser's members.
TypeOK ==
  /\ LayoutType(event)
  /\ pBufferIndex_ \in Nat
  /\ lastPropertyIndex_ \in 0..event.count
  /\ nextHint_ \in Hints \cup Indices \cup {0}
  /\ propertyCache_ \in [Indices -> Locations]
  /\ pc \in {"idle", "walk"}
  /\ asked \in Names
  /\ pc = "walk" => index \in Indices /\ lastPropertyIndex_ <= index
  /\ result \in Locations \cup {None, OutOfRange}

\* The walk never leaves the record (parser.hpp:196-197 asserts so), and a
\* property the parser gives lies inside it, whatever TDH answers and whatever
\* was looked up before.
InBounds ==
  /\ pBufferIndex_ <= event.length
  /\ result.is = "found" => result.at + result.len <= event.length

\* Where a property of the event is, if the record is long enough for it and
\* those before it.
Placement(n) ==
  IF event.offset[n + 1] <= event.length THEN Found(event.offset[n], event.size[n])
  ELSE OutOfRange

\* The size of the property, asked for where it begins, comes out right.  It does not for
\* an array whose schema tells the length of an element (size_provider.hpp:70-83), for a
\* property that TDH confuses with another of its name (155-168), or if TDH fails.
Measured(n) == PropertySizes(n, event.offset[n]) = {event.size[n]}

\* Whatever was looked up before, with whatever hints, in whatever order, and
\* even after an exception in the middle of the walk, a lookup gives the property
\* of the name asked for that it resolved to, and gives it at the place where it is, as
\* if the record had been walked from its beginning, if its size and those of the
\* properties before it come out right (find_property, parser.hpp:151-239).
LookupCorrect ==
  pc = "idle" /\ result # None =>
    \/ result = NotFound /\ \A n \in Indices : event.name[n] # asked
    \/ /\ index \in Indices /\ event.name[index] = asked /\ result # NotFound
       /\ (\A n \in 0..index : Measured(n)) => result = Placement(index)

\* "In order to determine how far we need to advance the seeking pointer, we need to know
\* the size of the property that we've just looked at" (size_provider.hpp:64-66): what a
\* lookup finds begins where the property does, behind an array too.
FoundInPlace == result.is = "found" => result.at = event.offset[index]

\* Bytes handed to a client for a property stay the property's: no later lookup
\* moves a property already found, not even if TDH failed to tell a size.
PropertiesStay ==
  [][\A n \in Indices :
       propertyCache_[n].is = "found" => propertyCache_'[n] = propertyCache_[n]]_pvars

=============================================================================
