------------------------------ MODULE MCParser ------------------------------
(***************************************************************************)
(* Instances of Parser for TLC: all events of up to MaxCount properties    *)
(* with the names given and of up to MaxSize bytes each, in records that   *)
(* are a byte short, exact, or a byte long.                                *)
(***************************************************************************)
EXTENDS Parser, FiniteSetsExt, TLC

CONSTANTS MaxCount, MaxSize, n1, n2, n3

Sizes(n) == [0..(n - 1) -> 0..MaxSize]

\* Where property k begins.
Offsets(n, size) == [k \in 0..n |-> MapThenSumSet(LAMBDA j : size[j], 0..(k - 1))]

\* Names in the order of a manifest, or with a name twice, as TraceLogging allows.
NamesOf(n) == {[k \in 0..(n - 1) |-> CASE k = 0 -> n1 [] k = 1 -> n2 [] k = 2 -> z] :
                 z \in {n1, n3}}

\* The schema tells all sizes but that of one property at most, and those of empty ones.
Tellers(n, size) ==
  {[k \in 0..(n - 1) |-> IF k = m THEN teller ELSE IF size[k] = 0 THEN "tdh" ELSE "schema"] :
     m \in 0..n, teller \in {"scan", "tdh"}}

\* All properties are of one element, or the first is an array of elements of a byte.
Elements(n, size) == {size} \cup {[k \in 0..(n - 1) |-> IF k = 0 THEN 1 ELSE size[k]]}

Events(n, size) ==
  LET at == Offsets(n, size)
  IN  [count : {n}, name : NamesOf(n), size : {size}, offset : {at},
       length : ((at[n] - 1)..(at[n] + 1)) \cap Nat, told : Tellers(n, size),
       element : Elements(n, size), tdhFails : {{}, {0}} \cap SUBSET (0..(n - 1))]

\* Where a string begins there is a character, which may lack a byte at the end of the record.
WellTold(l) ==
  \A k \in 0..(l.count - 1) :
    l.told[k] = "scan" /\ l.offset[k] < l.length =>
      l.element[k] \in 1..(l.length - l.offset[k] + 1)

MCLayouts ==
  {l \in UNION {UNION {Events(n, size) : size \in Sizes(n)} : n \in 0..MaxCount} : WellTold(l)}

\* Events that are in their records as a whole, some with an array first of elements of
\* a byte, and of which the schema tells the size of every property.
ArrayLayouts ==
  {l \in MCLayouts : /\ l.length = l.offset[l.count] /\ l.tdhFails = {}
                     /\ \A n \in 0..(l.count - 1) : l.told[n] = "schema" /\ l.size[n] > 0
                     /\ \A m, n \in 0..(l.count - 1) : l.name[m] = l.name[n] => m = n}

=============================================================================
