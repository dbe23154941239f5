---------------------------- MODULE ParserProofs ----------------------------
(***************************************************************************)
(* The parser finds properties where they are, for every event layout.     *)
(*                                                                         *)
(* The argument: what was walked is cached, inside the record; as long as  *)
(* the sizes come out right, each property is cached in its place and the  *)
(* next byte to walk is where the next one begins.  A walk that falls off  *)
(* the edge changes none of that.                                          *)
(***************************************************************************)
EXTENDS Parser, WellFoundedInduction, TLAPS

\* The event never changes, and its layout is one of those given.
Types == event \in Layouts /\ TypeOK

\* What was walked is inside the record, and what was not is not cached.
CacheInBounds ==
  /\ pBufferIndex_ <= event.length
  /\ \A k \in Indices : propertyCache_[k] # NotFound =>
       /\ k < lastPropertyIndex_
       /\ propertyCache_[k].at + propertyCache_[k].len <= event.length

\* The sizes of the properties up to n come out right.
Known(n) == \A m \in Indices : m <= n => Measured(m)

\* If the sizes of all properties walked came out right, the walk is where the next one
\* begins.  All of them are cached, those up to the first wrong size in their places.
CachePlaced ==
  /\ (\A m \in Indices : m < lastPropertyIndex_ => Measured(m)) =>
       pBufferIndex_ = event.offset[lastPropertyIndex_]
  /\ \A k \in Indices : k < lastPropertyIndex_ =>
       propertyCache_[k].is = "found" /\ (Known(k) => propertyCache_[k] = Placement(k))

\* A walk is for a property of the name asked for.
WalksToAsked == pc = "walk" => event.name[index] = asked /\ result = None

IInv == Types /\ CacheInBounds /\ CachePlaced /\ WalksToAsked /\ InBounds /\ LookupCorrect

\* Offsets that each grow by a size grow with the index.  The argument is by the first n that
\* has an offset before that of some m.
Grows(n, size, offset) ==
  /\ size \in [0..(n - 1) -> Nat] /\ offset \in [0..n -> Nat]
  /\ \A i \in 0..(n - 1) : offset[i + 1] = offset[i] + size[i]

LEMMA OffsetsGrow ==
  ASSUME NEW count \in Nat, NEW size, NEW offset, Grows(count, size, offset),
         NEW m \in 0..count, NEW n \in 0..count, m <= n
  PROVE  offset[m] <= offset[n]
<1> DEFINE before == {k \in m..count : offset[k] < offset[m]}
<1>1. before \subseteq Nat /\ \A i \in 0..count : offset[i] \in Nat
  BY DEF Grows
<1> SUFFICES ASSUME before # {} PROVE FALSE
  <2>1. n \in m..count
    OBVIOUS
  <2>2. before = {} => ~(offset[n] < offset[m])
    BY <2>1
  <2>3. before = {}
    OBVIOUS
  <2> QED BY <1>1, <2>2, <2>3
<1>2. PICK k \in before : \A j \in before : ~(<<j, k>> \in OpToRel(<, Nat))
  BY <1>1, NatLessThanWellFounded, WFMin
<1>3. k \in m..count /\ offset[k] < offset[m] /\ k # m
  <2>1. k \in m..count /\ offset[k] < offset[m]
    OBVIOUS
  <2>2. ~(offset[m] < offset[m])
    BY <1>1
  <2> QED BY <2>1, <2>2
<1>4. PICK j \in m..count : j + 1 = k /\ j \in 0..(count - 1)
  <2> HIDE DEF before
  <2>1. k - 1 \in m..count /\ (k - 1) + 1 = k /\ k - 1 \in 0..(count - 1)
    BY <1>3
  <2> QED BY <2>1
<1>5. j \notin before
  <2>1. j < k /\ j \in Nat /\ k \in Nat
    BY <1>3, <1>4
  <2>2. <<j, k>> \in OpToRel(<, Nat)
    BY <2>1 DEF OpToRel
  <2> QED BY <1>2, <2>2
<1>6. offset[k] = offset[j] + size[j] /\ size[j] \in Nat /\ offset[j] \in Nat /\ offset[m] \in Nat
  BY <1>4 DEF Grows
<1>7. ~(offset[j] < offset[m])
  BY <1>4, <1>5
<1> QED BY <1>3, <1>6, <1>7

\* What a layout is, with the constraints the constants are assumed to meet.
LEMMA LayoutFacts ==
  ASSUME event \in Layouts
  PROVE  /\ LayoutType(event)
         /\ event.offset[0] = 0
         /\ \A n \in Indices : event.offset[n + 1] = event.offset[n] + event.size[n]
         /\ \A m, n \in 0..event.count : m <= n => event.offset[m] <= event.offset[n]
<1>1. /\ LayoutType(event) /\ event.offset[0] = 0
      /\ \A n \in Indices : event.offset[n + 1] = event.offset[n] + event.size[n]
  BY LayoutAssumption DEF Indices
<1>2. event.count \in Nat /\ Grows(event.count, event.size, event.offset)
  BY <1>1 DEF LayoutType, Grows, Indices
<1> QED BY <1>1, <1>2, OffsetsGrow

\* Measured is about the event alone.
LEMMA EventStays ==
  ASSUME event' = event
  PROVE  /\ Indices' = Indices
         /\ \A n : Placement(n)' = Placement(n)
         /\ \A n : Measured(n)' = Measured(n)
         /\ \A n : Known(n)' = Known(n)
<1>1. Indices' = Indices
  BY DEF Indices
<1>2. ASSUME NEW n PROVE Placement(n)' = Placement(n)
  BY DEF Placement, Found, OutOfRange
<1>3. ASSUME NEW n PROVE FirstNamed(n)' = FirstNamed(n)
  BY <1>1 DEF FirstNamed
<1>4. ASSUME NEW n PROVE TdhAnswer(n)' = TdhAnswer(n)
  BY <1>3 DEF TdhAnswer
<1>5. ASSUME NEW n, NEW p PROVE HeuristicSizes(n, p)' = HeuristicSizes(n, p)
  BY DEF HeuristicSizes
<1>6. ASSUME NEW n PROVE Measured(n)' = Measured(n)
  BY <1>4, <1>5 DEF Measured, PropertySizes
<1>7. ASSUME NEW n PROVE Known(n)' = Known(n)
  BY <1>1, <1>6 DEF Known
<1> QED
  BY <1>1, <1>2, <1>6, <1>7

\* LookupCorrect counts the properties up to index as Known does.
LEMMA KnownUpTo ==
  ASSUME event.count \in Nat, NEW n \in Indices
  PROVE  Known(n) <=> \A m \in 0..n : Measured(m)
<1>1. n \in 0..(event.count - 1)
  BY DEF Indices
<1>2. \A m : m \in 0..n <=> m \in Indices /\ m <= n
  BY <1>1 DEF Indices
<1> QED
  BY <1>2 DEF Known

\* There is a first property of each name.
LEMMA FirstNamedIs ==
  ASSUME event.count \in Nat, NEW n \in Indices
  PROVE  FirstNamed(n) \in Indices
<1> DEFINE same == {m \in Indices : event.name[m] = event.name[n]}
<1>1. same \subseteq Nat /\ same # {}
  BY DEF Indices
<1>2. PICK m \in same : \A j \in same : ~(<<j, m>> \in OpToRel(<, Nat))
  BY <1>1, NatLessThanWellFounded, WFMin
<1>3. ASSUME NEW k \in 0..(m - 1) PROVE event.name[k] # event.name[n]
  <2>1. m \in 0..(event.count - 1)
    BY <1>2 DEF Indices
  <2>2. k \in Indices /\ k \in Nat /\ m \in Nat /\ k < m
    BY <2>1, <1>3 DEF Indices
  <2>3. <<k, m>> \in OpToRel(<, Nat)
    BY <2>2 DEF OpToRel
  <2> QED
    BY <1>2, <2>2, <2>3
<1>4. m \in Indices /\ event.name[m] = event.name[n]
  BY <1>2
<1> QED
  BY <1>3, <1>4 DEF FirstNamed

\* A size is never negative, whoever tells it.
LEMMA SizesAreNatural ==
  ASSUME event \in Layouts, NEW n \in Indices, NEW p \in Nat
  PROVE  PropertySizes(n, p) \subseteq Nat
<1>1. LayoutType(event)
  BY LayoutFacts
<1>2. TdhAnswer(n) \in Nat
  <2>1. FirstNamed(n) \in Indices
    BY <1>1, FirstNamedIs DEF LayoutType
  <2> QED
    BY <1>1, <2>1 DEF TdhAnswer, LayoutType, Indices
<1>3. event.element[n] \in Nat
  BY <1>1 DEF LayoutType, Indices
<1>4. HeuristicSizes(n, p) \subseteq Nat
  BY <1>1, <1>3 DEF HeuristicSizes, LayoutType
<1> QED
  BY <1>2, <1>3, <1>4 DEF PropertySizes

LEMMA InitEstablishes == ParserInit => IInv
<1> SUFFICES ASSUME ParserInit PROVE IInv
  OBVIOUS
<1>1. event \in Layouts /\ LayoutType(event) /\ event.offset[0] = 0
  BY LayoutFacts DEF ParserInit
<1>2. Types
  BY <1>1 DEF ParserInit, Types, TypeOK, LayoutType, Indices, Locations, NotFound, None, OutOfRange
<1>3. CacheInBounds
  BY <1>1 DEF ParserInit, CacheInBounds, Indices, LayoutType
<1>4. CachePlaced
  BY <1>1 DEF ParserInit, CachePlaced, Indices, LayoutType
<1>5. WalksToAsked /\ InBounds /\ LookupCorrect
  BY <1>1 DEF ParserInit, WalksToAsked, InBounds, LookupCorrect, None, LayoutType
<1> QED
  BY <1>2, <1>3, <1>4, <1>5 DEF IInv

\* A lookup answered from the cache, or the beginning of a walk.
LEMMA FindPropertyPreserves ==
  ASSUME IInv, NEW name \in Names, NEW hint \in Hints \cup Indices \cup {0},
         FindProperty(name, hint)
  PROVE  IInv'
<1>1. /\ event' = event /\ pBufferIndex_' = pBufferIndex_
      /\ lastPropertyIndex_' = lastPropertyIndex_ /\ propertyCache_' = propertyCache_
      /\ asked' = name /\ pc = "idle"
  BY DEF FindProperty
<1>2. LayoutType(event) /\ Indices' = Indices /\ event \in Layouts
  BY <1>1 DEF IInv, Types, TypeOK, Indices
<1>3. CacheInBounds' /\ CachePlaced'
  <2>1. CacheInBounds'
    BY <1>1, <1>2 DEF IInv, CacheInBounds
  <2>2. CachePlaced'
    BY <1>1, <1>2, EventStays DEF IInv, CachePlaced
  <2> QED
    BY <2>1, <2>2
<1>4. CASE result' = NotFound /\ nextHint_' = hint /\ pc' = pc /\ index' = index
           /\ \A n \in Indices : event.name[n] # name
  <2>1. Types'
    BY <1>1, <1>2, <1>4 DEF IInv, Types, TypeOK, Locations
  <2>2. WalksToAsked' /\ InBounds' /\ LookupCorrect'
    BY <1>1, <1>2, <1>4 DEF IInv, WalksToAsked, InBounds, LookupCorrect, CacheInBounds, NotFound
  <2> QED
    BY <1>3, <2>1, <2>2 DEF IInv
<1>5. CASE \E n \in Indices :
              /\ Resolves(name, hint, n)
              /\ nextHint_' = (n + 1) % event.count
              /\ index' = n
              /\ IF n < lastPropertyIndex_
                 THEN result' = propertyCache_[n] /\ pc' = pc
                 ELSE pc' = "walk" /\ result' = None
  <2>1. PICK n \in Indices :
              /\ event.name[n] = name
              /\ nextHint_' = (n + 1) % event.count
              /\ index' = n
              /\ IF n < lastPropertyIndex_
                 THEN result' = propertyCache_[n] /\ pc' = pc
                 ELSE pc' = "walk" /\ result' = None
    BY <1>5 DEF Resolves
  <2>2. nextHint_' \in Indices
    BY <1>2, <2>1 DEF Indices, LayoutType
  <2>3. Types'
    <3>1. pc' = "walk" => index' \in Indices /\ lastPropertyIndex_ <= index'
      BY <1>1, <1>2, <2>1 DEF IInv, Types, TypeOK, Indices, LayoutType
    <3>2. result' \in Locations \cup {None, OutOfRange} /\ pc' \in {"idle", "walk"}
      BY <1>1, <2>1 DEF IInv, Types, TypeOK
    <3> QED
      BY <1>1, <1>2, <2>2, <3>1, <3>2 DEF IInv, Types, TypeOK
  <2>4. WalksToAsked'
    BY <1>1, <2>1 DEF WalksToAsked
  <2>5. InBounds'
    <3>1. propertyCache_[n].is = "found" => propertyCache_[n] # NotFound
      BY DEF NotFound
    <3> QED
      BY <1>1, <2>1, <3>1 DEF IInv, InBounds, CacheInBounds, None
  <2>6. LookupCorrect'
    <3> SUFFICES ASSUME pc' = "idle"
                 PROVE  result' # NotFound /\ (Known(n) => result' = Placement(n))
      <4>1. \A m \in 0..n : Measured(m)' = Measured(m)
        BY <1>1, EventStays
      <4>2. event.count \in Nat
        BY <1>2 DEF LayoutType
      <4>3. Placement(n)' = Placement(n)
        BY <1>1, EventStays
      <4>4. Known(n) <=> \A m \in 0..n : Measured(m)
        BY <4>2, KnownUpTo
      <4> QED
        BY <1>1, <1>2, <2>1, <4>1, <4>3, <4>4 DEF LookupCorrect
    <3>1. n < lastPropertyIndex_ /\ result' = propertyCache_[n]
      BY <2>1
    <3>2. propertyCache_[n].is = "found" => propertyCache_[n] # NotFound
      BY DEF NotFound
    <3> QED
      BY <3>1, <3>2 DEF IInv, CachePlaced
  <2> QED
    BY <1>3, <2>3, <2>4, <2>5, <2>6 DEF IInv
<1> QED
  BY <1>4, <1>5 DEF FindProperty

\* Where a walk is.
LEMMA WalkFacts ==
  ASSUME IInv, pc = "walk"
  PROVE  /\ LayoutType(event) /\ event \in Layouts /\ pBufferIndex_ \in Nat
         /\ index \in Indices /\ lastPropertyIndex_ \in Indices
         /\ lastPropertyIndex_ <= index
         /\ event.name[index] = asked /\ result = None
<1>1. /\ LayoutType(event) /\ event \in Layouts /\ pBufferIndex_ \in Nat
      /\ index \in Indices /\ lastPropertyIndex_ <= index
      /\ lastPropertyIndex_ \in 0..event.count
  BY DEF IInv, Types, TypeOK
<1>2. lastPropertyIndex_ \in Indices
  BY <1>1 DEF Indices, LayoutType
<1>3. event.name[index] = asked /\ result = None
  BY DEF IInv, WalksToAsked
<1> QED
  BY <1>1, <1>2, <1>3

\* The walk passes the end of the record: then so does the property asked for.
LEMMA FallOffPreserves ==
  ASSUME IInv, pc = "walk", NEW s \in Nat,
         s \in PropertySizes(lastPropertyIndex_, pBufferIndex_),
         pBufferIndex_ + s > event.length, FallOff,
         UNCHANGED <<event, nextHint_, asked, index>>
  PROVE  IInv'
<1>1. /\ pc' = "idle" /\ result' = OutOfRange /\ Indices' = Indices
      /\ UNCHANGED <<event, pBufferIndex_, lastPropertyIndex_, propertyCache_, nextHint_, asked, index>>
  BY DEF FallOff, Indices
<1>2. /\ LayoutType(event) /\ index \in Indices /\ lastPropertyIndex_ \in Indices
      /\ lastPropertyIndex_ <= index /\ event.name[index] = asked
      /\ pBufferIndex_ \in Nat /\ event \in Layouts
  BY WalkFacts
<1>3. \A n : Placement(n)' = Placement(n) /\ Measured(n)' = Measured(n) /\ Known(n)' = Known(n)
  BY <1>1, EventStays
<1>4. Types' /\ CacheInBounds' /\ CachePlaced' /\ WalksToAsked' /\ InBounds'
  <2>1. Types'
    BY <1>1 DEF IInv, Types, TypeOK
  <2>2. CacheInBounds' /\ CachePlaced'
    BY <1>1, <1>3 DEF IInv, CacheInBounds, CachePlaced
  <2>3. WalksToAsked' /\ InBounds'
    BY <1>1 DEF IInv, WalksToAsked, InBounds, OutOfRange
  <2> QED
    BY <2>1, <2>2, <2>3
<1>5. ASSUME Known(index) PROVE Placement(index) = OutOfRange
  <2>0. (\A m \in Indices : m < lastPropertyIndex_ => Measured(m)) /\ Measured(lastPropertyIndex_)
    BY <1>2, <1>5 DEF Known, Indices, LayoutType
  <2>1. pBufferIndex_ = event.offset[lastPropertyIndex_]
    BY <2>0 DEF IInv, CachePlaced
  <2>2. s = event.size[lastPropertyIndex_]
    BY <2>0, <2>1 DEF Measured
  <2>3. event.offset[lastPropertyIndex_ + 1] = pBufferIndex_ + s
    BY <1>2, <2>1, <2>2, LayoutFacts
  <2>4. /\ lastPropertyIndex_ + 1 \in 0..event.count /\ index + 1 \in 0..event.count
        /\ lastPropertyIndex_ + 1 <= index + 1
    BY <1>2 DEF Indices, LayoutType
  <2>5. event.offset[lastPropertyIndex_ + 1] <= event.offset[index + 1]
    BY <1>2, <2>4, LayoutFacts
  <2>6. /\ event.offset \in [0..event.count -> Nat] /\ event.length \in Nat
        /\ event.offset[index + 1] \in Nat
    BY <1>2, <2>4 DEF LayoutType
  <2>7. ~ (event.offset[index + 1] <= event.length)
    BY <1>2, <2>3, <2>5, <2>6
  <2> QED
    BY <2>7 DEF Placement
<1>6. LookupCorrect'
  <2>1. Known(index) <=> \A m \in 0..index : Measured(m)
    BY <1>2, KnownUpTo DEF LayoutType
  <2>2. \A m \in 0..index : Measured(m)' = Measured(m)
    BY <1>3
  <2>3. OutOfRange # NotFound
    BY DEF OutOfRange, NotFound
  <2> QED
    BY <1>1, <1>2, <1>3, <1>5, <2>1, <2>2, <2>3 DEF LookupCorrect
<1> QED
  BY <1>4, <1>6 DEF IInv

\* The walk passes a property.
LEMMA KeepPropertyPreserves ==
  ASSUME IInv, pc = "walk", NEW s \in Nat,
         s \in PropertySizes(lastPropertyIndex_, pBufferIndex_),
         pBufferIndex_ + s <= event.length, KeepProperty(s),
         UNCHANGED <<event, nextHint_, asked, index>>
  PROVE  IInv'
<1> DEFINE n == lastPropertyIndex_
<1>1. /\ propertyCache_' = [propertyCache_ EXCEPT ![n] = Found(pBufferIndex_, s)]
      /\ pBufferIndex_' = pBufferIndex_ + s /\ lastPropertyIndex_' = n + 1
      /\ Indices' = Indices /\ UNCHANGED <<event, nextHint_, asked, index>>
      /\ IF n = index THEN pc' = "idle" /\ result' = propertyCache_'[n]
                      ELSE pc' = pc /\ result' = result
  BY DEF KeepProperty, Indices
<1>2. /\ LayoutType(event) /\ index \in Indices /\ n \in Indices /\ n <= index
      /\ event.name[index] = asked /\ result = None
      /\ pBufferIndex_ \in Nat /\ event \in Layouts
      /\ propertyCache_ \in [Indices -> Locations]
  BY WalkFacts DEF IInv, Types, TypeOK
<1>3. propertyCache_'[n] = Found(pBufferIndex_, s) /\ Found(pBufferIndex_, s) \in Locations
  BY <1>1, <1>2 DEF Found, Locations
<1>4. \A k \in Indices : k # n => propertyCache_'[k] = propertyCache_[k]
  BY <1>1, <1>2
<1>5. Types'
  <2>1. propertyCache_' \in [Indices -> Locations]
    BY <1>1, <1>2, <1>3
  <2>2. lastPropertyIndex_' \in 0..event.count /\ (n # index => lastPropertyIndex_' <= index)
    BY <1>1, <1>2 DEF Indices, LayoutType
  <2>3. pBufferIndex_' \in Nat
    BY <1>1, <1>2
  <2>4. result' \in Locations \cup {None, OutOfRange} /\ pc' \in {"idle", "walk"}
    BY <1>1, <1>2, <1>3
  <2> QED
    BY <1>1, <1>2, <2>1, <2>2, <2>3, <2>4 DEF IInv, Types, TypeOK
<1>6. CacheInBounds'
  <2>1. Found(pBufferIndex_, s).at = pBufferIndex_ /\ Found(pBufferIndex_, s).len = s
    BY DEF Found
  <2>2. \A k \in Indices : k < n => k < n + 1
    BY <1>2 DEF Indices, LayoutType
  <2>3. n < n + 1
    BY <1>2 DEF Indices, LayoutType
  <2> QED
    BY <1>1, <1>3, <1>4, <2>1, <2>2, <2>3 DEF IInv, CacheInBounds
<1>7. \A k : Placement(k)' = Placement(k) /\ Measured(k)' = Measured(k) /\ Known(k)' = Known(k)
  BY <1>1, EventStays
<1>8. ASSUME Known(n)
      PROVE  pBufferIndex_' = event.offset[n + 1] /\ Found(pBufferIndex_, s) = Placement(n)
  <2>0. (\A m \in Indices : m < n => Measured(m)) /\ Measured(n)
    BY <1>2, <1>8 DEF Known, Indices, LayoutType
  <2>1. pBufferIndex_ = event.offset[n]
    BY <2>0 DEF IInv, CachePlaced
  <2>2. s = event.size[n]
    BY <2>0, <2>1 DEF Measured
  <2>3. event.offset[n + 1] = pBufferIndex_ + s
    BY <1>2, <2>1, <2>2, LayoutFacts
  <2> QED
    BY <1>1, <2>1, <2>2, <2>3 DEF Placement
<1>9. CachePlaced'
  <2>1. ASSUME NEW k \in Indices, k < n + 1
        PROVE  propertyCache_'[k].is = "found" /\ (Known(k) => propertyCache_'[k] = Placement(k))
    <3>1. CASE k = n
      BY <1>3, <1>8, <2>1, <3>1 DEF Found
    <3>2. CASE k # n
      <4>1. k < n
        BY <1>2, <2>1, <3>2 DEF Indices, LayoutType
      <4> QED
        BY <1>4, <2>1, <3>2, <4>1 DEF IInv, CachePlaced
    <3> QED
      BY <3>1, <3>2
  <2>2. (\A m \in Indices : m < n + 1 => Measured(m)) => pBufferIndex_' = event.offset[n + 1]
    <3>1. \A m \in Indices : m <= n => m < n + 1
      BY <1>2 DEF Indices, LayoutType
    <3> QED
      BY <1>8, <3>1 DEF Known
  <2> HIDE DEF n
  <2> QED
    BY <1>1, <1>7, <2>1, <2>2 DEF CachePlaced
<1>10. WalksToAsked' /\ InBounds' /\ LookupCorrect'
  <2>1. WalksToAsked'
    BY <1>1, <1>2 DEF WalksToAsked
  <2>2. InBounds'
    BY <1>1, <1>2, <1>3 DEF InBounds, Found, None
  <2>3. LookupCorrect'
    <3> SUFFICES ASSUME pc' = "idle", result' # None
                 PROVE  result' # NotFound /\ (Known(index) => result' = Placement(index))
      <4>1. Known(index) <=> \A m \in 0..index : Measured(m)
        BY <1>2, KnownUpTo DEF LayoutType
      <4>2. \A m \in 0..index : Measured(m)' = Measured(m)
        BY <1>7
      <4> QED
        BY <1>1, <1>2, <1>7, <4>1, <4>2 DEF LookupCorrect
    <3>1. n = index /\ result' = Found(pBufferIndex_, s)
      BY <1>1, <1>2, <1>3
    <3>2. Found(pBufferIndex_, s) # NotFound
      BY DEF Found, NotFound
    <3> QED
      BY <1>8, <3>1, <3>2
  <2> QED
    BY <2>1, <2>2, <2>3
<1> QED
  BY <1>5, <1>6, <1>9, <1>10 DEF IInv

LEMMA NextPreserves == IInv /\ [ParserNext]_pvars => IInv'
<1> SUFFICES ASSUME IInv, [ParserNext]_pvars PROVE IInv'
  OBVIOUS
<1>0. Hints \subseteq Hints \cup Indices \cup {0}
  OBVIOUS
<1>1. ASSUME NEW name \in Names, Parse(name) PROVE IInv'
  <2>1. nextHint_ \in Hints \cup Indices \cup {0}
    BY DEF IInv, Types, TypeOK
  <2> QED
    BY <1>1, <2>1, FindPropertyPreserves DEF Parse
<1>2. ASSUME NEW name \in Names, NEW hint \in Hints, ParseWithHint(name, hint) PROVE IInv'
  BY <1>0, <1>2, FindPropertyPreserves DEF ParseWithHint
<1>3. ASSUME Walk PROVE IInv'
  <2>1. LayoutType(event) /\ pBufferIndex_ \in Nat
    BY DEF IInv, Types, TypeOK
  <2>2. pc = "walk" /\ UNCHANGED <<event, nextHint_, asked, index>>
    BY <1>3 DEF Walk
  <2>3. PICK s \in PropertySizes(lastPropertyIndex_, pBufferIndex_) :
             IF pBufferIndex_ + s > event.length THEN FallOff ELSE KeepProperty(s)
    BY <1>3 DEF Walk
  <2>4. s \in Nat
    BY <2>2, <2>3, WalkFacts, SizesAreNatural
  <2>5. CASE pBufferIndex_ + s > event.length
    BY <2>2, <2>3, <2>4, <2>5, FallOffPreserves
  <2>6. CASE ~ (pBufferIndex_ + s > event.length)
    <3>1. pBufferIndex_ + s <= event.length
      BY <2>1, <2>4, <2>6 DEF LayoutType
    <3> QED
      BY <2>2, <2>3, <2>4, <2>6, <3>1, KeepPropertyPreserves
  <2> QED
    BY <2>5, <2>6
<1>4. CASE UNCHANGED pvars
  <2>1. event' = event
    BY <1>4 DEF pvars
  <2>2. Types' /\ CacheInBounds' /\ WalksToAsked' /\ InBounds'
    BY <1>4 DEF pvars, IInv, Types, TypeOK, Indices, CacheInBounds, WalksToAsked, InBounds
  <2>3. CachePlaced' /\ LookupCorrect'
    BY <1>4, <2>1, EventStays DEF pvars, IInv, CachePlaced, LookupCorrect
  <2> QED
    BY <2>2, <2>3 DEF IInv
<1> QED
  BY <1>1, <1>2, <1>3, <1>4 DEF ParserNext

\* The inductive invariant holds in every state of every use of a parser.
THEOREM ParserInvariance == ParserSpec => []IInv
BY InitEstablishes, NextPreserves, PTL DEF ParserSpec

\* The parser's members keep their types (find_property, parser.hpp:151-239).
THEOREM ParserTypes == ParserSpec => []TypeOK
<1>1. IInv => TypeOK
  BY DEF IInv, Types
<1> QED
  BY <1>1, ParserInvariance, PTL

\* For every event, record, sequence of names and hints, and whatever TDH tells:
\* the walk and what it gives stay inside the record (parser.hpp:225-228).
THEOREM ParserStaysInBounds == ParserSpec => []InBounds
<1>1. IInv => InBounds
  BY DEF IInv
<1> QED
  BY <1>1, ParserInvariance, PTL

\* For every event, arrays, repeated names and failures of TDH included, and whatever was
\* looked up before: a lookup gives a property of the name asked for, and as far as the
\* sizes come out right, gives it in the place where it is and only fails if it is not all
\* there (parser.hpp:151-239).
THEOREM LookupsAreCorrect == ParserSpec => []LookupCorrect
<1>1. IInv => LookupCorrect
  BY DEF IInv
<1> QED
  BY <1>1, ParserInvariance, PTL

\* No lookup moves a property found before (cache_property, parser.hpp:241-244).
THEOREM PropertiesDoNotMove == ParserSpec => PropertiesStay
<1>1. IInv /\ [ParserNext]_pvars =>
        [\A n \in Indices : propertyCache_[n].is = "found" => propertyCache_'[n] = propertyCache_[n]]_pvars
  <2> SUFFICES ASSUME IInv, ParserNext, NEW n \in Indices, propertyCache_[n].is = "found"
               PROVE  propertyCache_'[n] = propertyCache_[n]
    OBVIOUS
  <2>1. n < lastPropertyIndex_
    BY DEF IInv, CacheInBounds, NotFound
  <2>2. n # lastPropertyIndex_
    BY <2>1 DEF IInv, Types, TypeOK, LayoutType, Indices
  <2>3. ASSUME NEW s, KeepProperty(s) PROVE propertyCache_'[n] = propertyCache_[n]
    BY <2>2, <2>3 DEF KeepProperty, IInv, Types, TypeOK
  <2> QED
    BY <2>3 DEF ParserNext, Parse, ParseWithHint, FindProperty, Walk, FallOff
<1> QED
  BY <1>1, ParserInvariance, PTL DEF ParserSpec, PropertiesStay
=============================================================================
