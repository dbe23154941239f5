---------------------------- MODULE RecordsProofs ----------------------------
(***************************************************************************)
(* Theorems about Records, for any schemas, values and texts.              *)
(***************************************************************************)
EXTENDS Records, SequenceTheorems, WellFoundedInduction, TLAPS

-----------------------------------------------------------------------------
(* The first and the last of some numbers.                                 *)

LEMMA FirstExists ==
  ASSUME NEW S \in SUBSET Nat, S # {}
  PROVE  \E n \in S : \A m \in S : n <= m
<1>1. PICK n \in S : \A m \in S : ~(<<m, n>> \in OpToRel(<, Nat))
  BY NatLessThanWellFounded, WFMin
<1>2. \A m \in S : ~(m < n)
  BY <1>1 DEF OpToRel
<1> QED BY <1>2

-----------------------------------------------------------------------------
(* Lists of predicates.                                                    *)

Outcomes == {"yes", "no", "throws"}

LEMMA AskedOutcomes == Asked \subseteq Outcomes
BY DEF Asked, Outcomes, IdIs, VersionIs, OpcodeIs, ProcessIdIs, NotFilter, AndFilter,
       OrFilter, Yes, NoEvent, PropertyIs

\* What a loop over the first i of the list has found that is not x, or x.
FirstUpTo(list, x, i) ==
  LET others == {k \in 1..i : list[k] # x}
  IN  IF others = {} THEN x ELSE list[CHOOSE k \in others : \A j \in others : k <= j]

LEMMA FirstUpToNext ==
  ASSUME NEW list, NEW x, NEW i \in Nat
  PROVE  /\ FirstUpTo(list, x, 0) = x
         /\ FirstUpTo(list, x, i + 1) =
              IF FirstUpTo(list, x, i) = x THEN list[i + 1] ELSE FirstUpTo(list, x, i)
<1> DEFINE others(m) == {k \in 1..m : list[k] # x}
           first(m) == CHOOSE k \in others(m) : \A j \in others(m) : k <= j
<1>1. \A m \in Nat : others(m) \in SUBSET Nat
  OBVIOUS
<1>2. \A m \in Nat : others(m) # {} =>
        first(m) \in others(m) /\ \A j \in others(m) : first(m) <= j
  BY <1>1, FirstExists
<1>3. others(0) = {}
  OBVIOUS
<1>4. others(i + 1) = others(i) \cup (IF list[i + 1] # x THEN {i + 1} ELSE {})
  OBVIOUS
<1>5. \A m \in Nat : FirstUpTo(list, x, m) = IF others(m) = {} THEN x ELSE list[first(m)]
  BY DEF FirstUpTo
<1>6. \A m \in Nat : \A k \in others(m) : k \in 1..m /\ list[k] # x
  OBVIOUS
<1> HIDE DEF others, first
<1>7. FirstUpTo(list, x, 0) = x
  BY <1>3, <1>5
<1>8. CASE others(i) = {}
  <2>1. CASE list[i + 1] # x
    <3>1. others(i + 1) = {i + 1}
      BY <1>4, <1>8, <2>1
    <3>2. first(i + 1) = i + 1
      BY <1>2, <3>1
    <3> QED BY <1>5, <1>7, <1>8, <2>1, <3>1, <3>2
  <2>2. CASE list[i + 1] = x
    BY <1>4, <1>5, <1>7, <1>8, <2>2
  <2> QED BY <2>1, <2>2
<1>9. CASE others(i) # {}
  <2>1. first(i) \in others(i) /\ first(i) \in 1..i /\ list[first(i)] # x
    BY <1>2, <1>6, <1>9
  <2>2. others(i + 1) # {} /\ first(i + 1) \in others(i + 1) /\ first(i) \in others(i + 1)
    BY <1>2, <1>4, <2>1
  <2>3. first(i + 1) <= first(i) /\ first(i + 1) \in 1..(i + 1)
    BY <1>2, <1>6, <2>2
  <2>4. first(i + 1) \in others(i)
    BY <1>4, <2>1, <2>2, <2>3
  <2>5. first(i) <= first(i + 1)
    BY <1>2, <1>9, <2>4
  <2>6. first(i + 1) = first(i)
    BY <2>1, <2>3, <2>5
  <2> QED BY <1>5, <1>7, <1>9, <2>1, <2>2, <2>6
<1> QED BY <1>8, <1>9, <1>7

\* One turn of the recursion that goes on while it has x.
Chain(n, list, x, f) ==
  [i \in 0..n |-> IF i = 0 THEN x ELSE IF f[i - 1] = x THEN list[i] ELSE f[i - 1]]

\* A function that goes on while it has x is FirstUpTo.
LEMMA ChainIsFirst ==
  ASSUME NEW n \in Nat, NEW list, NEW x, NEW f, f = Chain(n, list, x, f)
  PROVE  \A i \in 0..n : f[i] = FirstUpTo(list, x, i)
<1> DEFINE wrong == {i \in 0..n : f[i] # FirstUpTo(list, x, i)}
<1> SUFFICES ASSUME wrong # {} PROVE FALSE
  OBVIOUS
<1>1. wrong \in SUBSET Nat
  OBVIOUS
<1>2. PICK i \in wrong : \A j \in wrong : i <= j
  BY <1>1, FirstExists
<1>3. f = [k \in 0..n |-> IF k = 0 THEN x ELSE IF f[k - 1] = x THEN list[k] ELSE f[k - 1]]
  BY DEF Chain
<1>4. CASE i = 0
  <2>1. FirstUpTo(list, x, 0) = x
    BY FirstUpToNext
  <2>2. 0 \in 0..n /\ f[0] = x
    BY <1>3
  <2> QED BY <1>2, <1>4, <2>1, <2>2
<1>5. CASE i # 0
  <2>1. i \in 0..n /\ i - 1 \in Nat /\ i - 1 \in 0..n /\ i - 1 \notin wrong
    BY <1>2, <1>5
  <2>2. f[i - 1] = FirstUpTo(list, x, i - 1)
    BY <2>1
  <2>3. f[i] = IF f[i - 1] = x THEN list[i] ELSE f[i - 1]
    BY <1>3, <1>5, <2>1
  <2>4. FirstUpTo(list, x, i) =
          IF FirstUpTo(list, x, i - 1) = x THEN list[i] ELSE FirstUpTo(list, x, i - 1)
    <3> DEFINE k == i - 1
    <3>1. k \in Nat /\ k + 1 = i
      BY <2>1
    <3>2. FirstUpTo(list, x, k + 1) =
            IF FirstUpTo(list, x, k) = x THEN list[k + 1] ELSE FirstUpTo(list, x, k)
      BY <3>1, FirstUpToNext
    <3> QED BY <3>1, <3>2
  <2> QED BY <1>2, <2>2, <2>3, <2>4
<1> QED BY <1>4, <1>5

\* There is such a function.
LEMMA ChainExists ==
  ASSUME NEW n \in Nat, NEW list, NEW x
  PROVE  \E f : f = Chain(n, list, x, f)
<1> DEFINE g == [i \in 0..n |-> FirstUpTo(list, x, i)]
<1>1. ASSUME NEW i \in 0..n, i # 0
      PROVE  g[i] = IF g[i - 1] = x THEN list[i] ELSE g[i - 1]
  <2>1. i - 1 \in Nat /\ i - 1 \in 0..n /\ (i - 1) + 1 = i
    BY <1>1
  <2>2. g[i - 1] = FirstUpTo(list, x, i - 1) /\ g[i] = FirstUpTo(list, x, i)
    BY <2>1
  <2> QED BY <2>1, <2>2, FirstUpToNext
<1>2. g[0] = x
  BY FirstUpToNext
<1>3. g = [i \in 0..n |-> IF i = 0 THEN x ELSE IF g[i - 1] = x THEN list[i] ELSE g[i - 1]]
  BY <1>1, <1>2
<1>4. g = Chain(n, list, x, g)
  BY <1>3 DEF Chain
<1> QED BY <1>4

LEMMA ChainAtEnd ==
  ASSUME NEW n \in Nat, NEW list, NEW x
  PROVE  (CHOOSE f : f = Chain(n, list, x, f))[n] = FirstUpTo(list, x, n)
<1>1. PICK f : f = CHOOSE g : g = Chain(n, list, x, g)
  OBVIOUS
<1>2. f = Chain(n, list, x, f)
  BY <1>1, ChainExists
<1>3. \A i \in 0..n : f[i] = FirstUpTo(list, x, i)
  BY <1>2, ChainIsFirst
<1> QED BY <1>1, <1>3

LEMMA FirstNotIsFirst ==
  ASSUME NEW n \in Nat, NEW T, NEW list \in [1..n -> T], NEW x
  PROVE  FirstNot(list, x) = FirstUpTo(list, x, n)
BY DEF FirstNot, FirstUpTo

\* any_of is the chain of ||.
LEMMA FoldedOr ==
  ASSUME NEW n \in Nat, NEW T, NEW list \in [1..n -> T]
  PROVE  Folded(OrFilter, "no", list) = FirstNot(list, "no")
<1>1. Len(list) = n
  OBVIOUS
<1>2. Folded(OrFilter, "no", list) = (CHOOSE f : f = Chain(n, list, "no", f))[n]
  BY <1>1 DEF Folded, OrFilter, Chain
<1>3. FirstNot(list, "no") = FirstUpTo(list, "no", n)
  BY FirstNotIsFirst
<1> QED BY <1>2, <1>3, ChainAtEnd

\* all_of is the chain of &&.
LEMMA FoldedAnd ==
  ASSUME NEW n \in Nat, NEW T, NEW list \in [1..n -> T]
  PROVE  Folded(AndFilter, "yes", list) = FirstNot(list, "yes")
<1>1. Len(list) = n
  OBVIOUS
<1>2. Folded(AndFilter, "yes", list) = (CHOOSE f : f = Chain(n, list, "yes", f))[n]
  BY <1>1 DEF Folded, AndFilter, Chain
<1>3. FirstNot(list, "yes") = FirstUpTo(list, "yes", n)
  BY FirstNotIsFirst
<1> QED BY <1>2, <1>3, ChainAtEnd

\* What stops the loop: nothing, or the first item that is not x.
Stops(n, list, x, by) ==
  \/ (\A i \in 1..n : list[i] = x) /\ by = x
  \/ \E i \in 1..n : list[i] # x /\ by = list[i] /\ \A j \in 1..n : list[j] # x => i <= j

LEMMA FirstNotStops ==
  ASSUME NEW n \in Nat, NEW T, NEW list \in [1..n -> T], NEW x
  PROVE  Stops(n, list, x, FirstNot(list, x))
<1> DEFINE is == {i \in DOMAIN list : list[i] # x}
           first == CHOOSE i \in is : \A j \in is : i <= j
<1>1. FirstNot(list, x) = IF is = {} THEN x ELSE list[first]
  BY DEF FirstNot
<1>2. is \in SUBSET Nat /\ is = {i \in 1..n : list[i] # x}
  OBVIOUS
<1>3. is # {} => first \in is /\ \A j \in is : first <= j
  BY <1>2, FirstExists
<1> HIDE DEF is, first
<1> QED BY <1>1, <1>2, <1>3 DEF Stops

\* none_of is all_of of the opposites.
LEMMA NoneIsAllOpposite ==
  ASSUME NEW n \in Nat \ {0}, NEW list \in [1..n -> Outcomes]
  PROVE  NoneOf(list) = AllOf([i \in DOMAIN list |-> NotFilter(list[i])])
<1> DEFINE nots == [i \in DOMAIN list |-> NotFilter(list[i])]
<1>1. \A y \in Outcomes : NotFilter(y) \in Outcomes /\ (y # "no" <=> NotFilter(y) # "yes")
  BY DEF Outcomes, NotFilter
<1>2. nots \in [1..n -> Outcomes] /\ \A i \in 1..n : nots[i] = NotFilter(list[i])
  BY <1>1
<1>3. nots # <<>>
  BY <1>2
<1>4. \A i \in 1..n : list[i] # "no" <=> nots[i] # "yes"
  BY <1>1, <1>2
<1> HIDE DEF nots
<1>5. AllOf(nots) = FirstNot(nots, "yes") /\ NoneOf(list) = NotFilter(FirstNot(list, "no"))
  BY <1>3 DEF AllOf, NoneOf
<1>6. FirstNot(nots, "yes") = NotFilter(FirstNot(list, "no"))
  <2>1. Stops(n, list, "no", FirstNot(list, "no"))
    BY n \in Nat, FirstNotStops
  <2>2. Stops(n, nots, "yes", FirstNot(nots, "yes"))
    BY n \in Nat, <1>2, FirstNotStops
  <2>3. CASE \A i \in 1..n : list[i] = "no"
    <3>1. FirstNot(list, "no") = "no"
      BY <2>3, <2>1 DEF Stops
    <3>2. FirstNot(nots, "yes") = "yes"
      BY <2>3, <1>4, <2>2 DEF Stops
    <3> QED BY <3>1, <3>2 DEF NotFilter
  <2>4. CASE \E i \in 1..n : list[i] # "no"
    <3>1. PICK i \in 1..n : /\ list[i] # "no" /\ FirstNot(list, "no") = list[i]
                            /\ \A j \in 1..n : list[j] # "no" => i <= j
      BY <2>4, <2>1 DEF Stops
    <3>2. PICK k \in 1..n : /\ nots[k] # "yes" /\ FirstNot(nots, "yes") = nots[k]
                            /\ \A j \in 1..n : nots[j] # "yes" => k <= j
      BY <2>4, <1>4, <2>2 DEF Stops
    <3>3. i = k
      BY <3>1, <3>2, <1>4
    <3> QED BY <3>1, <3>2, <3>3, <1>2
  <2> QED BY <2>3, <2>4
<1> QED BY <1>5, <1>6 DEF nots

\* Lists of predicates, of any length, are the chains of || and && that they stand for;
\* none_of is all_of of the opposites (predicates.hpp:257-322).
THEOREM ListsFold ==
  ASSUME NEW n \in Nat, NEW list \in [1..n -> Outcomes]
  PROVE  /\ AnyOf(list) = Folded(OrFilter, NoEvent, list)
         /\ AllOf(list) = IF list = <<>> THEN NoEvent ELSE Folded(AndFilter, AnyEvent, list)
         /\ NoneOf(list) = IF list = <<>> THEN AnyEvent
                           ELSE AllOf([i \in DOMAIN list |-> NotFilter(list[i])])
<1>1. AnyOf(list) = Folded(OrFilter, NoEvent, list)
  BY FoldedOr DEF AnyOf, NoEvent
<1>2. AllOf(list) = IF list = <<>> THEN NoEvent ELSE Folded(AndFilter, AnyEvent, list)
  BY FoldedAnd DEF AllOf, NoEvent, AnyEvent
<1>3. NoneOf(list) = IF list = <<>> THEN AnyEvent
                     ELSE AllOf([i \in DOMAIN list |-> NotFilter(list[i])])
  <2>1. CASE n = 0
    <3>1. list = <<>> /\ {i \in DOMAIN list : list[i] # "no"} = {}
      BY <2>1
    <3> QED BY <3>1 DEF NoneOf, FirstNot, NotFilter, AnyEvent
  <2>2. CASE n # 0
    <3>1. list # <<>>
      BY <2>2
    <3> QED BY <2>2, <3>1, NoneIsAllOpposite
  <2> QED BY <2>1, <2>2
<1> QED BY <1>1, <1>2, <1>3

\* Whatever a record says to the predicates that are asked of it, a list of them is its
\* chain.
THEOREM ListsHold == RecordsSpec => []ListsAreChains
<1>1. ListsAreChains
  <2> SUFFICES ASSUME NEW n \in 0..3, NEW list \in [1..n -> Asked]
      PROVE  /\ AnyOf(list) = Folded(OrFilter, NoEvent, list)
             /\ AllOf(list) = IF list = <<>> THEN NoEvent ELSE Folded(AndFilter, AnyEvent, list)
             /\ NoneOf(list) = IF list = <<>> THEN AnyEvent
                               ELSE AllOf([i \in DOMAIN list |-> NotFilter(list[i])])
    BY DEF ListsAreChains
  <2>1. n \in Nat /\ list \in [1..n -> Outcomes]
    BY AskedOutcomes
  <2> QED BY <2>1, ListsFold
<1> QED BY <1>1, PTL

-----------------------------------------------------------------------------
(* Getters.                                                                *)

Outcome(r) == (\E v : r = Value(v)) \/ r \in {Failure, Mismatch, Beyond}

LEMMA ParseOutcome ==
  ASSUME NEW T, NEW rec, NEW name
  PROVE  Outcome(ParseValue(T, rec, name))
<1>1. \A at, n : Outcome(Read(rec, at, n))
  BY DEF Read, Outcome
<1>2. \A f : Outcome(ParseCounted(rec, f))
  <2> TAKE f
  <2> DEFINE r == Read(rec, f.at + 2, (rec.data[f.at + 1] \div 2) * 2)
  <2>1. Outcome(r)
    BY <1>1
  <2> HIDE DEF r
  <2>2. Outcome(IF r.is = "value" THEN Value([i \in 1..(Len(r.v) \div 2) |-> r.v[2 * i - 1]])
                                  ELSE r)
    BY <2>1 DEF Outcome
  <2> QED BY <2>2 DEF ParseCounted, r, Outcome, Beyond
<1>3. \A p, f : Outcome(ParseSid(rec, p, f))
  <2>1. \A at : Outcome(SidFrom(rec, at))
    BY <1>1 DEF SidFrom, Outcome
  <2> QED BY <2>1 DEF ParseSid, Outcome
<1>4. \A p, f : Outcome(ParseIp(rec, p, f))
  BY <1>1 DEF ParseIp, Outcome
<1>5. \A f : LET r == Read(rec, f.at, 4)
            IN  Outcome(IF r.is = "value" THEN Value(<<IF r.v = Zeros(4) THEN 0 ELSE 1>>) ELSE r)
  BY <1>1 DEF Outcome
<1>6. \A p, f : Outcome(ParseAs(T, rec, p, f))
  BY <1>1, <1>2, <1>3, <1>4, <1>5 DEF ParseAs, Outcome
<1>7. \A p, f : Outcome(ParseFound(T, rec, p, f))
  BY <1>6 DEF ParseFound, Outcome
<1> QED BY <1>7 DEF ParseValue

\* Whatever is asked of a record, the three forms of a getter agree (EventRecord.hpp:808-865).
LEMMA AllFormsAgree ==
  ASSUME NEW T, NEW rec, NEW name, NEW default
  PROVE  /\ FormsAgree(Forms(T, rec, name, default), default)
         /\ IF Get(T, rec, name) = ParserException THEN TryGet(T, rec, name) = False
                                                   ELSE TryGet(T, rec, name) = Get(T, rec, name)
<1> DEFINE r == ParseValue(T, rec, name)
<1>1. Outcome(r)
  BY ParseOutcome
<1>2. ASSUME NEW v
      PROVE  ToManaged(T, v).is \in {"value", "ArgumentOutOfRange", "null", "beyond"}
  BY DEF ToManaged, FromFileTime, ToByteArray, ToSocketAddress, Value, Throws, Beyond
<1>3. CASE \E v : r = Value(v)
  <2>1. PICK v : r = Value(v)
    BY <1>3
  <2>2. Get(T, rec, name) = ToManaged(T, v) /\ TryGet(T, rec, name) = ToManaged(T, v)
    BY <2>1 DEF Get, TryGet, GetValue, TryGetValue, TryParse, Caught, Managed, Value
  <2>3. ToManaged(T, v) # ParserException /\ ToManaged(T, v).is # "false"
    BY <1>2 DEF ParserException, Throws
  <2> QED BY <2>2, <2>3 DEF FormsAgree, Forms, GetOr, Caught
<1>4. CASE r = Failure
  <2>1. Get(T, rec, name) = ParserException /\ TryGet(T, rec, name) = False
    BY <1>4 DEF Get, TryGet, GetValue, TryGetValue, TryParse, Caught, Managed, Failure,
                ParserException, False, Throws
  <2> QED BY <2>1 DEF FormsAgree, Forms, GetOr, Caught, False, Throws
<1>5. CASE r = Mismatch
  <2>1. Get(T, rec, name) = TypeMismatchAssert /\ TryGet(T, rec, name) = TypeMismatchAssert
    BY <1>5 DEF Get, TryGet, GetValue, TryGetValue, TryParse, Caught, Managed, Mismatch,
                TypeMismatchAssert, Throws
  <2> QED BY <2>1 DEF FormsAgree, Forms, GetOr, Caught, TypeMismatchAssert, ParserException, Throws
<1>6. CASE r = Beyond
  <2>1. Get(T, rec, name) = Beyond /\ TryGet(T, rec, name) = Beyond
    BY <1>6 DEF Get, TryGet, GetValue, TryGetValue, TryParse, Caught, Managed, Beyond
  <2> QED BY <2>1 DEF FormsAgree, Forms, GetOr, Caught, Beyond, ParserException, Throws
<1> QED BY <1>1, <1>3, <1>4, <1>5, <1>6 DEF Outcome

\* All getters of every event agree in their forms.
THEOREM FormsOfGettersAgree == RecordsSpec => []GettersAgree
<1>1. GettersAgree
  BY AllFormsAgree DEF GettersAgree, InterfaceStrings, InterfaceObjects, InterfaceIntegers,
       UnicodeString, AnsiString, CountedString, IPAddress, SocketAddress, DateTime,
       SmallInteger, LargeInteger, SecurityIdentifier, Pointer, Binary
<1> QED BY <1>1, PTL

-----------------------------------------------------------------------------
(* GUIDs as text.                                                          *)

Hyphens == {9, 14, 19, 24}
HexChars == 48..57 \cup 65..70 \cup 97..102
GuidTexts == [1..36 -> Nat]
WellFormed(s) == (\A i \in Hyphens : s[i] = Hyphen) /\ (\A i \in 1..36 \ Hyphens : s[i] \in HexChars)

\* The part that the i-th character belongs to, as in GuidString.
Owner(i) == CHOOSE part \in Parts : i \in Position[part]..(Position[part] + 2 * ByteCount[part] - 1)

LEMMA TheParts ==
  /\ Parts = {"data1", "data2", "data3", "part1", "part2"}
  /\ Position["data1"] = 1 /\ Position["data2"] = 10 /\ Position["data3"] = 15
  /\ Position["part1"] = 20 /\ Position["part2"] = 25
  /\ ByteCount["data1"] = 4 /\ ByteCount["data2"] = 2 /\ ByteCount["data3"] = 2
  /\ ByteCount["part1"] = 2 /\ ByteCount["part2"] = 6
BY DEF Parts, Position, ByteCount

LEMMA OwnerIs ==
  ASSUME NEW part \in Parts, NEW i \in Position[part]..(Position[part] + 2 * ByteCount[part] - 1)
  PROVE  Owner(i) = part /\ i \in 1..36 \ Hyphens
<1>1. \A q \in Parts : i \in Position[q]..(Position[q] + 2 * ByteCount[q] - 1) => q = part
  BY TheParts
<1>2. i \in 1..36 \ Hyphens
  BY TheParts DEF Hyphens
<1> QED BY <1>1, <1>2 DEF Owner

LEMMA Halves ==
  ASSUME NEW m \in Nat
  PROVE  m = 2 * (m \div 2) + (m % 2) /\ m % 2 \in {0, 1} /\ m \div 2 \in Nat
OBVIOUS

\* Each other character belongs to a byte, as its first or its second digit.
LEMMA OwnerOf ==
  ASSUME NEW i \in 1..36 \ Hyphens
  PROVE  /\ Owner(i) \in Parts
         /\ \E k \in 1..ByteCount[Owner(i)] :
              /\ k = (i - Position[Owner(i)]) \div 2 + 1
              /\ i = Position[Owner(i)] + 2 * (k - 1) + ((i - Position[Owner(i)]) % 2)
              /\ (i - Position[Owner(i)]) % 2 \in {0, 1}
<1>1. PICK part \in Parts : i \in Position[part]..(Position[part] + 2 * ByteCount[part] - 1)
  BY TheParts DEF Hyphens
<1>2. Owner(i) = part
  BY <1>1, OwnerIs
<1>3. Position[part] \in Nat /\ ByteCount[part] \in Nat
  BY TheParts
<1>4. PICK m : m = i - Position[part]
  OBVIOUS
<1>5. m \in Nat /\ i = Position[part] + m /\ m < 2 * ByteCount[part]
  BY <1>1, <1>3, <1>4
<1>6. m = 2 * (m \div 2) + (m % 2) /\ m % 2 \in {0, 1} /\ m \div 2 \in Nat
  BY <1>5, Halves
<1>7. PICK k : k = m \div 2 + 1
  OBVIOUS
<1>8. k \in 1..ByteCount[part] /\ i = Position[part] + 2 * (k - 1) + (m % 2)
  BY <1>3, <1>5, <1>6, <1>7
<1> QED BY <1>2, <1>4, <1>6, <1>7, <1>8

LEMMA DigitOf ==
  ASSUME NEW i \in 1..36 \ Hyphens
  PROVE  /\ Owner(i) \in Parts
         /\ \E k \in 1..ByteCount[Owner(i)] :
              i \in {Position[Owner(i)] + 2 * (k - 1), Position[Owner(i)] + 2 * (k - 1) + 1}
<1>1. PICK part : part = Owner(i)
  OBVIOUS
<1>2. part \in Parts /\ Position[part] \in Nat /\ ByteCount[part] \in Nat
  <2>1. part \in Parts
    BY <1>1, OwnerOf
  <2> QED BY <2>1, TheParts
<1>3. PICK k \in 1..ByteCount[part] : /\ i = Position[part] + 2 * (k - 1) + ((i - Position[part]) % 2)
                                      /\ (i - Position[part]) % 2 \in {0, 1}
  BY <1>1, OwnerOf
<1>4. PICK m \in {0, 1} : i = Position[part] + 2 * (k - 1) + m
  BY <1>3
<1> QED BY <1>1, <1>2, <1>4

LEMMA PartBytes ==
  ASSUME NEW part \in Parts, NEW k \in 1..ByteCount[part]
  PROVE  LET at == Position[part] + 2 * (k - 1)
         IN  /\ at \in 1..35 /\ at \in 1..36 \ Hyphens /\ at + 1 \in 1..36 \ Hyphens
             /\ Owner(at) = part /\ Owner(at + 1) = part
             /\ (at - Position[part]) \div 2 + 1 = k /\ (at - Position[part]) % 2 = 0
             /\ ((at + 1) - Position[part]) \div 2 + 1 = k /\ ((at + 1) - Position[part]) % 2 = 1
<1> DEFINE at == Position[part] + 2 * (k - 1)
<1>1. /\ at \in Position[part]..(Position[part] + 2 * ByteCount[part] - 1)
      /\ at + 1 \in Position[part]..(Position[part] + 2 * ByteCount[part] - 1)
  BY TheParts
<1>2. /\ Owner(at) = part /\ at \in 1..36 \ Hyphens
      /\ Owner(at + 1) = part /\ at + 1 \in 1..36 \ Hyphens
  BY <1>1, OwnerIs
<1>3. at - Position[part] = 2 * (k - 1) /\ (at + 1) - Position[part] = 2 * (k - 1) + 1 /\ k - 1 \in Nat
  BY TheParts
<1>4. /\ (2 * (k - 1)) \div 2 = k - 1 /\ (2 * (k - 1)) % 2 = 0
      /\ (2 * (k - 1) + 1) \div 2 = k - 1 /\ (2 * (k - 1) + 1) % 2 = 1
  BY <1>3
<1> QED BY <1>2, <1>3, <1>4

LEMMA Digits ==
  /\ \A d \in 0..15, ten \in {65, 97} : Digit(d, ten) \in HexChars /\ HexDigit(Digit(d, ten)) = d
  /\ \A c \in Nat : IF c \in HexChars THEN HexDigit(c) \in 0..15 /\ Digit(HexDigit(c), 97) = Lower(c)
                                    ELSE HexDigit(c) = NotHex
BY DEF Digit, HexDigit, HexChars, Lower, NotHex

LEMMA HexCharsAre == HexChars \subseteq Nat /\ Hyphen \notin HexChars /\ Lower(Hyphen) = Hyphen
BY DEF HexChars, Hyphen, Lower

\* A byte of a text.
LEMMA OctetIs ==
  ASSUME NEW s \in GuidTexts, NEW at \in 1..35
  PROVE  IF s[at] \in HexChars /\ s[at + 1] \in HexChars
         THEN /\ HexOctetToByte(s, at) \in Octets
              /\ HexOctetToByte(s, at) \div 16 = HexDigit(s[at])
              /\ HexOctetToByte(s, at) % 16 = HexDigit(s[at + 1])
         ELSE HexOctetToByte(s, at) = NotHex
<1>1. s[at] \in Nat /\ s[at + 1] \in Nat
  BY DEF GuidTexts
<1>2. CASE s[at] \in HexChars /\ s[at + 1] \in HexChars
  <2>1. PICK h \in 0..15, l \in 0..15 : h = HexDigit(s[at]) /\ l = HexDigit(s[at + 1])
    BY <1>1, <1>2, Digits
  <2>2. HexOctetToByte(s, at) = 16 * h + l
    BY <2>1 DEF HexOctetToByte, NotHex
  <2>3. 16 * h + l \in 0..255 /\ (16 * h + l) \div 16 = h /\ (16 * h + l) % 16 = l
    OBVIOUS
  <2> QED BY <1>2, <2>1, <2>2, <2>3 DEF Octets
<1>3. CASE ~(s[at] \in HexChars /\ s[at + 1] \in HexChars)
  BY <1>1, <1>3, Digits DEF HexOctetToByte
<1> QED BY <1>2, <1>3

\* parse_guid refuses a text that is not of the form of a GUID.
LEMMA ParseRefuses ==
  ASSUME NEW s \in GuidTexts, ~WellFormed(s)
  PROVE  ParseGuid(s) = NoGuid
<1>1. CASE \E i \in Hyphens : s[i] # Hyphen
  <2>1. PICK i \in Hyphens : s[i] # Hyphen
    BY <1>1
  <2>2. PICK part \in Parts \ {"data1"} : Position[part] - 1 = i
    BY TheParts DEF Hyphens
  <2> QED BY <2>1, <2>2 DEF ParseGuid
<1>2. CASE \E i \in 1..36 \ Hyphens : s[i] \notin HexChars
  <2> DEFINE g == [part \in Parts |-> HexBytes(s, Position[part], ByteCount[part])]
  <2>1. PICK i \in 1..36 \ Hyphens : s[i] \notin HexChars
    BY <1>2
  <2>2. PICK part \in Parts : part = Owner(i)
    BY DigitOf
  <2>3. PICK k \in 1..ByteCount[part] : i \in {Position[part] + 2 * (k - 1), Position[part] + 2 * (k - 1) + 1}
    BY <2>2, DigitOf
  <2>4. Position[part] + 2 * (k - 1) \in 1..35
    BY PartBytes
  <2>5. HexOctetToByte(s, Position[part] + 2 * (k - 1)) = NotHex
    BY <2>1, <2>3, <2>4, OctetIs
  <2>6. k \in DOMAIN g[part] /\ g[part][k] = NotHex
    BY <2>5 DEF HexBytes
  <2>7. \E q \in Parts : \E j \in DOMAIN g[q] : g[q][j] = NotHex
    BY <2>6
  <2> QED BY <2>7 DEF ParseGuid
<1> QED BY <1>1, <1>2 DEF WellFormed

\* What it reads of a text of that form.
LEMMA ParseReads ==
  ASSUME NEW s \in GuidTexts, WellFormed(s)
  PROVE  /\ ParseGuid(s) \in Guids
         /\ \A part \in Parts : \A k \in 1..ByteCount[part] :
              ParseGuid(s)[part][k] = HexOctetToByte(s, Position[part] + 2 * (k - 1))
         /\ ParseGuid(s) # NoGuid
<1> DEFINE g == [part \in Parts |-> HexBytes(s, Position[part], ByteCount[part])]
<1>1. ASSUME NEW part \in Parts, NEW k \in 1..ByteCount[part]
      PROVE  HexOctetToByte(s, Position[part] + 2 * (k - 1)) \in Octets
  <2>1. /\ Position[part] + 2 * (k - 1) \in 1..35
        /\ Position[part] + 2 * (k - 1) \in 1..36 \ Hyphens
        /\ Position[part] + 2 * (k - 1) + 1 \in 1..36 \ Hyphens
    BY PartBytes
  <2>2. s[Position[part] + 2 * (k - 1)] \in HexChars /\ s[Position[part] + 2 * (k - 1) + 1] \in HexChars
    BY <2>1 DEF WellFormed
  <2> QED BY <2>1, <2>2, OctetIs
<1>2. \A part \in Parts : g[part] = [k \in 1..ByteCount[part] |->
                                      HexOctetToByte(s, Position[part] + 2 * (k - 1))]
  BY DEF HexBytes
<1>3. \A part \in Parts : ByteCount[part] \in Nat \ {0}
  BY TheParts
<1>4. \A part \in Parts : /\ g[part] \in Seq(Octets) /\ Len(g[part]) = ByteCount[part]
                          /\ DOMAIN g[part] = 1..ByteCount[part]
  <2> TAKE part \in Parts
  <2>1. PICK n \in Nat : n = ByteCount[part]
    BY <1>3
  <2>2. g[part] \in [1..n -> Octets]
    BY <1>1, <1>2, <2>1
  <2> QED BY <2>1, <2>2
<1>5. \A part \in Parts : \A k \in DOMAIN g[part] : g[part][k] # NotHex
  <2> TAKE part \in Parts
  <2>1. NotHex \notin Octets
    BY DEF Octets, NotHex
  <2>2. \A k \in 1..ByteCount[part] : g[part][k] \in Octets
    BY <1>1, <1>2
  <2> QED BY <1>4, <2>1, <2>2
<1>6. Len(s) = 36
  BY DEF GuidTexts
<1>7. \A part \in Parts \ {"data1"} : s[Position[part] - 1] = Hyphen
  BY TheParts DEF WellFormed, Hyphens
<1>8. ParseGuid(s) = g
  BY <1>5, <1>6, <1>7 DEF ParseGuid, UUID_STRING_LENGTH
<1>9. g \in Guids
  BY <1>4 DEF Guids
<1>10. \A part \in Parts : \A k \in 1..ByteCount[part] :
         g[part][k] = HexOctetToByte(s, Position[part] + 2 * (k - 1))
  BY <1>2
<1>11. g # NoGuid
  <2>1. "data1" \in Parts
    BY TheParts
  <2>2. Len(g["data1"]) = 4 /\ NoGuid["data1"] = <<>>
    BY <1>4, <2>1, TheParts DEF NoGuid
  <2> QED BY <2>2
<1> HIDE DEF g
<1> QED BY <1>8, <1>9, <1>10, <1>11

\* The digits of a GUID.
LEMMA TextOf ==
  ASSUME NEW g \in Guids, NEW ten \in {65, 97}
  PROVE  /\ GuidString(g, ten) \in GuidTexts /\ WellFormed(GuidString(g, ten))
         /\ \A part \in Parts : \A k \in 1..ByteCount[part] :
              /\ GuidString(g, ten)[Position[part] + 2 * (k - 1)] = Digit(g[part][k] \div 16, ten)
              /\ GuidString(g, ten)[Position[part] + 2 * (k - 1) + 1] = Digit(g[part][k] % 16, ten)
<1> DEFINE byte(i) == g[Owner(i)][(i - Position[Owner(i)]) \div 2 + 1]
           char(i) == IF i \in Hyphens THEN Hyphen
                      ELSE Digit(IF (i - Position[Owner(i)]) % 2 = 0 THEN byte(i) \div 16
                                                                   ELSE byte(i) % 16, ten)
<1>1. GuidString(g, ten) = [i \in 1..36 |-> char(i)]
  BY DEF GuidString, Owner, Hyphens, UUID_STRING_LENGTH
<1>2. \A part \in Parts : \A k \in 1..ByteCount[part] : g[part][k] \in Octets
  BY TheParts DEF Guids
<1>3. \A b \in Octets : b \div 16 \in 0..15 /\ b % 16 \in 0..15
  BY DEF Octets
<1>4. ASSUME NEW i \in 1..36 \ Hyphens
      PROVE  char(i) \in HexChars
  <2>1. Owner(i) \in Parts /\ (i - Position[Owner(i)]) \div 2 + 1 \in 1..ByteCount[Owner(i)]
    BY OwnerOf
  <2>2. byte(i) \in Octets
    BY <2>1, <1>2
  <2> QED BY <2>2, <1>3, Digits
<1>5. \A i \in Hyphens : char(i) = Hyphen /\ i \in 1..36
  BY DEF Hyphens
<1>6. ASSUME NEW part \in Parts, NEW k \in 1..ByteCount[part]
      PROVE  /\ char(Position[part] + 2 * (k - 1)) = Digit(g[part][k] \div 16, ten)
             /\ char(Position[part] + 2 * (k - 1) + 1) = Digit(g[part][k] % 16, ten)
             /\ Position[part] + 2 * (k - 1) \in 1..36 /\ Position[part] + 2 * (k - 1) + 1 \in 1..36
  <2> DEFINE at == Position[part] + 2 * (k - 1)
  <2>1. /\ at \in 1..36 \ Hyphens /\ at + 1 \in 1..36 \ Hyphens
        /\ Owner(at) = part /\ Owner(at + 1) = part
        /\ (at - Position[part]) \div 2 + 1 = k /\ (at - Position[part]) % 2 = 0
        /\ ((at + 1) - Position[part]) \div 2 + 1 = k /\ ((at + 1) - Position[part]) % 2 = 1
    BY PartBytes
  <2> HIDE DEF at
  <2>2. char(at) = Digit(g[part][k] \div 16, ten) /\ char(at + 1) = Digit(g[part][k] % 16, ten)
    BY <2>1
  <2> QED BY <2>1, <2>2 DEF at
<1> HIDE DEF char
<1>7. ASSUME NEW i \in 1..36
      PROVE  char(i) \in Nat
  <2>1. CASE i \in Hyphens
    BY <2>1, <1>5 DEF Hyphen
  <2>2. CASE i \notin Hyphens
    BY <2>2, <1>4, HexCharsAre
  <2> QED BY <2>1, <2>2
<1>8. GuidString(g, ten) \in GuidTexts
  BY <1>1, <1>7 DEF GuidTexts
<1>9. WellFormed(GuidString(g, ten))
  BY <1>1, <1>4, <1>5 DEF WellFormed
<1> QED BY <1>1, <1>6, <1>8, <1>9

\* parse_guid reads what to_string and StringFromGUID2 write.
LEMMA GuidRoundTrip ==
  ASSUME NEW g \in Guids, NEW ten \in {65, 97}
  PROVE  ParseGuid(GuidString(g, ten)) = g /\ g # NoGuid
<1> DEFINE s == GuidString(g, ten)
<1>1. s \in GuidTexts /\ WellFormed(s)
  BY TextOf
<1>2. ASSUME NEW part \in Parts, NEW k \in 1..ByteCount[part]
      PROVE  HexOctetToByte(s, Position[part] + 2 * (k - 1)) = g[part][k]
  <2> DEFINE at == Position[part] + 2 * (k - 1)
  <2>1. s[at] = Digit(g[part][k] \div 16, ten) /\ s[at + 1] = Digit(g[part][k] % 16, ten)
    BY TextOf
  <2>2. g[part][k] \in Octets
    BY TheParts DEF Guids
  <2>3. g[part][k] \div 16 \in 0..15 /\ g[part][k] % 16 \in 0..15
        /\ g[part][k] = 16 * (g[part][k] \div 16) + (g[part][k] % 16)
    <3>1. PICK b \in 0..255 : b = g[part][k]
      BY <2>2 DEF Octets
    <3>2. b \div 16 \in 0..15 /\ b % 16 \in 0..15 /\ b = 16 * (b \div 16) + (b % 16)
      OBVIOUS
    <3> QED BY <3>1, <3>2
  <2>4. HexDigit(s[at]) = g[part][k] \div 16 /\ HexDigit(s[at + 1]) = g[part][k] % 16
    BY <2>1, <2>3, Digits
  <2> HIDE DEF s, at
  <2>5. HexOctetToByte(s, at) = 16 * (g[part][k] \div 16) + (g[part][k] % 16)
    BY <2>3, <2>4 DEF HexOctetToByte, NotHex
  <2> QED BY <2>3, <2>5 DEF at
<1>3. /\ ParseGuid(s) \in Guids /\ ParseGuid(s) # NoGuid
      /\ \A part \in Parts : \A k \in 1..ByteCount[part] : ParseGuid(s)[part][k] = g[part][k]
  BY <1>1, <1>2, ParseReads
<1> HIDE DEF s
<1>4. ASSUME NEW part \in Parts
      PROVE  ParseGuid(s)[part] = g[part]
  <2>1. /\ g[part] \in Seq(Octets) /\ Len(g[part]) = ByteCount[part]
        /\ ParseGuid(s)[part] \in Seq(Octets) /\ Len(ParseGuid(s)[part]) = ByteCount[part]
    BY <1>3 DEF Guids
  <2> QED BY <1>3, <2>1
<1>5. ParseGuid(s) = g
  BY <1>3, <1>4 DEF Guids
<1> QED BY <1>3, <1>5 DEF s

\* to_string writes what parse_guid has read, in lower case.
LEMMA TextRoundTrip ==
  ASSUME NEW s \in GuidTexts, WellFormed(s)
  PROVE  GuidToString(ParseGuid(s)) = [i \in 1..36 |-> Lower(s[i])]
<1> DEFINE g == ParseGuid(s)
           t == GuidString(g, 97)
<1>1. g \in Guids /\ t \in GuidTexts /\ WellFormed(t)
  BY ParseReads, TextOf
<1>2. ASSUME NEW i \in Hyphens
      PROVE  t[i] = Lower(s[i])
  BY <1>1, HexCharsAre DEF WellFormed
<1>3. ASSUME NEW i \in 1..36 \ Hyphens
      PROVE  t[i] = Lower(s[i])
  <2>1. PICK part \in Parts : \E k \in 1..ByteCount[part] :
          i \in {Position[part] + 2 * (k - 1), Position[part] + 2 * (k - 1) + 1}
    BY DigitOf
  <2>0. PICK k \in 1..ByteCount[part] :
          i \in {Position[part] + 2 * (k - 1), Position[part] + 2 * (k - 1) + 1}
    BY <2>1
  <2> DEFINE at == Position[part] + 2 * (k - 1)
             b == HexOctetToByte(s, at)
  <2>2. at \in 1..35 /\ at \in 1..36 \ Hyphens /\ at + 1 \in 1..36 \ Hyphens
    BY PartBytes
  <2>3. s[at] \in HexChars /\ s[at + 1] \in HexChars
    BY <2>2 DEF WellFormed
  <2>4. b \div 16 = HexDigit(s[at]) /\ b % 16 = HexDigit(s[at + 1])
    BY <2>2, <2>3, OctetIs
  <2>5. g[part][k] = b
    BY ParseReads
  <2>6. t[at] = Digit(b \div 16, 97) /\ t[at + 1] = Digit(b % 16, 97)
    BY <1>1, <2>5, TextOf
  <2>7. t[at] = Lower(s[at]) /\ t[at + 1] = Lower(s[at + 1])
    BY <2>3, <2>4, <2>6, Digits, HexCharsAre
  <2> QED BY <2>0, <2>7
<1> HIDE DEF t, g
<1>4. t = [i \in 1..36 |-> Lower(s[i])]
  BY <1>1, <1>2, <1>3 DEF GuidTexts
<1> QED BY <1>4 DEF t, g, GuidToString

LEMMA GuidsParseBack ==
  ASSUME NEW g \in Guids
  PROVE  ParsesBack(g)
<1> DEFINE text == GuidToString(g)
<1>1. ParseGuid(StringFromGuid(g)) = g /\ ParseGuid(text) = g /\ g # NoGuid
  BY GuidRoundTrip DEF GuidToString, StringFromGuid
<1>2. text \in GuidTexts /\ WellFormed(text)
  BY TextOf DEF GuidToString
<1>3. ASSUME NEW i \in 1..36, NEW c \in Probes
      PROVE  LET s == [text EXCEPT ![i] = c]
                 lower == [j \in DOMAIN s |-> Lower(s[j])]
             IN  IF text[i] = Hyphen THEN (c = Hyphen) <=> (ParseGuid(s) # NoGuid)
                 ELSE IF c \in 48..57 \cup 65..70 \cup 97..102
                      THEN GuidToString(ParseGuid(s)) = lower ELSE ParseGuid(s) = NoGuid
  <2> DEFINE s == [text EXCEPT ![i] = c]
  <2> HIDE DEF text
  <2>1. c \in Nat
    BY DEF Probes
  <2>2. s \in GuidTexts /\ s[i] = c /\ \A j \in 1..36 \ {i} : s[j] = text[j]
    BY <1>2, <2>1 DEF GuidTexts
  <2>3. CASE text[i] = Hyphen
    <3>1. i \in Hyphens
      BY <1>2, <2>3, HexCharsAre DEF WellFormed
    <3>2. CASE c = Hyphen
      <4>1. s = text
        BY <1>2, <2>3, <3>2 DEF GuidTexts
      <4> QED BY <1>1, <2>3, <3>2, <4>1
    <3>3. CASE c # Hyphen
      <4>1. ~WellFormed(s)
        BY <2>2, <3>1, <3>3 DEF WellFormed
      <4> QED BY <2>2, <2>3, <3>3, <4>1, ParseRefuses
    <3> QED BY <3>2, <3>3
  <2>4. CASE text[i] # Hyphen
    <3>1. i \in 1..36 \ Hyphens
      BY <1>2, <2>4 DEF WellFormed
    <3>2. CASE c \in HexChars
      <4>1. WellFormed(s)
        BY <1>2, <2>2, <3>1, <3>2 DEF WellFormed, Hyphens
      <4>2. GuidToString(ParseGuid(s)) = [j \in 1..36 |-> Lower(s[j])]
        BY <2>2, <4>1, TextRoundTrip
      <4>3. DOMAIN s = 1..36
        BY <2>2 DEF GuidTexts
      <4> QED BY <2>4, <3>2, <4>2, <4>3 DEF HexChars
    <3>3. CASE c \notin HexChars
      <4>1. ~WellFormed(s)
        BY <2>2, <3>1, <3>3 DEF WellFormed
      <4>2. ParseGuid(s) = NoGuid
        BY <2>2, <4>1, ParseRefuses
      <4> QED BY <2>4, <3>3, <4>2 DEF HexChars
    <3> QED BY <3>2, <3>3
  <2> QED BY <2>3, <2>4
<1> QED BY <1>1, <1>3 DEF ParsesBack, UUID_STRING_LENGTH

-----------------------------------------------------------------------------
(* Recursion over the numbers up to n.                                     *)

LEMMA UpFrom ==
  ASSUME NEW m \in Nat, NEW n \in Nat, NEW Good, m \in Good,
         \A i \in m..(n - 1) : i \in Good => i + 1 \in Good
  PROVE  m..n \subseteq Good
<1> DEFINE bad == m..n \ Good
<1> SUFFICES ASSUME bad # {} PROVE FALSE
  OBVIOUS
<1>1. bad \in SUBSET Nat
  OBVIOUS
<1>2. PICK i \in bad : \A j \in bad : i <= j
  BY <1>1, FirstExists
<1>3. i - 1 \in m..(n - 1) /\ i - 1 \notin bad /\ (i - 1) + 1 = i
  BY <1>2
<1>4. i - 1 \in Good
  BY <1>3
<1>5. i \in Good
  <2> DEFINE k == i - 1
  <2>1. k + 1 \in Good
    BY <1>3, <1>4
  <2> QED BY <2>1, <1>3
<1> QED BY <1>2, <1>5

Follows(n, D, start, step, f) ==
  f \in [0..n -> D] /\ f[0] = start /\ \A i \in 1..n : f[i] = step[<<f[i - 1], i>>]

\* A function with a first value and a step exists...
LEMMA RecursionExists ==
  ASSUME NEW n \in Nat, NEW D, NEW start \in D, NEW step \in [D \X (1..n) -> D]
  PROVE  \E f : Follows(n, D, start, step, f)
<1> DEFINE Is(f, m) == /\ f \in [0..m -> D] /\ f[0] = start
                       /\ \A i \in 1..m : f[i] = step[<<f[i - 1], i>>]
           good == {m \in 0..n : \E f : Is(f, m)}
<1>1. 0 \in good
  <2> DEFINE f == [i \in 0..0 |-> start]
  <2>1. Is(f, 0)
    OBVIOUS
  <2> HIDE DEF f, Is
  <2> QED BY <2>1
<1>2. ASSUME NEW m \in 0..(n - 1), m \in good
      PROVE  m + 1 \in good
  <2>1. PICK f : Is(f, m)
    BY <1>2
  <2> DEFINE g == [i \in 0..(m + 1) |-> IF i = m + 1 THEN step[<<f[m], m + 1>>] ELSE f[i]]
  <2>2. f[m] \in D /\ m + 1 \in 1..n
    BY <2>1
  <2>3. step[<<f[m], m + 1>>] \in D
    BY <2>2
  <2>4. g \in [0..(m + 1) -> D] /\ g[0] = start
    BY <2>1, <2>3
  <2>5. ASSUME NEW i \in 1..(m + 1)
        PROVE  g[i] = step[<<g[i - 1], i>>]
    <3>1. i \in Nat /\ m \in Nat /\ i - 1 \in 0..m /\ g[i - 1] = f[i - 1]
      OBVIOUS
    <3>2. CASE i = m + 1
      <4>1. g[i] = step[<<f[m], m + 1>>] /\ i - 1 = m
        BY <3>1, <3>2
      <4> QED BY <3>1, <3>2, <4>1
    <3>3. CASE i # m + 1
      <4>1. i \in 1..m /\ g[i] = f[i]
        BY <3>1, <3>3
      <4> QED BY <2>1, <3>1, <4>1
    <3> QED BY <3>2, <3>3
  <2>6. Is(g, m + 1)
    BY <2>4, <2>5
  <2>7. m + 1 \in 0..n
    BY <2>2
  <2> HIDE DEF g, Is
  <2> QED BY <2>6, <2>7
<1> HIDE DEF Is
<1>3. 0..n \subseteq good
  BY <1>1, <1>2, UpFrom
<1>4. n \in good
  BY <1>3
<1>5. PICK f : Is(f, n)
  BY <1>4
<1> QED BY <1>5 DEF Is, Follows

\* ... and there is only one.
Alike(n, f, g) == f[0] = g[0] /\ \A i \in 1..n : f[i - 1] = g[i - 1] => f[i] = g[i]
Agree(n, f, g) == \A i \in 0..n : f[i] = g[i]

LEMMA RecursionUnique ==
  ASSUME NEW n \in Nat, NEW f, NEW g, Alike(n, f, g)
  PROVE  Agree(n, f, g)
<1> DEFINE good == {i \in 0..n : f[i] = g[i]}
<1>1. 0 \in good
  BY DEF Alike
<1>2. ASSUME NEW i \in 0..(n - 1), i \in good
      PROVE  i + 1 \in good
  <2>1. i + 1 \in 1..n /\ (i + 1) - 1 = i
    OBVIOUS
  <2> QED BY <1>2, <2>1 DEF Alike
<1>3. 0..n \subseteq good
  BY <1>1, <1>2, UpFrom
<1> QED BY <1>3 DEF Agree

-----------------------------------------------------------------------------
(* Extended data.                                                          *)

LEMMA FunctionIsSeq ==
  ASSUME NEW S, NEW n \in Nat, NEW f \in [1..n -> S]
  PROVE  f \in Seq(S) /\ Len(f) = n
OBVIOUS

AllItems == {[ext |-> "CONTAINER_ID", bytes |-> StringFromGuid(g)] : g \in ContainerIds}
              \cup {[ext |-> "PROCESS_START_KEY", bytes |-> k] : k \in StartKeys}

ItemsOK == items \in Seq(AllItems)

LEMMA ItemBytes ==
  ASSUME NEW item \in AllItems
  PROVE  /\ item.bytes \in Seq(Nat) /\ Len(item.bytes) \in 0..36
         /\ item.ext = "CONTAINER_ID" => \E g \in ContainerIds : item.bytes = StringFromGuid(g)
<1>1. CASE \E g \in ContainerIds : item = [ext |-> "CONTAINER_ID", bytes |-> StringFromGuid(g)]
  <2>1. PICK g \in ContainerIds : item = [ext |-> "CONTAINER_ID", bytes |-> StringFromGuid(g)]
    BY <1>1
  <2>2. StringFromGuid(g) \in [1..36 -> Nat]
    BY BuilderAssumption, TextOf DEF StringFromGuid, GuidTexts
  <2>3. StringFromGuid(g) \in Seq(Nat) /\ Len(StringFromGuid(g)) = 36
    BY <2>2, FunctionIsSeq, 36 \in Nat
  <2> QED BY <2>1, <2>3
<1>2. CASE \E k \in StartKeys : item = [ext |-> "PROCESS_START_KEY", bytes |-> k]
  <2>1. PICK k \in StartKeys : item = [ext |-> "PROCESS_START_KEY", bytes |-> k]
    BY <1>2
  <2>2. k \in [1..8 -> Octets]
    BY BuilderAssumption
  <2>3. k \in [1..8 -> Nat]
    BY <2>2 DEF Octets
  <2>4. k \in Seq(Nat) /\ Len(k) = 8
    BY <2>3, FunctionIsSeq, 8 \in Nat
  <2> QED BY <2>1, <2>4
<1> QED BY <1>1, <1>2 DEF AllItems

LEMMA ItemsInvariant == RecordsSpec => []ItemsOK
<1>1. BuilderInit => ItemsOK
  BY DEF BuilderInit, ItemsOK
<1>2. ItemsOK /\ [RecordsNext]_rvars => ItemsOK'
  <2> SUFFICES ASSUME ItemsOK, [RecordsNext]_rvars
               PROVE  ItemsOK'
    OBVIOUS
  <2>1. ASSUME NEW g \in ContainerIds, AddContainerId(g)
        PROVE  ItemsOK'
    <3>1. [ext |-> "CONTAINER_ID", bytes |-> StringFromGuid(g)] \in AllItems
      BY DEF AllItems
    <3> QED BY <2>1, <3>1 DEF AddContainerId, AddItem, ItemsOK
  <2>2. ASSUME NEW k \in StartKeys, AddProcessStartKey(k)
        PROVE  ItemsOK'
    <3>1. [ext |-> "PROCESS_START_KEY", bytes |-> k] \in AllItems
      BY DEF AllItems
    <3> QED BY <2>2, <3>1 DEF AddProcessStartKey, AddItem, ItemsOK
  <2>3. CASE items' = items
    BY <2>3 DEF ItemsOK
  <2> QED BY <2>1, <2>2, <2>3 DEF RecordsNext, BuilderNext, AddProperties, EditHeader, Build, Pack,
          PackIncomplete, ReceiveRecord, rvars
<1> QED BY <1>1, <1>2, PTL DEF RecordsSpec

LEMMA ConcatParts ==
  ASSUME NEW S, NEW s \in Seq(S), NEW t \in Seq(S)
  PROVE  /\ SubSeq(s \o t, Len(s) + 1, Len(s) + Len(t)) = t
         /\ \A a \in Nat : \A b \in a..Len(s) : SubSeq(s \o t, a + 1, b) = SubSeq(s, a + 1, b)
<1>1. /\ s \o t \in Seq(S) /\ Len(s \o t) = Len(s) + Len(t)
      /\ \A i \in 1..(Len(s) + Len(t)) :
           (s \o t)[i] = IF i <= Len(s) THEN s[i] ELSE t[i - Len(s)]
  BY ConcatProperties
<1>2. Len(s) \in Nat /\ Len(t) \in Nat
  BY LenProperties
<1>3. \A i \in 1..(Len(s) + Len(t)) : (s \o t)[i] \in S
  BY <1>1, <1>2, ElementOfSeq
<1>4. \A i \in 1..Len(s) : s[i] \in S
  BY ElementOfSeq
<1>5. SubSeq(s \o t, Len(s) + 1, Len(s) + Len(t)) = t
  <2> DEFINE u == SubSeq(s \o t, Len(s) + 1, Len(s) + Len(t))
  <2>1. \A i \in (Len(s) + 1)..(Len(s) + Len(t)) : (s \o t)[i] \in S
    BY <1>2, <1>3
  <2>2. /\ u \in Seq(S)
        /\ Len(u) = IF Len(s) + 1 <= Len(s) + Len(t) THEN Len(s) + Len(t) - (Len(s) + 1) + 1 ELSE 0
        /\ \A i \in 1..(Len(s) + Len(t) - (Len(s) + 1) + 1) : u[i] = (s \o t)[Len(s) + 1 + i - 1]
    BY <1>2, <2>1, SubSeqProperties
  <2>3. Len(u) = Len(t)
    BY <1>2, <2>2
  <2>4. ASSUME NEW i \in 1..Len(t)
        PROVE  u[i] = t[i]
    <3>1. u[i] = (s \o t)[Len(s) + i] /\ Len(s) + i \in 1..(Len(s) + Len(t))
      BY <1>2, <2>2
    <3>2. ~(Len(s) + i <= Len(s)) /\ (Len(s) + i) - Len(s) = i
      BY <1>2
    <3> QED BY <1>1, <3>1, <3>2
  <2> HIDE DEF u
  <2> QED BY <2>2, <2>3, <2>4, SeqEqual DEF u
<1>6. ASSUME NEW a \in Nat, NEW b \in a..Len(s)
      PROVE  SubSeq(s \o t, a + 1, b) = SubSeq(s, a + 1, b)
  <2> DEFINE u == SubSeq(s \o t, a + 1, b)
             v == SubSeq(s, a + 1, b)
  <2>1. b \in Nat /\ \A i \in (a + 1)..b : i \in 1..Len(s) /\ (s \o t)[i] = s[i] /\ s[i] \in S
    BY <1>1, <1>2, <1>4
  <2>2. /\ u \in Seq(S) /\ Len(u) = IF a + 1 <= b THEN b - (a + 1) + 1 ELSE 0
        /\ \A i \in 1..(b - (a + 1) + 1) : u[i] = (s \o t)[(a + 1) + i - 1]
    BY <2>1, SubSeqProperties
  <2>3. /\ v \in Seq(S) /\ Len(v) = IF a + 1 <= b THEN b - (a + 1) + 1 ELSE 0
        /\ \A i \in 1..(b - (a + 1) + 1) : v[i] = s[(a + 1) + i - 1]
    BY <2>1, SubSeqProperties
  <2>4. \A i \in 1..Len(u) : u[i] = v[i]
    <3> TAKE i \in 1..Len(u)
    <3>1. i \in 1..(b - (a + 1) + 1) /\ (a + 1) + i - 1 \in (a + 1)..b
      BY <2>1, <2>2
    <3> QED BY <2>1, <2>2, <2>3, <3>1
  <2> HIDE DEF u, v
  <2> QED BY <2>2, <2>3, <2>4, SeqEqual DEF u, v
<1> QED BY <1>5, <1>6

LEMMA SecondPart ==
  ASSUME NEW s \in Seq(Nat), NEW t \in Seq(Nat), NEW a, a = Len(s), NEW b, b = Len(s \o t)
  PROVE  /\ s \o t \in Seq(Nat) /\ a \in Nat /\ Len(t) \in Nat /\ b = a + Len(t)
         /\ SubSeq(s \o t, a + 1, b) = t
BY ConcatParts, ConcatProperties, LenProperties

LEMMA FirstPart ==
  ASSUME NEW s \in Seq(Nat), NEW t \in Seq(Nat), NEW a \in Nat, NEW b \in Nat, a <= b, b <= Len(s)
  PROVE  SubSeq(s \o t, a + 1, b) = SubSeq(s, a + 1, b) /\ b <= Len(s \o t)
<1>1. Len(s) \in Nat /\ Len(t) \in Nat /\ Len(s \o t) = Len(s) + Len(t)
  BY ConcatProperties, LenProperties
<1>2. b \in a..Len(s)
  BY <1>1
<1> QED BY <1>1, <1>2, ConcatParts

\* One turn of the recursion of ExtendedBuffer, and of that of DataPointers.
Joined(n, parts, f) == [i \in 0..n |-> IF i = 0 THEN <<>> ELSE f[i - 1] \o parts[i].bytes]
Begins(n, parts, f) == [i \in 1..(n + 1) |-> IF i = 1 THEN 0 ELSE f[i - 1] + Len(parts[i - 1].bytes)]

HaveBytes(n, parts) == \A i \in 1..n : parts[i].bytes \in Seq(Nat)

\* f[i] is what the first i parts are, one behind the other.
Joins(n, parts, f) ==
  /\ f[0] = <<>> /\ \A i \in 1..n : f[i] = f[i - 1] \o parts[i].bytes
  /\ \A i \in 0..n : f[i] \in Seq(Nat) /\ Len(f[i]) \in Nat
  /\ \A i \in 1..n : Len(f[i]) = Len(f[i - 1]) + Len(parts[i].bytes) /\ Len(parts[i].bytes) \in Nat

LEMMA JoinedIs ==
  ASSUME NEW n \in Nat, NEW parts, HaveBytes(n, parts),
         NEW f, f = CHOOSE h : h = Joined(n, parts, h)
  PROVE  Joins(n, parts, f)
<1> DEFINE join == [p \in Seq(Nat) \X (1..n) |-> p[1] \o parts[p[2]].bytes]
<1>1. join \in [Seq(Nat) \X (1..n) -> Seq(Nat)]
  BY ConcatProperties DEF HaveBytes
<1>2. \A q \in Seq(Nat), i \in 1..n : join[<<q, i>>] = q \o parts[i].bytes
  OBVIOUS
<1>3. <<>> \in Seq(Nat)
  OBVIOUS
<1> HIDE DEF join
<1>4. PICK g : Follows(n, Seq(Nat), <<>>, join, g)
  BY <1>1, <1>3, RecursionExists
<1>5. g \in [0..n -> Seq(Nat)] /\ g[0] = <<>>
  BY <1>4 DEF Follows
<1>6. ASSUME NEW i \in 1..n
      PROVE  g[i] = g[i - 1] \o parts[i].bytes
  <2>1. i - 1 \in 0..n /\ g[i] = join[<<g[i - 1], i>>]
    BY <1>4 DEF Follows
  <2>2. g[i - 1] \in Seq(Nat)
    BY <1>5, <2>1
  <2> QED BY <1>2, <2>1, <2>2
<1>7. g = Joined(n, parts, g)
  <2>1. DOMAIN g = 0..n /\ g = [i \in 0..n |-> g[i]]
    BY <1>5
  <2>2. \A i \in 0..n : g[i] = IF i = 0 THEN <<>> ELSE g[i - 1] \o parts[i].bytes
    <3> TAKE i \in 0..n
    <3>1. i = 0 \/ i \in 1..n
      OBVIOUS
    <3> QED BY <1>5, <1>6, <3>1
  <2> QED BY <2>1, <2>2 DEF Joined
<1>8. f = Joined(n, parts, f)
  BY <1>7
<1>9. f[0] = <<>> /\ \A i \in 1..n : f[i] = f[i - 1] \o parts[i].bytes
  <2>1. f = [i \in 0..n |-> IF i = 0 THEN <<>> ELSE f[i - 1] \o parts[i].bytes]
    BY <1>8 DEF Joined
  <2>2. 0 \in 0..n /\ \A i \in 1..n : i \in 0..n /\ i # 0
    OBVIOUS
  <2> QED BY <2>1, <2>2
<1>10. Alike(n, f, g)
  BY <1>5, <1>6, <1>9 DEF Alike
<1>11. Agree(n, f, g)
  BY <1>10, RecursionUnique
<1>12. \A i \in 0..n : f[i] \in Seq(Nat) /\ Len(f[i]) \in Nat
  <2> TAKE i \in 0..n
  <2>1. f[i] \in Seq(Nat)
    BY <1>5, <1>11 DEF Agree
  <2> QED BY <2>1, LenProperties
<1>13. ASSUME NEW i \in 1..n
       PROVE  Len(f[i]) = Len(f[i - 1]) + Len(parts[i].bytes) /\ Len(parts[i].bytes) \in Nat
  <2>1. i - 1 \in 0..n
    OBVIOUS
  <2>2. f[i - 1] \in Seq(Nat) /\ parts[i].bytes \in Seq(Nat) /\ f[i] = f[i - 1] \o parts[i].bytes
    BY <1>9, <1>12, <2>1 DEF HaveBytes
  <2>3. PICK a, b : a = f[i - 1] /\ b = parts[i].bytes
    OBVIOUS
  <2>4. Len(a \o b) = Len(a) + Len(b) /\ Len(b) \in Nat
    BY <2>2, <2>3, SecondPart
  <2> QED BY <2>2, <2>3, <2>4
<1> QED BY <1>9, <1>12, <1>13 DEF Joins

LEMMA BeginsAre ==
  ASSUME NEW n \in Nat, NEW parts, NEW f, Joins(n, parts, f),
         NEW s, s = (CHOOSE h : h = Begins(n, parts, h)), NEW k \in 1..n
  PROVE  s[k] = Len(f[k - 1])
<1>1. f[0] = <<>> /\ \A i \in 1..n : Len(f[i]) = Len(f[i - 1]) + Len(parts[i].bytes)
  BY DEF Joins
<1> DEFINE h == [i \in 1..(n + 1) |-> Len(f[i - 1])]
<1>3. ASSUME NEW i \in 2..(n + 1)
      PROVE  i \in 1..(n + 1) /\ i # 1 /\ h[i] = h[i - 1] + Len(parts[i - 1].bytes)
  <2>1. i - 1 \in 1..n /\ i - 1 \in 1..(n + 1) /\ i \in 1..(n + 1) /\ i # 1
    OBVIOUS
  <2>2. h[i] = Len(f[i - 1]) /\ h[i - 1] = Len(f[(i - 1) - 1])
    BY <2>1
  <2> QED BY <1>1, <2>1, <2>2
<1>4. 1 \in 1..(n + 1) /\ h[1] = 0
  BY <1>1
<1>5. h = [i \in 1..(n + 1) |-> h[i]] /\ \A i \in 1..(n + 1) : i = 1 \/ i \in 2..(n + 1)
  OBVIOUS
<1> HIDE DEF h
<1>6. \A i \in 1..(n + 1) : h[i] = IF i = 1 THEN 0 ELSE h[i - 1] + Len(parts[i - 1].bytes)
  BY <1>3, <1>4, <1>5
<1>7. s = Begins(n, parts, s)
  <2>1. h = Begins(n, parts, h)
    BY <1>5, <1>6 DEF Begins
  <2> QED BY <2>1
<1>8. s[1] = 0 /\ \A i \in 1..n : s[i + 1] = s[i] + Len(parts[i].bytes)
  <2>1. s = [i \in 1..(n + 1) |-> IF i = 1 THEN 0 ELSE s[i - 1] + Len(parts[i - 1].bytes)]
    BY <1>7 DEF Begins
  <2>2. s[1] = 0
    BY <1>4, <2>1
  <2>3. ASSUME NEW i \in 1..n
        PROVE  s[i + 1] = s[i] + Len(parts[i].bytes)
    <3>1. i + 1 \in 1..(n + 1) /\ i + 1 # 1 /\ (i + 1) - 1 = i
      OBVIOUS
    <3> QED BY <2>1, <3>1
  <2> QED BY <2>2, <2>3
<1> DEFINE good == {i \in 1..(n + 1) : s[i] = Len(f[i - 1])}
<1>9. 1 \in good
  BY <1>1, <1>8
<1>10. ASSUME NEW i \in 1..((n + 1) - 1), i \in good
       PROVE  i + 1 \in good
  <2>1. i \in 1..n /\ i + 1 \in 1..(n + 1) /\ (i + 1) - 1 = i
    OBVIOUS
  <2>2. s[i] = Len(f[i - 1])
    BY <1>10
  <2>3. s[i + 1] = Len(f[i])
    BY <1>1, <1>8, <2>1, <2>2
  <2> QED BY <2>1, <2>3
<1>11. n + 1 \in Nat
  OBVIOUS
<1> HIDE DEF good
<1>12. 1..(n + 1) \subseteq good
  BY <1>9, <1>10, <1>11, UpFrom
<1>13. k \in good
  BY <1>12
<1> QED BY <1>13 DEF good

\* Parts that are joined can be cut out again.
LEMMA PartsOfJoined ==
  ASSUME NEW n \in Nat, NEW parts, HaveBytes(n, parts), NEW f, Joins(n, parts, f), NEW i \in 1..n
  PROVE  SubSeq(f[n], Len(f[i - 1]) + 1, Len(f[i - 1]) + Len(parts[i].bytes)) = parts[i].bytes
<1>1. i - 1 \in 0..n /\ i \in 0..n /\ i \in Nat
  OBVIOUS
<1>2. PICK a : a = Len(f[i - 1])
  OBVIOUS
<1>3. PICK b : b = Len(f[i])
  OBVIOUS
<1>4. a \in Nat /\ b \in Nat /\ b = a + Len(parts[i].bytes) /\ Len(parts[i].bytes) \in Nat
  BY <1>1, <1>2, <1>3 DEF Joins
<1>5. a <= b
  BY <1>4
<1> DEFINE good == {j \in i..n : b <= Len(f[j]) /\ SubSeq(f[j], a + 1, b) = parts[i].bytes}
<1>7. i \in good
  <2>1. f[i - 1] \in Seq(Nat) /\ parts[i].bytes \in Seq(Nat) /\ f[i] = f[i - 1] \o parts[i].bytes
    BY <1>1 DEF Joins, HaveBytes
  <2>2. PICK u, v : u = f[i - 1] /\ v = parts[i].bytes
    OBVIOUS
  <2>3. u \in Seq(Nat) /\ v \in Seq(Nat) /\ a = Len(u) /\ b = Len(u \o v)
    BY <1>2, <1>3, <2>1, <2>2
  <2>4. SubSeq(u \o v, a + 1, b) = v
    BY <2>3, SecondPart
  <2>5. b <= Len(f[i]) /\ i \in i..n
    BY <1>1, <1>3, <1>4
  <2> QED BY <2>1, <2>2, <2>4, <2>5
<1>8. ASSUME NEW j \in i..(n - 1), j \in good
      PROVE  j + 1 \in good
  <2>1. j \in 0..n /\ j + 1 \in 1..n /\ (j + 1) - 1 = j
    BY <1>1
  <2>2. PICK k \in 1..n : k = j + 1
    BY <2>1
  <2>3. k - 1 = j /\ k \in i..n
    BY <1>1, <2>1, <2>2
  <2>4. PICK u, v : u = f[j] /\ v = parts[k].bytes
    OBVIOUS
  <2>5. u \in Seq(Nat) /\ v \in Seq(Nat) /\ f[k] = u \o v
    BY <2>1, <2>3, <2>4 DEF Joins, HaveBytes
  <2>6. b <= Len(u) /\ SubSeq(u, a + 1, b) = parts[i].bytes
    BY <1>8, <2>4
  <2>7. SubSeq(u \o v, a + 1, b) = SubSeq(u, a + 1, b) /\ b <= Len(u \o v)
    BY <1>4, <1>5, <2>5, <2>6, FirstPart
  <2>8. b <= Len(f[k]) /\ SubSeq(f[k], a + 1, b) = parts[i].bytes
    BY <2>5, <2>6, <2>7
  <2> QED BY <2>2, <2>3, <2>8
<1> HIDE DEF good
<1>9. i..n \subseteq good
  BY <1>1, <1>7, <1>8, UpFrom
<1>10. n \in good
  BY <1>9
<1> QED BY <1>2, <1>4, <1>10 DEF good

LEMMA ItemsTyped ==
  ASSUME ItemsOK
  PROVE  /\ Len(items) \in Nat /\ DOMAIN items = 1..Len(items)
         /\ \A i \in 1..Len(items) : items[i] \in AllItems
         /\ HaveBytes(Len(items), items)
<1>1. \A i \in 1..Len(items) : items[i] \in AllItems
  BY ElementOfSeq DEF ItemsOK
<1> QED BY <1>1, ItemBytes, LenProperties DEF ItemsOK, HaveBytes

\* Each item's bytes are where its pointer says.
LEMMA PointersPoint ==
  ASSUME ItemsOK, NEW i \in DOMAIN items
  PROVE  SubSeq(ExtendedBuffer, DataPointers[i] + 1, DataPointers[i] + Len(items[i].bytes))
           = items[i].bytes
<1>1. PICK n \in Nat : n = Len(items)
  BY ItemsTyped
<1>2. PICK f : f = CHOOSE h : h = Joined(n, items, h)
  OBVIOUS
<1>3. PICK s : s = CHOOSE h : h = Begins(n, items, h)
  OBVIOUS
<1>4. DOMAIN items = 1..n /\ HaveBytes(n, items)
  BY <1>1, ItemsTyped
<1>5. ExtendedBuffer = f[n]
  BY <1>1, <1>2 DEF ExtendedBuffer, Joined
<1>6. DataPointers[i] = s[i]
  BY <1>1, <1>3, <1>4 DEF DataPointers, Begins
<1>7. Joins(n, items, f)
  BY <1>2, <1>4, JoinedIs
<1>8. s[i] = Len(f[i - 1])
  BY <1>3, <1>4, <1>7, BeginsAre
<1>9. SubSeq(f[n], Len(f[i - 1]) + 1, Len(f[i - 1]) + Len(items[i].bytes)) = items[i].bytes
  <2>1. PICK parts : parts = items
    OBVIOUS
  <2>2. HaveBytes(n, parts) /\ Joins(n, parts, f) /\ i \in 1..n
    BY <1>4, <1>7, <2>1
  <2>3. SubSeq(f[n], Len(f[i - 1]) + 1, Len(f[i - 1]) + Len(parts[i].bytes)) = parts[i].bytes
    BY <2>2, PartsOfJoined
  <2> QED BY <2>1, <2>3
<1> QED BY <1>5, <1>6, <1>8, <1>9

LEMMA DataIsFound ==
  ASSUME ItemsOK, UpToDate, NEW i \in DOMAIN items
  PROVE  ItemData(built, built.extended[i]) = items[i].bytes
<1>1. built.extended = ExtendedData /\ built.buffer = ExtendedBuffer
  BY DEF UpToDate, Record
<1>2. Len(items[i].bytes) \in 0..36
  BY ItemsTyped, ItemBytes
<1>3. ExtendedData[i] = [ext |-> items[i].ext, ptr |-> DataPointers[i],
                         size |-> Len(items[i].bytes) % 65536]
  BY DEF ExtendedData
<1>4. PICK k \in 0..36 : k = Len(items[i].bytes)
  BY <1>2
<1>5. PICK size : size = k % 65536
  OBVIOUS
<1>6. size = k
  BY <1>5, SMT
<1>7. ExtendedData[i].ptr = DataPointers[i] /\ ExtendedData[i].size = size
  BY <1>3, <1>4, <1>5, SMT
<1> QED BY <1>1, <1>4, <1>6, <1>7, PointersPoint DEF ItemData

LEMMA StartKeyIs ==
  IF TryGetProcessStartKey(built) = False THEN ProcessStartKey(built) = Zeros(8)
  ELSE TryGetProcessStartKey(built) = Value(ProcessStartKey(built))
BY DEF TryGetProcessStartKey, ProcessStartKey, False, Throws, Value

\* The first item of a kind, in a record that was just built.
LEMMA FirstOfKind ==
  ASSUME ItemsOK, UpToDate, NEW ext, ItemsOf(built, ext) # {}
  PROVE  \E i \in DOMAIN items : items[i].ext = ext /\ ItemData(built, FirstItem(built, ext)) = items[i].bytes
<1> DEFINE first == CHOOSE i \in ItemsOf(built, ext) : \A j \in ItemsOf(built, ext) : i <= j
<1>1. built.extended = ExtendedData /\ DOMAIN built.extended = DOMAIN items
  BY DEF UpToDate, Record, ExtendedData
<1>2. ItemsOf(built, ext) \subseteq DOMAIN items /\ DOMAIN items \subseteq Nat
  BY <1>1, ItemsTyped DEF ItemsOf
<1>3. PICK k \in ItemsOf(built, ext) : \A j \in ItemsOf(built, ext) : k <= j
  BY <1>2, FirstExists
<1>4. PICK i : i = first
  OBVIOUS
<1>5. i \in ItemsOf(built, ext)
  BY <1>3, <1>4
<1>6. FirstItem(built, ext) = built.extended[i]
  BY <1>4 DEF FirstItem
<1>7. i \in DOMAIN items /\ items[i].ext = ext
  BY <1>1, <1>2, <1>5 DEF ItemsOf, ExtendedData
<1> QED BY <1>6, <1>7, DataIsFound

\* StringFromGUID2 writes different GUIDs differently.
LEMMA GuidOfText ==
  ASSUME NEW g \in ContainerIds
  PROVE  /\ (CHOOSE h \in ContainerIds : StringFromGuid(h) = StringFromGuid(g)) = g
         /\ ParseGuid(StringFromGuid(g)) = g /\ g # NoGuid /\ g \in Guids
<1>1. \A h \in ContainerIds : ParseGuid(StringFromGuid(h)) = h /\ h # NoGuid /\ h \in Guids
  BY BuilderAssumption, GuidRoundTrip DEF StringFromGuid
<1>2. \A h \in ContainerIds : StringFromGuid(h) = StringFromGuid(g) => h = g
  BY <1>1
<1> QED BY <1>1, <1>2

LEMMA ContainerIdIs ==
  ASSUME ItemsOK, UpToDate, ItemsOf(built, "CONTAINER_ID") # {}
  PROVE  \E g \in ContainerIds :
           /\ g \in Guids /\ TryGetContainerId(built) = Value(g)
           /\ ItemData(built, FirstItem(built, "CONTAINER_ID")) = StringFromGuid(g)
<1>1. PICK text : text = ItemData(built, FirstItem(built, "CONTAINER_ID"))
  OBVIOUS
<1>2. PICK i \in DOMAIN items : items[i].ext = "CONTAINER_ID" /\ items[i].bytes = text
  BY <1>1, FirstOfKind
<1>3. PICK g \in ContainerIds : text = StringFromGuid(g)
  BY <1>2, ItemsTyped, ItemBytes
<1>4. TryGetContainerId(built) = Value(g)
  BY <1>1, <1>3, GuidOfText DEF TryGetContainerId
<1> QED BY <1>1, <1>3, <1>4, GuidOfText

\* An event carries its own extended data, for any number of items: each pointer leads to
\* the item's own bytes, and the getters give the first of their kind
\* (extended_data_builder.hpp:125-182, EventRecordMetadata.hpp:208-263).
THEOREM EventsCarryTheirData == RecordsSpec => []ExtendedDataFound
<1>1. ItemsOK => ExtendedDataFound
  <2> SUFFICES ASSUME ItemsOK, UpToDate
      PROVE  /\ \A i \in DOMAIN items : ItemData(built, built.extended[i]) = items[i].bytes
             /\ TryGetContainerId(built) =
                  IF ItemsOf(built, "CONTAINER_ID") = {} THEN False
                  ELSE Value(CHOOSE g \in ContainerIds :
                               StringFromGuid(g) = ItemData(built, FirstItem(built, "CONTAINER_ID")))
             /\ IF TryGetProcessStartKey(built) = False THEN ProcessStartKey(built) = Zeros(8)
                ELSE TryGetProcessStartKey(built) = Value(ProcessStartKey(built))
    BY DEF ExtendedDataFound
  <2>1. \A i \in DOMAIN items : ItemData(built, built.extended[i]) = items[i].bytes
    BY DataIsFound
  <2>2. CASE ItemsOf(built, "CONTAINER_ID") = {}
    BY <2>1, <2>2, StartKeyIs DEF TryGetContainerId
  <2>3. CASE ItemsOf(built, "CONTAINER_ID") # {}
    <3>1. PICK g \in ContainerIds :
            /\ TryGetContainerId(built) = Value(g)
            /\ ItemData(built, FirstItem(built, "CONTAINER_ID")) = StringFromGuid(g)
      BY <2>3, ContainerIdIs
    <3>2. PICK text : text = ItemData(built, FirstItem(built, "CONTAINER_ID"))
      OBVIOUS
    <3>3. g = CHOOSE h \in ContainerIds : StringFromGuid(h) = text
      BY <3>1, <3>2, GuidOfText
    <3>4. TryGetContainerId(built)
            = Value(CHOOSE h \in ContainerIds :
                      StringFromGuid(h) = ItemData(built, FirstItem(built, "CONTAINER_ID")))
      BY <3>1, <3>2, <3>3
    <3> QED BY <2>1, <2>3, <3>4, StartKeyIs
  <2> QED BY <2>2, <2>3
<1> QED BY <1>1, ItemsInvariant, PTL

\* The container ID of an event, once read, is a GUID whose text is read as the same GUID;
\* so is the text with other digits, and no other text that differs in one character
\* (guid.hpp:261-298).
THEOREM ContainerIdsParseBack == RecordsSpec => []ContainerIdParsesBack
<1>1. ItemsOK => ContainerIdParsesBack
  <2> SUFFICES ASSUME ItemsOK, UpToDate, Len(items) = 1, items[1].ext = "CONTAINER_ID"
               PROVE  ParsesBack(TryGetContainerId(built).v)
    BY DEF ContainerIdParsesBack
  <2>1. 1 \in ItemsOf(built, "CONTAINER_ID")
    BY ItemsTyped DEF UpToDate, Record, ExtendedData, ItemsOf
  <2>2. PICK g \in Guids : TryGetContainerId(built) = Value(g)
    BY <2>1, ContainerIdIs
  <2> QED BY <2>2, GuidsParseBack DEF Value
<1> QED BY <1>1, ItemsInvariant, PTL

-----------------------------------------------------------------------------
(* Places.                                                                 *)

IsRecord(r) == IsSchema(r.schema) /\ r.data \in Seq(Octets)

\* Where a property of r can be.
Spots(r) == {Nowhere} \cup {s \in [at : Nat, size : Nat] : s.at + s.size <= Len(r.data)}

LEMMA DataTyped ==
  ASSUME NEW data \in Seq(Octets)
  PROVE  /\ Len(data) \in Nat /\ DOMAIN data = 1..Len(data) /\ data \in Seq(Nat)
         /\ \A i \in 1..Len(data) : data[i] \in Octets /\ data[i] \in Nat
<1>1. Octets \subseteq Nat
  BY DEF Octets
<1>2. data \in Seq(Nat)
  BY <1>1, SeqMonotonic
<1>3. \A i \in 1..Len(data) : data[i] \in Octets
  BY ElementOfSeq
<1> QED BY <1>1, <1>2, <1>3, LenProperties

LEMMA SchemaTyped ==
  ASSUME NEW ps, IsSchema(ps)
  PROVE  Len(ps) \in Nat /\ DOMAIN ps = 1..Len(ps) /\ \A i \in 1..Len(ps) : ps[i].length \in Nat
BY LenProperties DEF IsSchema

LEMMA Widths == \A type : Width(type) \in {1, 2}
BY DEF Width

LEMMA HeuristicSizeTyped ==
  ASSUME NEW data \in Seq(Octets), NEW at \in Nat, NEW p
  PROVE  HeuristicSize(data, at, p) \in Nat
<1> DEFINE w == Width(p.type)
           ends == {k \in 0..(Len(data) - at) : NullAt(data, at, w, k) \/ at + (k + 1) * w >= Len(data)}
           first == CHOOSE k \in ends : \A j \in ends : k <= j
<1>1. Len(data) \in Nat /\ w \in {1, 2}
  BY DataTyped, Widths
<1>2. HeuristicSize(data, at, p) =
        IF p.out # "STRING" \/ p.type \notin StringTypes \/ at >= Len(data) THEN 0 ELSE w * (1 + first)
  BY DEF HeuristicSize
<1>3. CASE at >= Len(data)
  BY <1>2, <1>3
<1>4. CASE at < Len(data)
  <2>1. ends \in SUBSET Nat
    BY <1>1
  <2>2. Len(data) - at \in ends
    <3>1. PICK n \in Nat : n = Len(data) - at
      BY <1>1, <1>4
    <3>2. at + (n + 1) * w >= Len(data) /\ n \in 0..(Len(data) - at)
      BY <1>1, <3>1
    <3> QED BY <3>1, <3>2
  <2>3. \E k \in ends : \A j \in ends : k <= j
    BY <2>1, <2>2, FirstExists
  <2> HIDE DEF ends
  <2>4. first \in Nat
    BY <2>1, <2>3
  <2> HIDE DEF first, w
  <2>5. w * (1 + first) \in Nat
    BY <1>1, <2>4
  <2> QED BY <1>2, <2>5
<1> HIDE DEF w, ends, first
<1> QED BY <1>1, <1>3, <1>4

LEMMA PropertySizeTyped ==
  ASSUME NEW r, IsRecord(r), NEW at \in Nat, NEW p, p.length \in Nat
  PROVE  PropertySizeAt(r, at, p) \in Nat
<1>1. HeuristicSize(r.data, at, p) \in Nat
  BY HeuristicSizeTyped DEF IsRecord
<1>2. TdhSize(r.data, at, p) \in Nat
  <2>1. \A i \in Nat \ {0} : i <= Len(r.data) => r.data[i] \in Nat
    BY DataTyped DEF IsRecord
  <2>2. Len(r.data) \in Nat
    BY DataTyped DEF IsRecord
  <2>3. at + 2 <= Len(r.data) => 8 + 4 * r.data[at + 2] \in Nat /\ 2 + r.data[at + 1] \in Nat
    <3>1. at + 2 <= Len(r.data) => r.data[at + 2] \in Nat /\ r.data[at + 1] \in Nat
      BY <2>1, <2>2
    <3> QED BY <3>1
  <2> QED BY <2>3 DEF TdhSize
<1> QED BY <1>1, <1>2 DEF PropertySizeAt

\* The walk of find_property, step by step.
Fit(r, at, size) == IF at + size <= Len(r.data) THEN [at |-> at, size |-> size] ELSE Nowhere
Behind(r, last, at, p) == IF last = Nowhere THEN Nowhere ELSE Fit(r, at, PropertySizeAt(r, at, p))
Walk(r, f) ==
  [i \in 0..Len(r.schema) |->
     IF i = 0 THEN Fit(r, 0, 0) ELSE Behind(r, f[i - 1], f[i - 1].at + f[i - 1].size, r.schema[i])]

LEMMA SpotsAre ==
  ASSUME NEW r, IsRecord(r), NEW s \in Spots(r)
  PROVE  /\ s # Nowhere => s.at \in Nat /\ s.size \in Nat /\ s.at + s.size <= Len(r.data)
         /\ s # Nowhere => s.at + s.size \in Nat
BY DEF Spots

LEMMA FitIsSpot ==
  ASSUME NEW r, IsRecord(r), NEW at \in Nat, NEW size \in Nat
  PROVE  Fit(r, at, size) \in Spots(r)
BY DEF Fit, Spots

LEMMA BehindIsSpot ==
  ASSUME NEW r, IsRecord(r), NEW s \in Spots(r), NEW p, p.length \in Nat
  PROVE  Behind(r, s, s.at + s.size, p) \in Spots(r)
<1>1. CASE s = Nowhere
  BY <1>1 DEF Behind, Spots
<1>2. CASE s # Nowhere
  <2>1. s.at + s.size \in Nat
    BY <1>2, SpotsAre
  <2>2. PropertySizeAt(r, s.at + s.size, p) \in Nat
    BY <2>1, PropertySizeTyped
  <2> QED BY <1>2, <2>1, <2>2, FitIsSpot DEF Behind
<1> QED BY <1>1, <1>2

\* What the recursion of Places gives.
Walks(r, f) ==
  /\ f[0] = Fit(r, 0, 0)
  /\ \A i \in 1..Len(r.schema) : f[i] = Behind(r, f[i - 1], f[i - 1].at + f[i - 1].size, r.schema[i])
  /\ \A i \in 0..Len(r.schema) : f[i] \in Spots(r)

LEMMA PlacesWalk ==
  ASSUME NEW r, IsRecord(r)
  PROVE  Walks(r, Places(r))
<1>1. PICK n \in Nat : n = Len(r.schema)
  BY SchemaTyped DEF IsRecord
<1>2. PICK D : D = Spots(r)
  OBVIOUS
<1>3. \A i \in 1..n : r.schema[i].length \in Nat
  BY <1>1, SchemaTyped DEF IsRecord
<1> DEFINE step == [q \in D \X (1..n) |-> Behind(r, q[1], q[1].at + q[1].size, r.schema[q[2]])]
<1>4. step \in [D \X (1..n) -> D]
  BY <1>2, <1>3, BehindIsSpot
<1>5. \A s \in D, i \in 1..n : step[<<s, i>>] = Behind(r, s, s.at + s.size, r.schema[i])
  OBVIOUS
<1>6. Fit(r, 0, 0) \in D
  BY <1>2, FitIsSpot
<1> HIDE DEF step
<1>7. PICK g : Follows(n, D, Fit(r, 0, 0), step, g)
  BY <1>4, <1>6, RecursionExists
<1>8. g \in [0..n -> D] /\ g[0] = Fit(r, 0, 0)
  BY <1>7 DEF Follows
<1>9. ASSUME NEW i \in 1..n
      PROVE  g[i] = Behind(r, g[i - 1], g[i - 1].at + g[i - 1].size, r.schema[i])
  <2>1. i - 1 \in 0..n /\ g[i] = step[<<g[i - 1], i>>]
    BY <1>7 DEF Follows
  <2>2. g[i - 1] \in D
    BY <1>8, <2>1
  <2> QED BY <1>5, <2>1, <2>2
<1>10. g = Walk(r, g)
  <2>1. DOMAIN g = 0..n /\ g = [i \in 0..n |-> g[i]]
    BY <1>8
  <2>2. \A i \in 0..n : g[i] = IF i = 0 THEN Fit(r, 0, 0)
                               ELSE Behind(r, g[i - 1], g[i - 1].at + g[i - 1].size, r.schema[i])
    <3> TAKE i \in 0..n
    <3>1. i = 0 \/ i \in 1..n
      OBVIOUS
    <3> QED BY <1>8, <1>9, <3>1
  <2> QED BY <1>1, <2>1, <2>2 DEF Walk
<1>11. PICK f : f = CHOOSE h : h = Walk(r, h)
  OBVIOUS
<1>12. f = Walk(r, f)
  BY <1>10, <1>11
<1>13. /\ f[0] = Fit(r, 0, 0)
       /\ \A i \in 1..n : f[i] = Behind(r, f[i - 1], f[i - 1].at + f[i - 1].size, r.schema[i])
  <2>1. f = [i \in 0..n |-> IF i = 0 THEN Fit(r, 0, 0)
                            ELSE Behind(r, f[i - 1], f[i - 1].at + f[i - 1].size, r.schema[i])]
    BY <1>1, <1>12 DEF Walk
  <2>2. 0 \in 0..n /\ \A i \in 1..n : i \in 0..n /\ i # 0
    OBVIOUS
  <2> QED BY <2>1, <2>2
<1>14. Alike(n, f, g)
  BY <1>8, <1>9, <1>13 DEF Alike
<1>15. Agree(n, f, g)
  BY <1>14, RecursionUnique
<1>16. \A i \in 0..n : f[i] \in D
  BY <1>8, <1>15 DEF Agree
<1>17. Places(r) = f
  BY <1>11 DEF Places, Walk, Fit, Behind
<1> QED BY <1>1, <1>2, <1>13, <1>16, <1>17 DEF Walks

LEMMA IndexTyped ==
  ASSUME NEW r, IsRecord(r), NEW name
  PROVE  /\ IndexOf(r, name) \in 0..Len(r.schema)
         /\ IndexOf(r, name) # 0 => r.schema[IndexOf(r, name)].name = name
<1> DEFINE is == {i \in DOMAIN r.schema : r.schema[i].name = name}
           first == CHOOSE i \in is : \A j \in is : i <= j
<1>1. IndexOf(r, name) = IF is = {} THEN 0 ELSE first
  BY DEF IndexOf
<1>2. Len(r.schema) \in Nat /\ is \subseteq 1..Len(r.schema) /\ \A i \in is : r.schema[i].name = name
  BY SchemaTyped DEF IsRecord
<1> HIDE DEF is
<1>3. is \in SUBSET Nat
  BY <1>2
<1>4. is # {} => first \in is
  BY <1>3, FirstExists
<1> HIDE DEF first
<1> QED BY <1>1, <1>2, <1>4

LEMMA FindTyped ==
  ASSUME NEW r, IsRecord(r), NEW name
  PROVE  Find(r, name) \in Spots(r) /\ (IndexOf(r, name) = 0 => Find(r, name) = Nowhere)
<1>1. \A i \in 0..Len(r.schema) : Places(r)[i] \in Spots(r)
  BY PlacesWalk DEF Walks
<1>2. Nowhere \in Spots(r)
  BY DEF Spots
<1> QED BY <1>1, <1>2, IndexTyped DEF Find

-----------------------------------------------------------------------------
(* Comparers.                                                              *)

LEMMA UpsTyped ==
  ASSUME NEW s \in Seq(Nat)
  PROVE  Ups(s) \in Seq(Nat) /\ Len(Ups(s)) = Len(s) /\ \A i \in 1..Len(s) : Ups(s)[i] = Upper(s[i])
<1>1. Len(s) \in Nat /\ DOMAIN s = 1..Len(s) /\ \A i \in 1..Len(s) : s[i] \in Nat
  BY LenProperties, ElementOfSeq
<1>2. \A c \in Nat : Upper(c) \in Nat
  BY DEF Upper
<1>3. Ups(s) \in [1..Len(s) -> Nat] /\ \A i \in 1..Len(s) : Ups(s)[i] = Upper(s[i])
  BY <1>1, <1>2 DEF Ups
<1> QED BY <1>1, <1>3, FunctionIsSeq

\* What is compared: the string, or its upper-case letters.
Folds(s, fold) == IF fold THEN Ups(s) ELSE s

LEMMA FoldsTyped ==
  ASSUME NEW s \in Seq(Nat), NEW fold \in BOOLEAN
  PROVE  Folds(s, fold) \in Seq(Nat) /\ Len(Folds(s, fold)) = Len(s) /\ Len(s) \in Nat
BY UpsTyped, LenProperties DEF Folds

LEMMA FoldsCompare ==
  ASSUME NEW s \in Seq(Nat), NEW t \in Seq(Nat), NEW fold \in BOOLEAN,
         NEW i \in 1..Len(s), NEW j \in 1..Len(t)
  PROVE  Same(s[i], t[j], fold) <=> Folds(s, fold)[i] = Folds(t, fold)[j]
BY UpsTyped DEF Folds, Same

LEMMA PieceIs ==
  ASSUME NEW s \in Seq(Nat), NEW t \in Seq(Nat), NEW k \in Nat, k + Len(t) <= Len(s)
  PROVE  SubSeq(s, k + 1, k + Len(t)) = t <=> \A i \in 1..Len(t) : s[k + i] = t[i]
<1> DEFINE u == SubSeq(s, k + 1, k + Len(t))
<1>1. Len(s) \in Nat /\ Len(t) \in Nat
  BY LenProperties
<1>2. PICK n \in Nat : n = Len(t)
  BY <1>1
<1>3. \A i \in (k + 1)..(k + n) : s[i] \in Nat
  <2> TAKE i \in (k + 1)..(k + n)
  <2>1. i \in 1..Len(s)
    BY <1>1, <1>2
  <2> QED BY <2>1, ElementOfSeq
<1>4. /\ SubSeq(s, k + 1, k + n) \in Seq(Nat)
      /\ Len(SubSeq(s, k + 1, k + n)) = IF k + 1 <= k + n THEN (k + n) - (k + 1) + 1 ELSE 0
      /\ \A i \in 1..((k + n) - (k + 1) + 1) : SubSeq(s, k + 1, k + n)[i] = s[(k + 1) + i - 1]
  BY <1>3, SubSeqProperties
<1>5. u \in Seq(Nat) /\ Len(u) = Len(t) /\ \A i \in 1..n : u[i] = s[k + i]
  <2>1. Len(SubSeq(s, k + 1, k + n)) = n
    BY <1>4
  <2>2. ASSUME NEW i \in 1..n
        PROVE  SubSeq(s, k + 1, k + n)[i] = s[k + i]
    <3>1. i \in 1..((k + n) - (k + 1) + 1) /\ (k + 1) + i - 1 = k + i
      OBVIOUS
    <3> QED BY <1>4, <3>1
  <2> QED BY <1>2, <1>4, <2>1, <2>2
<1> HIDE DEF u
<1>6. u = t <=> \A i \in 1..n : s[k + i] = t[i]
  BY <1>2, <1>5, SeqEqual
<1> QED BY <1>2, <1>6 DEF u

LEMMA EqualsIs ==
  ASSUME NEW s \in Seq(Nat), NEW t \in Seq(Nat), NEW fold \in BOOLEAN
  PROVE  EqualsText(s, t, fold) <=> Folds(s, fold) = Folds(t, fold)
<1>1. Len(s) \in Nat /\ Len(t) \in Nat /\ DOMAIN t = 1..Len(t)
  BY LenProperties
<1>2. /\ Folds(s, fold) \in Seq(Nat) /\ Len(Folds(s, fold)) = Len(s)
      /\ Folds(t, fold) \in Seq(Nat) /\ Len(Folds(t, fold)) = Len(t)
  BY FoldsTyped
<1>3. Folds(s, fold) = Folds(t, fold)
        <=> Len(s) = Len(t) /\ \A i \in 1..Len(s) : Folds(s, fold)[i] = Folds(t, fold)[i]
  BY <1>2, SeqEqual
<1>4. Len(s) = Len(t) => \A i \in 1..Len(s) :
        Same(s[i], t[i], fold) <=> Folds(s, fold)[i] = Folds(t, fold)[i]
  BY FoldsCompare
<1> QED BY <1>1, <1>3, <1>4 DEF EqualsText

LEMMA ContainsIs ==
  ASSUME NEW s \in Seq(Nat), NEW t \in Seq(Nat), NEW fold \in BOOLEAN
  PROVE  ContainsText(s, t, fold) <=> Holds(Folds(s, fold), Folds(t, fold))
<1>1. Len(s) \in Nat /\ Len(t) \in Nat /\ DOMAIN t = 1..Len(t)
  BY LenProperties
<1>2. PICK a, b : a = Folds(s, fold) /\ b = Folds(t, fold)
  OBVIOUS
<1>3. a \in Seq(Nat) /\ Len(a) = Len(s) /\ b \in Seq(Nat) /\ Len(b) = Len(t)
  BY <1>2, FoldsTyped
<1>4. ASSUME NEW k \in 0..(Len(s) - Len(t))
      PROVE  (\A i \in DOMAIN t : Same(s[k + i], t[i], fold)) <=> SubSeq(a, k + 1, k + Len(b)) = b
  <2>1. k \in Nat /\ k + Len(b) <= Len(a)
    BY <1>1, <1>3
  <2>2. SubSeq(a, k + 1, k + Len(b)) = b <=> \A i \in 1..Len(b) : a[k + i] = b[i]
    BY <1>3, <2>1, PieceIs
  <2>3. ASSUME NEW i \in 1..Len(t)
        PROVE  Same(s[k + i], t[i], fold) <=> a[k + i] = b[i]
    <3>1. PICK j \in 1..Len(s) : j = k + i
      BY <1>1
    <3> QED BY <1>2, <3>1, FoldsCompare
  <2> QED BY <1>1, <1>3, <2>2, <2>3
<1>5. t = <<>> => Holds(a, b)
  <2> SUFFICES ASSUME t = <<>> PROVE Holds(a, b)
    OBVIOUS
  <2>1. Len(b) = 0 /\ 0 \in 0..(Len(a) - Len(b))
    BY <1>1, <1>3
  <2>2. SubSeq(a, 0 + 1, 0 + Len(b)) = b
    <3>1. 0 \in Nat /\ 0 + Len(b) <= Len(a) /\ \A i \in 1..Len(b) : a[0 + i] = b[i]
      BY <1>1, <1>3, <2>1
    <3> QED BY <1>3, <3>1, PieceIs
  <2> QED BY <2>1, <2>2 DEF Holds
<1>6. Holds(a, b) <=> \E k \in 0..(Len(s) - Len(t)) : SubSeq(a, k + 1, k + Len(b)) = b
  BY <1>3 DEF Holds
<1> QED BY <1>2, <1>4, <1>5, <1>6 DEF ContainsText

LEMMA PrefixIs ==
  ASSUME NEW a \in Seq(Nat), NEW b \in Seq(Nat)
  PROVE  Sub!IsPrefix(b, a) <=> Len(b) <= Len(a) /\ \A i \in 1..Len(b) : a[i] = b[i]
<1>1. Len(a) \in Nat /\ Len(b) \in Nat
  BY LenProperties
<1>2. SubSeq(b, 1, Len(b)) = b
  BY SubSeqFull
<1>3. Len(b) <= Len(a) => (SubSeq(a, 0 + 1, 0 + Len(b)) = b <=> \A i \in 1..Len(b) : a[0 + i] = b[i])
  <2>1. 0 \in Nat /\ 0 + Len(b) = Len(b)
    BY <1>1
  <2> QED BY <2>1, PieceIs
<1>4. 0 + 1 = 1 /\ 0 + Len(b) = Len(b) /\ \A i \in 1..Len(b) : 0 + i = i
  BY <1>1
<1>5. Sub!IsPrefix(b, a) <=> Len(b) <= Len(a) /\ SubSeq(a, 1, Len(b)) = b
  BY <1>2 DEF Sub!IsPrefix
<1> QED BY <1>3, <1>4, <1>5

\* std::mismatch reaches the end of the text where the string begins with it.
LEMMA StartsIs ==
  ASSUME NEW s \in Seq(Nat), NEW t \in Seq(Nat), NEW fold \in BOOLEAN
  PROVE  StartsWithText(s, t, fold) <=> Sub!IsPrefix(Folds(t, fold), Folds(s, fold))
<1> DEFINE at == {i \in 1..Len(t) : i > Len(s) \/ ~Same(s[i], t[i], fold)}
           first == CHOOSE i \in at : \A j \in at : i <= j
<1>1. Len(s) \in Nat /\ Len(t) \in Nat
  BY LenProperties
<1>2. PICK a, b : a = Folds(s, fold) /\ b = Folds(t, fold)
  OBVIOUS
<1>3. a \in Seq(Nat) /\ Len(a) = Len(s) /\ b \in Seq(Nat) /\ Len(b) = Len(t)
  BY <1>2, FoldsTyped
<1>4. StartsWithText(s, t, fold) <=> at = {}
  <2>1. MismatchAt(s, t, fold) = IF at = {} THEN Len(t) + 1 ELSE first
    BY DEF MismatchAt
  <2>2. at \in SUBSET Nat /\ at \subseteq 1..Len(t)
    OBVIOUS
  <2> HIDE DEF at
  <2>3. at # {} => first \in at
    BY <2>2, FirstExists
  <2> HIDE DEF first
  <2>4. at # {} => first # Len(t) + 1
    <3>1. at # {} => first \in 1..Len(t)
      BY <2>2, <2>3
    <3> QED BY <1>1, <3>1
  <2> QED BY <2>1, <2>4 DEF StartsWithText
<1>5. at = {} <=> Len(t) <= Len(s) /\ \A i \in 1..Len(t) : a[i] = b[i]
  <2>1. ASSUME NEW i \in 1..Len(t), i <= Len(s)
        PROVE  Same(s[i], t[i], fold) <=> a[i] = b[i]
    <3>1. i \in 1..Len(s)
      BY <1>1, <2>1
    <3> QED BY <1>2, <3>1, FoldsCompare
  <2>2. at = {} => Len(t) <= Len(s)
    <3> SUFFICES ASSUME at = {}, Len(t) > Len(s) PROVE FALSE
      BY <1>1
    <3>1. Len(t) \in 1..Len(t) /\ Len(t) \notin at
      BY <1>1
    <3> QED BY <1>1, <3>1
  <2>3. Len(t) <= Len(s) => \A i \in 1..Len(t) : i <= Len(s) /\ ~(i > Len(s))
    BY <1>1
  <2> QED BY <2>1, <2>2, <2>3
<1>6. Sub!IsPrefix(b, a) <=> Len(b) <= Len(a) /\ \A i \in 1..Len(b) : a[i] = b[i]
  BY <1>3, PrefixIs
<1> HIDE DEF at
<1> QED BY <1>2, <1>3, <1>4, <1>5, <1>6

LEMMA ReverseIs ==
  ASSUME NEW s \in Seq(Nat)
  PROVE  /\ Sub!Reverse(s) \in Seq(Nat) /\ Len(Sub!Reverse(s)) = Len(s)
         /\ \A i \in 1..Len(s) : Sub!Reverse(s)[i] = s[(Len(s) - i) + 1]
<1>1. Len(s) \in Nat /\ \A i \in 1..Len(s) : (Len(s) - i) + 1 \in 1..Len(s)
  BY LenProperties
<1>2. \A i \in 1..Len(s) : s[(Len(s) - i) + 1] \in Nat
  BY <1>1, ElementOfSeq
<1>3. Sub!Reverse(s) \in [1..Len(s) -> Nat]
  BY <1>2 DEF Sub!Reverse
<1> QED BY <1>1, <1>3, FunctionIsSeq DEF Sub!Reverse

LEMMA EndsIs ==
  ASSUME NEW s \in Seq(Nat), NEW t \in Seq(Nat), NEW fold \in BOOLEAN
  PROVE  EndsWithText(s, t, fold) <=> Sub!IsSuffix(Folds(t, fold), Folds(s, fold))
<1>1. PICK m \in Nat, n \in Nat : m = Len(s) /\ n = Len(t)
  BY LenProperties
<1>2. PICK a, b : a = Folds(s, fold) /\ b = Folds(t, fold)
  OBVIOUS
<1>3. a \in Seq(Nat) /\ Len(a) = m /\ b \in Seq(Nat) /\ Len(b) = n
  BY <1>1, <1>2, FoldsTyped
<1>4. Sub!IsSuffix(b, a) <=> n <= m /\ \A i \in 1..n : a[(m - i) + 1] = b[(n - i) + 1]
  <2>1. PICK ra, rb : ra = Sub!Reverse(a) /\ rb = Sub!Reverse(b)
    OBVIOUS
  <2>2. ra \in Seq(Nat) /\ Len(ra) = m /\ rb \in Seq(Nat) /\ Len(rb) = n
        /\ (\A i \in 1..m : ra[i] = a[(m - i) + 1]) /\ \A i \in 1..n : rb[i] = b[(n - i) + 1]
    BY <1>3, <2>1, ReverseIs
  <2>3. Sub!IsPrefix(rb, ra) <=> n <= m /\ \A i \in 1..n : ra[i] = rb[i]
    BY <2>2, PrefixIs
  <2>4. Sub!IsSuffix(b, a) <=> Sub!IsPrefix(rb, ra)
    BY <2>1 DEF Sub!IsSuffix
  <2>5. n <= m => \A i \in 1..n : i \in 1..m
    OBVIOUS
  <2> QED BY <2>2, <2>3, <2>4, <2>5
<1>5. CASE n > m
  <2>1. ~(n <= m)
    BY <1>5
  <2> QED BY <1>1, <1>2, <1>4, <2>1 DEF EndsWithText
<1>6. CASE n <= m
  <2>1. PICK k \in Nat : k + n = m /\ k = m - n
    <3>1. m - n \in Nat /\ (m - n) + n = m
      BY <1>6
    <3> QED BY <3>1
  <2>2. PICK u : u = SubSeq(s, (Len(s) - Len(t)) + 1, Len(s))
    OBVIOUS
  <2>3. u = SubSeq(s, k + 1, m)
    BY <1>1, <2>1, <2>2
  <2>4. \A i \in (k + 1)..m : s[i] \in Nat
    <3> TAKE i \in (k + 1)..m
    <3>1. i \in 1..Len(s)
      BY <1>1
    <3> QED BY <3>1, ElementOfSeq
  <2>5. /\ u \in Seq(Nat) /\ Len(u) = IF k + 1 <= m THEN m - (k + 1) + 1 ELSE 0
        /\ \A i \in 1..(m - (k + 1) + 1) : u[i] = s[(k + 1) + i - 1]
    BY <2>3, <2>4, SubSeqProperties
  <2>6. Len(u) = n
    BY <2>1, <2>5
  <2>7. ASSUME NEW i \in 1..n
        PROVE  u[i] = s[k + i] /\ k + i \in 1..m
    <3>1. i \in 1..(m - (k + 1) + 1) /\ (k + 1) + i - 1 = k + i /\ k + i \in 1..m
      BY <2>1
    <3> QED BY <2>5, <3>1
  <2>8. EndsWithText(s, t, fold) <=> \A i \in 1..n : Same(u[i], t[i], fold)
    <3>1. EndsWithText(s, t, fold) <=> EqualsText(u, t, fold)
      BY <1>1, <1>6, <2>2 DEF EndsWithText
    <3>2. DOMAIN t = 1..n
      BY <1>1, LenProperties
    <3> QED BY <1>1, <2>6, <3>1, <3>2 DEF EqualsText
  <2>9. ASSUME NEW i \in 1..n
        PROVE  Same(u[i], t[i], fold) <=> a[k + i] = b[i]
    <3>1. PICK j \in 1..Len(s) : j = k + i
      BY <1>1, <2>7
    <3>2. u[i] = s[j] /\ i \in 1..Len(t)
      BY <1>1, <2>7, <3>1
    <3>3. Same(s[j], t[i], fold) <=> Folds(s, fold)[j] = Folds(t, fold)[i]
      BY <3>1, <3>2, FoldsCompare
    <3> QED BY <1>2, <3>1, <3>2, <3>3
  <2>10. (\A i \in 1..n : a[k + i] = b[i]) <=> \A i \in 1..n : a[(m - i) + 1] = b[(n - i) + 1]
    <3>1. \A i \in 1..n : (n - i) + 1 \in 1..n /\ k + ((n - i) + 1) = (m - i) + 1
      BY <2>1
    <3>2. \A i \in 1..n : (n - ((n - i) + 1)) + 1 = i /\ (m - ((n - i) + 1)) + 1 = k + i
      BY <2>1
    <3>3. ASSUME \A i \in 1..n : a[k + i] = b[i], NEW i \in 1..n
          PROVE  a[(m - i) + 1] = b[(n - i) + 1]
      <4>1. PICK j \in 1..n : j = (n - i) + 1 /\ k + j = (m - i) + 1
        BY <3>1
      <4> QED BY <3>3, <4>1
    <3>4. ASSUME \A i \in 1..n : a[(m - i) + 1] = b[(n - i) + 1], NEW i \in 1..n
          PROVE  a[k + i] = b[i]
      <4>1. PICK j \in 1..n : (n - j) + 1 = i /\ (m - j) + 1 = k + i
        BY <3>1, <3>2
      <4> QED BY <3>4, <4>1
    <3> QED BY <3>3, <3>4
  <2> QED BY <1>2, <1>4, <1>6, <2>8, <2>9, <2>10
<1> QED BY <1>5, <1>6

-----------------------------------------------------------------------------
(* Strings, as predicates and getters see them.                            *)

\* The eight predicates of a string that is there...
LEMMA FluentOfValue ==
  ASSUME NEW rec, rec.is = "record", NEW adapter, NEW name,
         NEW s \in Seq(Nat), NEW t \in Seq(Nat), View(adapter, rec, name) = Value(s)
  PROVE  FluentString(adapter, name, t, rec) = Expected(Value(s), t)
<1>1. Viewed(adapter, rec, name) = {s}
  BY DEF Viewed, Value
<1>2. /\ PropertyEquals(adapter, name, t, rec, FALSE) = Yes(EqualsText(s, t, FALSE))
      /\ PropertyEquals(adapter, name, t, rec, TRUE) = Yes(EqualsText(s, t, TRUE))
      /\ PropertyContains(adapter, name, t, rec, FALSE) = Yes(ContainsText(s, t, FALSE))
      /\ PropertyContains(adapter, name, t, rec, TRUE) = Yes(ContainsText(s, t, TRUE))
      /\ PropertyStartsWith(adapter, name, t, rec, FALSE) = Yes(StartsWithText(s, t, FALSE))
      /\ PropertyStartsWith(adapter, name, t, rec, TRUE) = Yes(StartsWithText(s, t, TRUE))
      /\ PropertyEndsWith(adapter, name, t, rec, FALSE) = Yes(EndsWithText(s, t, FALSE))
      /\ PropertyEndsWith(adapter, name, t, rec, TRUE) = Yes(EndsWithText(s, t, TRUE))
  BY <1>1 DEF PropertyEquals, PropertyContains, PropertyStartsWith, PropertyEndsWith, ViewIs, Yes
<1>3. Folds(s, FALSE) = s /\ Folds(t, FALSE) = t /\ Folds(s, TRUE) = Ups(s) /\ Folds(t, TRUE) = Ups(t)
  BY DEF Folds
<1>4. /\ EqualsText(s, t, FALSE) <=> s = t
      /\ EqualsText(s, t, TRUE) <=> Ups(s) = Ups(t)
  <2>1. EqualsText(s, t, FALSE) <=> Folds(s, FALSE) = Folds(t, FALSE)
    BY EqualsIs
  <2>2. EqualsText(s, t, TRUE) <=> Folds(s, TRUE) = Folds(t, TRUE)
    BY EqualsIs
  <2> QED BY <1>3, <2>1, <2>2
<1>5. /\ ContainsText(s, t, FALSE) <=> Holds(s, t)
      /\ ContainsText(s, t, TRUE) <=> Holds(Ups(s), Ups(t))
  BY <1>3, ContainsIs
<1>6. /\ StartsWithText(s, t, FALSE) <=> Sub!IsPrefix(t, s)
      /\ StartsWithText(s, t, TRUE) <=> Sub!IsPrefix(Ups(t), Ups(s))
  BY <1>3, StartsIs
<1>7. /\ EndsWithText(s, t, FALSE) <=> Sub!IsSuffix(t, s)
      /\ EndsWithText(s, t, TRUE) <=> Sub!IsSuffix(Ups(t), Ups(s))
  BY <1>3, EndsIs
<1>8. Value(s).is = "value" /\ Value(s).v = s
  BY DEF Value
<1>9. Expected(Value(s), t) =
        [is |-> Yes(s = t), iEquals |-> Yes(Ups(s) = Ups(t)),
         contains |-> Yes(Holds(s, t)), iContains |-> Yes(Holds(Ups(s), Ups(t))),
         startsWith |-> Yes(Sub!IsPrefix(t, s)), iStartsWith |-> Yes(Sub!IsPrefix(Ups(t), Ups(s))),
         endsWith |-> Yes(Sub!IsSuffix(t, s)), iEndsWith |-> Yes(Sub!IsSuffix(Ups(t), Ups(s)))]
  BY <1>8 DEF Expected, Yes
<1> QED BY <1>2, <1>4, <1>5, <1>6, <1>7, <1>9 DEF FluentString, Yes

\* ... and of one that is not.
LEMMA FluentOfNone ==
  ASSUME NEW rec, rec.is = "record", NEW adapter, NEW name, NEW t, NEW r,
         View(adapter, rec, name).is # "value", r.is # "value"
  PROVE  FluentString(adapter, name, t, rec) = Expected(r, t)
<1>1. Viewed(adapter, rec, name) = {}
  BY DEF Viewed
<1>2. ASSUME NEW fold
      PROVE  /\ PropertyEquals(adapter, name, t, rec, fold) = "no"
             /\ PropertyContains(adapter, name, t, rec, fold) = "no"
             /\ PropertyStartsWith(adapter, name, t, rec, fold) = "no"
             /\ PropertyEndsWith(adapter, name, t, rec, fold) = "no"
  BY <1>1 DEF PropertyEquals, PropertyContains, PropertyStartsWith, PropertyEndsWith, ViewIs, Yes
<1>3. Expected(r, t) =
        [is |-> "no", iEquals |-> "no", contains |-> "no", iContains |-> "no",
         startsWith |-> "no", iStartsWith |-> "no", endsWith |-> "no", iEndsWith |-> "no"]
  BY DEF Expected, Yes
<1> QED BY <1>2, <1>3 DEF FluentString

LEMMA LastExists ==
  ASSUME NEW n \in Nat, NEW S \in SUBSET (1..n), S # {}
  PROVE  \E k \in S : \A j \in S : j <= k
<1> DEFINE mirrored == {n - k : k \in S}
<1>1. mirrored \in SUBSET Nat /\ mirrored # {}
  <2>1. \A k \in S : n - k \in Nat
    OBVIOUS
  <2>2. PICK k \in S : TRUE
    OBVIOUS
  <2>3. n - k \in mirrored
    OBVIOUS
  <2> QED BY <2>1, <2>3
<1>2. PICK m \in mirrored : \A l \in mirrored : m <= l
  BY <1>1, FirstExists
<1>3. PICK k \in S : m = n - k
  BY <1>2
<1>4. ASSUME NEW j \in S
      PROVE  j <= k
  <2>1. n - j \in mirrored
    OBVIOUS
  <2>2. n - k <= n - j
    BY <1>2, <1>3, <2>1
  <2> QED BY <2>2
<1> QED BY <1>4

LEMMA ContentTyped ==
  ASSUME NEW r, IsRecord(r), NEW f \in Spots(r), f # Nowhere, NEW w \in {1, 2}
  PROVE  Content(r, f, w) \in Seq(Nat)
<1> DEFINE n == f.size \div w
           some == {k \in 1..n : ~NullAt(r.data, f.at, w, k - 1)}
           last == CHOOSE k \in some : \A j \in some : j <= k
           length == IF some = {} THEN 0 ELSE last
<1>1. f.at \in Nat /\ f.size \in Nat /\ f.at + f.size <= Len(r.data)
  BY SpotsAre
<1>2. n \in Nat /\ n * w <= f.size
  <2>1. CASE w = 1
    BY <1>1, <2>1
  <2>2. CASE w = 2
    BY <1>1, <2>2
  <2> QED BY <2>1, <2>2
<1>3. some \in SUBSET (1..n)
  OBVIOUS
<1>4. Content(r, f, w) = [i \in 1..length |-> r.data[f.at + (i - 1) * w + 1]]
  BY DEF Content
<1> HIDE DEF some
<1>5. some # {} => last \in some
  BY <1>2, <1>3, LastExists
<1> HIDE DEF last
<1>6. length \in 0..n
  <2>1. some # {} => last \in 1..n
    BY <1>3, <1>5
  <2> HIDE DEF n
  <2> QED BY <1>2, <2>1
<1> HIDE DEF n, length
<1>7. PICK m : m = length
  OBVIOUS
<1>8. ASSUME NEW i \in 1..m
      PROVE  r.data[f.at + (i - 1) * w + 1] \in Nat
  <2>1. i \in 1..n /\ m \in Nat
    BY <1>2, <1>6, <1>7
  <2>2. f.at + (i - 1) * w + 1 \in 1..Len(r.data)
    <3>1. Len(r.data) \in Nat
      BY DataTyped DEF IsRecord
    <3>2. CASE w = 1
      BY <1>1, <1>2, <2>1, <3>1, <3>2
    <3>3. CASE w = 2
      BY <1>1, <1>2, <2>1, <3>1, <3>3
    <3> QED BY <3>2, <3>3
  <2> QED BY <2>2, DataTyped DEF IsRecord
<1>9. m \in Nat /\ Content(r, f, w) \in [1..m -> Nat]
  <2>1. m \in Nat
    BY <1>2, <1>6, <1>7
  <2>2. Content(r, f, w) = [i \in 1..m |-> r.data[f.at + (i - 1) * w + 1]]
    BY <1>4, <1>7
  <2> QED BY <1>8, <2>1, <2>2
<1> QED BY <1>9, FunctionIsSeq

LEMMA CountedTyped ==
  ASSUME NEW r, IsRecord(r), NEW f \in Spots(r), f # Nowhere
  PROVE  ParseCounted(r, f) = Beyond \/ \E v \in Seq(Nat) : ParseCounted(r, f) = Value(v)
<1>1. f.at \in Nat /\ Len(r.data) \in Nat
  BY SpotsAre, DataTyped DEF IsRecord
<1>2. Beyond.is # "value" /\ \A v : Value(v).is = "value" /\ Value(v).v = v
  BY DEF Beyond, Value
<1>3. CASE f.at + 2 > Len(r.data)
  BY <1>3 DEF ParseCounted
<1>4. CASE f.at + 2 <= Len(r.data)
  <2>1. r.data[f.at + 1] \in Nat
    <3>1. f.at + 1 \in 1..Len(r.data)
      BY <1>1, <1>4
    <3> QED BY <3>1, DataTyped DEF IsRecord
  <2>2. PICK h \in Nat : h = r.data[f.at + 1] \div 2
    BY <2>1
  <2>3. PICK q : q = Read(r, f.at + 2, h * 2)
    OBVIOUS
  <2>4. ParseCounted(r, f) =
          IF q.is = "value" THEN Value([i \in 1..(Len(q.v) \div 2) |-> q.v[2 * i - 1]]) ELSE q
    <3>1. ~(f.at + 2 > Len(r.data)) /\ q = Read(r, f.at + 2, (r.data[f.at + 1] \div 2) * 2)
      BY <1>1, <1>4, <2>2, <2>3
    <3> QED BY <3>1 DEF ParseCounted
  <2>5. CASE (f.at + 2) + h * 2 > Len(r.data)
    <3>1. ~((f.at + 2) + h * 2 <= Len(r.data))
      BY <1>1, <2>2, <2>5
    <3>2. q = Beyond
      BY <2>3, <3>1 DEF Read
    <3> QED BY <1>2, <2>4, <3>2
  <2>6. CASE (f.at + 2) + h * 2 <= Len(r.data)
    <3>1. PICK u : u = SubSeq(r.data, (f.at + 2) + 1, (f.at + 2) + h * 2)
      OBVIOUS
    <3>2. q = Value(u)
      BY <2>3, <2>6, <3>1 DEF Read
    <3>3. PICK m \in Nat, e \in Nat : m = (f.at + 2) + 1 /\ e = (f.at + 2) + h * 2 /\ e = (m - 1) + h * 2
      <4>1. (f.at + 2) + 1 \in Nat /\ (f.at + 2) + h * 2 \in Nat
        BY <1>1, <2>2
      <4>2. (f.at + 2) + h * 2 = (((f.at + 2) + 1) - 1) + h * 2
        BY <1>1, <2>2
      <4> QED BY <4>1, <4>2
    <3>4. \A i \in m..e : r.data[i] \in Nat
      <4> TAKE i \in m..e
      <4>1. i \in 1..Len(r.data)
        BY <1>1, <2>6, <3>3
      <4> QED BY <4>1, DataTyped DEF IsRecord
    <3>5. u \in Seq(Nat) /\ Len(u) = IF m <= e THEN e - m + 1 ELSE 0
      BY <3>1, <3>3, <3>4, SubSeqProperties
    <3>6. Len(u) = h * 2 /\ Len(u) \div 2 = h
      <4>1. Len(u) = h * 2
        <5> PICK k \in Nat : k = h * 2
          BY <2>2
        <5>1. e = (m - 1) + k
          BY <3>3
        <5>2. m <= e => (e - m) + 1 = k
          BY <5>1
        <5>3. ~(m <= e) => k = 0
          BY <5>1
        <5> QED BY <3>5, <5>2, <5>3
      <4> QED BY <2>2, <4>1
    <3>7. \A i \in 1..h : u[2 * i - 1] \in Nat
      <4> TAKE i \in 1..h
      <4>1. 2 * i - 1 \in 1..Len(u)
        BY <2>2, <3>6
      <4> QED BY <3>5, <4>1, ElementOfSeq
    <3>8. [i \in 1..h |-> u[2 * i - 1]] \in Seq(Nat)
      <4>1. [i \in 1..h |-> u[2 * i - 1]] \in [1..h -> Nat]
        BY <3>7
      <4> QED BY <4>1, FunctionIsSeq
    <3>9. ParseCounted(r, f) = Value([i \in 1..h |-> u[2 * i - 1]])
      BY <1>2, <2>4, <3>2, <3>6
    <3> QED BY <3>8, <3>9
  <2> QED BY <1>1, <2>2, <2>5, <2>6
<1> QED BY <1>1, <1>3, <1>4

LEMMA CutByNulls ==
  ASSUME NEW v, \A i \in DOMAIN v : v[i] # 0
  PROVE  FromCStr(v) = v
BY DEF FromCStr

-----------------------------------------------------------------------------
(* What the getters give for strings.                                      *)

LEMMA GetterOfNone ==
  ASSUME NEW T, NEW rec, NEW name, NEW d, Find(rec, name) = Nowhere
  PROVE  Forms(T, rec, name, d).get.is # "value"
<1>1. ParseValue(T, rec, name) = Failure
  BY DEF ParseValue, ParseFound
<1>2. GetValue(T, rec, name) = ParserException
  BY <1>1 DEF GetValue, Caught, Failure, ParserException
<1> QED BY <1>2 DEF Forms, Get, Managed, ParserException, Throws

\* The type assertion passes, so that the getter gives what is parsed.
LEMMA GetterParses ==
  ASSUME NEW T, NEW rec, NEW name, NEW d, NEW p, p = rec.schema[IndexOf(rec, name)],
         NEW f, f = Find(rec, name), f # Nowhere,
         \/ T = "wstring" /\ p.type = "UNICODESTRING"
         \/ T = "string" /\ p.type = "ANSISTRING"
         \/ T = "counted" /\ p.type = "COUNTEDSTRING",
         NEW r, r = ParseAs(T, rec, p, f), r = Beyond \/ \E v : r = Value(v)
  PROVE  Forms(T, rec, name, d).get = Managed(T, r)
<1>1. Morphism["wstring"] = "UNICODESTRING" /\ Morphism["string"] = "ANSISTRING"
  BY DEF Morphism
<1>2. "counted" \notin Strict
  BY DEF Strict
<1>3. Asserted(T, p) = "ok"
  BY <1>1, <1>2 DEF Asserted
<1>4. ParseValue(T, rec, name) = r
  BY <1>3 DEF ParseValue, ParseFound
<1>5. r.is # "mismatch" /\ r.is # "error"
  <2>1. Beyond.is = "beyond" /\ \A v : Value(v).is = "value"
    BY DEF Beyond, Value
  <2> QED BY <2>1
<1>6. GetValue(T, rec, name) = r
  BY <1>4, <1>5 DEF GetValue, Caught
<1> QED BY <1>6 DEF Forms, Get

\* Which getter and which type of property an adapter is for.
Reads(adapter, T, type) ==
  \/ adapter = "wide" /\ T = "wstring" /\ type = "UNICODESTRING"
  \/ adapter = "narrow" /\ T = "string" /\ type = "ANSISTRING"

OfType(rec, name, type) == IndexOf(rec, name) # 0 => rec.schema[IndexOf(rec, name)].type = type

\* A string of the schema, by its characters: the predicates agree with the getter.
LEMMA TextAgrees ==
  ASSUME NEW rec, IsRecord(rec), rec.is = "record", NEW name, NEW d, NEW t \in Seq(Nat),
         NEW adapter, NEW T, NEW type, Reads(adapter, T, type), OfType(rec, name, type),
         NoNulls(View(adapter, rec, name))
  PROVE  FluentString(adapter, name, t, rec) = Expected(Forms(T, rec, name, d).get, t)
<1>1. PICK f \in Spots(rec) : f = Find(rec, name)
  BY FindTyped
<1>2. CASE f = Nowhere
  <2>1. View(adapter, rec, name).is # "value"
    <3>1. View(adapter, rec, name) = Failure
      BY <1>1, <1>2 DEF View, Adapted
    <3> QED BY <3>1 DEF Failure
  <2>2. PICK r : r = Forms(T, rec, name, d).get
    OBVIOUS
  <2>3. r.is # "value"
    BY <1>1, <1>2, <2>2, GetterOfNone
  <2> QED BY <2>1, <2>2, <2>3, FluentOfNone
<1>3. CASE f # Nowhere
  <2> USE DEF Reads
  <2>1. PICK w \in {1, 2} : w = IF adapter = "wide" THEN 2 ELSE 1
    OBVIOUS
  <2>2. PICK s \in Seq(Nat) : s = Content(rec, f, w)
    BY <1>3, ContentTyped
  <2>3. View(adapter, rec, name) = Value(s)
    BY <1>1, <1>3, <2>1, <2>2 DEF View, Adapted
  <2>4. FromCStr(s) = s
    <3>1. \A i \in DOMAIN s : s[i] # 0
      BY <2>3 DEF NoNulls, Value
    <3> QED BY <3>1, CutByNulls
  <2>5. PICK p : p = rec.schema[IndexOf(rec, name)]
    OBVIOUS
  <2>6. p.type = type
    BY <1>1, <1>3, <2>5, FindTyped DEF OfType
  <2>7. ParseAs(T, rec, p, f) = Value(s)
    BY <2>1, <2>2 DEF ParseAs
  <2>8. Forms(T, rec, name, d).get = Managed(T, Value(s))
    BY <1>1, <1>3, <2>5, <2>6, <2>7, GetterParses
  <2>9. Managed(T, Value(s)) = Value(s)
    BY <2>4 DEF Managed, ToManaged, Value
  <2> QED BY <2>3, <2>8, <2>9, FluentOfValue
<1> QED BY <1>2, <1>3

LEMMA CountedAgrees ==
  ASSUME NEW rec, IsRecord(rec), rec.is = "record", NEW name, NEW d, NEW t \in Seq(Nat),
         OfType(rec, name, "COUNTEDSTRING")
  PROVE  FluentString("counted", name, t, rec) = Expected(Forms("counted", rec, name, d).get, t)
<1>1. PICK f \in Spots(rec) : f = Find(rec, name)
  BY FindTyped
<1>2. CASE f = Nowhere
  <2>1. View("counted", rec, name).is # "value"
    <3>1. View("counted", rec, name) = Failure
      BY <1>1, <1>2 DEF View, Adapted
    <3> QED BY <3>1 DEF Failure
  <2>2. PICK r : r = Forms("counted", rec, name, d).get
    OBVIOUS
  <2>3. r.is # "value"
    BY <1>1, <1>2, <2>2, GetterOfNone
  <2> QED BY <2>1, <2>2, <2>3, FluentOfNone
<1>3. CASE f # Nowhere
  <2>1. PICK r : r = ParseCounted(rec, f)
    OBVIOUS
  <2>2. r = Beyond \/ \E v \in Seq(Nat) : r = Value(v)
    BY <1>3, <2>1, CountedTyped
  <2>3. View("counted", rec, name) = r
    BY <1>1, <1>3, <2>1 DEF View, Adapted
  <2>4. PICK p : p = rec.schema[IndexOf(rec, name)]
    OBVIOUS
  <2>5. p.type = "COUNTEDSTRING"
    BY <1>1, <1>3, <2>4, FindTyped DEF OfType
  <2>6. ParseAs("counted", rec, p, f) = r
    BY <2>1 DEF ParseAs
  <2>7. Forms("counted", rec, name, d).get = Managed("counted", r)
    BY <1>1, <1>3, <2>2, <2>4, <2>5, <2>6, GetterParses
  <2>8. Managed("counted", r) = r
    BY <2>2 DEF Managed, ToManaged, Value, Beyond
  <2>9. CASE r = Beyond
    <3>1. r.is # "value"
      BY <2>9 DEF Beyond
    <3> QED BY <2>3, <2>7, <2>8, <3>1, FluentOfNone
  <2>10. CASE \E v \in Seq(Nat) : r = Value(v)
    BY <2>3, <2>7, <2>8, <2>10, FluentOfValue
  <2> QED BY <2>2, <2>9, <2>10
<1> QED BY <1>2, <1>3

-----------------------------------------------------------------------------
(* Records that are built.                                                 *)

LEMMA ZerosTyped ==
  ASSUME NEW n \in Nat
  PROVE  Zeros(n) \in Seq(Octets) /\ Len(Zeros(n)) = n
<1>1. Zeros(n) \in [1..n -> Octets]
  BY DEF Zeros, Octets
<1> QED BY <1>1, FunctionIsSeq

LEMMA EncodeTyped ==
  ASSUME NEW type, NEW s \in Seq(Octets)
  PROVE  Encode(type, s) \in Seq(Octets) /\ Len(Encode(type, s)) = Len(s) * Width(type)
<1>1. PICK w \in {1, 2} : w = Width(type)
  BY Widths
<1>2. PICK n \in Nat : n = Len(s)
  BY LenProperties
<1>3. PICK m \in Nat : m = n * w
  BY <1>1
<1>4. \A i \in 1..m : (i - 1) \div w + 1 \in 1..n
  <2>1. CASE w = 1
    BY <1>3, <2>1
  <2>2. CASE w = 2
    BY <1>3, <2>2
  <2> QED BY <2>1, <2>2
<1>5. \A i \in 1..m : s[(i - 1) \div w + 1] \in Octets
  BY <1>2, <1>4, ElementOfSeq
<1>6. 0 \in Octets
  BY DEF Octets
<1>7. Encode(type, s) = [i \in 1..m |-> IF i % w = 1 % w THEN s[(i - 1) \div w + 1] ELSE 0]
  BY <1>1, <1>2, <1>3 DEF Encode
<1>8. Encode(type, s) \in [1..m -> Octets]
  BY <1>5, <1>6, <1>7
<1> QED BY <1>1, <1>2, <1>3, <1>8, FunctionIsSeq

LEMMA ThunkBytesTyped ==
  ASSUME NEW T, NEW v \in Seq(Octets)
  PROVE  ThunkBytes(T, v) \in Seq(Octets)
<1>1. Encode(Morphism[T], v) \in Seq(Octets)
  BY EncodeTyped
<1>2. Zeros(Width(Morphism[T])) \in Seq(Octets) /\ Zeros(3) \in Seq(Octets)
  <2>1. Width(Morphism[T]) \in Nat
    BY Widths
  <2> QED BY <2>1, ZerosTyped
<1> QED BY <1>1, <1>2, ConcatProperties DEF ThunkBytes

\* The properties that a client can give to a builder.
SchemaNames == UNION {{ps[i].name : i \in DOMAIN ps} : ps \in Schemas}
AllThunks == {Thunk(q[1], q[2]) : q \in (PropNames \cup SchemaNames) \X Supplies}

\* A builder has only such properties, and the schema of an event.
BuilderInv == schema \in Schemas \cup {NoSchema} /\ thunks \in Seq(AllThunks)

LEMMA AThunk ==
  ASSUME NEW name \in PropNames \cup SchemaNames, NEW s \in Supplies
  PROVE  Thunk(name, s) \in AllThunks
<1>1. <<name, s>> \in (PropNames \cup SchemaNames) \X Supplies
  OBVIOUS
<1> QED BY <1>1 DEF AllThunks

LEMMA ThunksHaveBytes == \A t \in AllThunks : t.bytes \in Seq(Octets)
<1> TAKE t \in AllThunks
<1>1. PICK q \in (PropNames \cup SchemaNames) \X Supplies : t = Thunk(q[1], q[2])
  BY DEF AllThunks
<1> PICK name, s : name = q[1] /\ s = q[2]
  OBVIOUS
<1>2. s.v \in Seq(Octets)
  <2>1. s \in Supplies
    OBVIOUS
  <2> QED BY <2>1, BuilderAssumption DEF IsValue
<1>3. t.bytes = ThunkBytes(s.type, s.v)
  BY <1>1 DEF Thunk
<1> QED BY <1>2, <1>3, ThunkBytesTyped

LEMMA BuilderInvariant == RecordsSpec => []BuilderInv
<1>1. BuilderInit => BuilderInv
  BY DEF BuilderInit, BuilderInv
<1>2. BuilderInv /\ [RecordsNext]_rvars => BuilderInv'
  <2> SUFFICES ASSUME BuilderInv, [RecordsNext]_rvars
               PROVE  BuilderInv'
    OBVIOUS
  <2>1. ASSUME NEW name \in PropNames, NEW s \in Supplies, AddProperties(<<Thunk(name, s)>>)
        PROVE  BuilderInv'
    <3>1. PICK ts : ts = <<Thunk(name, s)>>
      OBVIOUS
    <3>2. ts \in Seq(AllThunks)
      BY <3>1, AThunk
    <3>3. thunks \o ts \in Seq(AllThunks)
      BY <3>2, ConcatProperties DEF BuilderInv
    <3> QED BY <2>1, <3>1, <3>3 DEF AddProperties, BuilderInv
  <2>2. ASSUME NEW ts \in CompleteSets,
               AddProperties([i \in DOMAIN schema |-> Thunk(schema[i].name, ts[i])])
        PROVE  BuilderInv'
    <3>1. PICK us : us = [i \in DOMAIN schema |-> Thunk(schema[i].name, ts[i])]
      OBVIOUS
    <3>2. schema \in Schemas /\ ts \in [DOMAIN schema -> Supplies]
      BY DEF CompleteSets, BuilderInv
    <3>3. \A i \in DOMAIN schema : Thunk(schema[i].name, ts[i]) \in AllThunks
      <4> TAKE i \in DOMAIN schema
      <4>1. schema[i].name \in PropNames \cup SchemaNames
        BY <3>2 DEF SchemaNames
      <4> QED BY <3>2, <4>1, AThunk
    <3>4. PICK n \in Nat : DOMAIN schema = 1..n
      BY <3>2, BuilderAssumption, SchemaTyped
    <3>5. us \in [1..n -> AllThunks]
      BY <3>1, <3>3, <3>4
    <3>6. us \in Seq(AllThunks)
      BY <3>5, FunctionIsSeq
    <3>7. thunks \o us \in Seq(AllThunks)
      BY <3>6, ConcatProperties DEF BuilderInv
    <3> QED BY <2>2, <3>1, <3>7 DEF AddProperties, BuilderInv
  <2>3. CASE UNCHANGED <<schema, thunks>>
    BY <2>3 DEF BuilderInv
  <2> QED BY <2>1, <2>2, <2>3 DEF RecordsNext, BuilderNext, AddContainerId, AddProcessStartKey, AddItem,
          EditHeader, Build, Pack, PackIncomplete, ReceiveRecord, rvars
<1> QED BY <1>1, <1>2, PTL DEF RecordsSpec

\* The first of the properties of that name.
LEMMA FirstThunkTyped ==
  ASSUME BuilderInv, NEW name
  PROVE  FirstThunk(name) = 0 \/ FirstThunk(name) \in DOMAIN thunks
<1> DEFINE is == {i \in DOMAIN thunks : thunks[i].name = name}
           first == CHOOSE i \in is : \A j \in is : i <= j
<1>1. FirstThunk(name) = IF is = {} THEN 0 ELSE first
  BY DEF FirstThunk
<1>2. is \in SUBSET Nat /\ is \subseteq DOMAIN thunks
  BY LenProperties DEF BuilderInv
<1> HIDE DEF is
<1>3. is # {} => first \in is
  BY <1>2, FirstExists
<1> HIDE DEF first
<1> QED BY <1>1, <1>2, <1>3

LEMMA FillSizes == \A type \in DOMAIN FillSize : FillSize[type] \in Nat
BY DEF FillSize

\* What the loop of pack_impl has at each turn.
Accumulators == [data : Seq(Octets), unfilled : SUBSET SchemaNames, toTrim : {0, 1, 2},
                 error : {"none", "invalid_argument", "runtime_error"}]

LEMMA PackPropertyTyped ==
  ASSUME BuilderInv, NEW acc \in Accumulators, NEW p, p.name \in SchemaNames
  PROVE  PackProperty(acc, p) \in Accumulators
<1>1. PICK i : i = FirstThunk(p.name)
  OBVIOUS
<1>2. CASE i # 0
  <2>1. PICK bytes \in Seq(Octets) : bytes = thunks[i].bytes
    <3>1. i \in DOMAIN thunks
      BY <1>1, <1>2, FirstThunkTyped
    <3>2. thunks[i] \in AllThunks
      BY <3>1, ElementOfSeq, LenProperties DEF BuilderInv
    <3> QED BY <3>2, ThunksHaveBytes
  <2>2. PICK n \in {0, 1, 2} : n = IF p.type \in StringTypes THEN Width(p.type) ELSE 0
    BY Widths
  <2>3. PICK data \in Seq(Octets) : data = acc.data \o bytes
    BY ConcatProperties DEF Accumulators
  <2>4. PackProperty(acc, p) =
          IF thunks[i].type # p.type THEN [acc EXCEPT !.error = "invalid_argument"]
          ELSE [acc EXCEPT !.data = data, !.toTrim = n]
    BY <1>1, <1>2, <2>1, <2>2, <2>3 DEF PackProperty, Accumulators
  <2> QED BY <2>4 DEF Accumulators
<1>3. CASE i = 0 /\ p.type \notin DOMAIN FillSize
  <2>1. PackProperty(acc, p) = [acc EXCEPT !.error = "runtime_error"]
    BY <1>1, <1>3 DEF PackProperty
  <2> QED BY <2>1 DEF Accumulators
<1>4. CASE i = 0 /\ p.type \in DOMAIN FillSize
  <2>1. PICK zeros \in Seq(Octets) : zeros = Zeros(FillSize[p.type])
    BY <1>4, FillSizes, ZerosTyped
  <2>2. PICK data \in Seq(Octets) : data = acc.data \o zeros
    BY ConcatProperties DEF Accumulators
  <2>3. PICK unfilled \in SUBSET SchemaNames : unfilled = acc.unfilled \cup {p.name}
    BY DEF Accumulators
  <2>4. PackProperty(acc, p) = [acc EXCEPT !.data = data, !.toTrim = 0, !.unfilled = unfilled]
    BY <1>1, <1>4, <2>1, <2>2, <2>3 DEF PackProperty
  <2> QED BY <2>4 DEF Accumulators
<1> QED BY <1>2, <1>3, <1>4

\* One turn of the loop, which an exception ends; and all of it.
Turn(acc, p) == IF acc.error # "none" THEN acc ELSE PackProperty(acc, p)
Turns(n, f) == [i \in 0..n |-> IF i = 0 THEN Packing ELSE Turn(f[i - 1], schema[i])]

Packs(n, f) ==
  /\ f[0] = Packing
  /\ \A i \in 1..n : f[i] = Turn(f[i - 1], schema[i])
  /\ \A i \in 0..n : f[i] \in Accumulators

LEMMA TurnsPack ==
  ASSUME BuilderInv, schema # NoSchema, NEW n \in Nat, n = Len(schema),
         NEW f, f = CHOOSE h : h = Turns(n, h)
  PROVE  Packs(n, f)
<1> DEFINE turn == [q \in Accumulators \X (1..n) |-> Turn(q[1], schema[q[2]])]
<1>1. \A i \in 1..n : schema[i].name \in SchemaNames
  <2>1. schema \in Schemas
    BY DEF BuilderInv
  <2>2. DOMAIN schema = 1..n
    BY <2>1, BuilderAssumption, SchemaTyped
  <2> QED BY <2>1, <2>2 DEF SchemaNames
<1>2. turn \in [Accumulators \X (1..n) -> Accumulators]
  BY <1>1, PackPropertyTyped DEF Turn
<1>3. \A acc \in Accumulators, i \in 1..n : turn[<<acc, i>>] = Turn(acc, schema[i])
  OBVIOUS
<1>4. Packing \in Accumulators
  BY DEF Packing, Accumulators
<1> HIDE DEF turn
<1>5. PICK g : Follows(n, Accumulators, Packing, turn, g)
  BY <1>2, <1>4, RecursionExists
<1>6. g \in [0..n -> Accumulators] /\ g[0] = Packing
  BY <1>5 DEF Follows
<1>7. ASSUME NEW i \in 1..n
      PROVE  g[i] = Turn(g[i - 1], schema[i])
  <2>1. i - 1 \in 0..n /\ g[i] = turn[<<g[i - 1], i>>]
    BY <1>5 DEF Follows
  <2>2. g[i - 1] \in Accumulators
    BY <1>6, <2>1
  <2> QED BY <1>3, <2>1, <2>2
<1>8. g = Turns(n, g)
  <2>1. g = [i \in 0..n |-> g[i]]
    BY <1>6
  <2>2. \A i \in 0..n : g[i] = IF i = 0 THEN Packing ELSE Turn(g[i - 1], schema[i])
    <3> TAKE i \in 0..n
    <3>1. i = 0 \/ i \in 1..n
      OBVIOUS
    <3> QED BY <1>6, <1>7, <3>1
  <2> QED BY <2>1, <2>2 DEF Turns
<1>9. f = Turns(n, f)
  BY <1>8
<1>10. f[0] = Packing /\ \A i \in 1..n : f[i] = Turn(f[i - 1], schema[i])
  <2>1. f = [i \in 0..n |-> IF i = 0 THEN Packing ELSE Turn(f[i - 1], schema[i])]
    BY <1>9 DEF Turns
  <2>2. 0 \in 0..n /\ \A i \in 1..n : i \in 0..n /\ i # 0
    OBVIOUS
  <2> QED BY <2>1, <2>2
<1>11. Alike(n, f, g)
  BY <1>6, <1>7, <1>10 DEF Alike
<1>12. Agree(n, f, g)
  BY <1>11, RecursionUnique
<1> QED BY <1>6, <1>10, <1>12 DEF Agree, Packs

LEMMA PackedData ==
  ASSUME BuilderInv, schema # NoSchema
  PROVE  PackImpl.data \in Seq(Octets)
<1>1. PICK n \in Nat : n = Len(schema)
  BY BuilderAssumption, SchemaTyped DEF BuilderInv
<1>2. PICK f : f = CHOOSE h : h = Turns(n, h)
  OBVIOUS
<1>3. PICK all \in Accumulators : all = f[n]
  <2>1. Packs(n, f)
    BY <1>1, <1>2, TurnsPack
  <2> QED BY <2>1 DEF Packs
<1>4. PackImpl = IF trim THEN [all EXCEPT !.data = SubSeq(@, 1, Len(@) - all.toTrim)] ELSE all
  BY <1>1, <1>2, <1>3 DEF PackImpl, Turns, Turn
<1>5. PICK data \in Seq(Octets), k \in {0, 1, 2} : data = all.data /\ k = all.toTrim
  BY DEF Accumulators
<1>6. SubSeq(data, 1, Len(data) - k) \in Seq(Octets)
  <2>1. PICK m \in Int : m = Len(data) - k /\ m <= Len(data)
    <3>1. Len(data) \in Nat
      BY LenProperties
    <3>2. Len(data) - k \in Int /\ Len(data) - k <= Len(data)
      BY <3>1
    <3> QED BY <3>2
  <2>2. \A i \in 1..m : data[i] \in Octets
    <3> TAKE i \in 1..m
    <3>1. i \in 1..Len(data)
      BY <2>1, LenProperties
    <3> QED BY <3>1, ElementOfSeq
  <2> QED BY <2>1, <2>2, SubSeqProperties
<1> QED BY <1>4, <1>5, <1>6 DEF Accumulators

LEMMA UserDataTyped ==
  ASSUME NEW data \in Seq(Octets)
  PROVE  UserData(data) \in Seq(Octets) /\ (Len(data) < 65536 => UserData(data) = data)
<1>1. PICK n \in Nat : n = Len(data)
  BY LenProperties
<1>2. PICK m \in Nat : m = n % 65536
  BY SMT
<1>3. m <= n /\ (n < 65536 => m = n)
  BY <1>2, SMT
<1>4. UserData(data) = SubSeq(data, 1, m)
  BY <1>1, <1>2 DEF UserData
<1>5. \A i \in 1..m : data[i] \in Octets
  <2> TAKE i \in 1..m
  <2>1. i \in 1..Len(data)
    BY <1>1, <1>3
  <2> QED BY <2>1, ElementOfSeq
<1>6. SubSeq(data, 1, m) \in Seq(Octets)
  BY <1>5, SubSeqProperties
<1>7. SubSeq(data, 1, n) = data
  <2>1. SubSeq(data, 1, Len(data)) = data
    BY SubSeqFull
  <2> QED BY <1>1, <2>1
<1>8. ASSUME Len(data) < 65536
      PROVE  m = n
  BY <1>1, <1>3, <1>8, SMT
<1>9. UserData(data) \in Seq(Octets) /\ (m = n => UserData(data) = data)
  BY <1>4, <1>6, <1>7
<1> QED BY <1>8, <1>9

LEMMA SeenIsRecord ==
  ASSUME BuilderInv, Seen
  PROVE  IsRecord(built) /\ built.is = "record"
<1>1. CASE built \in Received
  BY <1>1, RecordsAssumption DEF IsRecord
<1>2. CASE UpToDate
  <2>1. built = Record /\ built.is = "record" /\ schema # NoSchema
    BY <1>2 DEF UpToDate, Built
  <2>2. IsSchema(schema) /\ UserData(PackImpl.data) \in Seq(Octets)
    BY <2>1, BuilderAssumption, PackedData, UserDataTyped DEF BuilderInv
  <2>3. Record.schema = schema /\ Record.data = UserData(PackImpl.data)
    BY DEF Record
  <2> QED BY <2>1, <2>2, <2>3 DEF IsRecord
<1> QED BY <1>1, <1>2 DEF Seen

\* Whatever an event has, the predicates over its strings say of them what their getters
\* give, for all schemas, records and texts (Records: PredicatesAgree).
THEOREM PredicatesSeeWhatIsRead == RecordsSpec => []PredicatesAgree
<1>1. BuilderInv => PredicatesAgree
  <2> SUFFICES ASSUME BuilderInv, Seen, NEW name \in PropNames, NEW t \in Texts
               PROVE  /\ Fits(name, "UNICODESTRING") /\ NoNulls(View("wide", built, name)) =>
                           UnicodeStringIs(name, t, built)
                             = Expected(UnicodeString(built, name, Failure).get, t)
                      /\ Fits(name, "ANSISTRING") /\ NoNulls(View("narrow", built, name)) =>
                           AnsiStringIs(name, t, built)
                             = Expected(AnsiString(built, name, Failure).get, t)
                      /\ Fits(name, "COUNTEDSTRING") =>
                           CountedStringIs(name, t, built)
                             = Expected(CountedString(built, name, Failure).get, t)
    BY DEF PredicatesAgree
  <2>1. IsRecord(built) /\ built.is = "record"
    BY SeenIsRecord
  <2>2. t \in Seq(Nat)
    BY RecordsAssumption
  <2>3. PICK rec : rec = built
    OBVIOUS
  <2>4. IsRecord(rec) /\ rec.is = "record"
    BY <2>1, <2>3
  <2>5. ASSUME Fits(name, "UNICODESTRING"), NoNulls(View("wide", rec, name))
        PROVE  FluentString("wide", name, t, rec) = Expected(Forms("wstring", rec, name, Failure).get, t)
    <3>1. Reads("wide", "wstring", "UNICODESTRING")
      BY DEF Reads
    <3>2. OfType(rec, name, "UNICODESTRING")
      BY <2>3, <2>5 DEF Fits, OfType
    <3> QED BY <2>2, <2>4, <2>5, <3>1, <3>2, TextAgrees
  <2>6. ASSUME Fits(name, "ANSISTRING"), NoNulls(View("narrow", rec, name))
        PROVE  FluentString("narrow", name, t, rec) = Expected(Forms("string", rec, name, Failure).get, t)
    <3>1. Reads("narrow", "string", "ANSISTRING")
      BY DEF Reads
    <3>2. OfType(rec, name, "ANSISTRING")
      BY <2>3, <2>6 DEF Fits, OfType
    <3> QED BY <2>2, <2>4, <2>6, <3>1, <3>2, TextAgrees
  <2>7. ASSUME Fits(name, "COUNTEDSTRING")
        PROVE  FluentString("counted", name, t, rec) = Expected(Forms("counted", rec, name, Failure).get, t)
    BY <2>2, <2>3, <2>4, <2>7, CountedAgrees DEF Fits, OfType
  <2> QED BY <2>3, <2>5, <2>6, <2>7 DEF UnicodeStringIs, AnsiStringIs, CountedStringIs,
             UnicodeString, AnsiString, CountedString
<1> QED BY <1>1, BuilderInvariant, PTL

-----------------------------------------------------------------------------
(* Strings in a record.                                                  *)

\* The characters of s are at that offset, in w bytes each; then the record ends (more = 0),
\* or there is a null (more = 1).
TextAt(data, at, w, s, more) ==
  /\ \A k \in 0..(Len(s) - 1) :
       at + (k + 1) * w <= Len(data) /\ data[at + k * w + 1] = s[k + 1] /\ s[k + 1] # 0
  /\ more = 0 => Len(data) = at + Len(s) * w
  /\ more = 1 => at + (Len(s) + 1) * w <= Len(data) /\ NullAt(data, at, w, Len(s))

\* The characters are no nulls, and the end of the record is not before the last.
LEMMA NullsOfText ==
  ASSUME NEW data \in Seq(Octets), NEW at \in Nat, NEW w \in {1, 2}, NEW s \in Seq(Octets),
         NEW more \in {0, 1}, TextAt(data, at, w, s, more), NEW k \in 0..(Len(s) - 1)
  PROVE  ~NullAt(data, at, w, k) /\ (more = 1 \/ k + 1 < Len(s) => at + (k + 1) * w < Len(data))
<1>1. Len(data) \in Nat /\ Len(s) \in Nat
  BY LenProperties
<1>2. at + (k + 1) * w <= Len(data) /\ data[at + k * w + 1] # 0
  BY DEF TextAt
<1>3. ~NullAt(data, at, w, k)
  <2>1. at + k * w + 1 <= Len(data) /\ 1 \in 1..w
    <3>1. CASE w = 1
      BY <1>1, <1>2, <3>1
    <3>2. CASE w = 2
      BY <1>1, <1>2, <3>2
    <3> QED BY <3>1, <3>2
  <2> QED BY <1>2, <2>1 DEF NullAt
<1>4. ASSUME more = 1
      PROVE  at + (k + 1) * w < Len(data)
  <2>1. at + (Len(s) + 1) * w <= Len(data)
    BY <1>4 DEF TextAt
  <2>2. CASE w = 1
    BY <1>1, <2>1, <2>2
  <2>3. CASE w = 2
    BY <1>1, <2>1, <2>3
  <2> QED BY <2>2, <2>3
<1>5. ASSUME k + 1 < Len(s)
      PROVE  at + (k + 1) * w < Len(data)
  <2>1. k + 1 \in 0..(Len(s) - 1) /\ k + 1 \in Nat
    BY <1>1, <1>5
  <2>2. PICK m \in Nat : m = k + 1
    BY <2>1
  <2>3. at + (m + 1) * w <= Len(data)
    BY <2>1, <2>2 DEF TextAt
  <2>4. at + m * w < Len(data)
    <3>1. CASE w = 1
      BY <1>1, <2>3, <3>1
    <3>2. CASE w = 2
      BY <1>1, <2>3, <3>2
    <3> QED BY <3>1, <3>2
  <2> QED BY <2>2, <2>4
<1> QED BY <1>3, <1>4, <1>5

LEMMA LengthOfText ==
  ASSUME NEW data \in Seq(Octets), NEW at \in Nat, NEW p, NEW s \in Seq(Octets),
         p.type \in StringTypes, p.out = "STRING",
         NEW more \in {0, 1}, TextAt(data, at, Width(p.type), s, more)
  PROVE  HeuristicSize(data, at, p) = Width(p.type) * (Len(s) + more)
<1>1. PICK w \in {1, 2} : w = Width(p.type)
  BY Widths
<1>2. PICK n \in Nat, l \in Nat : n = Len(data) /\ l = Len(s)
  BY LenProperties
<1> DEFINE ends == {k \in 0..(n - at) : NullAt(data, at, w, k) \/ at + (k + 1) * w >= n}
           first == CHOOSE k \in ends : \A j \in ends : k <= j
<1>3. HeuristicSize(data, at, p) = IF at >= n THEN 0 ELSE w * (1 + first)
  BY <1>1, <1>2 DEF HeuristicSize
<1>4. \A k \in 0..(l - 1) : ~NullAt(data, at, w, k) /\ (more = 1 \/ k + 1 < l => at + (k + 1) * w < n)
  BY <1>1, <1>2, NullsOfText
<1>5. more = 0 => n = at + l * w
  BY <1>1, <1>2 DEF TextAt
<1>6. more = 1 => at + (l + 1) * w <= n /\ NullAt(data, at, w, l)
  BY <1>1, <1>2 DEF TextAt
<1> HIDE DEF first
<1>7. CASE more = 0 /\ l = 0
  <2>1. at >= n
    <3>1. CASE w = 1
      BY <1>5, <1>7, <3>1
    <3>2. CASE w = 2
      BY <1>5, <1>7, <3>2
    <3> QED BY <3>1, <3>2
  <2>2. w * (l + more) = 0
    BY <1>7
  <2> QED BY <1>1, <1>2, <1>3, <2>1, <2>2
<1>8. CASE more = 1 \/ l > 0
  <2> DEFINE e == l + more - 1
  <2>1. e \in Nat /\ at < n /\ e \in 0..(n - at)
    <3>1. CASE w = 1
      BY <1>5, <1>6, <1>8, <3>1
    <3>2. CASE w = 2
      BY <1>5, <1>6, <1>8, <3>2
    <3> QED BY <3>1, <3>2
  <2>2. e \in ends
    <3>1. CASE more = 1
      <4>1. e = l
        BY <3>1
      <4> HIDE DEF e
      <4> QED BY <1>6, <2>1, <3>1, <4>1
    <3>2. CASE more = 0
      <4>1. e + 1 = l
        BY <3>2
      <4> HIDE DEF e
      <4>2. at + (e + 1) * w >= n
        BY <1>5, <3>2, <4>1
      <4> QED BY <2>1, <4>2
    <3> QED BY <3>1, <3>2
  <2>3. ASSUME NEW k \in ends
        PROVE  e <= k
    <3>1. k \in Nat /\ (NullAt(data, at, w, k) \/ at + (k + 1) * w >= n)
      OBVIOUS
    <3>2. SUFFICES ASSUME k < e
                   PROVE  FALSE
      BY <2>1, <3>1
    <3>3. k \in 0..(l - 1) /\ (more = 1 \/ k + 1 < l)
      BY <3>1, <3>2
    <3>4. ~NullAt(data, at, w, k) /\ at + (k + 1) * w < n
      BY <1>4, <3>3
    <3>5. PICK m : m = at + (k + 1) * w
      OBVIOUS
    <3>6. m \in Int
      <4>1. CASE w = 1
        BY <3>1, <3>5, <4>1
      <4>2. CASE w = 2
        BY <3>1, <3>5, <4>2
      <4> QED BY <4>1, <4>2
    <3>7. m >= n /\ m < n
      BY <3>1, <3>4, <3>5
    <3> QED BY <3>6, <3>7
  <2>4. ends \in SUBSET Int
    OBVIOUS
  <2> HIDE DEF ends, e
  <2>5. first \in ends /\ \A j \in ends : first <= j
    BY <2>2, <2>3 DEF first
  <2>6. first = e
    <3>1. first <= e /\ e <= first /\ first \in Int /\ e \in Int
      BY <2>1, <2>2, <2>3, <2>4, <2>5
    <3> QED BY <3>1
  <2>7. 1 + first = l + more
    BY <2>6 DEF e
  <2>8. ~(at >= n)
    BY <2>1
  <2> QED BY <1>1, <1>2, <1>3, <2>7, <2>8
<1> QED BY <1>2, <1>7, <1>8

LEMMA ContentOfText ==
  ASSUME NEW r, IsRecord(r), NEW at \in Nat, NEW w \in {1, 2}, NEW s \in Seq(Octets),
         NEW more \in {0, 1}, TextAt(r.data, at, w, s, more)
  PROVE  Content(r, [at |-> at, size |-> w * (Len(s) + more)], w) = s
<1>1. PICK data \in Seq(Octets) : data = r.data
  BY DEF IsRecord
<1>2. PICK l \in Nat : l = Len(s)
  BY LenProperties
<1> DEFINE n == (w * (l + more)) \div w
           some == {k \in 1..n : ~NullAt(data, at, w, k - 1)}
           last == CHOOSE k \in some : \A j \in some : j <= k
           length == IF some = {} THEN 0 ELSE last
<1>3. Content(r, [at |-> at, size |-> w * (Len(s) + more)], w)
        = [i \in 1..length |-> data[at + (i - 1) * w + 1]]
  BY <1>1, <1>2 DEF Content
<1>4. n = l + more
  <2>1. CASE w = 1
    BY <2>1
  <2>2. CASE w = 2
    BY <2>2
  <2> QED BY <2>1, <2>2
<1>5. \A k \in 0..(l - 1) : ~NullAt(data, at, w, k) /\ data[at + k * w + 1] = s[k + 1]
  BY <1>1, <1>2, NullsOfText DEF TextAt
<1>6. more = 1 => NullAt(data, at, w, l)
  BY <1>1, <1>2 DEF TextAt
<1>7. some = 1..l
  <2>1. ASSUME NEW k \in 1..l
        PROVE  k \in some
    <3>1. k - 1 \in 0..(l - 1) /\ k \in 1..n
      BY <1>4
    <3> QED BY <1>5, <3>1
  <2>2. ASSUME NEW k \in some
        PROVE  k \in 1..l
    <3>1. k \in 1..(l + more) /\ ~NullAt(data, at, w, k - 1)
      BY <1>4
    <3>2. more = 1 => k - 1 # l
      BY <1>6, <3>1
    <3> QED BY <3>1, <3>2
  <2> HIDE DEF some
  <2> QED BY <2>1, <2>2
<1> HIDE DEF n, some
<1>8. length = l
  <2>1. CASE l = 0
    BY <1>7, <2>1
  <2>2. CASE l # 0
    <3>1. l \in some /\ \A j \in some : j <= l
      BY <1>7, <2>2
    <3>2. last \in some /\ \A j \in some : j <= last
      BY <3>1
    <3>3. last \in Int /\ last <= l /\ l <= last
      BY <1>7, <3>1, <3>2
    <3> HIDE DEF last
    <3>4. last = l
      BY <3>3
    <3> QED BY <3>1, <3>4
  <2> QED BY <2>1, <2>2
<1> HIDE DEF length
<1>9. ASSUME NEW i \in 1..l
      PROVE  data[at + (i - 1) * w + 1] = s[i]
  <2>1. i - 1 \in 0..(l - 1) /\ (i - 1) + 1 = i
    OBVIOUS
  <2>2. PICK k \in 0..(l - 1) : k = i - 1
    BY <2>1
  <2>3. data[at + k * w + 1] = s[k + 1]
    BY <1>5
  <2> QED BY <2>1, <2>2, <2>3
<1>10. s = [i \in 1..l |-> s[i]]
  BY <1>2
<1> QED BY <1>3, <1>8, <1>9, <1>10

-----------------------------------------------------------------------------
(* What is read of a property whose bytes are there.                     *)

LEMMA CppTypeIs ==
  ASSUME NEW T \in DOMAIN Morphism
  PROVE  CppType(Morphism[T]) = T
<1>1. \A U \in DOMAIN Morphism : Morphism[U] = Morphism[T] => U = T
  BY DEF Morphism
<1> QED BY <1>1 DEF CppType

LEMMA AssertedOk ==
  ASSUME NEW T \in DOMAIN Morphism, NEW p, p.type = Morphism[T]
  PROVE  Asserted(T, p) = "ok"
<1>1. T \notin {"counted", "ip", "socket"} /\ (T = "sid" => p.type = "SID")
  BY DEF Morphism
<1> QED BY <1>1 DEF Asserted

\* A property as the schema has it, the bytes packed for it and what is read: a string...
TextPart(p, b, x) ==
  /\ p.type \in StringTypes /\ p.length = 0 /\ p.out = "STRING"
  /\ \E s \in Seq(Octets) : /\ \A k \in DOMAIN s : s[k] # 0
                            /\ b = Encode(p.type, s) \o Zeros(Width(p.type))
                            /\ x = Value(s)

\* ... a SID, of one part or of eight zeros ...
SidPart(p, b, x) ==
  /\ p.type = "SID" /\ p.length = 0
  /\ b \in Seq(Octets) /\ Len(b) >= 8 /\ 8 + 4 * b[2] = Len(b)
  /\ x = IF b[1] = 1 THEN Value(b) ELSE Failure

\* ... a bool ...
BoolPart(p, b, x) ==
  /\ p.type = "BOOLEAN" /\ p.length = 4
  /\ \E q \in {0, 1} : b = <<q>> \o Zeros(3) /\ x = Value(<<q>>)

\* ... or any other type, which takes the bytes that the schema says.
PlainPart(p, b, x) ==
  \E T \in DOMAIN Morphism \ {"wstring", "string", "sid", "bool"} :
    /\ p.type = Morphism[T] /\ p.length > 0 /\ p.length = Len(b)
    /\ T \in DOMAIN SizeOf => Len(b) = SizeOf[T]
    /\ T = "pointer" => Len(b) = 8
    /\ b \in Seq(Octets) /\ x = Value(b)

IsPart(p, b, x) == TextPart(p, b, x) \/ SidPart(p, b, x) \/ BoolPart(p, b, x) \/ PlainPart(p, b, x)

\* The bytes are at that offset of the data...
Whole(data, at, b) == at + Len(b) <= Len(data) /\ \A j \in 1..Len(b) : data[at + j] = b[j]

\* ... or are there but for the terminator of the string, with which the data ends.
Cut(data, at, p, b) ==
  /\ p.type \in StringTypes /\ Len(data) = at + Len(b) - Width(p.type)
  /\ \A j \in 1..(Len(b) - Width(p.type)) : data[at + j] = b[j]

\* The property is found to be of that size, and what is read of it is x.
ReadsAs(r, at, p, size, x) ==
  /\ PropertySizeAt(r, at, p) = size /\ at + size <= Len(r.data)
  /\ ParseFound(CppType(p.type), r, p, [at |-> at, size |-> size]) = x

LEMMA WholeIsPiece ==
  ASSUME NEW data \in Seq(Octets), NEW at \in Nat, NEW b \in Seq(Octets), Whole(data, at, b)
  PROVE  SubSeq(data, at + 1, at + Len(b)) = b
<1>1. PICK n \in Nat, l \in Nat : n = Len(data) /\ l = Len(b)
  BY LenProperties
<1>2. at + l <= n /\ \A j \in 1..l : data[at + j] = b[j]
  BY <1>1 DEF Whole
<1>3. PICK u : u = SubSeq(data, at + 1, at + l)
  OBVIOUS
<1>4. \A i \in (at + 1)..(at + l) : data[i] \in Octets
  BY <1>1, <1>2, ElementOfSeq
<1>5. /\ u \in Seq(Octets) /\ Len(u) = IF at + 1 <= at + l THEN at + l - (at + 1) + 1 ELSE 0
      /\ \A i \in 1..(at + l - (at + 1) + 1) : u[i] = data[(at + 1) + i - 1]
  <2>1. PICK c \in Int, d \in Int : c = at + 1 /\ d = at + l
    BY <1>1
  <2>2. \A i \in c..d : data[i] \in Octets
    BY <1>4, <2>1
  <2>3. /\ SubSeq(data, c, d) \in Seq(Octets)
        /\ Len(SubSeq(data, c, d)) = IF c <= d THEN d - c + 1 ELSE 0
        /\ \A i \in 1..(d - c + 1) : SubSeq(data, c, d)[i] = data[c + i - 1]
    BY <2>2, SubSeqProperties
  <2> QED BY <1>3, <2>1, <2>3
<1>6. Len(u) = l
  BY <1>1, <1>5
<1>7. ASSUME NEW i \in 1..l
      PROVE  u[i] = b[i]
  <2>1. i \in 1..(at + l - (at + 1) + 1) /\ (at + 1) + i - 1 = at + i
    BY <1>1
  <2> QED BY <1>2, <1>5, <2>1
<1>8. u = b
  BY <1>1, <1>5, <1>6, <1>7, SeqEqual
<1> QED BY <1>1, <1>3, <1>8

\* What is read of a property that is found.
LEMMA ParseFoundIs ==
  ASSUME NEW T \in DOMAIN Morphism, NEW r, NEW p, p.type = Morphism[T], NEW at \in Nat, NEW size
  PROVE  ParseFound(CppType(p.type), r, p, [at |-> at, size |-> size])
           = ParseAs(T, r, p, [at |-> at, size |-> size])
<1>1. [at |-> at, size |-> size] # Nowhere
  <2>1. at # -1
    OBVIOUS
  <2> QED BY <2>1 DEF Nowhere
<1>2. CppType(p.type) = T
  BY CppTypeIs
<1>3. Asserted(T, p) = "ok"
  BY AssertedOk
<1> QED BY <1>1, <1>2, <1>3 DEF ParseFound

LEMMA PlainReads ==
  ASSUME NEW r, IsRecord(r), r.is32 = FALSE, NEW at \in Nat, NEW p, NEW b, NEW x,
         PlainPart(p, b, x), Whole(r.data, at, b)
  PROVE  ReadsAs(r, at, p, Len(b), x)
<1>1. PICK T \in DOMAIN Morphism \ {"wstring", "string", "sid", "bool"} :
         /\ p.type = Morphism[T] /\ p.length > 0 /\ p.length = Len(b)
         /\ T \in DOMAIN SizeOf => Len(b) = SizeOf[T]
         /\ T = "pointer" => Len(b) = 8
         /\ b \in Seq(Octets) /\ x = Value(b)
  BY DEF PlainPart
<1>2. PICK l \in Nat : l = Len(b)
  BY <1>1, LenProperties
<1>3. p.type = "POINTER" => T = "pointer"
  BY <1>1 DEF Morphism
<1>4. PropertySizeAt(r, at, p) = l
  BY <1>1, <1>2, <1>3 DEF PropertySizeAt
<1>5. at + l <= Len(r.data) /\ SubSeq(r.data, at + 1, at + l) = b
  <2>1. PICK d \in Seq(Octets) : d = r.data
    BY DEF IsRecord
  <2>2. Whole(d, at, b) /\ b \in Seq(Octets)
    BY <1>1, <1>2, <2>1
  <2>3. SubSeq(d, at + 1, at + Len(b)) = b
    BY <2>2, WholeIsPiece
  <2>4. at + Len(b) <= Len(d)
    BY <2>2 DEF Whole
  <2> QED BY <1>1, <1>2, <2>1, <2>3, <2>4
<1>6. ParseAs(T, r, p, [at |-> at, size |-> l]) = x
  <2>1. Read(r, at, l) = x
    BY <1>1, <1>5 DEF Read
  <2>2. CASE T = "binary"
    BY <1>1, <1>5, <2>2 DEF ParseAs
  <2>3. CASE T = "pointer"
    BY <1>1, <1>2, <2>1, <2>3 DEF ParseAs
  <2>4. CASE T \in DOMAIN SizeOf
    <3>1. T \notin {"wstring", "string", "bool", "counted", "binary", "ip", "socket", "sid", "pointer"}
      BY <2>4 DEF SizeOf
    <3>2. l = SizeOf[T]
      BY <1>1, <1>2, <2>4
    <3> QED BY <2>1, <3>1, <3>2 DEF ParseAs
  <2>5. T \in {"binary", "pointer"} \cup DOMAIN SizeOf
    BY <1>1 DEF Morphism, SizeOf
  <2> QED BY <2>2, <2>3, <2>4, <2>5
<1>7. T \in DOMAIN Morphism /\ p.type = Morphism[T]
  BY <1>1
<1>8. ParseFound(CppType(p.type), r, p, [at |-> at, size |-> l]) = x
  BY <1>6, <1>7, ParseFoundIs
<1> QED BY <1>2, <1>4, <1>5, <1>8 DEF ReadsAs

\* A bool as it is packed.
LEMMA BoolBytes ==
  ASSUME NEW q \in {0, 1}, NEW b, b = <<q>> \o Zeros(3)
  PROVE  b \in Seq(Octets) /\ Len(b) = 4 /\ b[1] = q /\ b[2] = 0 /\ b[3] = 0 /\ b[4] = 0
<1>1. PICK z \in Seq(Octets) : z = Zeros(3) /\ Len(z) = 3
  BY ZerosTyped
<1>2. \A j \in 1..3 : z[j] = 0
  BY <1>1 DEF Zeros
<1>3. q \in Octets
  BY DEF Octets
<1>4. PICK c : c = <<q>>
  OBVIOUS
<1>5. c \in Seq(Octets) /\ Len(c) = 1 /\ c[1] = q
  BY <1>3, <1>4
<1>6. /\ c \o z \in Seq(Octets) /\ Len(c \o z) = Len(c) + Len(z)
      /\ \A j \in 1..(Len(c) + Len(z)) : (c \o z)[j] = IF j <= Len(c) THEN c[j] ELSE z[j - Len(c)]
  BY <1>5, ConcatProperties
<1>7. PICK m, n : m = Len(c) /\ n = Len(z)
  OBVIOUS
<1>8. m = 1 /\ n = 3
  BY <1>1, <1>5, <1>7
<1>9. /\ b \in Seq(Octets) /\ Len(b) = m + n
      /\ \A j \in 1..(m + n) : b[j] = IF j <= m THEN c[j] ELSE z[j - m]
  BY <1>1, <1>4, <1>6, <1>7
<1>10. m + n = 4
  BY <1>8
<1>11. \A j \in 2..4 : b[j] = 0
  <2> TAKE j \in 2..4
  <2>1. j \in 1..(m + n) /\ ~(j <= m) /\ j - m \in 1..3
    BY <1>8
  <2> QED BY <1>2, <1>9, <2>1
<1>12. b[1] = q
  <2>1. 1 \in 1..(m + n) /\ 1 <= m
    BY <1>8
  <2> QED BY <1>5, <1>9, <2>1
<1> QED BY <1>9, <1>10, <1>11, <1>12

LEMMA BoolReads ==
  ASSUME NEW r, IsRecord(r), NEW at \in Nat, NEW p, NEW b, NEW x,
         BoolPart(p, b, x), Whole(r.data, at, b)
  PROVE  ReadsAs(r, at, p, Len(b), x)
<1>1. PICK q \in {0, 1} : b = <<q>> \o Zeros(3) /\ x = Value(<<q>>)
  BY DEF BoolPart
<1>2. p.type = "BOOLEAN" /\ p.length = 4 /\ "bool" \in DOMAIN Morphism /\ Morphism["bool"] = "BOOLEAN"
  BY DEF BoolPart, Morphism
<1>3. b \in Seq(Octets) /\ Len(b) = 4 /\ b[1] = q /\ b[2] = 0 /\ b[3] = 0 /\ b[4] = 0
  BY <1>1, BoolBytes
<1>4. Zeros(4) \in Seq(Octets) /\ Len(Zeros(4)) = 4 /\ \A j \in 1..4 : Zeros(4)[j] = 0
  BY ZerosTyped DEF Zeros
<1>5. b = Zeros(4) <=> q = 0
  <2>1. PICK z \in Seq(Octets) : z = Zeros(4)
    BY <1>4
  <2>2. Len(z) = 4 /\ \A j \in 1..4 : z[j] = 0
    BY <1>4, <2>1
  <2>3. ASSUME q = 0
        PROVE  b = z
    <3>1. \A j \in 1..4 : b[j] = z[j]
      <4> TAKE j \in 1..4
      <4>1. j = 1 \/ j = 2 \/ j = 3 \/ j = 4
        OBVIOUS
      <4> QED BY <1>3, <2>2, <2>3, <4>1
    <3> QED BY <1>3, <2>2, <3>1, SeqEqual
  <2>4. ASSUME b = z
        PROVE  q = 0
    BY <1>3, <2>2, <2>4
  <2> QED BY <2>1, <2>3, <2>4
<1>6. at + 4 <= Len(r.data) /\ SubSeq(r.data, at + 1, at + 4) = b
  <2>1. PICK d \in Seq(Octets) : d = r.data
    BY DEF IsRecord
  <2>2. Whole(d, at, b) /\ b \in Seq(Octets)
    BY <1>3, <2>1
  <2>3. SubSeq(d, at + 1, at + Len(b)) = b
    BY <2>2, WholeIsPiece
  <2>4. at + Len(b) <= Len(d)
    BY <2>2 DEF Whole
  <2> QED BY <1>3, <2>1, <2>3, <2>4
<1>7. Read(r, at, 4) = Value(b)
  BY <1>6 DEF Read
<1>8. ParseAs("bool", r, p, [at |-> at, size |-> 4]) = x
  <2>1. Value(b).is = "value" /\ Value(b).v = b
    BY DEF Value
  <2>2. ParseAs("bool", r, p, [at |-> at, size |-> 4]) = Value(<<IF b = Zeros(4) THEN 0 ELSE 1>>)
    BY <1>7, <2>1 DEF ParseAs
  <2>3. (IF b = Zeros(4) THEN 0 ELSE 1) = q
    BY <1>5
  <2> QED BY <1>1, <2>2, <2>3
<1>9. ParseFound(CppType(p.type), r, p, [at |-> at, size |-> 4]) = x
  BY <1>2, <1>8, ParseFoundIs
<1>10. PropertySizeAt(r, at, p) = 4
  BY <1>2 DEF PropertySizeAt
<1> QED BY <1>3, <1>6, <1>9, <1>10 DEF ReadsAs

LEMMA SidReads ==
  ASSUME NEW r, IsRecord(r), NEW at \in Nat, NEW p, NEW b, NEW x,
         SidPart(p, b, x), Whole(r.data, at, b)
  PROVE  ReadsAs(r, at, p, Len(b), x)
<1>1. /\ p.type = "SID" /\ p.length = 0 /\ b \in Seq(Octets) /\ 8 + 4 * b[2] = Len(b)
      /\ x = IF b[1] = 1 THEN Value(b) ELSE Failure
  BY DEF SidPart
<1>2. PICK l \in Nat : l = Len(b)
  BY <1>1, LenProperties
<1>3. at + l <= Len(r.data) /\ SubSeq(r.data, at + 1, at + l) = b /\ \A j \in 1..l : r.data[at + j] = b[j]
  <2>1. PICK d \in Seq(Octets) : d = r.data
    BY DEF IsRecord
  <2>2. Whole(d, at, b) /\ b \in Seq(Octets)
    BY <1>1, <1>2, <2>1
  <2>3. SubSeq(d, at + 1, at + Len(b)) = b
    BY <2>2, WholeIsPiece
  <2>4. at + Len(b) <= Len(d)
    BY <2>2 DEF Whole
  <2>5. \A j \in 1..l : d[at + j] = b[j]
    BY <1>2, <2>2 DEF Whole
  <2> QED BY <1>1, <1>2, <2>1, <2>3, <2>4, <2>5
<1>4. l >= 8
  BY <1>2 DEF SidPart
<1>5. r.data[at + 1] = b[1] /\ r.data[at + 2] = b[2] /\ Len(r.data) \in Nat
  <2>1. 1 \in 1..l /\ 2 \in 1..l
    BY <1>4
  <2> QED BY <1>3, <2>1, DataTyped DEF IsRecord
<1>6. HeuristicSize(r.data, at, p) = 0
  BY <1>1 DEF HeuristicSize, StringTypes
<1>7. TdhSize(r.data, at, p) = l
  <2>1. at + 2 <= Len(r.data)
    BY <1>3, <1>4, <1>5
  <2> QED BY <1>1, <1>2, <1>5, <2>1 DEF TdhSize
<1>8. PropertySizeAt(r, at, p) = l
  BY <1>1, <1>6, <1>7 DEF PropertySizeAt
<1>9. SidFrom(r, at) = x
  <2>1. ~(at + 8 > Len(r.data))
    BY <1>3, <1>4, <1>5
  <2>2. Read(r, at, l) = Value(b)
    BY <1>3 DEF Read
  <2> QED BY <1>1, <1>2, <1>5, <2>1, <2>2 DEF SidFrom
<1>10. ParseAs("sid", r, p, [at |-> at, size |-> l]) = x
  BY <1>1, <1>9 DEF ParseAs, ParseSid
<1>11. "sid" \in DOMAIN Morphism /\ Morphism["sid"] = "SID"
  BY DEF Morphism
<1>12. ParseFound(CppType(p.type), r, p, [at |-> at, size |-> l]) = x
  BY <1>1, <1>10, <1>11, ParseFoundIs
<1> QED BY <1>2, <1>3, <1>8, <1>12 DEF ReadsAs

\* A string of l characters of w bytes, as it is packed.
IsPacked(b, s, l, w) ==
  /\ b \in Seq(Octets) /\ Len(b) = l * w + w
  /\ \A k \in 0..(l - 1) : b[k * w + 1] = s[k + 1]
  /\ \A j \in 1..w : b[l * w + j] = 0

LEMMA PackedText ==
  ASSUME NEW type, NEW w \in {1, 2}, w = Width(type), NEW s \in Seq(Octets), NEW l \in Nat, l = Len(s),
         NEW b, b = Encode(type, s) \o Zeros(w)
  PROVE  IsPacked(b, s, l, w)
<1>1. PICK m \in Nat : m = l * w
  OBVIOUS
<1>2. PICK e \in Seq(Octets) : e = Encode(type, s) /\ Len(e) = m
  BY <1>1, EncodeTyped
<1>3. PICK z \in Seq(Octets) : z = Zeros(w) /\ Len(z) = w
  BY ZerosTyped
<1>4. \A j \in 1..w : z[j] = 0
  BY <1>3 DEF Zeros
<1>5. e = [i \in 1..m |-> IF i % w = 1 % w THEN s[(i - 1) \div w + 1] ELSE 0]
  BY <1>1, <1>2 DEF Encode
<1>6. /\ b \in Seq(Octets) /\ Len(b) = m + w
      /\ \A i \in 1..(m + w) : b[i] = IF i <= m THEN e[i] ELSE z[i - m]
  <2>1. /\ e \o z \in Seq(Octets) /\ Len(e \o z) = Len(e) + Len(z)
        /\ \A i \in 1..(Len(e) + Len(z)) : (e \o z)[i] = IF i <= Len(e) THEN e[i] ELSE z[i - Len(e)]
    BY ConcatProperties
  <2>2. b = e \o z
    BY <1>2, <1>3
  <2> QED BY <1>2, <1>3, <2>1, <2>2
<1>7. ASSUME NEW k \in 0..(l - 1)
      PROVE  b[k * w + 1] = s[k + 1]
  <2>1. PICK i : i = k * w + 1
    OBVIOUS
  <2>2. i \in 1..m /\ i % w = 1 % w /\ (i - 1) \div w + 1 = k + 1
    <3>1. CASE w = 1
      BY <1>1, <2>1, <3>1
    <3>2. CASE w = 2
      BY <1>1, <2>1, <3>2
    <3> QED BY <3>1, <3>2
  <2>3. e[i] = s[k + 1]
    BY <1>5, <2>2
  <2>4. b[i] = e[i]
    <3>1. i \in 1..(m + w) /\ i <= m
      BY <2>2
    <3> QED BY <1>6, <3>1
  <2> QED BY <2>1, <2>3, <2>4
<1>8. ASSUME NEW j \in 1..w
      PROVE  b[l * w + j] = 0
  <2>1. m + j \in 1..(m + w) /\ ~(m + j <= m) /\ (m + j) - m = j
    OBVIOUS
  <2>2. b[m + j] = z[j]
    BY <1>6, <2>1
  <2> QED BY <1>1, <1>4, <2>2
<1> QED BY <1>1, <1>6, <1>7, <1>8 DEF IsPacked

LEMMA TextBytes ==
  ASSUME NEW p, NEW b, NEW x, TextPart(p, b, x)
  PROVE  b \in Seq(Octets) /\ Len(b) >= Width(p.type) /\ Len(b) > 0
<1>1. PICK s \in Seq(Octets) : b = Encode(p.type, s) \o Zeros(Width(p.type))
  BY DEF TextPart
<1>2. PICK w \in {1, 2}, l \in Nat : w = Width(p.type) /\ l = Len(s)
  BY Widths, LenProperties
<1>3. IsPacked(b, s, l, w)
  <2>1. PICK type : type = p.type
    OBVIOUS
  <2>2. b = Encode(type, s) \o Zeros(w) /\ w = Width(type)
    BY <1>1, <1>2, <2>1
  <2> QED BY <1>2, <2>2, PackedText
<1>4. b \in Seq(Octets) /\ Len(b) = l * w + w
  BY <1>3 DEF IsPacked
<1>5. l * w + w >= w /\ l * w + w > 0
  <2>1. CASE w = 1
    BY <2>1
  <2>2. CASE w = 2
    BY <2>2
  <2> QED BY <2>1, <2>2
<1> QED BY <1>2, <1>4, <1>5

LEMMA TextReads ==
  ASSUME NEW r, IsRecord(r), NEW at \in Nat, NEW p, NEW b, NEW x, TextPart(p, b, x)
  PROVE  /\ Whole(r.data, at, b) => ReadsAs(r, at, p, Len(b), x)
         /\ Cut(r.data, at, p, b) => ReadsAs(r, at, p, Len(b) - Width(p.type), x)
<1>1. PICK s \in Seq(Octets) : /\ \A k \in DOMAIN s : s[k] # 0
                               /\ b = Encode(p.type, s) \o Zeros(Width(p.type))
                               /\ x = Value(s)
  BY DEF TextPart
<1>2. PICK w \in {1, 2} : w = Width(p.type)
  BY Widths
<1>3. PICK l \in Nat : l = Len(s) /\ DOMAIN s = 1..l
  BY LenProperties
<1>4. /\ b \in Seq(Octets) /\ Len(b) = l * w + w
      /\ \A k \in 0..(l - 1) : b[k * w + 1] = s[k + 1]
      /\ \A j \in 1..w : b[l * w + j] = 0
  <2>1. PICK type : type = p.type
    OBVIOUS
  <2>2. b = Encode(type, s) \o Zeros(w) /\ w = Width(type) /\ l = Len(s)
    BY <1>1, <1>2, <1>3, <2>1
  <2>3. IsPacked(b, s, l, w)
    BY <2>2, PackedText
  <2> QED BY <2>3 DEF IsPacked
<1>5. PICK data \in Seq(Octets), n \in Nat : data = r.data /\ n = Len(data)
  BY LenProperties DEF IsRecord
<1>6. ASSUME NEW k \in 0..(l - 1)
      PROVE  s[k + 1] # 0 /\ k * w + 1 \in 1..(l * w) /\ (k + 1) * w <= l * w
  <2>1. k + 1 \in DOMAIN s
    BY <1>3
  <2>2. CASE w = 1
    BY <1>1, <2>1, <2>2
  <2>3. CASE w = 2
    BY <1>1, <2>1, <2>3
  <2> QED BY <2>2, <2>3
<1>7. ASSUME NEW more \in {0, 1}, TextAt(data, at, w, s, more)
      PROVE  ReadsAs(r, at, p, w * (l + more), x)
  <2>1. p.type \in StringTypes /\ p.length = 0 /\ p.out = "STRING"
    BY DEF TextPart
  <2>2. PICK size : size = w * (l + more)
    OBVIOUS
  <2>3. HeuristicSize(data, at, p) = size
    BY <1>2, <1>3, <1>7, <2>1, <2>2, LengthOfText
  <2>4. TdhSize(data, at, p) = 0
    BY <2>1 DEF TdhSize, StringTypes
  <2>5. PropertySizeAt(r, at, p) = size
    BY <1>5, <2>1, <2>3, <2>4 DEF PropertySizeAt
  <2>6. at + size <= n
    <3>1. /\ more = 0 => n = at + l * w
          /\ more = 1 => at + (l + 1) * w <= n
      BY <1>3, <1>5, <1>7 DEF TextAt
    <3>2. CASE w = 1
      BY <2>2, <3>1, <3>2
    <3>3. CASE w = 2
      BY <2>2, <3>1, <3>3
    <3> QED BY <3>2, <3>3
  <2>7. Content(r, [at |-> at, size |-> size], w) = s
    BY <1>3, <1>5, <1>7, <2>2, ContentOfText
  <2>8. PICK T \in DOMAIN Morphism : p.type = Morphism[T] /\ T \in {"wstring", "string"}
                                       /\ w = IF T = "wstring" THEN 2 ELSE 1
    <3>1. \A type \in StringTypes : \E T \in DOMAIN Morphism :
             type = Morphism[T] /\ T \in {"wstring", "string"} /\ Width(type) = IF T = "wstring" THEN 2 ELSE 1
      BY DEF StringTypes, Morphism, Width, WideTypes
    <3> QED BY <1>2, <2>1, <3>1
  <2>9. ParseAs(T, r, p, [at |-> at, size |-> size]) = x
    <3>1. CASE T = "wstring"
      BY <1>1, <2>7, <2>8, <3>1 DEF ParseAs
    <3>2. CASE T = "string"
      BY <1>1, <2>7, <2>8, <3>2 DEF ParseAs
    <3> QED BY <2>8, <3>1, <3>2
  <2>10. ParseFound(CppType(p.type), r, p, [at |-> at, size |-> size]) = x
    BY <2>8, <2>9, ParseFoundIs
  <2> QED BY <1>5, <2>2, <2>5, <2>6, <2>10 DEF ReadsAs
<1>8. ASSUME Whole(data, at, b)
      PROVE  TextAt(data, at, w, s, 1)
  <2>1. at + l * w + w <= n /\ \A j \in 1..(l * w + w) : data[at + j] = b[j]
    <3>1. l * w + w \in Nat
      OBVIOUS
    <3> QED BY <1>4, <1>5, <1>8, <3>1 DEF Whole
  <2>2. ASSUME NEW k \in 0..(l - 1)
        PROVE  at + (k + 1) * w <= n /\ data[at + k * w + 1] = s[k + 1] /\ s[k + 1] # 0
    <3>1. PICK i : i = k * w + 1
      OBVIOUS
    <3>2. PICK m \in Nat : m = l * w
      OBVIOUS
    <3>3. i \in 1..(m + w) /\ (k + 1) * w <= m /\ at + m + w <= n
      BY <1>6, <2>1, <3>1, <3>2
    <3>4. data[at + i] = b[i] /\ b[i] = s[k + 1]
      BY <1>4, <2>1, <3>1, <3>2, <3>3
    <3>5. at + k * w + 1 = at + i /\ at + (k + 1) * w <= n
      <4>1. CASE w = 1
        BY <3>1, <3>3, <4>1
      <4>2. CASE w = 2
        BY <3>1, <3>3, <4>2
      <4> QED BY <4>1, <4>2
    <3> QED BY <1>6, <3>4, <3>5
  <2>3. NullAt(data, at, w, l)
    <3>1. ASSUME NEW i \in 1..w
          PROVE  data[at + l * w + i] = 0
      <4>1. PICK m \in Nat : m = l * w
        OBVIOUS
      <4>2. m + i \in 1..(m + w) /\ at + m + i = at + (m + i)
        BY <4>1
      <4>3. data[at + (m + i)] = b[m + i] /\ b[m + i] = 0
        BY <1>4, <2>1, <4>1, <4>2
      <4> QED BY <4>1, <4>2, <4>3
    <3> QED BY <3>1 DEF NullAt
  <2>4. at + (l + 1) * w <= n
    <3>1. CASE w = 1
      BY <2>1, <3>1
    <3>2. CASE w = 2
      BY <2>1, <3>2
    <3> QED BY <3>1, <3>2
  <2> QED BY <1>3, <1>5, <2>2, <2>3, <2>4 DEF TextAt
<1>9. ASSUME Cut(data, at, p, b)
      PROVE  TextAt(data, at, w, s, 0)
  <2>1. n = at + l * w /\ \A j \in 1..(l * w) : data[at + j] = b[j]
    <3>1. PICK m \in Nat : m = l * w
      OBVIOUS
    <3>2. Len(b) - w = m /\ at + Len(b) - w = at + m
      BY <1>4, <3>1
    <3> QED BY <1>2, <1>5, <1>9, <3>1, <3>2 DEF Cut
  <2>2. ASSUME NEW k \in 0..(l - 1)
        PROVE  at + (k + 1) * w <= n /\ data[at + k * w + 1] = s[k + 1] /\ s[k + 1] # 0
    <3>1. PICK i : i = k * w + 1
      OBVIOUS
    <3>2. PICK m \in Nat : m = l * w
      OBVIOUS
    <3>3. i \in 1..m /\ (k + 1) * w <= m /\ n = at + m
      BY <1>6, <2>1, <3>1, <3>2
    <3>4. data[at + i] = b[i] /\ b[i] = s[k + 1]
      BY <1>4, <2>1, <3>1, <3>2, <3>3
    <3>5. at + k * w + 1 = at + i /\ at + (k + 1) * w <= n
      <4>1. CASE w = 1
        BY <3>1, <3>3, <4>1
      <4>2. CASE w = 2
        BY <3>1, <3>3, <4>2
      <4> QED BY <4>1, <4>2
    <3> QED BY <1>6, <3>4, <3>5
  <2> QED BY <1>3, <1>5, <2>1, <2>2 DEF TextAt
<1>10. Len(b) = w * (l + 1) /\ Len(b) - w = w * (l + 0)
  <2>1. CASE w = 1
    BY <1>4, <2>1
  <2>2. CASE w = 2
    BY <1>4, <2>2
  <2> QED BY <2>1, <2>2
<1> QED BY <1>2, <1>4, <1>5, <1>7, <1>8, <1>9, <1>10

-----------------------------------------------------------------------------
(* Each property that is packed is read.                                 *)

\* What is packed for a property, and what is read of it.
PackedBytes(i) ==
  IF Supplied(i) THEN thunks[FirstThunk(schema[i].name)].bytes ELSE Zeros(FillSize[schema[i].type])
Reading(i) == IF Supplied(i) THEN Value(SuppliedWith(i).v) ELSE Filled(i)

\* The property can be packed.
Fitting(i) ==
  IF Supplied(i) THEN thunks[FirstThunk(schema[i].name)].type = schema[i].type
  ELSE schema[i].type \in DOMAIN FillSize

\* The C++ types of the types that have no size of their own.
LEMMA TypesOf ==
  ASSUME NEW T \in DOMAIN Morphism
  PROVE  /\ Morphism[T] \in StringTypes <=> T \in {"wstring", "string"}
         /\ Morphism[T] = "SID" <=> T = "sid"
         /\ Morphism[T] = "BOOLEAN" <=> T = "bool"
BY DEF Morphism, StringTypes

LEMMA SuppliedPart ==
  ASSUME BuilderInv, NEW i, WellSized(i), Fitting(i), Supplied(i)
  PROVE  IsPart(schema[i], PackedBytes(i), Reading(i))
<1>1. PICK k, p : k = FirstThunk(schema[i].name) /\ p = schema[i]
  OBVIOUS
<1>2. thunks[k] \in AllThunks
  <2>1. k \in DOMAIN thunks
    BY <1>1, FirstThunkTyped DEF Supplied
  <2> QED BY <2>1, ElementOfSeq, LenProperties DEF BuilderInv
<1>3. PICK s \in Supplies : \E name : thunks[k] = Thunk(name, s)
  <2>1. PICK q \in (PropNames \cup SchemaNames) \X Supplies : thunks[k] = Thunk(q[1], q[2])
    BY <1>2 DEF AllThunks
  <2>2. q[2] \in Supplies
    OBVIOUS
  <2> QED BY <2>1, <2>2
<1>4. PICK T \in DOMAIN Morphism, v \in Seq(Octets) : T = s.type /\ v = s.v /\ IsValue(T, v)
  <2>1. s.type \in DOMAIN Morphism /\ IsValue(s.type, s.v)
    BY BuilderAssumption
  <2>2. s.v \in Seq(Octets)
    BY <2>1 DEF IsValue
  <2> QED BY <2>1, <2>2
<1>5. thunks[k].type = Morphism[T] /\ thunks[k].bytes = ThunkBytes(T, v) /\ thunks[k].from = s
  BY <1>3, <1>4 DEF Thunk
<1>6. SuppliedWith(i) = s /\ p.type = Morphism[T] /\ PackedSize(i) = Len(ThunkBytes(T, v))
  BY <1>1, <1>5 DEF SuppliedWith, Fitting, PackedSize
<1>7. PICK b : b = ThunkBytes(T, v) /\ b = PackedBytes(i)
  BY <1>1, <1>5 DEF PackedBytes
<1>8. Reading(i) = Value(v)
  BY <1>4, <1>6 DEF Reading
<1>9. IF p.type \in StringTypes
      THEN p.length = 0 /\ p.out = "STRING" /\ \A j \in DOMAIN v : v[j] # 0
      ELSE IF p.type = "SID" THEN p.length = 0 /\ v[1] = 1 /\ v[2] = 1
      ELSE p.length > 0 /\ p.length = Len(b)
  BY <1>1, <1>4, <1>6, <1>7 DEF WellSized
<1>10. CASE T \in {"wstring", "string"}
  <2>1. p.type \in StringTypes
    BY <1>6, <1>10, TypesOf
  <2>2. b = Encode(p.type, v) \o Zeros(Width(p.type))
    BY <1>6, <1>7, <1>10 DEF ThunkBytes
  <2>3. TextPart(p, b, Value(v))
    BY <1>9, <2>1, <2>2 DEF TextPart
  <2> QED BY <1>1, <1>7, <1>8, <2>3 DEF IsPart
<1>11. CASE T = "sid"
  <2>1. p.type = "SID" /\ p.type \notin StringTypes
    BY <1>6, <1>11, TypesOf
  <2>2. b = v
    BY <1>7, <1>11 DEF ThunkBytes
  <2>3. Len(b) = 12 /\ b[1] = 1 /\ b[2] = 1 /\ p.length = 0
    BY <1>4, <1>9, <1>11, <2>1, <2>2 DEF IsValue
  <2>4. SidPart(p, b, Value(v))
    BY <2>1, <2>2, <2>3 DEF SidPart
  <2> QED BY <1>1, <1>7, <1>8, <2>4 DEF IsPart
<1>12. CASE T = "bool"
  <2>1. p.type = "BOOLEAN" /\ p.type \notin StringTypes /\ p.type # "SID"
    BY <1>6, <1>12, TypesOf DEF StringTypes
  <2>2. b = v \o Zeros(3)
    BY <1>7, <1>12 DEF ThunkBytes
  <2>3. PICK q \in {0, 1} : v = <<q>>
    BY <1>4, <1>12 DEF IsValue
  <2>4. Len(b) = 4
    BY <2>2, <2>3, BoolBytes
  <2>5. BoolPart(p, b, Value(v))
    BY <1>9, <2>1, <2>2, <2>3, <2>4 DEF BoolPart
  <2> QED BY <1>1, <1>7, <1>8, <2>5 DEF IsPart
<1>13. CASE T \notin {"wstring", "string", "sid", "bool"}
  <2>1. p.type \notin StringTypes /\ p.type # "SID"
    BY <1>6, <1>13, TypesOf
  <2>2. b = v
    BY <1>7, <1>13 DEF ThunkBytes
  <2>3. /\ p.length > 0 /\ p.length = Len(b)
        /\ T \in DOMAIN SizeOf => Len(b) = SizeOf[T]
        /\ T = "pointer" => Len(b) = 8
    BY <1>4, <1>9, <2>1, <2>2 DEF IsValue
  <2>4. PlainPart(p, b, Value(v))
    BY <1>6, <1>13, <2>2, <2>3 DEF PlainPart
  <2> QED BY <1>1, <1>7, <1>8, <2>4 DEF IsPart
<1> QED BY <1>10, <1>11, <1>12, <1>13

LEMMA FilledPart ==
  ASSUME NEW i, WellSized(i), Fitting(i), ~Supplied(i)
  PROVE  IsPart(schema[i], PackedBytes(i), Reading(i))
<1>1. PICK p : p = schema[i]
  OBVIOUS
<1>2. p.type \in DOMAIN FillSize
  BY <1>1 DEF Fitting
<1>3. PICK n \in Nat : n = FillSize[p.type]
  BY <1>2, FillSizes
<1>4. PICK b \in Seq(Octets) : b = Zeros(n) /\ Len(b) = n
  BY ZerosTyped
<1>5. PackedBytes(i) = b /\ PackedSize(i) = n /\ Reading(i) = Filled(i)
  BY <1>1, <1>3, <1>4 DEF PackedBytes, PackedSize, Reading
<1>6. IF p.type \in StringTypes THEN p.length = 0 /\ p.out = "STRING"
      ELSE IF p.type = "SID" THEN p.length = 0
      ELSE p.length > 0 /\ p.length = n
  BY <1>1, <1>5 DEF WellSized
<1>7. \A j \in 1..n : b[j] = 0
  BY <1>4 DEF Zeros
<1>8. CASE p.type \in StringTypes
  <2>1. n = Width(p.type)
    BY <1>3, <1>8 DEF FillSize, StringTypes, Width, WideTypes
  <2>2. Filled(i) = Value(<<>>)
    BY <1>1, <1>8 DEF Filled, StringTypes
  <2>3. PICK s \in Seq(Octets) : s = <<>>
    BY EmptySeq
  <2>4. Len(s) = 0 /\ DOMAIN s = {}
    BY <2>3
  <2>5. PICK e \in Seq(Octets) : e = Encode(p.type, s) /\ Len(e) = 0
    <3>1. Len(s) * Width(p.type) = 0
      BY <2>4, Widths
    <3> QED BY <3>1, EncodeTyped
  <2>6. e = <<>>
    BY <2>5, EmptySeq
  <2>7. b = Encode(p.type, s) \o Zeros(Width(p.type))
    BY <1>4, <2>1, <2>5, <2>6, ConcatEmptySeq
  <2>8. TextPart(p, b, Filled(i))
    BY <1>6, <1>8, <2>2, <2>3, <2>4, <2>7 DEF TextPart
  <2> QED BY <1>1, <1>5, <2>8 DEF IsPart
<1>9. CASE p.type = "SID"
  <2>1. n = 8 /\ Filled(i) = Failure /\ p.length = 0
    BY <1>1, <1>3, <1>6, <1>9 DEF FillSize, Filled, StringTypes
  <2>2. b[1] = 0 /\ b[2] = 0
    BY <1>7, <2>1
  <2>3. SidPart(p, b, Filled(i))
    BY <1>4, <1>9, <2>1, <2>2 DEF SidPart
  <2> QED BY <1>1, <1>5, <2>3 DEF IsPart
<1>10. CASE p.type = "BOOLEAN"
  <2>1. n = 4 /\ Filled(i) = Value(<<0>>) /\ p.length = 4
    BY <1>1, <1>3, <1>6, <1>10 DEF FillSize, Filled, StringTypes
  <2>2. PICK c : c = <<0>> \o Zeros(3)
    OBVIOUS
  <2>3. c \in Seq(Octets) /\ Len(c) = 4 /\ c[1] = 0 /\ c[2] = 0 /\ c[3] = 0 /\ c[4] = 0
    BY <2>2, BoolBytes
  <2>4. \A j \in 1..4 : b[j] = c[j]
    <3> TAKE j \in 1..4
    <3>1. j = 1 \/ j = 2 \/ j = 3 \/ j = 4
      OBVIOUS
    <3> QED BY <1>7, <2>1, <2>3, <3>1
  <2>5. b = c
    BY <1>4, <2>1, <2>3, <2>4, SeqEqual
  <2>7. b = <<0>> \o Zeros(3)
    BY <2>2, <2>5
  <2>8. BoolPart(p, b, Filled(i))
    BY <1>10, <2>1, <2>7 DEF BoolPart
  <2> QED BY <1>1, <1>5, <2>8 DEF IsPart
<1>11. CASE p.type \notin StringTypes /\ p.type # "SID" /\ p.type # "BOOLEAN"
  <2>1. PICK T \in DOMAIN Morphism : /\ p.type = Morphism[T]
                                     /\ T \in DOMAIN SizeOf => n = SizeOf[T]
                                     /\ T = "pointer" => n = 8
    <3>1. \A type \in DOMAIN FillSize : \E T \in DOMAIN Morphism :
             /\ type = Morphism[T]
             /\ T \in DOMAIN SizeOf => FillSize[type] = SizeOf[T]
             /\ T = "pointer" => FillSize[type] = 8
      BY DEF FillSize, Morphism, SizeOf
    <3> QED BY <1>2, <1>3, <3>1
  <2>2. T \notin {"wstring", "string", "sid", "bool"}
    BY <1>11, <2>1, TypesOf
  <2>3. Filled(i) = Value(b)
    BY <1>1, <1>3, <1>4, <1>11 DEF Filled
  <2>4. p.length > 0 /\ p.length = n
    BY <1>6, <1>11
  <2>5. PlainPart(p, b, Filled(i))
    BY <1>4, <2>1, <2>2, <2>3, <2>4 DEF PlainPart
  <2> QED BY <1>1, <1>5, <2>5 DEF IsPart
<1> QED BY <1>8, <1>9, <1>10, <1>11

LEMMA TextIsLong ==
  ASSUME NEW p, p.type \in StringTypes, NEW b, NEW x, IsPart(p, b, x)
  PROVE  Len(b) >= Width(p.type)
<1>1. TextPart(p, b, x)
  <2>1. ~SidPart(p, b, x) /\ ~BoolPart(p, b, x)
    BY DEF SidPart, BoolPart, StringTypes
  <2>2. ~PlainPart(p, b, x)
    BY TypesOf DEF PlainPart
  <2> QED BY <2>1, <2>2 DEF IsPart
<1> QED BY <1>1, TextBytes

\* Packed in whole, or without the terminator at the end, each property reads as it should.
LEMMA PartReads ==
  ASSUME NEW r, IsRecord(r), r.is32 = FALSE, NEW at \in Nat, NEW p, NEW b, NEW x, IsPart(p, b, x)
  PROVE  /\ b \in Seq(Octets) /\ Len(b) > 0
         /\ Whole(r.data, at, b) => ReadsAs(r, at, p, Len(b), x)
         /\ Cut(r.data, at, p, b) => ReadsAs(r, at, p, Len(b) - Width(p.type), x)
<1>1. CASE TextPart(p, b, x)
  BY <1>1, TextBytes, TextReads
<1>2. CASE SidPart(p, b, x)
  <2>1. ~Cut(r.data, at, p, b)
    BY <1>2 DEF SidPart, Cut, StringTypes
  <2>2. b \in Seq(Octets) /\ Len(b) > 0
    <3>1. Len(b) >= 8 /\ b \in Seq(Octets)
      BY <1>2 DEF SidPart
    <3>2. Len(b) \in Nat
      BY <3>1, LenProperties
    <3> QED BY <3>1, <3>2
  <2> QED BY <1>2, <2>1, <2>2, SidReads
<1>3. CASE BoolPart(p, b, x)
  <2>1. ~Cut(r.data, at, p, b)
    BY <1>3 DEF BoolPart, Cut, StringTypes
  <2>2. b \in Seq(Octets) /\ Len(b) > 0
    <3>1. PICK q \in {0, 1} : b = <<q>> \o Zeros(3)
      BY <1>3 DEF BoolPart
    <3>2. b \in Seq(Octets) /\ Len(b) = 4
      BY <3>1, BoolBytes
    <3> QED BY <3>2
  <2> QED BY <1>3, <2>1, <2>2, BoolReads
<1>4. CASE PlainPart(p, b, x)
  <2>1. ~Cut(r.data, at, p, b)
    <3>1. p.type \notin StringTypes
      BY <1>4, TypesOf DEF PlainPart
    <3> QED BY <3>1 DEF Cut
  <2>2. b \in Seq(Octets) /\ Len(b) > 0
    BY <1>4 DEF PlainPart
  <2> QED BY <1>4, <2>1, <2>2, PlainReads
<1> QED BY <1>1, <1>2, <1>3, <1>4 DEF IsPart

-----------------------------------------------------------------------------
(* Where each property is packed.                                        *)

\* No turn of the loop was an exception if the last was not.
LEMMA NoErrors ==
  ASSUME NEW n \in Nat, NEW f, Packs(n, f), f[n].error = "none"
  PROVE  \A i \in 0..n : f[i].error = "none"
<1> DEFINE good == {k \in 0..n : f[n - k].error = "none"}
<1>1. 0 \in good
  <2>1. n - 0 = n
    OBVIOUS
  <2> QED BY <2>1
<1>2. ASSUME NEW k \in 0..(n - 1), k \in good
      PROVE  k + 1 \in good
  <2>1. PICK i \in 1..n : i = n - k /\ i - 1 = n - (k + 1)
    OBVIOUS
  <2>2. f[i].error = "none" /\ f[i] = Turn(f[i - 1], schema[i])
    BY <1>2, <2>1 DEF Packs
  <2>3. f[i - 1].error = "none"
    BY <2>2 DEF Turn
  <2> QED BY <2>1, <2>3
<1> HIDE DEF good
<1>3. 0..n \subseteq good
  BY <1>1, <1>2, UpFrom
<1>4. ASSUME NEW i \in 0..n
      PROVE  f[i].error = "none"
  <2>1. n - i \in 0..n /\ n - (n - i) = i
    OBVIOUS
  <2>2. n - i \in good
    BY <1>3, <2>1
  <2> QED BY <2>1, <2>2 DEF good
<1> QED BY <1>4

\* One turn without an exception.
LEMMA TurnPacks ==
  ASSUME BuilderInv, NEW n \in Nat, NEW f, Packs(n, f), f[n].error = "none", NEW i \in 1..n
  PROVE  /\ Fitting(i) /\ f[i].data = f[i - 1].data \o PackedBytes(i)
         /\ f[i].toTrim = IF Supplied(i) /\ schema[i].type \in StringTypes THEN Width(schema[i].type) ELSE 0
<1>7. PICK turned : turned = f[i]
  OBVIOUS
<1>1. PICK acc \in Accumulators : acc = f[i - 1] /\ turned = f[i] /\ turned = Turn(acc, schema[i])
  <2>1. i - 1 \in 0..n
    OBVIOUS
  <2> QED BY <1>7, <2>1 DEF Packs
<1>2. acc.error = "none" /\ turned.error = "none"
  <2>1. i - 1 \in 0..n /\ i \in 0..n
    OBVIOUS
  <2> QED BY <1>1, <2>1, NoErrors
<1>3. PICK p, k : p = schema[i] /\ k = FirstThunk(p.name)
  OBVIOUS
<1>4. turned = PackProperty(acc, p)
  BY <1>1, <1>2, <1>3 DEF Turn
<1>5. CASE k # 0
  <2>1. Supplied(i) /\ PackedBytes(i) = thunks[k].bytes
    BY <1>3, <1>5 DEF Supplied, PackedBytes
  <2>2. CASE thunks[k].type # p.type
    <3>1. turned = [acc EXCEPT !.error = "invalid_argument"]
      BY <1>3, <1>4, <1>5, <2>2 DEF PackProperty
    <3>2. turned.error = "invalid_argument"
      BY <3>1 DEF Accumulators
    <3> QED BY <1>2, <3>2
  <2>3. CASE thunks[k].type = p.type
    <3>1. turned = [acc EXCEPT !.data = @ \o thunks[k].bytes,
                            !.toTrim = IF p.type \in StringTypes THEN Width(p.type) ELSE 0]
      BY <1>3, <1>4, <1>5, <2>3 DEF PackProperty
    <3>2. /\ turned.data = acc.data \o thunks[k].bytes
          /\ turned.toTrim = IF p.type \in StringTypes THEN Width(p.type) ELSE 0
      BY <3>1 DEF Accumulators
    <3> QED BY <1>1, <1>3, <2>1, <2>3, <3>2 DEF Fitting
  <2> QED BY <2>2, <2>3
<1>6. CASE k = 0
  <2>1. ~Supplied(i) /\ PackedBytes(i) = Zeros(FillSize[p.type])
    BY <1>3, <1>6 DEF Supplied, PackedBytes
  <2>2. CASE p.type \notin DOMAIN FillSize
    <3>1. turned = [acc EXCEPT !.error = "runtime_error"]
      BY <1>3, <1>4, <1>6, <2>2 DEF PackProperty
    <3>2. turned.error = "runtime_error"
      BY <3>1 DEF Accumulators
    <3> QED BY <1>2, <3>2
  <2>3. CASE p.type \in DOMAIN FillSize
    <3>1. turned = [acc EXCEPT !.data = @ \o Zeros(FillSize[p.type]), !.toTrim = 0,
                            !.unfilled = @ \cup {p.name}]
      BY <1>3, <1>4, <1>6, <2>3 DEF PackProperty
    <3>2. turned.data = acc.data \o Zeros(FillSize[p.type]) /\ turned.toTrim = 0
      BY <3>1 DEF Accumulators
    <3> QED BY <1>1, <1>3, <2>1, <2>3, <3>2 DEF Fitting
  <2> QED BY <2>2, <2>3
<1> QED BY <1>5, <1>6

\* Part i, the bytes b, is at offset a of what the parts are joined to.
PartAt(n, g, i, a, b) ==
  /\ a \in Nat /\ Len(b) \in Nat /\ Len(g[i]) = a + Len(b)
  /\ \A k \in i..n : Len(g[k]) \in Nat /\ a + Len(b) <= Len(g[k])
  /\ \A j \in 1..Len(b) : g[n][a + j] = b[j]

LEMMA PartsAre ==
  ASSUME NEW n \in Nat, NEW parts, HaveBytes(n, parts), NEW g, Joins(n, parts, g), NEW i \in 1..n,
         NEW a, a = Len(g[i - 1]), NEW b, b = parts[i].bytes
  PROVE  PartAt(n, g, i, a, b)
<1>1. i - 1 \in 0..n /\ i \in 0..n /\ n \in i..n
  OBVIOUS
<1>2. a \in Nat /\ Len(b) \in Nat /\ Len(g[i]) = a + Len(b) /\ b \in Seq(Nat)
  BY <1>1 DEF Joins, HaveBytes
<1>3. PICK l \in Nat : l = Len(b)
  BY <1>2
<1> DEFINE good == {k \in i..n : Len(g[k]) \in Nat /\ a + l <= Len(g[k])}
<1>4. i \in good
  <2>1. i \in i..n
    OBVIOUS
  <2>2. PICK m : m = a + l
    OBVIOUS
  <2>3. Len(g[i]) = m
    BY <1>2, <1>3, <2>2
  <2>4. m \in Nat /\ m <= m
    BY <1>2, <2>2
  <2> QED BY <2>1, <2>2, <2>3, <2>4
<1>5. ASSUME NEW k \in i..(n - 1), k \in good
      PROVE  k + 1 \in good
  <2>1. PICK m \in 1..n : m = k + 1 /\ m - 1 = k /\ m \in i..n
    OBVIOUS
  <2>2. Len(g[m]) = Len(g[m - 1]) + Len(parts[m].bytes) /\ Len(parts[m].bytes) \in Nat
    BY DEF Joins
  <2>3. PICK u : u = Len(g[k])
    OBVIOUS
  <2>6. PICK v \in Nat : v = Len(parts[m].bytes)
    BY <2>2
  <2>4. u \in Nat /\ a + l <= u /\ Len(g[m]) = u + v
    BY <1>5, <2>1, <2>2, <2>3, <2>6
  <2>5. u + v \in Nat /\ a + l <= u + v
    BY <1>2, <2>4
  <2> QED BY <2>1, <2>4, <2>5
<1>6. i \in Nat
  OBVIOUS
<1> HIDE DEF good
<1>7. i..n \subseteq good
  BY <1>4, <1>5, <1>6, UpFrom
<1>8. \A k \in i..n : Len(g[k]) \in Nat /\ a + l <= Len(g[k])
  BY <1>7 DEF good
<1>9. PICK whole \in Seq(Nat) : whole = g[n]
  BY DEF Joins
<1>10. SubSeq(whole, a + 1, a + l) = b
  <2>1. SubSeq(g[n], Len(g[i - 1]) + 1, Len(g[i - 1]) + Len(parts[i].bytes)) = parts[i].bytes
    BY PartsOfJoined
  <2> QED BY <1>3, <1>9, <2>1
<1>11. ASSUME NEW j \in 1..l
       PROVE  whole[a + j] = b[j]
  <2>1. PICK c \in Int, d \in Int : c = a + 1 /\ d = a + l
    BY <1>2
  <2>2. \A k \in c..d : whole[k] \in Nat
    <3> TAKE k \in c..d
    <3>1. Len(whole) \in Nat /\ a + l <= Len(whole)
      BY <1>1, <1>8, <1>9
    <3>2. k \in 1..Len(whole)
      BY <1>2, <2>1, <3>1
    <3> QED BY <3>2, ElementOfSeq
  <2>3. \A k \in 1..(d - c + 1) : SubSeq(whole, c, d)[k] = whole[c + k - 1]
    BY <2>2, SubSeqProperties
  <2>4. j \in 1..(d - c + 1) /\ c + j - 1 = a + j
    BY <1>2, <2>1
  <2> QED BY <1>10, <2>1, <2>3, <2>4
<1> QED BY <1>2, <1>3, <1>8, <1>9, <1>11 DEF PartAt

\* The data is what is joined, but for the last t bytes, the terminator of the last string.
Trimmed(n, g, t, data) ==
  /\ data \in Seq(Octets) /\ t \in {0, 1, 2} /\ Len(data) = Len(g[n]) - t
  /\ \A j \in 1..Len(data) : data[j] = g[n][j]
  /\ t # 0 => trim /\ schema[n].type \in StringTypes /\ t = Width(schema[n].type)

\* What is read of parts that are joined.
HaveParts(n, parts) == \A i \in 1..n : IsPart(schema[i], parts[i].bytes, Reading(i))

LEMMA PartIsThere ==
  ASSUME NEW n \in Nat, NEW parts, HaveBytes(n, parts), NEW g, Joins(n, parts, g),
         HaveParts(n, parts), NEW t, NEW data, Trimmed(n, g, t, data), NEW i \in 1..n
  PROVE  IF i < n \/ t = 0 THEN Whole(data, Len(g[i - 1]), parts[i].bytes)
         ELSE Cut(data, Len(g[i - 1]), schema[i], parts[i].bytes)
<1>1. PICK a, b : a = Len(g[i - 1]) /\ b = parts[i].bytes
  OBVIOUS
<1>2. /\ a \in Nat /\ Len(b) \in Nat /\ Len(g[i]) = a + Len(b)
      /\ \A k \in i..n : Len(g[k]) \in Nat /\ a + Len(b) <= Len(g[k])
      /\ \A j \in 1..Len(b) : g[n][a + j] = b[j]
  <2>1. PartAt(n, g, i, a, b)
    BY <1>1, PartsAre
  <2> QED BY <2>1 DEF PartAt
<1>3. PICK l \in Nat : l = Len(b)
  BY <1>2
<1>10. PICK m : m = Len(g[n])
  OBVIOUS
<1>4. m \in Nat /\ a + l <= m
  <2>1. n \in i..n
    OBVIOUS
  <2> QED BY <1>2, <1>3, <1>10, <2>1
<1>5. PICK d : d = Len(data)
  OBVIOUS
<1>6. t \in {0, 1, 2} /\ d = m - t /\ \A j \in 1..d : data[j] = g[n][j]
  BY <1>5, <1>10 DEF Trimmed
<1>7. ASSUME NEW j \in 1..l, a + j <= d
      PROVE  data[a + j] = b[j]
  <2>1. a + j \in 1..d
    BY <1>2, <1>4, <1>6, <1>7
  <2>2. g[n][a + j] = b[j]
    BY <1>2, <1>3
  <2> QED BY <1>6, <2>1, <2>2
<1>8. CASE i < n \/ t = 0
  <2>1. a + l <= d
    <3>1. CASE t = 0
      BY <1>4, <1>6, <3>1
    <3>2. CASE t # 0
      <4>1. i < n /\ n \in 1..n /\ n - 1 \in i..n /\ i \in Nat
        BY <1>8, <3>2
      <4>2. PICK a2, b2 : a2 = Len(g[n - 1]) /\ b2 = parts[n].bytes
        OBVIOUS
      <4>3. a2 \in Nat /\ a + l <= a2
        BY <1>2, <1>3, <4>1, <4>2
      <4>4. Len(g[n]) = a2 + Len(b2) /\ Len(b2) \in Nat
        <5>1. PartAt(n, g, n, a2, b2)
          BY <4>1, <4>2, PartsAre
        <5> QED BY <5>1 DEF PartAt
      <4>5. t <= Len(b2)
        <5>1. schema[n].type \in StringTypes /\ t = Width(schema[n].type)
          BY <3>2 DEF Trimmed
        <5>2. IsPart(schema[n], b2, Reading(n))
          BY <4>1, <4>2 DEF HaveParts
        <5> QED BY <5>1, <5>2, TextIsLong
      <4>6. PICK l2 \in Nat : l2 = Len(b2)
        BY <4>4
      <4>7. m = a2 + l2 /\ t <= l2
        BY <1>10, <4>4, <4>5, <4>6
      <4> QED BY <1>2, <1>6, <4>3, <4>7
    <3> QED BY <3>1, <3>2
  <2>2. \A j \in 1..l : data[a + j] = b[j]
    <3> TAKE j \in 1..l
    <3>1. a + j <= d
      BY <1>2, <1>4, <1>6, <2>1
    <3> QED BY <1>7, <3>1
  <2> QED BY <1>1, <1>3, <1>5, <1>8, <2>1, <2>2 DEF Whole
<1>9. CASE ~(i < n \/ t = 0)
  <2>1. i = n /\ schema[i].type \in StringTypes /\ t = Width(schema[i].type)
    <3>1. i = n
      BY <1>9
    <3> QED BY <1>9, <3>1 DEF Trimmed
  <2>2. m = a + l
    BY <1>2, <1>3, <1>10, <2>1
  <2>3. d = a + l - t
    BY <1>2, <1>6, <2>2
  <2>4. \A j \in 1..(l - t) : data[a + j] = b[j]
    <3> TAKE j \in 1..(l - t)
    <3>1. j \in 1..l /\ a + j <= d
      BY <1>2, <1>6, <2>3
    <3> QED BY <1>7, <3>1
  <2> QED BY <1>1, <1>3, <1>5, <1>9, <2>1, <2>3, <2>4 DEF Cut
<1> QED BY <1>8, <1>9

-----------------------------------------------------------------------------
(* All of a record that is packed.                                       *)

\* The walk finds each part where it begins, and it reads as it should.
LEMMA WalkFinds ==
  ASSUME NEW n \in Nat, NEW r, IsRecord(r), r.is32 = FALSE, r.schema = schema, n = Len(schema),
         NEW parts, HaveBytes(n, parts), HaveParts(n, parts), NEW g, Joins(n, parts, g),
         NEW t, Trimmed(n, g, t, r.data), NEW i \in 1..n
  PROVE  ParseFound(CppType(schema[i].type), r, schema[i], Places(r)[i]) = Reading(i)
<1>1. PICK P : P = Places(r)
  OBVIOUS
<1>2. /\ P[0] = Fit(r, 0, 0)
      /\ \A j \in 1..n : P[j] = Behind(r, P[j - 1], P[j - 1].at + P[j - 1].size, schema[j])
  BY <1>1, PlacesWalk DEF Walks
\* What reads as it should, and the place of the next.
<1> DEFINE Reached(k) == P[k] # Nowhere /\ P[k].at + P[k].size = Len(g[k])
<1>3. ASSUME NEW j \in 1..n, Reached(j - 1)
      PROVE  /\ ParseFound(CppType(schema[j].type), r, schema[j], P[j]) = Reading(j)
             /\ j < n => Reached(j)
  <2>1. PICK a, b : a = Len(g[j - 1]) /\ b = parts[j].bytes
    OBVIOUS
  <2>2. a \in Nat /\ Len(b) \in Nat /\ Len(g[j]) = a + Len(b)
    <3>1. PartAt(n, g, j, a, b)
      BY <2>1, PartsAre
    <3> QED BY <3>1 DEF PartAt
  <2>3. P[j] = Fit(r, a, PropertySizeAt(r, a, schema[j]))
    BY <1>2, <1>3, <2>1 DEF Behind
  <2>4. IsPart(schema[j], b, Reading(j))
    BY <2>1 DEF HaveParts
  <2>5. ASSUME NEW size, ReadsAs(r, a, schema[j], size, Reading(j))
        PROVE  /\ P[j] = [at |-> a, size |-> size]
               /\ ParseFound(CppType(schema[j].type), r, schema[j], P[j]) = Reading(j)
    BY <2>3, <2>5 DEF ReadsAs, Fit
  <2>6. CASE j < n \/ t = 0
    <3>1. Whole(r.data, a, b)
      BY <2>1, <2>6, PartIsThere
    <3>2. ReadsAs(r, a, schema[j], Len(b), Reading(j))
      BY <2>2, <2>4, <3>1, PartReads
    <3>3. P[j] = [at |-> a, size |-> Len(b)]
      BY <2>5, <3>2
    <3>4. P[j] # Nowhere /\ P[j].at + P[j].size = Len(g[j])
      <4>1. a # -1
        BY <2>2
      <4> QED BY <2>2, <3>3, <4>1 DEF Nowhere
    <3> QED BY <2>5, <3>2, <3>4
  <2>7. CASE ~(j < n \/ t = 0)
    <3>1. Cut(r.data, a, schema[j], b)
      BY <2>1, <2>7, PartIsThere
    <3>2. ReadsAs(r, a, schema[j], Len(b) - Width(schema[j].type), Reading(j))
      BY <2>2, <2>4, <3>1, PartReads
    <3> QED BY <2>5, <2>7, <3>2
  <2> QED BY <2>6, <2>7
<1>4. Reached(0)
  <2>1. Len(r.data) \in Nat /\ g[0] = <<>> /\ Len(g[0]) = 0
    BY DataTyped DEF IsRecord, Joins
  <2>2. P[0] = [at |-> 0, size |-> 0]
    BY <1>2, <2>1 DEF Fit
  <2> QED BY <2>1, <2>2 DEF Nowhere
<1> DEFINE good == {k \in 0..n : k = n \/ Reached(k)}
<1>5. 0 \in good
  BY <1>4
<1>6. ASSUME NEW k \in 0..(n - 1), k \in good
      PROVE  k + 1 \in good
  <2>1. PICK j \in 1..n : j = k + 1 /\ j - 1 = k
    OBVIOUS
  <2>2. Reached(j - 1)
    BY <1>6, <2>1
  <2> HIDE DEF Reached
  <2>3. j < n => Reached(j)
    BY <1>3, <2>2
  <2>4. j = n \/ j < n
    OBVIOUS
  <2> QED BY <2>1, <2>3, <2>4
<1> HIDE DEF good
<1>7. 0..n \subseteq good
  BY <1>5, <1>6, UpFrom
<1>8. Reached(i - 1)
  <2>1. i - 1 \in good /\ i - 1 # n
    BY <1>7
  <2> HIDE DEF Reached
  <2> QED BY <2>1 DEF good
<1> HIDE DEF Reached
<1> QED BY <1>1, <1>3, <1>8

LEMMA AllReads ==
  ASSUME BuilderInv, Readable, NEW i \in DOMAIN schema, IndexOf(built, schema[i].name) = i
  PROVE  LET r == ParseValue(CppType(schema[i].type), built, schema[i].name)
         IN  IF built.data = <<>> THEN r = Failure /\ trim ELSE r = Reading(i)
<1>1. PICK r : r = built
  OBVIOUS
<1>2. /\ UpToDate /\ PackImpl.error = "none" /\ Len(PackImpl.data) < 65536
      /\ \A j \in DOMAIN schema : WellSized(j)
  BY DEF Readable
<1>3. r = Record /\ schema # NoSchema /\ IsRecord(r) /\ r.is32 = FALSE /\ r.schema = schema
  <2>1. r = Record /\ schema # NoSchema
    BY <1>1, <1>2 DEF UpToDate
  <2>2. IsRecord(r)
    BY <1>1, <1>2, SeenIsRecord DEF Seen
  <2> QED BY <2>1, <2>2 DEF Record
<1>4. r.data = PackImpl.data /\ r.data \in Seq(Octets)
  <2>1. PackImpl.data \in Seq(Octets)
    BY <1>3, PackedData
  <2>2. UserData(PackImpl.data) = PackImpl.data
    BY <1>2, <2>1, UserDataTyped
  <2> QED BY <1>3, <2>1, <2>2 DEF Record
<1>5. PICK n \in Nat : n = Len(schema) /\ DOMAIN schema = 1..n
  BY <1>3, BuilderAssumption, SchemaTyped DEF BuilderInv
<1>6. PICK f : f = CHOOSE h : h = Turns(n, h)
  OBVIOUS
<1>7. Packs(n, f)
  BY <1>3, <1>5, <1>6, TurnsPack
<1>8. PICK all \in Accumulators : all = f[n]
  BY <1>7 DEF Packs
<1>9. PackImpl = IF trim THEN [all EXCEPT !.data = SubSeq(@, 1, Len(@) - all.toTrim)] ELSE all
  BY <1>5, <1>6, <1>8 DEF PackImpl, Turns, Turn
<1>10. f[n].error = "none"
  <2>1. PackImpl.error = all.error
    BY <1>9 DEF Accumulators
  <2> QED BY <1>2, <1>8, <2>1
<1> DEFINE parts == [j \in 1..n |-> [bytes |-> PackedBytes(j)]]
           g == [j \in 0..n |-> f[j].data]
<1>11. ASSUME NEW j \in 1..n
       PROVE  /\ g[j] = g[j - 1] \o PackedBytes(j) /\ parts[j].bytes = PackedBytes(j)
              /\ IsPart(schema[j], PackedBytes(j), Reading(j)) /\ PackedBytes(j) \in Seq(Octets)
              /\ Len(PackedBytes(j)) > 0
  <2>1. j \in 0..n /\ j - 1 \in 0..n
    OBVIOUS
  <2>2. Fitting(j) /\ f[j].data = f[j - 1].data \o PackedBytes(j)
    BY <1>7, <1>10, TurnPacks
  <2>3. WellSized(j)
    BY <1>2, <1>5
  <2>4. IsPart(schema[j], PackedBytes(j), Reading(j))
    BY <2>2, <2>3, SuppliedPart, FilledPart
  <2>5. PackedBytes(j) \in Seq(Octets) /\ Len(PackedBytes(j)) > 0
    BY <1>3, <2>4, PartReads, 0 \in Nat
  <2> QED BY <2>1, <2>2, <2>4, <2>5
<1>12. ASSUME NEW j \in 0..n
       PROVE  g[j] \in Seq(Octets)
  <2>1. f[j] \in Accumulators
    BY <1>7 DEF Packs
  <2> QED BY <2>1 DEF Accumulators
<1>13. g[0] = <<>>
  <2>1. f[0] = Packing /\ 0 \in 0..n
    BY <1>7 DEF Packs
  <2> QED BY <2>1 DEF Packing
<1>14. g[n] = all.data
  BY <1>8
<1> HIDE DEF parts, g
<1>15. HaveBytes(n, parts) /\ HaveParts(n, parts)
  BY <1>11, DataTyped DEF HaveBytes, HaveParts
<1>16. Joins(n, parts, g)
  <2>1. \A j \in 0..n : g[j] \in Seq(Nat) /\ Len(g[j]) \in Nat
    BY <1>12, DataTyped
  <2>2. \A j \in 1..n : g[j] = g[j - 1] \o parts[j].bytes
    BY <1>11
  <2>3. ASSUME NEW j \in 1..n
        PROVE  Len(g[j]) = Len(g[j - 1]) + Len(parts[j].bytes) /\ Len(parts[j].bytes) \in Nat
    <3>1. j - 1 \in 0..n
      OBVIOUS
    <3>2. PICK u, v : u = g[j - 1] /\ v = parts[j].bytes
      OBVIOUS
    <3>3. u \in Seq(Octets) /\ v \in Seq(Octets) /\ g[j] = u \o v
      BY <1>11, <1>12, <3>1, <3>2
    <3>4. Len(u \o v) = Len(u) + Len(v) /\ Len(v) \in Nat
      BY <3>3, ConcatProperties, LenProperties
    <3> QED BY <3>2, <3>3, <3>4
  <2> QED BY <1>13, <2>1, <2>2, <2>3 DEF Joins
<1>17. i \in 1..n /\ schema[i].name = schema[i].name
  BY <1>5
<1>18. PICK a, b : a = Len(g[i - 1]) /\ b = parts[i].bytes
  OBVIOUS
<1>19. a \in Nat /\ Len(b) \in Nat /\ Len(b) > 0 /\ Len(g[n]) \in Nat /\ a + Len(b) <= Len(g[n])
  <2>1. PartAt(n, g, i, a, b)
    BY <1>15, <1>16, <1>17, <1>18, PartsAre
  <2>2. n \in i..n
    BY <1>17
  <2>3. Len(b) > 0
    BY <1>11, <1>17, <1>18
  <2> QED BY <2>1, <2>2, <2>3 DEF PartAt
<1>20. PICK t : t = IF trim THEN all.toTrim ELSE 0
  OBVIOUS
<1>21. t \in {0, 1, 2} /\ (t # 0 => trim /\ schema[n].type \in StringTypes /\ t = Width(schema[n].type))
  <2>1. n \in 1..n
    BY <1>17
  <2>2. all.toTrim = IF Supplied(n) /\ schema[n].type \in StringTypes THEN Width(schema[n].type) ELSE 0
    BY <1>7, <1>8, <1>10, <2>1, TurnPacks
  <2> QED BY <1>20, <2>2 DEF Accumulators
<1>22. t <= Len(g[n])
  <2>1. ASSUME t # 0
        PROVE  t <= Len(g[n])
    <3>1. n \in 1..n /\ n - 1 \in 0..n
      BY <1>17
    <3>2. PICK c, d : c = Len(g[n - 1]) /\ d = parts[n].bytes
      OBVIOUS
    <3>3. PartAt(n, g, n, c, d)
      BY <1>15, <1>16, <3>1, <3>2, PartsAre
    <3>4. t <= Len(d)
      BY <1>15, <1>21, <2>1, <3>1, <3>2, TextIsLong DEF HaveParts
    <3>5. c \in Nat /\ Len(d) \in Nat /\ Len(g[n]) = c + Len(d)
      BY <3>3 DEF PartAt
    <3>6. PICK l \in Nat : l = Len(d)
      BY <3>5
    <3>7. t <= l /\ Len(g[n]) = c + l
      BY <3>4, <3>5, <3>6
    <3> QED BY <1>21, <3>5, <3>7
  <2> QED BY <1>19, <2>1
<1>23. Trimmed(n, g, t, r.data)
  <2>1. PICK whole \in Seq(Octets) : whole = g[n] /\ whole = all.data
    BY <1>12, <1>14
  <2>2. CASE ~trim
    <3>1. r.data = whole /\ t = 0
      BY <1>4, <1>9, <1>20, <2>1, <2>2
    <3>2. Len(whole) = Len(whole) - 0
      BY LenProperties
    <3> QED BY <1>4, <1>21, <2>1, <3>1, <3>2 DEF Trimmed
  <2>3. CASE trim
    <3>1. r.data = SubSeq(whole, 1, Len(whole) - t)
      BY <1>4, <1>9, <1>20, <2>1, <2>3 DEF Accumulators
    <3>2. PICK m \in Nat : m = Len(whole) - t
      <4>1. PICK l \in Nat : l = Len(whole) /\ t <= l
        BY <1>19, <1>22, <2>1
      <4>2. t \in Nat
        BY <1>21
      <4>3. l - t \in Nat
        BY <4>1, <4>2
      <4> QED BY <4>1, <4>3
    <3>3. \A j \in 1..m : whole[j] \in Octets
      <4> TAKE j \in 1..m
      <4>1. j \in 1..Len(whole)
        BY <1>21, <3>2, LenProperties
      <4> QED BY <4>1, ElementOfSeq
    <3>4. /\ Len(SubSeq(whole, 1, m)) = IF 1 <= m THEN m - 1 + 1 ELSE 0
          /\ \A j \in 1..(m - 1 + 1) : SubSeq(whole, 1, m)[j] = whole[1 + j - 1]
      BY <3>3, SubSeqProperties
    <3>5. Len(r.data) = m /\ \A j \in 1..m : r.data[j] = whole[j]
      <4>1. PICK piece : piece = SubSeq(whole, 1, m)
        OBVIOUS
      <4>2. r.data = piece
        BY <3>1, <3>2, <4>1
      <4>3. \A j \in 1..m : j \in 1..(m - 1 + 1) /\ 1 + j - 1 = j
        OBVIOUS
      <4>4. Len(piece) = m /\ \A j \in 1..m : piece[j] = whole[j]
        <5>1. Len(piece) = m
          BY <3>4, <4>1
        <5> QED BY <3>4, <4>1, <4>3, <5>1
      <4> QED BY <4>2, <4>4
    <3> QED BY <1>4, <1>21, <2>1, <3>2, <3>5 DEF Trimmed
  <2> QED BY <2>2, <2>3
<1>24. ParseFound(CppType(schema[i].type), r, schema[i], Places(r)[i]) = Reading(i)
  BY <1>3, <1>5, <1>15, <1>16, <1>17, <1>23, WalkFinds
<1>25. IndexOf(r, schema[i].name) = i /\ i # 0
  BY <1>1, <1>17
<1>26. CASE r.data = <<>>
  <2>1. Find(r, schema[i].name) = Nowhere
    BY <1>26 DEF Find
  <2>2. ParseValue(CppType(schema[i].type), r, schema[i].name) = Failure
    BY <2>1 DEF ParseValue, ParseFound
  <2>3. trim
    <3>1. Len(r.data) = Len(g[n]) - t /\ Len(r.data) = 0
      BY <1>23, <1>26 DEF Trimmed
    <3>2. Len(g[n]) > 0
      BY <1>19
    <3>3. t # 0
      BY <1>19, <3>1, <3>2
    <3> QED BY <1>21, <3>3
  <2> QED BY <1>1, <1>26, <2>2, <2>3
<1>27. CASE r.data # <<>>
  <2>1. Find(r, schema[i].name) = Places(r)[i]
    BY <1>25, <1>27 DEF Find
  <2>2. ParseValue(CppType(schema[i].type), r, schema[i].name) = Reading(i)
    BY <1>3, <1>24, <1>25, <2>1 DEF ParseValue
  <2> QED BY <1>1, <1>27, <2>2
<1> QED BY <1>26, <1>27

\* Whatever is added to a builder, by any schema, each property of the record it packs reads
\* as the value supplied for it first, or as the filler (RecordBuilder: RoundTrip).
THEOREM SuppliedValuesAreRead == RecordsSpec => []RoundTrip
<1>1. BuilderInv => RoundTrip
  BY AllReads DEF RoundTrip, Reading
<1> QED BY <1>1, BuilderInvariant, PTL
=============================================================================
