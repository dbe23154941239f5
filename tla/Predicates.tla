----------------------------- MODULE Predicates -----------------------------
(***************************************************************************)
(* Predicates over events (filtering/predicates.hpp, comparers.hpp,        *)
(* view_adapters.hpp), which the .NET library builds through Filter,       *)
(* UnicodeString, AnsiString and CountedString.  A predicate here is what  *)
(* it gives for one event: "yes", "no", or "throws", when it needs a       *)
(* schema that TDH does not have.                                          *)
(***************************************************************************)
EXTENDS Values

Yes(b) == IF b THEN "yes" ELSE "no"
AnyEvent == "yes"
NoEvent == "no"

\* && and || of C++: the right side is only asked if the left one leaves it open
AndFilter(x, y) == IF x = "yes" THEN y ELSE x
OrFilter(x, y) == IF x = "no" THEN y ELSE x
NotFilter(x) == CASE x = "yes" -> "no" [] x = "no" -> "yes" [] OTHER -> x

\* The first of a list that is not as given ends the loop
FirstNot(list, x) ==
  LET is == {i \in DOMAIN list : list[i] # x}
  IN  IF is = {} THEN x ELSE list[CHOOSE i \in is : \A j \in is : i <= j]

AnyOf(list) == FirstNot(list, "no")

\* An empty list matches nothing
AllOf(list) == IF list = <<>> THEN "no" ELSE FirstNot(list, "yes")

\* Mutant of NoneOf: the first item that does not match decides.
NoneOfFirst(list) == NotFilter(IF list = <<>> THEN "no" ELSE list[1])

NoneOf(list) == NotFilter(FirstNot(list, "no"))
-----------------------------------------------------------------------------
(* The header: the expected value is cut to a USHORT, or to a ULONG *)

IdIs(n, rec) == Yes(rec.header.id = n % 65536)
OpcodeIs(n, rec) == Yes(rec.header.opcode = n % 65536)
VersionIs(n, rec) == Yes(rec.header.version = n % 65536)
ProcessIdIs(n, rec) == Yes(rec.header.pid = n)
-----------------------------------------------------------------------------
(* Comparers, over two ranges; those of the i-predicates compare upper-case letters *)

Upper(c) == IF c \in 97..122 THEN c - 32 ELSE c
Same(a, b, fold) == IF fold THEN Upper(a) = Upper(b) ELSE a = b

EqualsText(s, t, fold) == Len(s) = Len(t) /\ \A i \in DOMAIN t : Same(s[i], t[i], fold)

\* std::search finds no range behind the end of the first
ContainsText(s, t, fold) ==
  t = <<>> \/ \E k \in 0..(Len(s) - Len(t)) : \A i \in DOMAIN t : Same(s[k + i], t[i], fold)

\* std::mismatch: where the two ranges differ first, or the shorter one ends
MismatchAt(s, t, fold) ==
  LET at == {i \in 1..Len(t) : i > Len(s) \/ ~Same(s[i], t[i], fold)}
  IN  IF at = {} THEN Len(t) + 1 ELSE CHOOSE i \in at : \A j \in at : i <= j

\* Mutant of StartsWithText: where the record's string ends counts as equal.
StartsWithTextShort(s, t, fold) ==
  \A i \in DOMAIN s \cap DOMAIN t : Same(s[i], t[i], fold)

StartsWithText(s, t, fold) == MismatchAt(s, t, fold) = Len(t) + 1

EndsWithText(s, t, fold) ==
  Len(t) <= Len(s) /\ EqualsText(SubSeq(s, Len(s) - Len(t) + 1, Len(s)), t, fold)
-----------------------------------------------------------------------------
(* Properties of the event *)

\* The schema is looked up outside of the try block; any exception of parse() is "no"
PropertyIs(T, name, v, rec) ==
  IF rec.is # "record" THEN "throws" ELSE Yes(ParseValue(T, rec, name) = Value(v))

\* The adapters: a counted string by its own size, others by the size of the property.
\* There is no type assertion.
Adapted(adapter, rec, f) ==
  IF f = Nowhere THEN Failure
  ELSE CASE adapter = "counted" -> ParseCounted(rec, f)
         [] adapter = "wide"    -> Value(Content(rec, f, 2))
         [] adapter = "narrow"  -> Value(Content(rec, f, 1))

View(adapter, rec, name) == Adapted(adapter, rec, Find(rec, name))

\* property_view_predicate: what the comparer says of the view, if there is one
ViewIs(rec, compared) == IF rec.is # "record" THEN "throws" ELSE Yes(compared)
Viewed(adapter, rec, name) == {r.v : r \in {s \in {View(adapter, rec, name)} : s.is = "value"}}

PropertyEquals(adapter, name, t, rec, fold) ==
  ViewIs(rec, \E s \in Viewed(adapter, rec, name) : EqualsText(s, t, fold))
PropertyContains(adapter, name, t, rec, fold) ==
  ViewIs(rec, \E s \in Viewed(adapter, rec, name) : ContainsText(s, t, fold))
PropertyStartsWith(adapter, name, t, rec, fold) ==
  ViewIs(rec, \E s \in Viewed(adapter, rec, name) : StartsWithText(s, t, fold))
PropertyEndsWith(adapter, name, t, rec, fold) ==
  ViewIs(rec, \E s \in Viewed(adapter, rec, name) : EndsWithText(s, t, fold))

\* The strings of the .NET library have eight predicates
FluentString(adapter, name, t, rec) ==
  [is          |-> PropertyEquals(adapter, name, t, rec, FALSE),
   iEquals     |-> PropertyEquals(adapter, name, t, rec, TRUE),
   contains    |-> PropertyContains(adapter, name, t, rec, FALSE),
   iContains   |-> PropertyContains(adapter, name, t, rec, TRUE),
   startsWith  |-> PropertyStartsWith(adapter, name, t, rec, FALSE),
   iStartsWith |-> PropertyStartsWith(adapter, name, t, rec, TRUE),
   endsWith    |-> PropertyEndsWith(adapter, name, t, rec, FALSE),
   iEndsWith   |-> PropertyEndsWith(adapter, name, t, rec, TRUE)]

UnicodeStringIs(name, t, rec) == FluentString("wide", name, t, rec)
AnsiStringIs(name, t, rec) == FluentString("narrow", name, t, rec)
CountedStringIs(name, t, rec) == FluentString("counted", name, t, rec)
=============================================================================
