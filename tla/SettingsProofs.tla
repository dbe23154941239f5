--------------------------- MODULE SettingsProofs ---------------------------
(***************************************************************************)
(* Theorems about ProviderSettings, for any providers, GUIDs, keywords,    *)
(* levels, flags, ids and events, and about KernelSettings, for any        *)
(* providers, masks and choice of the tables' rows.                        *)
(***************************************************************************)
EXTENDS ProviderSettings, KernelSettings, TLAPS

-----------------------------------------------------------------------------
(* The inductive invariant.                                                *)

\* What a provider asked when the trace was opened it still is and asks, but for masks,
\* level, flags and ids.
Kept ==
  \A p \in Providers : seen[p] # None =>
    /\ p \in Listed /\ prov[p] \in Settings
    /\ prov[p].guid = seen[p].guid
    /\ seen[p].rundown => prov[p].rundown

Opened(g) == {p \in Providers : seen[p] # None /\ seen[p].guid = g}
SeenOf(g) == {seen[p] : p \in Opened(g)}

\* The session has the union of what the providers of a GUID asked then.
Snap ==
  phase \in {"open", "processing"} /\ registered =>
    \A g \in Guids : enabled[g] = IF SeenOf(g) = {} THEN None ELSE United(SeenOf(g))

RundownAsked ==
  phase = "processing" /\ registered =>
    \A p \in Providers : seen[p] # None /\ seen[p].rundown => seen[p].guid \in captured

SettingsInv == SettingsTypeOK /\ Kept /\ Snap /\ RundownAsked
-----------------------------------------------------------------------------
(* Settings and unions of settings.                                        *)

LEMMA FreshType ==
  ASSUME NEW g \in Guids
  PROVE  Fresh(g) \in Settings
<1>1. {0, 2} \in SUBSET Bits
  BY DEF Bits
<1>2. {} \in SUBSET Keywords /\ {} \in SUBSET Flags /\ {} \in SUBSET EventIds
  OBVIOUS
<1> QED BY <1>1, <1>2 DEF Fresh, Settings

LEMMA ConvertedType ==
  ASSUME NEW s \in Settings
  PROVE  Converted(s) \in Settings
<1>1. s.guid \in Guids
  BY DEF Settings
<1>2. /\ s.any \in SUBSET Keywords /\ s.asked \in SUBSET Keywords /\ s.all \in SUBSET Keywords
      /\ s.level \cap UcharBits \in SUBSET Bits /\ s.flags \in SUBSET Flags
  BY DEF Settings
<1>3. Fresh(s.guid) \in Settings
  BY <1>1, FreshType
<1> QED BY <1>2, <1>3 DEF Converted, Settings

LEMMA UnitedType ==
  ASSUME NEW S \in SUBSET Settings
  PROVE  United(S) \in Requests
<1>1. /\ UNION {s.any : s \in S} \in SUBSET Keywords
      /\ UNION {s.all : s \in S} \in SUBSET Keywords
      /\ UNION {s.flags : s \in S} \in SUBSET Flags
      /\ UNION {s.ids : s \in S} \in SUBSET EventIds
  BY DEF Settings
<1>2. (UNION {s.level : s \in S}) \cap UcharBits \in SUBSET UcharBits
  OBVIOUS
<1> QED BY <1>1, <1>2 DEF United, Requests

\* The providers in the list have been constructed.
LEMMA ListedTypes ==
  ASSUME SettingsTypeOK
  PROVE  /\ Listed \subseteq Providers
         /\ \A p \in Listed : prov[p] \in Settings /\ prov[p] # None
<1>1. Listed \subseteq Providers
  BY DEF SettingsTypeOK, Listed
<1> QED BY <1>1, SettingsAssumption DEF SettingsTypeOK, Born

LEMMA RequestType ==
  ASSUME SettingsTypeOK, NEW g \in Guids
  PROVE  Request(g) \in Requests \cup {None}
<1>1. OfGuid(g) \subseteq Settings
  BY ListedTypes DEF OfGuid
<1> QED BY <1>1, UnitedType DEF Request

LEMMA RundownGuids ==
  ASSUME SettingsTypeOK, NEW ps \in SUBSET Listed
  PROVE  RundownOf(ps) \subseteq Guids
BY ListedTypes DEF RundownOf, Settings
-----------------------------------------------------------------------------
(* The steps of the client.                                                *)

\* What all calls on providers do: one provider gets other settings, of its GUID.
Changes(p, s) ==
  /\ prov' = [prov EXCEPT ![p] = s]
  /\ prov[p] \in Settings => s.guid = prov[p].guid /\ (prov[p].rundown => s.rundown)
  /\ calls' \in Nat
  /\ UNCHANGED traceVars

LEMMA SetChanges ==
  ASSUME SettingsTypeOK, NEW p \in Providers, NEW s \in Settings, Set(p, s),
         s.guid = prov[p].guid, prov[p].rundown => s.rundown
  PROVE  \E q \in Providers, r \in Settings : Changes(q, r)
<1>1. Changes(p, s)
  BY DEF Set, Call, Changes, SettingsTypeOK
<1> QED BY <1>1

ProviderCalls ==
  \E p \in Providers :
    \/ \E g \in Guids : Construct(p, g)
    \/ \E m \in {{k} : k \in Keywords} : Any(p, m) \/ All(p, m)
    \/ \E l \in Levels : Level(p, l)
    \/ TraceFlags(p, Flags)
    \/ EnableRundown(p)
    \/ \E i \in EventIds : AddFilterIds(p, {i})
    \/ \E l \in Lists : AddFilterList(p, l)
    \/ \E q \in Providers : Convert(p, q)

LEMMA ProviderCallsChange ==
  ASSUME SettingsTypeOK, ProviderCalls
  PROVE  \E q \in Providers, s \in Settings : Changes(q, s)
<1> PICK p \in Providers :
      \/ \E g \in Guids : Construct(p, g)
      \/ \E m \in {{k} : k \in Keywords} : Any(p, m) \/ All(p, m)
      \/ \E l \in Levels : Level(p, l)
      \/ TraceFlags(p, Flags)
      \/ EnableRundown(p)
      \/ \E i \in EventIds : AddFilterIds(p, {i})
      \/ \E l \in Lists : AddFilterList(p, l)
      \/ \E q \in Providers : Convert(p, q)
  BY DEF ProviderCalls
<1>0. p \in Born => prov[p] \in Settings
  BY DEF SettingsTypeOK, Born
<1>1. ASSUME NEW g \in Guids, Construct(p, g)
      PROVE  Changes(p, Fresh(g))
  <2>1. prov[p] \notin Settings
    BY <1>1, SettingsAssumption DEF Construct, Born
  <2> QED BY <1>1, <2>1 DEF Construct, Call, Changes, SettingsTypeOK
<1>2. ASSUME NEW m \in {{k} : k \in Keywords}, Any(p, m) \/ All(p, m)
      PROVE  \E q \in Providers, s \in Settings : Changes(q, s)
  <2>0. p \in Born /\ prov[p] \in Settings /\ m \in SUBSET Keywords
    BY <1>0, <1>2 DEF Any, All, Set
  <2>1. CASE Any(p, m)
    <3> DEFINE s == [prov[p] EXCEPT !.any = m, !.asked = @ \cup m]
    <3>1. s \in Settings /\ s.guid = prov[p].guid /\ s.rundown = prov[p].rundown
      BY <2>0 DEF Settings
    <3> QED BY <2>1, <3>1, SetChanges DEF Any
  <2>2. CASE All(p, m)
    <3> DEFINE s == [prov[p] EXCEPT !.all = m]
    <3>1. s \in Settings /\ s.guid = prov[p].guid /\ s.rundown = prov[p].rundown
      BY <2>0 DEF Settings
    <3> QED BY <2>2, <3>1, SetChanges DEF All
  <2> QED BY <1>2, <2>1, <2>2
<1>3. ASSUME NEW l \in Levels, Level(p, l)
      PROVE  \E q \in Providers, s \in Settings : Changes(q, s)
  <2> DEFINE s == [prov[p] EXCEPT !.level = l]
  <2>1. prov[p] \in Settings /\ l \in SUBSET Bits
    BY <1>0, <1>3 DEF Level, Set, Bits
  <2>2. s \in Settings /\ s.guid = prov[p].guid /\ s.rundown = prov[p].rundown
    BY <2>1 DEF Settings
  <2> QED BY <1>3, <2>2, SetChanges DEF Level
<1>4. ASSUME TraceFlags(p, Flags)
      PROVE  \E q \in Providers, s \in Settings : Changes(q, s)
  <2> DEFINE s == [prov[p] EXCEPT !.flags = Flags]
  <2>1. prov[p] \in Settings
    BY <1>0, <1>4 DEF TraceFlags, Set
  <2>2. s \in Settings /\ s.guid = prov[p].guid /\ s.rundown = prov[p].rundown
    BY <2>1 DEF Settings
  <2> QED BY <1>4, <2>2, SetChanges DEF TraceFlags
<1>5. ASSUME EnableRundown(p)
      PROVE  \E q \in Providers, s \in Settings : Changes(q, s)
  <2> DEFINE s == [prov[p] EXCEPT !.rundown = TRUE]
  <2>1. prov[p] \in Settings
    BY <1>0, <1>5 DEF EnableRundown, Set
  <2>2. s \in Settings /\ s.guid = prov[p].guid /\ s.rundown
    BY <2>1 DEF Settings
  <2> QED BY <1>5, <2>2, SetChanges DEF EnableRundown
<1>6. ASSUME NEW ids \in SUBSET EventIds, NEW named \in SUBSET EventIds,
             Set(p, [prov[p] EXCEPT !.ids = @ \cup ids, !.named = @ \cup named])
      PROVE  \E q \in Providers, s \in Settings : Changes(q, s)
  <2> DEFINE s == [prov[p] EXCEPT !.ids = @ \cup ids, !.named = @ \cup named]
  <2>1. prov[p] \in Settings
    BY <1>0, <1>6 DEF Set
  <2>2. s \in Settings /\ s.guid = prov[p].guid /\ s.rundown = prov[p].rundown
    BY <2>1 DEF Settings
  <2> QED BY <1>6, <2>2, SetChanges
<1>7. ASSUME NEW i \in EventIds, AddFilterIds(p, {i})
      PROVE  \E q \in Providers, s \in Settings : Changes(q, s)
  BY <1>6, <1>7 DEF AddFilterIds
<1>8. ASSUME NEW l \in Lists, AddFilterList(p, l)
      PROVE  \E q \in Providers, s \in Settings : Changes(q, s)
  <2>1. l \in SUBSET EventIds /\ ToVector(l) \in SUBSET EventIds
    BY SettingsAssumption DEF ToVector
  <2> QED BY <1>6, <1>8, <2>1 DEF AddFilterList
<1>9. ASSUME NEW q \in Providers, Convert(p, q)
      PROVE  Changes(q, Converted(prov[p]))
  <2>1. prov[q] \notin Settings
    BY <1>9, SettingsAssumption DEF Convert, Born
  <2> QED BY <1>9, <2>1 DEF Convert, Call, Changes, SettingsTypeOK
<1>10. ASSUME NEW q \in Providers, Convert(p, q)
       PROVE  Converted(prov[p]) \in Settings
  BY <1>0, <1>10, ConvertedType DEF Convert
<1> QED BY <1>1, <1>2, <1>3, <1>4, <1>5, <1>7, <1>8, <1>9, <1>10, FreshType

LEMMA SnapKept ==
  ASSUME Snap, UNCHANGED <<seen, enabled, phase, registered>>
  PROVE  Snap'
<1> SUFFICES ASSUME phase \in {"open", "processing"}, registered, NEW g \in Guids
             PROVE  enabled[g] = IF SeenOf(g)' = {} THEN None ELSE United(SeenOf(g)')
  BY DEF Snap
<1>1. SeenOf(g)' = SeenOf(g)
  BY DEF SeenOf, Opened
<1> QED BY <1>1 DEF Snap

LEMMA ChangeKeepsInv ==
  ASSUME SettingsInv, NEW p \in Providers, NEW s \in Settings, Changes(p, s)
  PROVE  SettingsInv'
<1> USE DEF SettingsInv, Changes, traceVars
<1>1. SettingsTypeOK'
  BY SettingsAssumption DEF SettingsTypeOK, Listed, Born
<1>2. Kept'
  <2> SUFFICES ASSUME NEW q \in Providers, seen[q] # None
               PROVE  /\ q \in Listed /\ prov'[q] \in Settings
                      /\ prov'[q].guid = seen[q].guid
                      /\ seen[q].rundown => prov'[q].rundown
    BY DEF Kept, Listed
  <2>1. /\ q \in Listed /\ prov[q] \in Settings /\ prov[q].guid = seen[q].guid
        /\ seen[q].rundown => prov[q].rundown
    BY DEF Kept
  <2>2. prov'[q] = IF q = p THEN s ELSE prov[q]
    BY DEF SettingsTypeOK
  <2> QED BY <2>1, <2>2
<1>3. Snap'
  BY SnapKept
<1>4. RundownAsked'
  BY DEF RundownAsked
<1> QED BY <1>1, <1>2, <1>3, <1>4

LEMMA EnableKeepsInv ==
  ASSUME SettingsInv, NEW p \in Providers, EnableProvider(p)
  PROVE  SettingsInv'
<1> USE DEF SettingsInv, EnableProvider, Call
<1>1. list' \in Seq(Providers) /\ Listed' = Listed \cup {p}
  <2>1. list \in Seq(Providers) /\ list' = Append(list, p)
    BY DEF SettingsTypeOK
  <2>2. /\ Len(list') = Len(list) + 1 /\ list'[Len(list) + 1] = p
        /\ \A i \in 1..Len(list) : list'[i] = list[i]
    BY <2>1
  <2>3. /\ list' \in Seq(Providers) /\ Len(list) \in Nat
        /\ DOMAIN list = 1..Len(list) /\ DOMAIN list' = 1..(Len(list) + 1)
    BY <2>1, <2>2
  <2> QED BY <2>2, <2>3 DEF Listed
<1>2. SettingsTypeOK'
  BY <1>1 DEF SettingsTypeOK, Born
<1>3. Kept'
  BY <1>1 DEF Kept
<1>4. Snap'
  BY DEF Snap, SeenOf, Opened
<1>5. RundownAsked'
  BY DEF RundownAsked
<1> QED BY <1>2, <1>3, <1>4, <1>5
-----------------------------------------------------------------------------
(* The steps of the trace.                                                 *)

LEMMA OpenKeepsInv ==
  ASSUME SettingsInv, OpenTrace
  PROVE  SettingsInv'
<1> USE DEF SettingsInv, OpenTrace, Call
<1>0. SettingsTypeOK /\ Listed' = Listed
  BY DEF Listed
<1>1. SettingsTypeOK'
  BY <1>0, ListedTypes, RequestType DEF SettingsTypeOK, Born
<1>2. Kept'
  BY <1>0, ListedTypes DEF Kept
<1>3. Snap'
  <2> SUFFICES ASSUME NEW g \in Guids
               PROVE  enabled'[g] = IF SeenOf(g)' = {} THEN None ELSE United(SeenOf(g)')
    BY DEF Snap, United
  <2>1. \A p \in Providers : seen'[p] # None <=> p \in Listed
    BY <1>0, ListedTypes
  <2>2. \A p \in Listed : seen'[p] = prov[p]
    BY <1>0, ListedTypes
  <2>3. Opened(g)' = {p \in Listed : prov[p].guid = g}
    BY <1>0, <2>1, <2>2, ListedTypes DEF Opened
  <2>4. SeenOf(g)' = {seen'[p] : p \in Opened(g)'}
    BY DEF SeenOf
  <2>5. SeenOf(g)' = OfGuid(g)
    BY <2>2, <2>3, <2>4 DEF OfGuid
  <2> QED BY <2>5 DEF Request
<1>4. RundownAsked'
  BY DEF RundownAsked
<1> QED BY <1>1, <1>2, <1>3, <1>4

LEMMA OpenFailsKeepsInv ==
  ASSUME SettingsInv, NEW last \in {0} \cup Guids, OpenFails(last)
  PROVE  SettingsInv'
<1> USE DEF SettingsInv, OpenFails, EnableProviders, Call
<1>0. SettingsTypeOK /\ Listed' = Listed
  BY DEF Listed
<1>1. SettingsTypeOK'
  BY <1>0, RequestType DEF SettingsTypeOK, Born
<1> QED BY <1>1 DEF Kept, Snap, RundownAsked

LEMMA FallbackKeepsInv ==
  ASSUME SettingsInv, OpenFallback
  PROVE  SettingsInv'
<1> USE DEF SettingsInv, OpenFallback, Call
<1>1. SettingsTypeOK'
  BY DEF SettingsTypeOK, Listed, Born
<1>2. Kept'
  BY DEF Kept, Listed
<1> QED BY <1>1, <1>2 DEF Snap, RundownAsked

LEMMA ProcessKeepsInv ==
  ASSUME SettingsInv, Process
  PROVE  SettingsInv'
<1> USE DEF SettingsInv, Process, Call
<1>0. SettingsTypeOK /\ Listed' = Listed
  BY DEF Listed
<1>1. SettingsTypeOK'
  BY <1>0, RundownGuids DEF SettingsTypeOK, Born
<1>2. Kept'
  BY <1>0 DEF Kept
<1>3. Snap'
  BY DEF Snap, SeenOf, Opened
<1>4. RundownAsked'
  <2> SUFFICES ASSUME registered, NEW p \in Providers, seen[p] # None, seen[p].rundown
               PROVE  seen[p].guid \in captured'
    BY DEF RundownAsked
  <2>1. p \in Listed /\ prov[p].guid = seen[p].guid /\ prov[p].rundown
    BY DEF Kept
  <2> QED BY <2>1 DEF RundownOf
<1> QED BY <1>1, <1>2, <1>3, <1>4

LEMMA RundownFailsKeepsInv ==
  ASSUME SettingsInv, NEW n \in DOMAIN list, RundownFails(n)
  PROVE  SettingsInv'
<1> USE DEF SettingsInv, RundownFails, Call
<1>0. SettingsTypeOK /\ Listed' = Listed
  BY DEF Listed
<1>1. captured' \subseteq Guids
  <2> DEFINE before == {list[i] : i \in 1..(n - 1)}
  <2>1. list \in Seq(Providers) /\ captured \subseteq Guids
    BY DEF SettingsTypeOK
  <2>2. 1..(n - 1) \subseteq DOMAIN list
    BY <2>1
  <2>3. before \in SUBSET Listed
    BY <2>2 DEF Listed
  <2>4. RundownOf(before) \subseteq Guids
    BY <1>0, <2>3, RundownGuids
  <2> QED BY <2>1, <2>4
<1>2. SettingsTypeOK'
  BY <1>0, <1>1 DEF SettingsTypeOK, Born
<1>3. Kept'
  BY <1>0 DEF Kept
<1>4. Snap'
  BY DEF Snap, SeenOf, Opened
<1> QED BY <1>2, <1>3, <1>4 DEF RundownAsked

LEMMA StopKeepsInv ==
  ASSUME SettingsInv, Stop
  PROVE  SettingsInv'
<1> USE DEF SettingsInv, Stop, Call
<1>1. SettingsTypeOK'
  <2>1. SettingsTypeOK /\ Listed' = Listed /\ Born' = Born
    BY DEF Listed, Born
  <2>2. /\ enabled' \in [Guids -> Requests \cup {None}]
        /\ seen' \in [Providers -> Settings \cup {None}]
    OBVIOUS
  <2>3. /\ phase' \in {"closed", "failed", "open", "processing"}
        /\ captured' \subseteq Guids /\ calls' \in Nat
    BY DEF SettingsTypeOK
  <2>4. registered' \in BOOLEAN
    BY Zenon
  <2>5. /\ prov' \in [Providers -> Settings \cup {Unborn}]
        /\ list' \in Seq(Providers) /\ Listed' \subseteq Born'
    BY <2>1 DEF SettingsTypeOK
  <2> QED BY <2>2, <2>3, <2>4, <2>5 DEF SettingsTypeOK
<1> QED BY <1>1 DEF Kept, Snap, RundownAsked
-----------------------------------------------------------------------------
LEMMA SettingsInvHolds == SettingsSpec => []SettingsInv
<1>1. SettingsInit => SettingsInv
  <2> SUFFICES ASSUME SettingsInit PROVE SettingsInv
    OBVIOUS
  <2>1. Listed = {}
    BY DEF SettingsInit, Listed
  <2>2. SettingsTypeOK
    <3>1. list \in Seq(Providers) /\ Listed \subseteq Born
      BY <2>1 DEF SettingsInit
    <3>2. /\ prov \in [Providers -> Settings \cup {Unborn}]
          /\ enabled \in [Guids -> Requests \cup {None}]
          /\ seen \in [Providers -> Settings \cup {None}]
      BY DEF SettingsInit
    <3> QED BY <3>1, <3>2 DEF SettingsInit, SettingsTypeOK
  <2> QED BY <2>2 DEF SettingsInit, SettingsInv, Kept, Snap, RundownAsked
<1>2. SettingsInv /\ [SettingsNext]_svars => SettingsInv'
  <2> SUFFICES ASSUME SettingsInv, [SettingsNext]_svars PROVE SettingsInv'
    OBVIOUS
  <2>1. CASE ProviderCalls
    BY <2>1, ProviderCallsChange, ChangeKeepsInv DEF SettingsInv
  <2>2. CASE \E p \in Providers : EnableProvider(p)
    BY <2>2, EnableKeepsInv
  <2>3. CASE OpenTrace
    BY <2>3, OpenKeepsInv
  <2>4. CASE \E last \in {0} \cup Guids : OpenFails(last)
    BY <2>4, OpenFailsKeepsInv
  <2>5. CASE OpenFallback
    BY <2>5, FallbackKeepsInv
  <2>6. CASE Process
    BY <2>6, ProcessKeepsInv
  <2>7. CASE \E n \in DOMAIN list : RundownFails(n)
    BY <2>7, RundownFailsKeepsInv
  <2>8. CASE Stop
    BY <2>8, StopKeepsInv
  <2>9. CASE UNCHANGED svars
    <3> USE <2>9 DEF svars, SettingsInv
    <3>1. Listed' = Listed
      BY DEF Listed
    <3>2. SettingsTypeOK'
      BY <3>1 DEF SettingsTypeOK, Born
    <3>3. Kept' /\ RundownAsked'
      BY <3>1 DEF Kept, RundownAsked
    <3>4. Snap'
      BY SnapKept
    <3> QED BY <3>2, <3>3, <3>4
  <2> QED BY <2>1, <2>2, <2>3, <2>4, <2>5, <2>6, <2>7, <2>8, <2>9
          DEF SettingsNext, ProviderCalls
<1> QED BY <1>1, <1>2, PTL DEF SettingsSpec

\* The settings, the list of references and what ETW is asked always have their types,
\* whatever is called in whatever order (provider.hpp:173-239).
THEOREM SettingsTypeCorrect == SettingsSpec => []SettingsTypeOK
BY SettingsInvHolds, PTL DEF SettingsInv
-----------------------------------------------------------------------------
(* What follows from it.                                                   *)

LEMMA SeenTypes ==
  ASSUME SettingsInv, NEW g \in Guids
  PROVE  /\ SeenOf(g) \in SUBSET Settings
         /\ Opened(g) \subseteq Listed
BY DEF SettingsInv, SettingsTypeOK, Kept, SeenOf, Opened

\* Every provider that asked for its state to be logged before open() is asked for it before
\* events are processed, and is enabled in the session then (ut.hpp:204-224).
THEOREM RundownsReach == SettingsSpec => []RundownReaches
<1>1. SettingsInv => RundownReaches
  <2> SUFFICES ASSUME SettingsInv, phase = "processing", registered,
                      NEW p \in Listed, seen[p] # None, seen[p].rundown
               PROVE  seen[p].guid \in captured /\ enabled[seen[p].guid] # None
    BY DEF RundownReaches
  <2>1. p \in Providers /\ seen[p].guid \in Guids
    BY ListedTypes DEF SettingsInv, SettingsTypeOK, Settings
  <2>2. SeenOf(seen[p].guid) # {}
    BY <2>1 DEF SeenOf, Opened
  <2>3. enabled[seen[p].guid] \in Requests
    BY <2>1, <2>2, SeenTypes, UnitedType DEF SettingsInv, Snap
  <2>4. seen[p].guid \in captured
    BY <2>1 DEF SettingsInv, RundownAsked
  <2> QED BY <2>3, <2>4, SettingsAssumption
<1> QED BY <1>1, SettingsInvHolds, PTL

\* The number that a set of bits stands for grows with the set.
LEMMA LevelGrows ==
  ASSUME NEW l, NEW m, l \subseteq m
  PROVE  LevelOf(l) <= LevelOf(m) /\ LevelOf(l) \in Nat /\ LevelOf(m) \in Nat
<1> DEFINE Grows(b, v) == /\ LevelBit(l, b, v) \in Nat /\ LevelBit(m, b, v) \in Nat
                          /\ LevelBit(l, b, v) <= LevelBit(m, b, v)
<1>1. /\ Grows(0, 1) /\ Grows(1, 2) /\ Grows(2, 4) /\ Grows(3, 8)
      /\ Grows(4, 16) /\ Grows(5, 32) /\ Grows(6, 64) /\ Grows(7, 128)
  BY DEF LevelBit
<1> QED BY <1>1 DEF LevelOf

\* A request for one provider is the settings of the provider.
LEMMA UnitedOne ==
  ASSUME NEW s \in Settings
  PROVE  United({s}) = [any |-> s.any, all |-> s.all, level |-> s.level \cap UcharBits,
                        flags |-> s.flags, ids |-> s.ids]
<1>1. /\ UNION {t.any : t \in {s}} = s.any /\ UNION {t.all : t \in {s}} = s.all
      /\ UNION {t.level : t \in {s}} = s.level /\ UNION {t.flags : t \in {s}} = s.flags
      /\ UNION {t.ids : t \in {s}} = s.ids
  OBVIOUS
<1> QED BY <1>1 DEF United

\* What passing one provider alone means.
LEMMA PassesAlone ==
  ASSUME NEW s \in Settings, NEW e \in Events
  PROVE  Passes(United({s}), e) <=>
           /\ s.level \cap UcharBits = {} \/ e.level <= LevelOf(s.level \cap UcharBits)
           /\ \/ e.keywords = {} \/ s.any = {}
              \/ s.any \cap e.keywords # {} /\ s.all \subseteq e.keywords
           /\ s.ids = {} \/ e.id \in s.ids
<1> DEFINE r == United({s})
<1>1. r.any = s.any /\ r.all = s.all /\ r.level = s.level \cap UcharBits /\ r.ids = s.ids
  <2>1. r = [any |-> s.any, all |-> s.all, level |-> s.level \cap UcharBits,
             flags |-> s.flags, ids |-> s.ids]
    BY UnitedOne
  <2> HIDE DEF r
  <2> QED BY <2>1
<1> HIDE DEF r
<1>2. Passes(r, e) <=>
        /\ s.level \cap UcharBits = {} \/ e.level <= LevelOf(s.level \cap UcharBits)
        /\ \/ e.keywords = {} \/ s.any = {}
           \/ s.any \cap e.keywords # {} /\ s.all \subseteq e.keywords
        /\ s.ids = {} \/ e.id \in s.ids
  BY <1>1 DEF Passes, LevelPasses, KeywordPasses, IdPasses
<1> QED BY <1>2 DEF r

\* An event that passes for one provider, with the keywords it has and with those it was ever
\* given, passes for a union with it in which no other provider refuses the event.
LEMMA UnionPasses ==
  ASSUME NEW S \in SUBSET Settings, NEW s \in S, NEW e \in Events,
         \A t \in S :
           /\ s.level \cap UcharBits = {} /\ t.level \cap UcharBits # {} =>
                e.level <= LevelOf(t.level \cap UcharBits)
           /\ s.ids = {} /\ t.ids # {} => e.id \in t.ids
           /\ s.any = {} /\ t.any # {} /\ e.keywords # {} =>
                t.any \cap e.keywords # {} /\ s.all \subseteq e.keywords
           /\ t # s /\ e.keywords # {} => t.all \subseteq e.keywords,
         Passes(United({s}), e)
  PROVE  Passes(United(S), e)
<1> DEFINE u == United(S)
<1>1. /\ u.any = UNION {t.any : t \in S} /\ u.all = UNION {t.all : t \in S}
      /\ u.level = (UNION {t.level : t \in S}) \cap UcharBits
      /\ u.ids = UNION {t.ids : t \in S}
  BY DEF United
<1>2. /\ s.any \subseteq u.any /\ s.ids \subseteq u.ids
      /\ \A t \in S : t.level \cap UcharBits \subseteq u.level
  BY <1>1
<1>3. /\ s.level \cap UcharBits = {} \/ e.level <= LevelOf(s.level \cap UcharBits)
      /\ \/ e.keywords = {} \/ s.any = {}
         \/ s.any \cap e.keywords # {} /\ s.all \subseteq e.keywords
      /\ s.ids = {} \/ e.id \in s.ids
  BY PassesAlone
<1> HIDE DEF u
<1>4. LevelPasses(u, e)
  <2>1. e.level \in Nat
    BY SettingsAssumption
  <2>2. ASSUME NEW t \in S, e.level <= LevelOf(t.level \cap UcharBits) PROVE LevelPasses(u, e)
    BY <1>2, <2>1, <2>2, LevelGrows DEF LevelPasses
  <2>3. CASE s.level \cap UcharBits # {}
    BY <1>3, <2>2, <2>3
  <2>4. CASE s.level \cap UcharBits = {} /\ u.level # {}
    <3>1. PICK t \in S : t.level \cap UcharBits # {}
      BY <1>1, <2>4
    <3> QED BY <2>2, <2>4, <3>1
  <2>5. CASE u.level = {}
    BY <2>5 DEF LevelPasses
  <2> QED BY <2>3, <2>4, <2>5
<1>5. KeywordPasses(u, e)
  <2> SUFFICES ASSUME e.keywords # {}, u.any # {}
               PROVE  u.any \cap e.keywords # {} /\ u.all \subseteq e.keywords
    BY DEF KeywordPasses
  <2>1. u.any \cap e.keywords # {} /\ s.all \subseteq e.keywords
    <3>1. CASE s.any # {}
      BY <1>2, <1>3, <3>1
    <3>2. CASE s.any = {}
      <4>1. PICK t \in S : t.any # {}
        BY <1>1
      <4>2. t.any \cap e.keywords # {} /\ s.all \subseteq e.keywords
        BY <3>2, <4>1
      <4>3. t.any \subseteq u.any
        BY <1>1
      <4> QED BY <4>2, <4>3
    <3> QED BY <3>1, <3>2
  <2>2. \A t \in S : t.all \subseteq e.keywords
    BY <2>1
  <2> QED BY <1>1, <2>1, <2>2
<1>6. IdPasses(u, e)
  <2>1. CASE s.ids # {}
    BY <1>2, <1>3, <2>1 DEF IdPasses
  <2>2. CASE s.ids = {} /\ u.ids # {}
    <3>1. PICK t \in S : t.ids # {}
      BY <1>1, <2>2
    <3> QED BY <1>1, <2>2, <3>1 DEF IdPasses
  <2>3. CASE u.ids = {}
    BY <2>3 DEF IdPasses
  <2> QED BY <2>1, <2>2, <2>3
<1> QED BY <1>4, <1>5, <1>6 DEF Passes, u

\* If no any() took back what the event needs, the provider alone passes what it would pass
\* with all the keywords it was given.
LEMMA WishedPasses ==
  ASSUME NEW s \in Settings, NEW e \in Events, Passes(United({Wished(s)}), e), ~Replaced(s, e)
  PROVE  Passes(United({s}), e)
<1> DEFINE w == Wished(s)
<1>1. w \in Settings /\ w.any = s.any \cup s.asked /\ w.all = s.all /\ w.level = s.level /\ w.ids = s.ids
  BY DEF Wished, Settings
<1> HIDE DEF w
<1>2. Passes(United({w}), e)
  BY DEF w
<1>3. /\ s.level \cap UcharBits = {} \/ e.level <= LevelOf(s.level \cap UcharBits)
      /\ \/ e.keywords = {} \/ w.any = {}
         \/ w.any \cap e.keywords # {} /\ s.all \subseteq e.keywords
      /\ s.ids = {} \/ e.id \in s.ids
  BY <1>1, <1>2, PassesAlone
<1>4. \/ e.keywords = {} \/ s.any = {}
      \/ s.any \cap e.keywords # {} /\ s.all \subseteq e.keywords
  BY <1>1, <1>3 DEF Replaced
<1> QED BY <1>3, <1>4, PassesAlone

\* An event that one provider of the list asks for, by all the keywords it was ever given, is
\* only lost if the provider was enabled or changed after open(), if a later any() took its
\* keyword back, or if another provider of the GUID has the union refuse it (ut.hpp:132-149).
THEOREM EventsLostExplained == SettingsSpec => []LossesExplained
<1>1. SettingsInv => LossesExplained
  <2> SUFFICES ASSUME SettingsInv, phase \in {"open", "processing"}, registered,
                      NEW p \in Listed, NEW e \in Events, e.guid = prov[p].guid,
                      Passes(United({Wished(prov[p])}), e), seen[p] = prov[p],
                      ~Replaced(prov[p], e),
                      \A q \in Listed \ {p} : ~Narrows(q, p, e)
               PROVE  Written(e)
    BY DEF LossesExplained
  <2> DEFINE g == e.guid
  <2>1. p \in Providers /\ prov[p] \in Settings /\ seen[p] # None /\ g \in Guids
    BY ListedTypes DEF SettingsInv, Settings
  <2>2. p \in Opened(g) /\ prov[p] \in SeenOf(g)
    BY <2>1 DEF Opened, SeenOf
  <2>3. SeenOf(g) \in SUBSET Settings /\ Opened(g) \subseteq Listed
    BY <2>1, SeenTypes
  <2>4. ASSUME NEW t \in SeenOf(g)
        PROVE  /\ prov[p].level \cap UcharBits = {} /\ t.level \cap UcharBits # {} =>
                    e.level <= LevelOf(t.level \cap UcharBits)
               /\ prov[p].ids = {} /\ t.ids # {} => e.id \in t.ids
               /\ prov[p].any = {} /\ t.any # {} /\ e.keywords # {} =>
                    t.any \cap e.keywords # {} /\ prov[p].all \subseteq e.keywords
               /\ t # prov[p] /\ e.keywords # {} => t.all \subseteq e.keywords
    <3>1. PICK q \in Opened(g) : t = seen[q]
      BY DEF SeenOf
    <3>2. e.level \in Nat /\ LevelOf(t.level \cap UcharBits) \in Nat
      BY SettingsAssumption, LevelGrows
    <3>3. CASE q # p
      <4>1. ~Narrows(q, p, e) /\ seen[q] # None /\ seen[q].guid = seen[p].guid
        BY <2>2, <2>3, <3>1, <3>3 DEF Opened
      <4> QED BY <3>1, <3>2, <4>1 DEF Narrows
    <3>4. CASE q = p
      BY <3>1, <3>4
    <3> QED BY <3>3, <3>4
  <2>5. Passes(United(SeenOf(g)), e)
    BY <2>1, <2>2, <2>3, <2>4, UnionPasses, WishedPasses
  <2>6. enabled[g] = United(SeenOf(g)) /\ enabled[g] # None
    BY <2>1, <2>2, <2>3, UnitedType, SettingsAssumption DEF SettingsInv, Snap
  <2> QED BY <2>5, <2>6 DEF Written
<1> QED BY <1>1, SettingsInvHolds, PTL
-----------------------------------------------------------------------------
(* Kernel traces: the rows of the tables.                                  *)

FlagRow(k, bit, guid) == NativeTable[k] = Flag(bit, guid) /\ ClassesOf(0, bit) \ Unserved = {guid}

\* The provider is known by the GUID that the events of its flags carry, but for UDP events.
RowOK(s) == s \in KSettings /\ s.mask = {} /\ \A b \in s.flags : ClassesOf(0, b) \ Unserved = {s.id}

LEMMA FlagOK ==
  ASSUME NEW bit \in 0..31, NEW guid \in Classes, NEW k, FlagRow(k, bit, guid)
  PROVE  RowOK(NativeTable[k])
<1>1. Flag(bit, guid) \in KSettings
  BY DEF Flag, KSettings, Ulong
<1> QED BY <1>1 DEF FlagRow, Flag, RowOK

\* So are all rows of the native table with a flag.
LEMMA TableRows ==
  ASSUME NEW k \in DOMAIN NativeTable, k # "object_manager"
  PROVE  RowOK(NativeTable[k])
<1>1. DOMAIN NativeTable =
        {"alpc", "context_switch", "debug_print", "disk_file_io", "disk_io", "disk_init_io",
         "file_io", "file_init_io", "thread_dispatch", "dpc", "driver", "image_load",
         "interrupt", "memory_hard_fault", "memory_page_fault", "network_tcpip", "process",
         "process_counter", "profile", "registry", "split_io", "system_call", "thread",
         "vamap", "virtual_alloc", "object_manager"}
  BY DEF NativeTable
<1>2. \A j \in {"context_switch", "thread_dispatch", "thread"} : RowOK(NativeTable[j])
  <2>1. /\ FlagRow("context_switch", 4, "thread")
        /\ FlagRow("thread_dispatch", 11, "thread")
        /\ FlagRow("thread", 1, "thread")
    BY DEF NativeTable, ClassesOf, Unserved, FlagRow
  <2> QED BY <2>1, FlagOK DEF Classes
<1>3. \A j \in {"disk_file_io", "file_io", "file_init_io", "vamap"} : RowOK(NativeTable[j])
  <2>1. /\ FlagRow("disk_file_io", 9, "file_io")
        /\ FlagRow("file_io", 25, "file_io")
        /\ FlagRow("file_init_io", 26, "file_io")
        /\ FlagRow("vamap", 15, "file_io")
    BY DEF NativeTable, ClassesOf, Unserved, FlagRow
  <2> QED BY <2>1, FlagOK DEF Classes
<1>4. \A j \in {"disk_io", "disk_init_io", "driver"} : RowOK(NativeTable[j])
  <2>1. /\ FlagRow("disk_io", 8, "disk_io")
        /\ FlagRow("disk_init_io", 10, "disk_io")
        /\ FlagRow("driver", 23, "disk_io")
    BY DEF NativeTable, ClassesOf, Unserved, FlagRow
  <2> QED BY <2>1, FlagOK DEF Classes
<1>5. \A j \in {"dpc", "interrupt", "profile", "system_call"} : RowOK(NativeTable[j])
  <2>1. /\ FlagRow("dpc", 5, "perf_info")
        /\ FlagRow("interrupt", 6, "perf_info")
        /\ FlagRow("profile", 24, "perf_info")
        /\ FlagRow("system_call", 7, "perf_info")
    BY DEF NativeTable, ClassesOf, Unserved, FlagRow
  <2> QED BY <2>1, FlagOK DEF Classes
<1>6. \A j \in {"memory_hard_fault", "memory_page_fault", "virtual_alloc"} : RowOK(NativeTable[j])
  <2>1. /\ FlagRow("memory_hard_fault", 13, "page_fault")
        /\ FlagRow("memory_page_fault", 12, "page_fault")
        /\ FlagRow("virtual_alloc", 14, "page_fault")
    BY DEF NativeTable, ClassesOf, Unserved, FlagRow
  <2> QED BY <2>1, FlagOK DEF Classes
<1>7. \A j \in {"process", "process_counter"} : RowOK(NativeTable[j])
  <2>1. /\ FlagRow("process", 0, "process")
        /\ FlagRow("process_counter", 3, "process")
    BY DEF NativeTable, ClassesOf, Unserved, FlagRow
  <2> QED BY <2>1, FlagOK DEF Classes
<1>8. \A j \in {"alpc", "debug_print", "image_load"} : RowOK(NativeTable[j])
  <2>1. /\ FlagRow("alpc", 20, "alpc")
        /\ FlagRow("debug_print", 18, "debug")
        /\ FlagRow("image_load", 2, "image_load")
    BY DEF NativeTable, ClassesOf, Unserved, FlagRow
  <2> QED BY <2>1, FlagOK DEF Classes
<1>9. \A j \in {"network_tcpip", "registry", "split_io"} : RowOK(NativeTable[j])
  <2>1. /\ FlagRow("network_tcpip", 16, "tcp_ip")
        /\ FlagRow("registry", 17, "registry")
        /\ FlagRow("split_io", 21, "split_io")
    BY DEF NativeTable, ClassesOf, Unserved, FlagRow
  <2> QED BY <2>1, FlagOK DEF Classes
<1> QED BY <1>1, <1>2, <1>3, <1>4, <1>5, <1>6, <1>7, <1>8, <1>9

LEMMA MaskOK ==
  ASSUME NEW gm \in Ulong, NEW guid \in Classes
  PROVE  Mask(guid, gm) \in KSettings
  BY DEF Mask, KSettings, Ulong

LEMMA TableTypes ==
  ASSUME NEW k \in Kinds
  PROVE  Table[k] \in KSettings
<1>1. NativeTable[k] \in KSettings
  <2>1. CASE k = "object_manager"
    <3>1. {31, 6} \in Ulong /\ "ob_trace" \in Classes
      BY DEF Ulong, Classes
    <3>2. NativeTable[k] = Mask("ob_trace", {31, 6})
      BY <2>1 DEF NativeTable
    <3> QED BY <3>1, <3>2, MaskOK
  <2> QED BY <2>1, TableRows, KernelAssumption DEF RowOK
<1>2. Flag(7, "system_trace") \in KSettings
  BY DEF Flag, KSettings, Ulong, Classes
<1>3. ManagedTable[k] = IF k = "system_call" THEN Flag(7, "system_trace") ELSE NativeTable[k]
  BY KernelAssumption DEF ManagedTable, NativeTable
<1> QED BY <1>1, <1>2, <1>3 DEF Table

-----------------------------------------------------------------------------
(* Kernel traces: the invariant.                                           *)

\* Two settings of a provider ask for the same: they differ in its rundown at most.
SameAsks(s, r) == s.flags = r.flags /\ s.mask = r.mask /\ s.id = r.id

KernelTypeOK ==
  /\ os \in {"win7", "win8"}
  /\ kprov \in [KProviders -> KSettings \cup {Unmade}]
  /\ klist \in Seq(KProviders)
  /\ kseen \subseteq Listing
  /\ \A p \in Listing : kprov[p] # Unmade

\* Each provider is one of the tables or has a mask of the client's.
FromTable ==
  \A p \in KProviders : kprov[p] # Unmade =>
    kprov[p].id = "raw" \/ \E k \in Kinds : SameAsks(kprov[p], Table[k])

\* The session has what the providers asked for that open() found, which were not changed
\* since; a session that could not be opened had a mask to set.
LoggedOK ==
  /\ kphase \in {"open", "processing"} =>
       logged = OrGroups(Started(UNION {kprov[p].flags : p \in kseen}), kseen)
  /\ kphase = "failed" => \E p \in kseen : kprov[p].mask # {}

KernelInv == KernelTypeOK /\ FromTable /\ LoggedOK

LEMMA ListingTypes ==
  ASSUME KernelTypeOK
  PROVE  /\ Listing \subseteq KProviders /\ kseen \subseteq KProviders
         /\ \A p \in Listing : kprov[p] \in KSettings
  BY DEF KernelTypeOK, Listing

\* The calls on one provider: what a provider of the list asks for stays.
LEMMA ProviderKeepsInv ==
  ASSUME KernelInv, NEW p \in KProviders, NEW s \in KSettings,
         kprov' = [kprov EXCEPT ![p] = s],
         s.id = "raw" \/ \E k \in Kinds : SameAsks(s, Table[k]),
         kprov[p] # Unmade => SameAsks(s, kprov[p]),
         UNCHANGED <<os, klist, kphase, logged, kseen>>
  PROVE  KernelInv'
<1>1. Listing' = Listing
  BY DEF Listing
<1>2. KernelTypeOK'
  BY <1>1, KernelAssumption DEF KernelInv, KernelTypeOK
<1>3. \A q \in KProviders : kprov'[q] = IF q = p THEN s ELSE kprov[q]
  BY DEF KernelInv, KernelTypeOK
<1>4. FromTable'
  BY <1>3 DEF KernelInv, FromTable
<1>5. \A q \in kseen : SameAsks(kprov'[q], kprov[q])
  BY <1>3, ListingTypes DEF KernelInv, KernelTypeOK, SameAsks
<1>6. LoggedOK'
  <2>1. \A q \in kseen : kprov'[q].flags = kprov[q].flags /\ kprov'[q].mask = kprov[q].mask
    BY <1>5 DEF SameAsks
  <2>2. {kprov'[q].flags : q \in kseen} = {kprov[q].flags : q \in kseen}
    BY <2>1
  <2>3. {{MaskIndex(kprov'[q].mask)} \X MaskGroup(kprov'[q].mask) : q \in kseen}
          = {{MaskIndex(kprov[q].mask)} \X MaskGroup(kprov[q].mask) : q \in kseen}
    BY <2>1
  <2>4. OrGroups(Started(UNION {kprov[q].flags : q \in kseen}), kseen)'
          = OrGroups(Started(UNION {kprov[q].flags : q \in kseen}), kseen)
    BY <2>2, <2>3 DEF OrGroups, Started
  <2> QED BY <2>1, <2>4 DEF KernelInv, LoggedOK
<1> QED BY <1>2, <1>4, <1>6 DEF KernelInv

LEMMA KernelEnableKeepsInv ==
  ASSUME KernelInv, NEW p \in KProviders, KernelEnable(p)
  PROVE  KernelInv'
<1>1. klist' \in Seq(KProviders) /\ Listing' = Listing \cup {p}
  <2>1. klist \in Seq(KProviders) /\ klist' = Append(klist, p)
    BY DEF KernelInv, KernelTypeOK, KernelEnable
  <2>2. /\ Len(klist') = Len(klist) + 1 /\ klist'[Len(klist) + 1] = p
        /\ \A i \in 1..Len(klist) : klist'[i] = klist[i]
    BY <2>1
  <2>3. /\ klist' \in Seq(KProviders) /\ Len(klist) \in Nat
        /\ DOMAIN klist = 1..Len(klist) /\ DOMAIN klist' = 1..(Len(klist) + 1)
    BY <2>1, <2>2
  <2> QED BY <2>2, <2>3 DEF Listing
<1>2. KernelTypeOK'
  BY <1>1 DEF KernelInv, KernelTypeOK, KernelEnable
<1> QED BY <1>2 DEF KernelInv, KernelEnable, FromTable, LoggedOK, OrGroups

\* open() gives ETW what the list asks for, with or without the masks.
LEMMA KernelOpenKeepsInv ==
  ASSUME KernelInv, KernelOpen
  PROVE  KernelInv'
<1>1. Listing' = Listing
  BY DEF KernelOpen, Listing
<1>2. KernelTypeOK' /\ FromTable'
  BY <1>1 DEF KernelInv, KernelTypeOK, FromTable, KernelOpen
<1>3. ~GroupMaskSet => SetMasks = Started(EnableFlags)
  <2>1. ASSUME \A p \in Listing : kprov[p].mask = {}
        PROVE  UNION {{MaskIndex(kprov[p].mask)} \X MaskGroup(kprov[p].mask) : p \in Listing} = {}
    BY <2>1 DEF MaskGroup
  <2> QED BY <2>1 DEF GroupMaskSet, SetMasks, OrGroups
<1>4. LoggedOK'
  <2>1. kprov' = kprov /\ kseen' = Listing
    BY DEF KernelOpen
  <2>2. OrGroups(Started(UNION {kprov[p].flags : p \in kseen}), kseen)' = SetMasks
    BY <2>1 DEF SetMasks, EnableFlags, OrGroups, Started
  <2>3. CASE GroupMaskSet
    BY <2>1, <2>2, <2>3 DEF LoggedOK, KernelOpen, GroupMaskSet
  <2>4. CASE ~GroupMaskSet
    BY <1>3, <2>1, <2>2, <2>4 DEF LoggedOK, KernelOpen
  <2> QED BY <2>3, <2>4
<1> QED BY <1>2, <1>4 DEF KernelInv

LEMMA KernelInvHolds == KernelSpec => []KernelInv
<1>1. KernelInit => KernelInv
  <2> SUFFICES ASSUME KernelInit PROVE KernelInv
    OBVIOUS
  <2>1. Listing = {} /\ klist \in Seq(KProviders)
    BY DEF KernelInit, Listing
  <2> QED BY <2>1 DEF KernelInit, KernelInv, KernelTypeOK, FromTable, LoggedOK
<1>2. KernelInv /\ [KernelNext]_kvars => KernelInv'
  <2> SUFFICES ASSUME KernelInv, [KernelNext]_kvars PROVE KernelInv'
    OBVIOUS
  <2>1. ASSUME NEW p \in KProviders, NEW k \in Kinds, KernelConstruct(p, Table[k])
        PROVE  KernelInv'
    <3>1. SameAsks(Table[k], Table[k])
      BY DEF SameAsks
    <3> QED BY <2>1, <3>1, TableTypes, ProviderKeepsInv DEF KernelConstruct
  <2>2. ASSUME NEW p \in KProviders, NEW gm \in RawMasks, KernelConstruct(p, Mask("raw", gm))
        PROVE  KernelInv'
    <3>1. Mask("raw", gm) \in KSettings /\ Mask("raw", gm).id = "raw"
      BY MaskOK, KernelAssumption DEF Mask, Classes
    <3> QED BY <2>2, <3>1, ProviderKeepsInv DEF KernelConstruct
  <2>3. ASSUME NEW p \in KProviders, SetRundownFlags(p, {0})
        PROVE  KernelInv'
    <3> DEFINE s == [kprov[p] EXCEPT !.bits = {0}, !.rundown = TRUE]
    <3>1. kprov[p] \in KSettings
      BY <2>3 DEF KernelInv, KernelTypeOK, SetRundownFlags
    <3>2. s \in KSettings /\ SameAsks(s, kprov[p])
      <4>1. {0} \in Ulong
        BY DEF Ulong
      <4> QED BY <3>1, <4>1 DEF KSettings, SameAsks
    <3>3. kprov' = [kprov EXCEPT ![p] = s]
      BY <2>3 DEF SetRundownFlags
    <3>4. s.id = "raw" \/ \E k \in Kinds : SameAsks(s, Table[k])
      BY <2>3, <3>2 DEF KernelInv, FromTable, SetRundownFlags, SameAsks
    <3> HIDE DEF s
    <3> QED BY <2>3, <3>2, <3>3, <3>4, ProviderKeepsInv DEF SetRundownFlags
  <2>4. ASSUME NEW p \in KProviders, KernelEnable(p) PROVE KernelInv'
    BY <2>4, KernelEnableKeepsInv
  <2>5. CASE KernelOpen
    BY <2>5, KernelOpenKeepsInv
  <2>6. CASE KernelProcess
    BY <2>6 DEF KernelProcess, KernelInv, KernelTypeOK, Listing, FromTable, LoggedOK, OrGroups
  <2>7. CASE KernelStop
    BY <2>7 DEF KernelStop, KernelInv, KernelTypeOK, Listing, FromTable, LoggedOK
  <2>8. CASE UNCHANGED kvars \/ KernelRundownFails
    <3>1. UNCHANGED <<os, kprov, klist, kphase, logged, kseen>> /\ Listing' = Listing
      BY <2>8 DEF kvars, KernelRundownFails, Listing
    <3>2. KernelTypeOK' /\ FromTable'
      BY <3>1 DEF KernelInv, KernelTypeOK, FromTable
    <3>3. LoggedOK'
      BY <3>1 DEF KernelInv, LoggedOK, OrGroups
    <3> QED BY <3>2, <3>3 DEF KernelInv
  <2> QED BY <2>1, <2>2, <2>3, <2>4, <2>5, <2>6, <2>7, <2>8 DEF KernelNext
<1> QED BY <1>1, <1>2, PTL DEF KernelSpec
-----------------------------------------------------------------------------
(* Kernel traces: the theorems.                                            *)

\* The three bits on top of a mask number the word, and name it uniquely.
LEMMA MaskIndexBits ==
  ASSUME NEW gm \in Ulong, NEW i \in 0..7
  PROVE  i = MaskIndex(gm) <=> /\ 29 \in gm <=> i % 2 = 1
                               /\ 30 \in gm <=> (i \div 2) % 2 = 1
                               /\ 31 \in gm <=> i \div 4 = 1
<1>1. i = 0 \/ i = 1 \/ i = 2 \/ i = 3 \/ i = 4 \/ i = 5 \/ i = 6 \/ i = 7
  OBVIOUS
<1>2. i % 2 = 1 <=> i \in {1, 3, 5, 7}
  BY <1>1
<1>3. (i \div 2) % 2 = 1 <=> i \in {2, 3, 6, 7}
  BY <1>1
<1>4. i \div 4 = 1 <=> i \in {4, 5, 6, 7}
  BY <1>1
<1> QED BY <1>1, <1>2, <1>3, <1>4 DEF MaskIndex

LEMMA MaskBits ==
  ASSUME NEW gm \in Ulong
  PROVE  {MaskIndex(gm)} \X MaskGroup(gm) =
           {a \in GroupBits : /\ a[2] \in gm
                              /\ 29 \in gm <=> a[1] % 2 = 1
                              /\ 30 \in gm <=> (a[1] \div 2) % 2 = 1
                              /\ 31 \in gm <=> a[1] \div 4 = 1}
<1>1. MaskIndex(gm) \in 0..7
  BY DEF MaskIndex
<1>2. \A b : b \in MaskGroup(gm) <=> b \in 0..28 /\ b \in gm
  <2>1. \A b \in gm : b \in 0..31
    BY DEF Ulong
  <2>2. \A b \in 0..31 : b \in 0..28 <=> b \notin {29, 30, 31}
    OBVIOUS
  <2>3. \A b : b \in MaskGroup(gm) <=> b \in gm /\ b \notin {29, 30, 31}
    BY DEF MaskGroup
  <2>4. \A b \in 0..28 : b \in 0..31
    OBVIOUS
  <2> QED BY <2>1, <2>2, <2>3, <2>4
<1>3. {MaskIndex(gm)} \X MaskGroup(gm) = {a \in GroupBits : a[2] \in gm /\ a[1] = MaskIndex(gm)}
  BY <1>1, <1>2 DEF GroupBits
<1>4. \A a \in GroupBits : a[1] \in 0..7
  BY DEF GroupBits
<1> QED BY <1>3, <1>4, MaskIndexBits

\* An open kernel session logs exactly the flags and the groups of its providers.
THEOREM MasksAreExact == KernelSpec => []MasksExact
<1>1. KernelInv => MasksExact
  <2> SUFFICES ASSUME KernelInv, kphase \in {"open", "processing"} PROVE MasksExact
    BY DEF MasksExact
  <2> DEFINE groups(p) == {MaskIndex(kprov[p].mask)} \X MaskGroup(kprov[p].mask)
             bits(p) == {a \in GroupBits :
                           /\ a[2] \in kprov[p].mask
                           /\ 29 \in kprov[p].mask <=> a[1] % 2 = 1
                           /\ 30 \in kprov[p].mask <=> (a[1] \div 2) % 2 = 1
                           /\ 31 \in kprov[p].mask <=> a[1] \div 4 = 1}
  <2>1. \A p \in kseen : kprov[p] \in KSettings /\ kprov[p].mask \in Ulong
    BY ListingTypes DEF KernelInv, KernelTypeOK, KSettings
  <2>2. \A p \in kseen : groups(p) = bits(p)
    BY <2>1, MaskBits
  <2>3. Started(UNION {kprov[p].flags : p \in kseen}) = UNION {{0} \X kprov[p].flags : p \in kseen}
    BY DEF Started
  <2>4. logged = Started(UNION {kprov[p].flags : p \in kseen}) \cup UNION {groups(p) : p \in kseen}
    BY DEF KernelInv, LoggedOK, OrGroups
  <2>5. {groups(p) : p \in kseen} = {bits(p) : p \in kseen}
    <3> HIDE DEF groups, bits
    <3> QED BY <2>2
  <2>6. logged = (UNION {{0} \X kprov[p].flags : p \in kseen})
                 \cup (UNION {bits(p) : p \in kseen})
    <3> HIDE DEF groups, bits
    <3> QED BY <2>3, <2>4, <2>5
  <2> QED BY <2>6 DEF MasksExact
<1> QED BY <1>1, KernelInvHolds, PTL

\* Of the native library's providers every one is forwarded the events it asked for, but for
\* the UDP events of the network flag: the GUID it is known by is that of the other classes
\* of its flag or of its group (kt.hpp:173-186).
THEOREM KernelEventsAreHeard ==
  ASSUME ~Managed
  PROVE  KernelSpec => []KernelEventsHeard
<1>1. KernelInv => KernelEventsHeard
  <2> SUFFICES ASSUME KernelInv, NEW p \in kseen, kprov[p].id # "raw", NEW a \in Asks(p),
                      NEW c \in ClassesOf(a[1], a[2]) \ Unserved
               PROVE  \E q \in Listing : kprov[q].id = c
    BY DEF KernelEventsHeard
  <2>1. p \in Listing /\ p \in KProviders /\ kprov[p] # Unmade
    BY ListingTypes DEF KernelInv, KernelTypeOK
  <2>2. PICK k \in Kinds : SameAsks(kprov[p], NativeTable[k])
    BY <2>1 DEF KernelInv, FromTable, Table
  <2>3. CASE k = "object_manager"
    <3>1. kprov[p].flags = {} /\ kprov[p].mask = {31, 6} /\ kprov[p].id = "ob_trace"
      BY <2>2, <2>3 DEF NativeTable, Mask, SameAsks
    <3>2. a[1] = 4 /\ a[2] = 6
      BY <3>1 DEF Asks, MaskIndex, MaskGroup
    <3> QED BY <2>1, <3>1, <3>2 DEF ClassesOf
  <2>4. CASE k # "object_manager"
    <3>1. /\ kprov[p].mask = {} /\ \A b \in kprov[p].flags : ClassesOf(0, b) \ Unserved = {kprov[p].id}
      BY <2>2, <2>4, TableRows, KernelAssumption DEF RowOK, SameAsks
    <3>2. a[1] = 0 /\ a[2] \in kprov[p].flags
      BY <3>1 DEF Asks, MaskGroup
    <3> QED BY <2>1, <3>1, <3>2
  <2> QED BY <2>3, <2>4
<1> QED BY <1>1, KernelInvHolds, PTL

\* Windows 7 refuses group masks only, and the session has the name and GUID it wants.
THEOREM OldSystemsAreServed == KernelSpec => []OldSystemsServed
<1>1. KernelInv => OldSystemsServed
  BY DEF KernelInv, KernelTypeOK, LoggedOK, OldSystemsServed, KernelSession, NamePolicy,
         TraceGuid, FileMode
<1> QED BY <1>1, KernelInvHolds, PTL
=============================================================================
