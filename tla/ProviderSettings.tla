-------------------------- MODULE ProviderSettings --------------------------
(***************************************************************************)
(* What providers of a user trace ask of ETW (provider.hpp), how           *)
(* ut::enable_providers unites it by GUID, and which events ETW then       *)
(* writes.  A mask of bits is the set of its bits, so that |= is \cup.     *)
(* The calls of the client and of the trace do not overlap here:           *)
(* TraceSession has their interleavings, EventDispatch what happens to     *)
(* the events that arrive.                                                 *)
(***************************************************************************)
EXTENDS Integers, Sequences

CONSTANTS
  Providers,    \* provider<T> objects; they stay in scope, as enable() needs
  Guids,        \* 1 .. n, in the order of std::map
  Keywords,     \* bits of the 64-bit keyword masks
  Levels,       \* values the client gives to level(), as sets of bits of T
  Flags,        \* bits of EnableProperty
  EventIds,     \* ids of events, which a filter may name
  Lists,        \* ids given to the EventFilter of the .NET library as a List
  Events,       \* [guid, level, keywords, id] of events ETW could write
  Unborn,       \* not yet constructed
  None,         \* no request, or not there when the trace was opened
  MaxCalls      \* bound: calls of the client before the state space is cut

UcharBits == 0..7
Bits == (UNION Levels) \cup {0, 2}

Settings == [guid : Guids, any : SUBSET Keywords, all : SUBSET Keywords,
             level : SUBSET Bits, flags : SUBSET Flags, ids : SUBSET EventIds,
             asked : SUBSET Keywords, named : SUBSET EventIds, rundown : BOOLEAN]
Requests == [any : SUBSET Keywords, all : SUBSET Keywords, level : SUBSET UcharBits,
             flags : SUBSET Flags, ids : SUBSET EventIds]

ASSUME SettingsAssumption ==
  /\ Guids \subseteq Nat
  /\ 0 \in EventIds /\ Lists \subseteq SUBSET EventIds
  /\ \A l \in Levels : l \subseteq Nat
  /\ Events \subseteq [guid : Guids, level : 0..255, keywords : SUBSET Keywords, id : EventIds]
  /\ Unborn \notin Settings /\ None \notin Settings /\ None \notin Requests
  /\ MaxCalls \in Nat

VARIABLES
  prov,        \* prov[p]: any_, all_, level_, trace_flags_, rundown_enabled_, ids of filters_;
               \* history: asked, all keywords ever given to any(), and named, the ids
               \* that the client named
  list,        \* trace::providers_, references
  phase,       \* of the trace: "closed", "failed" in open, "open", "processing"
  registered,  \* registrationHandle_ is one of StartTrace, not of the fallback
  enabled,     \* enabled[g]: the last EnableTraceEx2 for g in the session
  captured,    \* GUIDs asked for their state (EVENT_CONTROL_CODE_CAPTURE_STATE)
  seen,        \* history: what each provider asked when the trace was opened
  calls

svars == <<prov, list, phase, registered, enabled, captured, seen, calls>>
traceVars == <<list, phase, registered, enabled, captured, seen>>

SettingsInit ==
  /\ prov = [p \in Providers |-> Unborn]
  /\ list = <<>>
  /\ phase = "closed" /\ registered = FALSE
  /\ enabled = [g \in Guids |-> None]
  /\ captured = {}
  /\ seen = [p \in Providers |-> None]
  /\ calls = 0

Call == calls < MaxCalls /\ calls' = calls + 1
Born == {p \in Providers : prov[p] # Unborn}
Listed == {list[i] : i \in DOMAIN list}
-----------------------------------------------------------------------------
(* The client *)

\* level_ is 5, everything else is 0
Fresh(g) == [guid |-> g, any |-> {}, all |-> {}, level |-> {0, 2}, flags |-> {},
             ids |-> {}, asked |-> {}, named |-> {}, rundown |-> FALSE]

Construct(p, g) ==
  /\ Call /\ p \notin Born
  /\ prov' = [prov EXCEPT ![p] = Fresh(g)]
  /\ UNCHANGED traceVars

\* A setter assigns: of several calls the last one counts, also of any(), though it is
\* documented to augment (docs/KrabsExample.md:21-22); asked keeps what the client gave it
Set(p, s) ==
  /\ Call /\ p \in Born
  /\ prov' = [prov EXCEPT ![p] = s]
  /\ UNCHANGED traceVars

Any(p, m) == Set(p, [prov[p] EXCEPT !.any = m, !.asked = @ \cup m])
All(p, m) == Set(p, [prov[p] EXCEPT !.all = m])
Level(p, l) == Set(p, [prov[p] EXCEPT !.level = l])
TraceFlags(p, f) == Set(p, [prov[p] EXCEPT !.flags = f])
EnableRundown(p) == Set(p, [prov[p] EXCEPT !.rundown = TRUE])
AddFilterIds(p, ids) == Set(p, [prov[p] EXCEPT !.ids = @ \cup ids, !.named = @ \cup ids])

\* to_vector makes a vector of as many zeros as the list is long, and appends the list
ToVector(l) == (IF l = {} THEN {} ELSE {0}) \cup l
AddFilterList(p, l) ==
  Set(p, [prov[p] EXCEPT !.ids = @ \cup ToVector(l), !.named = @ \cup l])

\* operator provider<>: the filters, with their ids, and rundown_enabled_ stay behind
Converted(s) == [Fresh(s.guid) EXCEPT !.any = s.any, !.asked = s.asked, !.all = s.all,
                                      !.level = s.level \cap UcharBits, !.flags = s.flags]

Convert(p, q) ==
  /\ Call /\ p \in Born /\ q \notin Born
  /\ prov' = [prov EXCEPT ![q] = Converted(prov[p])]
  /\ UNCHANGED traceVars

\* At any time, though only open() looks at the list
EnableProvider(p) ==
  /\ Call /\ p \in Born
  /\ list' = Append(list, p)
  /\ UNCHANGED <<prov, phase, registered, enabled, captured, seen>>
-----------------------------------------------------------------------------
(* The trace *)

\* Mutant of United: the level is kept in the width of T.
UnitedWide(S) == [any   |-> UNION {s.any : s \in S},
                  all   |-> UNION {s.all : s \in S},
                  level |-> UNION {s.level : s \in S},
                  flags |-> UNION {s.flags : s \in S},
                  ids   |-> UNION {s.ids : s \in S}]

\* The union over providers whose settings are in S; level_ is a UCHAR
United(S) == [any   |-> UNION {s.any : s \in S},
              all   |-> UNION {s.all : s \in S},
              level |-> (UNION {s.level : s \in S}) \cap UcharBits,
              flags |-> UNION {s.flags : s \in S},
              ids   |-> UNION {s.ids : s \in S}]

\* Mutant of OfGuid: map::insert would keep the first provider of a GUID.
OfGuidFirst(g) ==
  LET is == {i \in DOMAIN list : prov[list[i]].guid = g}
  IN  {prov[list[i]] : i \in {j \in is : \A k \in is : j <= k}}

OfGuid(g) == {prov[p] : p \in {q \in Listed : prov[q].guid = g}}

Request(g) == IF OfGuid(g) = {} THEN None ELSE United(OfGuid(g))

\* enable_providers: one call for each GUID, in order; the first that fails ends it.
\* A registration that exists is stopped and made again (etw.hpp:324-352).
EnableProviders(last) ==
  enabled' = [g \in Guids |-> IF g <= last THEN Request(g) ELSE None]

OpenTrace ==
  /\ Call
  /\ registered' = TRUE /\ phase' = "open"
  /\ enabled' = [g \in Guids |-> Request(g)]
  /\ seen' = [p \in Providers |-> IF p \in Listed THEN prov[p] ELSE None]
  /\ captured' = {}
  /\ UNCHANGED <<prov, list>>

\* EnableTraceEx2 fails for the GUID after last
OpenFails(last) ==
  /\ Call
  /\ \E g \in Guids : g > last /\ OfGuid(g) # {}
  /\ EnableProviders(last)
  /\ registered' = TRUE /\ phase' = "failed"
  /\ captured' = {} /\ seen' = [p \in Providers |-> None]
  /\ UNCHANGED <<prov, list>>

\* The session is another process's: registrationHandle_ is INVALID, nothing is enabled
OpenFallback ==
  /\ Call /\ ~registered
  /\ phase' = "open"
  /\ UNCHANGED <<prov, list, registered, enabled, captured, seen>>

\* Mutant of RundownOf: the first provider without rundown ends the loop.
RundownOfPrefix(ps) ==
  LET wants(j) == list[j] \in ps /\ prov[list[j]].rundown
  IN  {prov[list[i]].guid : i \in {j \in DOMAIN list : \A k \in 1..j : wants(k)}}

RundownOf(ps) == {prov[p].guid : p \in {q \in ps : prov[q].rundown}}

\* enable_rundown, before ProcessTrace
Process ==
  /\ phase = "open" /\ Call
  /\ phase' = "processing"
  /\ captured' = IF registered THEN RundownOf(Listed) ELSE {}
  /\ UNCHANGED <<prov, list, registered, enabled, seen>>

\* A request for the state of one provider fails: process() throws, the trace stays open
RundownFails(n) ==
  /\ phase = "open" /\ registered /\ Call
  /\ n \in DOMAIN list /\ prov[list[n]].rundown
  /\ captured' = captured \cup RundownOf({list[i] : i \in 1..(n - 1)})
  /\ UNCHANGED <<prov, list, phase, registered, enabled, seen>>

\* stop(), after which the session and what it enabled are gone
Stop ==
  /\ registered /\ Call
  /\ phase' = "closed" /\ registered' = FALSE
  /\ enabled' = [g \in Guids |-> None]
  /\ captured' = {} /\ seen' = [p \in Providers |-> None]
  /\ UNCHANGED <<prov, list>>

SettingsNext ==
  \/ \E p \in Providers :
       \/ \E g \in Guids : Construct(p, g)
       \/ \E m \in {{k} : k \in Keywords} : Any(p, m) \/ All(p, m)
       \/ \E l \in Levels : Level(p, l)
       \/ TraceFlags(p, Flags)
       \/ EnableRundown(p)
       \/ \E i \in EventIds : AddFilterIds(p, {i})
       \/ \E l \in Lists : AddFilterList(p, l)
       \/ \E q \in Providers : Convert(p, q)
       \/ EnableProvider(p)
  \/ OpenTrace
  \/ \E last \in {0} \cup Guids : OpenFails(last)
  \/ OpenFallback
  \/ Process
  \/ \E n \in DOMAIN list : RundownFails(n)
  \/ Stop

SettingsSpec == SettingsInit /\ [][SettingsNext]_svars
-----------------------------------------------------------------------------
(* ETW, from its documentation and the comments of provider.hpp *)

LevelBit(l, b, value) == IF b \in l THEN value ELSE 0
LevelOf(l) == LevelBit(l, 0, 1) + LevelBit(l, 1, 2) + LevelBit(l, 2, 4) + LevelBit(l, 3, 8)
              + LevelBit(l, 4, 16) + LevelBit(l, 5, 32) + LevelBit(l, 6, 64) + LevelBit(l, 7, 128)

\* A level of 0 lets every level through, an `any` of 0 every keyword
LevelPasses(r, e) == r.level = {} \/ e.level <= LevelOf(r.level)
KeywordPasses(r, e) ==
  \/ e.keywords = {} \/ r.any = {}
  \/ r.any \cap e.keywords # {} /\ r.all \subseteq e.keywords
IdPasses(r, e) == r.ids = {} \/ e.id \in r.ids

Passes(r, e) == LevelPasses(r, e) /\ KeywordPasses(r, e) /\ IdPasses(r, e)

Written(e) == enabled[e.guid] # None /\ Passes(enabled[e.guid], e)
-----------------------------------------------------------------------------
(* Properties *)

\* The types of the settings, the list and the requests.
SettingsTypeOK ==
  /\ prov \in [Providers -> Settings \cup {Unborn}]
  /\ list \in Seq(Providers) /\ Listed \subseteq Born
  /\ phase \in {"closed", "failed", "open", "processing"} /\ registered \in BOOLEAN
  /\ enabled \in [Guids -> Requests \cup {None}]
  /\ captured \subseteq Guids
  /\ seen \in [Providers -> Settings \cup {None}]
  /\ calls \in Nat

\* What the client asked for: any() is documented to add to what was given before.
Wished(s) == [s EXCEPT !.any = @ \cup s.asked]

\* A keyword of the event was given to any(), and a later any() took it back
\* (provider.hpp:525-529).
Replaced(s, e) ==
  s.any # {} /\ s.any \cap e.keywords = {} /\ s.asked \cap e.keywords # {}

\* Another provider of the GUID, opened with p, has the union refuse this event: it gives a
\* level or ids, which the event does not match, where p gives none; keywords, where p gives
\* none, that it does not match or that bring p's own `all` into force; or a bit of `all`
\* that the event does not have.
Narrows(q, p, e) ==
  /\ seen[q] # None /\ seen[q].guid = seen[p].guid
  /\ LET s == seen[p]  t == seen[q]
     IN  \/ /\ s.level \cap UcharBits = {} /\ t.level \cap UcharBits # {}
            /\ e.level > LevelOf(t.level \cap UcharBits)
         \/ s.ids = {} /\ t.ids # {} /\ e.id \notin t.ids
         \/ /\ s.any = {} /\ t.any # {} /\ e.keywords # {}
            /\ t.any \cap e.keywords = {} \/ ~(s.all \subseteq e.keywords)
         \/ e.keywords # {} /\ ~(t.all \subseteq e.keywords)

\* What a provider would get alone (provider.hpp:183-223), with all the keywords it was ever
\* given, it also gets with others, for any calls in any order before and after open(): an
\* event of a provider in the list is only lost if the provider was enabled or changed after
\* open(), if a later any() took the keyword of this event back, or if another provider of
\* the GUID has the union refuse this event (ut.hpp:132-149).
LossesExplained ==
  phase \in {"open", "processing"} /\ registered =>
    \A p \in Listed, e \in Events :
      e.guid = prov[p].guid /\ Passes(United({Wished(prov[p])}), e) /\ ~Written(e) =>
        \/ seen[p] # prov[p]
        \/ Replaced(prov[p], e)
        \/ \E q \in Listed \ {p} : Narrows(q, p, e)

\* "powershellProvider.any(0x01); // augment the any flag" (docs/KrabsExample.md:22): every
\* keyword given to any() before open() is one that the session enables the provider with.
AnyAugments ==
  phase \in {"open", "processing"} /\ registered =>
    \A p \in Listed : seen[p] # None => seen[p].asked \subseteq enabled[seen[p].guid].any

\* ETW writes events of a GUID, if filters name ids for it, only for these ids.
ListedIdsOnly ==
  phase \in {"open", "processing"} /\ registered =>
    \A e \in Events : Written(e) /\ enabled[e.guid].ids # {} =>
      \E p \in Providers : seen[p] # None /\ seen[p].guid = e.guid /\ e.id \in seen[p].named

\* When events are processed, every provider that asked for its state to be logged before
\* the trace was opened has been asked for it, and ETW had enabled it in the session by
\* then (ut.hpp:204-224, etw.hpp:376-379).
RundownReaches ==
  phase = "processing" /\ registered =>
    \A p \in Listed : seen[p] # None /\ seen[p].rundown =>
      seen[p].guid \in captured /\ enabled[seen[p].guid] # None
=============================================================================
