---------------------------- MODULE EventDispatch ----------------------------
(***************************************************************************)
(* What happens to one event after another inside ProcessTrace: the trace  *)
(* picks a provider (ut::forward_events, kt::forward_events), the provider *)
(* calls its callbacks and its filters (base_provider::on_event), and each *)
(* filter its predicate and callbacks (event_filter::on_event).  Callbacks *)
(* and predicates are client code; those in Decoders look the schema of    *)
(* the event up in the trace's schema_locator (module SchemaLocator), and  *)
(* any of them may throw.                                                  *)
(*                                                                         *)
(* Before the trace starts, the client builds providers, filters and       *)
(* callbacks in any order of calls.                                        *)
(***************************************************************************)
EXTENDS SchemaLocator, SequencesExt

CONSTANTS
  Guids, Providers, Filters, Callbacks,
  Guid,          \* [Providers -> Guids], provider::guid_
  predicate_,    \* [Filters -> {"none", "plain", "decodes"}]
  EventIds,      \* [Filters -> SUBSET Ids], provider_filter_event_ids_
  Decoders,      \* callbacks that decode the event they are called with
  SchemaGuid,    \* [Schemas -> Guids], TRACE_EVENT_INFO::ProviderGuid
  Records,       \* events other programs log
  ProviderId,    \* [Records -> Guids], EventHeader.ProviderId
  Type,          \* [Records -> {"xml", "tlg", "mof", "wpp"}], get_event_type
  Key,           \* [Records -> Keys]
  Id,            \* [Records -> Ids], EventDescriptor.Id
  KernelTrace,   \* TRUE for krabs::kernel_trace
  FromFile,      \* TRUE when the trace reads a file: nothing was filtered
  mof_events_enabled_, wpp_events_enabled_,
  NoProvider, NoRecord,
  MaxSetup,      \* bound: calls that set the trace up
  MaxRecords     \* bound: events received

ASSUME DispatchAssumption ==
  /\ Guid \in [Providers -> Guids]
  /\ NoProvider \notin Providers /\ NoRecord \notin Records
  /\ predicate_ \in [Filters -> {"none", "plain", "decodes"}]
  /\ Decoders \subseteq Callbacks
  /\ ProviderId \in [Records -> Guids]
  /\ Type \in [Records -> {"xml", "tlg", "mof", "wpp"}]
  /\ Key \in [Records -> Keys]
  /\ MaxSetup \in Nat /\ MaxRecords \in Nat

VARIABLES
  providers_,        \* trace::providers_
  default_callback_, \* trace::default_callback_, <<>> or one callback
  callbacks_,        \* [Providers -> sequence of callbacks]
  filters_,          \* [Providers -> sequence of copies of filters]
  event_callbacks_,  \* [Filters -> sequence of callbacks], of the originals
  setup,             \* calls made so far
  pc,                \* what runs next
  rec, prov,         \* the event being dispatched, and to which provider
  i, j,              \* the next callback, and filter, of on_event()
  received,
  log,               \* history: what was called for rec, and how it ended
  verdicts           \* history: what lookups for rec have answered

setupVars == <<providers_, default_callback_, callbacks_, filters_,
               event_callbacks_, setup>>
dispatchVars == <<pc, rec, prov, i, j, received, log, verdicts>>
vars == <<setupVars, dispatchVars, locatorVars>>

Init ==
  /\ LocatorInit
  /\ providers_ = <<>>
  /\ default_callback_ = <<>>
  /\ callbacks_ = [p \in Providers |-> <<>>]
  /\ filters_ = [p \in Providers |-> <<>>]
  /\ event_callbacks_ = [f \in Filters |-> <<>>]
  /\ setup = 0
  /\ pc = "setup"
  /\ rec = NoRecord
  /\ prov = NoProvider
  /\ i = 1 /\ j = 1
  /\ received = 0
  /\ log = <<>>
  /\ verdicts = {}

-----------------------------------------------------------------------------
(* The client sets the trace up.                                           *)

SetUp ==
  /\ pc = "setup"
  /\ setup < MaxSetup
  /\ setup' = setup + 1
  /\ UNCHANGED <<dispatchVars, locatorVars>>

\* base_provider::add_on_event_callback
AddCallback(p, c) ==
  /\ SetUp
  /\ callbacks_' = [callbacks_ EXCEPT ![p] = Append(@, c)]
  /\ UNCHANGED <<providers_, default_callback_, filters_, event_callbacks_>>

\* event_filter::add_on_event_callback
AddFilterCallback(f, c) ==
  /\ SetUp
  /\ event_callbacks_' = [event_callbacks_ EXCEPT ![f] = Append(@, c)]
  /\ UNCHANGED <<providers_, default_callback_, callbacks_, filters_>>

\* base_provider::add_filter copies the filter as it is now.
AddFilter(p, f) ==
  /\ SetUp
  /\ filters_' = [filters_ EXCEPT ![p] =
                    Append(@, [of |-> f, event_callbacks_ |-> event_callbacks_[f]])]
  /\ UNCHANGED <<providers_, default_callback_, callbacks_, event_callbacks_>>

\* trace::enable keeps a reference: what is added to p later counts.
Enable(p) ==
  /\ SetUp
  /\ providers_' = Append(providers_, p)
  /\ UNCHANGED <<default_callback_, callbacks_, filters_, event_callbacks_>>

\* trace::set_default_event_callback
SetDefault(c) ==
  /\ SetUp
  /\ default_callback_' = <<c>>
  /\ UNCHANGED <<providers_, callbacks_, filters_, event_callbacks_>>

StartTrace ==
  /\ pc = "setup"
  /\ pc' = "idle"
  /\ UNCHANGED <<setupVars, rec, prov, i, j, received, log, verdicts, locatorVars>>

-----------------------------------------------------------------------------
(* ETW delivers an event.                                                  *)

\* The event ids ut::enable_providers asks ETW for, for a provider's GUID.
EnabledIds(g) ==
  LET enabled == {p \in ToSet(providers_) : Guid[p] = g} IN
  UNION {UNION {EventIds[filters_[p][n].of] : n \in DOMAIN filters_[p]} : p \in enabled}

\* The providers' events are in the session if they are enabled, and if they
\* have an event id for which ETW was asked; everything is in a file.
Delivered(r) ==
  \/ FromFile
  \/ KernelTrace
  \/ LET g == ProviderId[r] IN
     /\ \E p \in ToSet(providers_) : Guid[p] = g
     /\ EnabledIds(g) = {} \/ Id[r] \in EnabledIds(g)
  \/ Type[r] \in {"mof", "wpp"}

\* trace_callback_thunk(), trace::on_event().
Receive(r) ==
  /\ pc = "idle"
  /\ received < MaxRecords
  /\ Delivered(r)
  /\ received' = received + 1
  /\ rec' = r
  /\ pc' = "forward"
  /\ prov' = NoProvider
  /\ i' = 1 /\ j' = 1
  /\ log' = <<>>
  /\ verdicts' = {}
  /\ UNCHANGED <<setupVars, locatorVars>>

-----------------------------------------------------------------------------
(* forward_events().                                                       *)

\* The provider enabled first among those of GUID g.
FirstOf(g) ==
  LET found == {n \in DOMAIN providers_ : Guid[providers_[n]] = g} IN
  IF found = {} THEN NoProvider
  ELSE providers_[CHOOSE n \in found : \A m \in found : n <= m]

\* The event goes on to p, or to the default callback.
ForwardTo(p) ==
  /\ prov' = p
  /\ pc' = IF p # NoProvider THEN "callbacks"
           ELSE IF default_callback_ # <<>> THEN "default" ELSE "idle"
  /\ UNCHANGED <<setupVars, rec, i, j, received, log>>

ByHeader == KernelTrace \/ Type[rec] \in {"xml", "tlg"}

BySchema ==
  ~ByHeader /\ \/ Type[rec] = "mof" /\ mof_events_enabled_
               \/ Type[rec] = "wpp" /\ wpp_events_enabled_

\* Mutant of Forward: the message GUID of MOF and WPP events is taken to be
\* the provider's.
ForwardByHeader ==
  /\ pc = "forward"
  /\ ForwardTo(FirstOf(ProviderId[rec])) /\ UNCHANGED <<verdicts, locatorVars>>

\* The GUID of an event's provider is in its header, except for MOF and WPP
\* events, whose schema has it.
Forward ==
  /\ pc = "forward"
  /\ \/ /\ ByHeader
        /\ ForwardTo(FirstOf(ProviderId[rec]))
        /\ UNCHANGED <<verdicts, locatorVars>>
     \/ /\ BySchema
        /\ \E v \in Schemas \cup Errors :
             /\ Lookup(Key[rec], v)
             /\ verdicts' = verdicts \cup {v}
             /\ ForwardTo(IF v \in Schemas THEN FirstOf(SchemaGuid[v]) ELSE NoProvider)
     \/ /\ ~ByHeader /\ ~BySchema
        /\ ForwardTo(NoProvider)
        /\ UNCHANGED <<verdicts, locatorVars>>

-----------------------------------------------------------------------------
(* Client code.                                                            *)

\* Client code returns, throws could_not_find_schema ("no_schema") or throws
\* something else.  It decodes the event with get_event_schema(), which throws
\* on an error.  (A predicate that returns, returns out.)
Outcomes(v, returns) ==
  {"throws"} \cup (IF v = "failed" THEN {} ELSE
                   IF v = "not_found" THEN {"no_schema"} ELSE returns)

Invoke(decodes, returns, out) ==
  IF decodes
  THEN \E v \in Schemas \cup Errors :
         /\ Lookup(Key[rec], v)
         /\ verdicts' = verdicts \cup {v}
         /\ out \in Outcomes(v, returns)
  ELSE /\ out \in {"throws"} \cup returns
       /\ UNCHANGED <<verdicts, locatorVars>>

Logged(who, out) == log' = Append(log, [who |-> who, out |-> out])

\* A filter without callbacks does nothing.
Runs(p, n) == filters_[p][n].event_callbacks_ # <<>>

\* Mutant of NextFilter: neither the end nor an empty filter is noticed.
NextFilterUnchecked(n) == j' = n /\ i' = 1 /\ pc' = "filterCallbacks"

\* The filter of the provider that is next to run, from the n-th on.
NextFilter(n) ==
  LET later == {m \in DOMAIN filters_[prov] : m >= n /\ Runs(prov, m)} IN
  IF later = {}
  THEN pc' = "idle" /\ UNCHANGED <<i, j>>
  ELSE /\ j' = CHOOSE m \in later : \A o \in later : m <= o
       /\ i' = 1
       /\ pc' = IF predicate_[filters_[prov][j'].of] = "none"
                THEN "filterCallbacks" ELSE "predicate"

Halt == pc' = "halted" /\ UNCHANGED <<i, j>>

\* Mutant of OnNoSchema: the provider does not catch the exception.
OnNoSchemaUncaught == Halt

\* The catch of base_provider::on_event().
OnNoSchema == pc' = "providerErrors" /\ UNCHANGED <<i, j>>

RunCallback ==
  LET c == callbacks_[prov][i] IN
  /\ pc = "callbacks"
  /\ IF i > Len(callbacks_[prov])
     THEN NextFilter(1) /\ UNCHANGED <<log, verdicts, locatorVars>>
     ELSE \E out \in {"ok", "no_schema", "throws"} :
            /\ Invoke(c \in Decoders, {"ok"}, out)
            /\ Logged(<<"callback", prov, i>>, out)
            /\ CASE out = "ok"        -> i' = i + 1 /\ UNCHANGED <<pc, j>>
                 [] out = "no_schema" -> OnNoSchema
                 [] out = "throws"    -> Halt
  /\ UNCHANGED <<setupVars, rec, prov, received>>

\* Mutant of FilterNoSchema: the error callbacks are not called.
FilterNoSchemaSilent == NextFilter(j + 1)

\* The catch of event_filter::on_event().
FilterNoSchema == pc' = "filterErrors" /\ UNCHANGED <<i, j>>

RunPredicate ==
  LET f == filters_[prov][j].of IN
  /\ pc = "predicate"
  /\ \E out \in {"true", "false", "no_schema", "throws"} :
       /\ Invoke(predicate_[f] = "decodes", {"true", "false"}, out)
       /\ Logged(<<"predicate", prov, j>>, out)
       /\ CASE out = "true"      -> pc' = "filterCallbacks" /\ UNCHANGED <<i, j>>
            [] out = "false"     -> NextFilter(j + 1)
            [] out = "no_schema" -> FilterNoSchema
            [] out = "throws"    -> Halt
  /\ UNCHANGED <<setupVars, rec, prov, received>>

RunFilterCallback ==
  LET cs == filters_[prov][j].event_callbacks_ IN
  /\ pc = "filterCallbacks"
  /\ IF i > Len(cs)
     THEN NextFilter(j + 1) /\ UNCHANGED <<log, verdicts, locatorVars>>
     ELSE \E out \in {"ok", "no_schema", "throws"} :
            /\ Invoke(cs[i] \in Decoders, {"ok"}, out)
            /\ Logged(<<"filterCallback", prov, j, i>>, out)
            /\ CASE out = "ok"        -> i' = i + 1 /\ UNCHANGED <<pc, j>>
                 [] out = "no_schema" -> FilterNoSchema
                 [] out = "throws"    -> Halt
  /\ UNCHANGED <<setupVars, rec, prov, received>>

\* Mutant of RunFilterErrors: the error ends the provider's turn.
RunFilterErrorsReturns ==
  /\ pc = "filterErrors"
  /\ \E out \in {"ok", "no_schema", "throws"} :
       /\ Logged(<<"filterErrors", prov, j>>, out)
       /\ CASE out = "ok"        -> pc' = "idle" /\ UNCHANGED <<i, j>>
            [] out = "no_schema" -> OnNoSchema
            [] out = "throws"    -> Halt
  /\ UNCHANGED <<setupVars, rec, prov, received, verdicts, locatorVars>>

\* Mutant of RunFilterErrors: the filter is tried again.
RunFilterErrorsRetries ==
  /\ pc = "filterErrors"
  /\ \E out \in {"ok", "no_schema", "throws"} :
       /\ Logged(<<"filterErrors", prov, j>>, out)
       /\ CASE out = "ok"        -> NextFilter(j)
            [] out = "no_schema" -> OnNoSchema
            [] out = "throws"    -> Halt
  /\ UNCHANGED <<setupVars, rec, prov, received, verdicts, locatorVars>>

\* All error callbacks of the filter.  They get no trace_context to decode with, but may
\* throw: could_not_find_schema is then caught by base_provider::on_event().
RunFilterErrors ==
  /\ pc = "filterErrors"
  /\ \E out \in {"ok", "no_schema", "throws"} :
       /\ Logged(<<"filterErrors", prov, j>>, out)
       /\ CASE out = "ok"        -> NextFilter(j + 1)
            [] out = "no_schema" -> OnNoSchema
            [] out = "throws"    -> Halt
  /\ UNCHANGED <<setupVars, rec, prov, received, verdicts, locatorVars>>

\* All error callbacks of the provider; nothing catches what they throw.
RunProviderErrors ==
  /\ pc = "providerErrors"
  /\ \E out \in {"ok", "no_schema", "throws"} :
       /\ Logged(<<"providerErrors", prov>>, out)
       /\ pc' = IF out = "ok" THEN "idle" ELSE "halted"
  /\ UNCHANGED <<setupVars, rec, prov, i, j, received, verdicts, locatorVars>>

\* Nothing catches what the default callback throws.
RunDefault ==
  /\ pc = "default"
  /\ \E out \in {"ok", "no_schema", "throws"} :
       /\ Invoke(default_callback_[1] \in Decoders, {"ok"}, out)
       /\ Logged(<<"default">>, out)
       /\ pc' = IF out = "ok" THEN "idle" ELSE "halted"
  /\ UNCHANGED <<setupVars, rec, prov, i, j, received>>

\* An exception has left ProcessTrace, start() and process(); the client may
\* call process() again.
ProcessAgain ==
  /\ pc = "halted"
  /\ pc' = "idle"
  /\ rec' = NoRecord
  /\ UNCHANGED <<setupVars, prov, i, j, received, log, verdicts, locatorVars>>

-----------------------------------------------------------------------------
SetUpCall ==
  \/ \E p \in Providers, c \in Callbacks : AddCallback(p, c)
  \/ \E f \in Filters, c \in Callbacks : AddFilterCallback(f, c)
  \/ \E p \in Providers, f \in Filters : AddFilter(p, f)
  \/ \E p \in Providers : Enable(p)
  \/ \E c \in Callbacks : SetDefault(c)
  \/ StartTrace

Dispatch ==
  \/ Forward \/ RunCallback \/ RunPredicate \/ RunFilterCallback
  \/ RunFilterErrors \/ RunProviderErrors \/ RunDefault

Next ==
  \/ SetUpCall
  \/ \E r \in Records : Receive(r)
  \/ Dispatch
  \/ ProcessAgain
  \/ \E k \in Keys : Install(k) /\ UNCHANGED <<setupVars, dispatchVars>>

Spec == Init /\ [][Next]_vars
-----------------------------------------------------------------------------
(* What a client may rely on.                                              *)

\* Every variable has its type, and pc names a step prepared for it: there is a
\* provider to run, and the indices point into its callbacks and filters.
TypeOK ==
  /\ LocatorOK
  /\ providers_ \in Seq(Providers) /\ default_callback_ \in Seq(Callbacks)
  /\ callbacks_ \in [Providers -> Seq(Callbacks)]
  /\ event_callbacks_ \in [Filters -> Seq(Callbacks)]
  /\ prov \in Providers \cup {NoProvider} /\ rec \in Records \cup {NoRecord}
  /\ pc \notin {"setup", "idle", "halted"} => rec # NoRecord
  /\ pc \in {"callbacks", "predicate", "filterCallbacks", "filterErrors", "providerErrors"}
       => prov \in ToSet(providers_)
  /\ pc = "callbacks" => i \in 1..(Len(callbacks_[prov]) + 1)
  /\ pc \in {"predicate", "filterCallbacks", "filterErrors"} =>
       /\ j \in DOMAIN filters_[prov]
       /\ i \in 1..(Len(filters_[prov][j].event_callbacks_) + 1)
  /\ verdicts \subseteq Schemas \cup Errors

Said(who, out) == \E n \in DOMAIN log : log[n] = [who |-> who, out |-> out]

\* The dispatch of rec has ended normally.
Finished == pc = "idle" /\ rec # NoRecord

\* Everybody who looks up the schema of one event gets the same answer: the
\* routing of MOF and WPP events, predicates and callbacks never disagree,
\* although manifests come and go while the event is dispatched.
OneVerdict == \A v, w \in verdicts : v = w

\* Whom nobody calls who would catch could_not_find_schema.
Outermost == {"default", "providerErrors"}

\* An event without a schema never ends the trace, unless the default callback or an error
\* callback of the provider throws it: provider and filter turn could_not_find_schema into
\* error callbacks, and only other exceptions leave ProcessTrace.
NoSchemaIsContained ==
  pc = "halted" => Last(log).out = "throws" \/ Last(log).who[1] \in Outermost

\* could_not_find_schema is never swallowed: whoever catches it tells its own
\* error callbacks, at once and before anything else is called.
ErrorsReported ==
  \A n \in DOMAIN log :
    log[n].out = "no_schema" /\ log[n].who[1] \notin Outermost =>
      LET told == IF log[n].who[1] \in {"callback", "filterErrors"} THEN <<"providerErrors", prov>>
                  ELSE <<"filterErrors", prov, log[n].who[3]>> IN
      IF n = Len(log) THEN pc = told[1] ELSE log[n + 1].who = told

\* What one filter makes of an event never keeps it from another filter of the
\* provider: each has rejected it, or handed it to all its callbacks, or
\* reported that it has no schema.
FiltersAreIndependent ==
  Finished /\ prov # NoProvider /\ ~Said(<<"providerErrors", prov>>, "ok") =>
    \A n \in DOMAIN filters_[prov] :
      \/ Said(<<"predicate", prov, n>>, "false")
      \/ Said(<<"filterErrors", prov, n>>, "ok")
      \/ \A m \in DOMAIN filters_[prov][n].event_callbacks_ :
            Said(<<"filterCallback", prov, n, m>>, "ok")

\* No callback, predicate or error callback runs twice for one event, though
\* its provider was enabled twice or shares its GUID with another.
AtMostOnce ==
  \A m, n \in DOMAIN log : log[m].who = log[n].who => m = n

\* An event whose provider had to be found by its schema goes to the provider
\* of every schema its callbacks then decode it with, and to the default
\* callback only when no enabled provider owns it.
RoutedToOwner ==
  rec # NoRecord /\ BySchema => \A v \in verdicts \cap Schemas :
    /\ prov # NoProvider => Guid[prov] = SchemaGuid[v]
    /\ prov = NoProvider => \A p \in ToSet(providers_) : Guid[p] # SchemaGuid[v]

\* The callbacks of a provider are called when an event of the provider is
\* fired (provider.hpp:58), whatever else the trace has enabled.
ProvidersHear ==
  Finished /\ ByHeader =>
    \A p \in ToSet(providers_) :
      Guid[p] = ProviderId[rec] /\ callbacks_[p] # <<>> =>
        \E n \in DOMAIN log : log[n].who = <<"callback", p, 1>>

=============================================================================
