------------------------ MODULE EventDispatchProofs ------------------------
(***************************************************************************)
(* Theorems about EventDispatch, for any providers, filters, callbacks and *)
(* events, and any number of manifests installed and removed: what lookups *)
(* of schemas answer, its types, and which callbacks are called.           *)
(***************************************************************************)
EXTENDS EventDispatch, WellFoundedInduction, TLAPS

Entries == Schemas \cup Errors \cup {Absent}

\* The cache is typed, and there is an event while one is dispatched.
DispatchTypes ==
  /\ cache_ \in [Keys -> Entries]
  /\ tdh \in [Keys -> Schemas \cup {"not_found"}]
  /\ rec \in Records \cup {NoRecord}
  /\ pc \notin {"setup", "idle", "halted"} => rec \in Records
  /\ verdicts \subseteq Schemas \cup Errors

\* All that was answered for the event is what the cache holds, and keeps.
VerdictCached == rec \in Records => \A v \in verdicts : cache_[Key[rec]] = v

VerdictInv == DispatchTypes /\ VerdictCached /\ OneVerdict

-----------------------------------------------------------------------------
(* The cache.                                                              *)

\* A lookup answers with what it leaves in the cache, and replaces nothing.
LEMMA LookupFacts ==
  ASSUME DispatchTypes, NEW k \in Keys, NEW v \in Schemas \cup Errors, Lookup(k, v)
  PROVE  /\ cache_' \in [Keys -> Entries]
         /\ cache_'[k] = v
         /\ tdh' = tdh
         /\ \A o \in Keys : cache_[o] # Absent => cache_'[o] = cache_[o]
<1>1. CASE cache_[k] # Absent
  BY <1>1 DEF Lookup, DispatchTypes
<1>2. CASE cache_[k] = Absent
  BY <1>2 DEF Lookup, DispatchTypes, Entries
<1> QED
  BY <1>1, <1>2

\* Asking for the schema of the event being dispatched keeps its verdict.
LEMMA LookupPreserves ==
  ASSUME VerdictInv, NEW v \in Schemas \cup Errors, rec \in Records,
         Lookup(Key[rec], v), verdicts' = verdicts \cup {v}, rec' = rec
  PROVE  VerdictInv'
<1>1. Key[rec] \in Keys /\ Absent \notin Schemas \cup Errors
  BY DispatchAssumption, SchemaAssumption
<1>2. /\ cache_' \in [Keys -> Entries] /\ cache_'[Key[rec]] = v /\ tdh' = tdh
      /\ \A o \in Keys : cache_[o] # Absent => cache_'[o] = cache_[o]
  BY <1>1, LookupFacts DEF VerdictInv
<1>3. \A w \in verdicts : w = v
  BY <1>1, <1>2 DEF VerdictInv, DispatchTypes, VerdictCached
<1> QED
  BY <1>2, <1>3 DEF VerdictInv, DispatchTypes, VerdictCached, OneVerdict

\* Steps that look nothing up.
LEMMA QuietPreserves ==
  ASSUME VerdictInv, UNCHANGED <<verdicts, locatorVars>>, rec' = rec,
         pc' \notin {"setup", "idle", "halted"} => rec \in Records
  PROVE  VerdictInv'
BY DEF locatorVars, VerdictInv, DispatchTypes, VerdictCached, OneVerdict

\* Client code either asks the locator, or leaves it and the verdicts alone.
AskedOrNot ==
  \/ \E v \in Schemas \cup Errors : Lookup(Key[rec], v) /\ verdicts' = verdicts \cup {v}
  \/ UNCHANGED <<verdicts, locatorVars>>

LEMMA ClientPreserves ==
  ASSUME VerdictInv, AskedOrNot, rec \in Records, rec' = rec
  PROVE  VerdictInv'
BY LookupPreserves, QuietPreserves DEF AskedOrNot

LEMMA VerdictInit == Init => VerdictInv
BY SchemaAssumption
   DEF Init, LocatorInit, VerdictInv, DispatchTypes, VerdictCached, OneVerdict, Entries

LEMMA VerdictNext == VerdictInv /\ [Next]_vars => VerdictInv'
<1> SUFFICES ASSUME VerdictInv, [Next]_vars PROVE VerdictInv'
  OBVIOUS
<1>0. pc \notin {"setup", "idle", "halted"} => rec \in Records
  BY DEF VerdictInv, DispatchTypes
<1>1. CASE SetUpCall
  BY <1>1, QuietPreserves
     DEF SetUpCall, AddCallback, AddFilterCallback, AddFilter, Enable, SetDefault, SetUp,
         StartTrace, dispatchVars
<1>2. ASSUME NEW r \in Records, Receive(r) PROVE VerdictInv'
  BY <1>2 DEF Receive, locatorVars, VerdictInv, DispatchTypes, VerdictCached, OneVerdict
<1>3. CASE Forward
  <2>1. rec \in Records /\ rec' = rec
    BY <1>0, <1>3 DEF Forward, ForwardTo
  <2>2. AskedOrNot
    BY <1>3 DEF AskedOrNot, Forward
  <2> QED
    BY <2>1, <2>2, ClientPreserves
<1>4. CASE RunCallback
  <2>1. rec \in Records /\ rec' = rec
    BY <1>0, <1>4 DEF RunCallback
  <2>2. AskedOrNot
    BY <1>4 DEF AskedOrNot, RunCallback, Invoke
  <2> QED
    BY <2>1, <2>2, ClientPreserves
<1>5. CASE RunPredicate
  <2>1. rec \in Records /\ rec' = rec
    BY <1>0, <1>5 DEF RunPredicate
  <2>2. AskedOrNot
    BY <1>5 DEF AskedOrNot, RunPredicate, Invoke
  <2> QED
    BY <2>1, <2>2, ClientPreserves
<1>6. CASE RunFilterCallback
  <2>1. rec \in Records /\ rec' = rec
    BY <1>0, <1>6 DEF RunFilterCallback
  <2>2. AskedOrNot
    BY <1>6 DEF AskedOrNot, RunFilterCallback, Invoke
  <2> QED
    BY <2>1, <2>2, ClientPreserves
<1>7. CASE RunFilterErrors \/ RunProviderErrors
  BY <1>0, <1>7, QuietPreserves DEF RunFilterErrors, RunProviderErrors
<1>8. CASE RunDefault
  <2>1. rec \in Records /\ rec' = rec
    BY <1>0, <1>8 DEF RunDefault
  <2>2. AskedOrNot
    BY <1>8 DEF AskedOrNot, RunDefault, Invoke
  <2> QED
    BY <2>1, <2>2, ClientPreserves
<1>9. CASE ProcessAgain
  BY <1>9, DispatchAssumption
     DEF ProcessAgain, locatorVars, VerdictInv, DispatchTypes, VerdictCached, OneVerdict
<1>10. ASSUME NEW k \in Keys, Install(k), UNCHANGED <<setupVars, dispatchVars>>
       PROVE  VerdictInv'
  BY <1>10 DEF Install, dispatchVars, VerdictInv, DispatchTypes, VerdictCached, OneVerdict
<1>11. CASE UNCHANGED vars
  BY <1>0, <1>11, QuietPreserves DEF vars, dispatchVars, locatorVars
<1> QED
  BY <1>1, <1>2, <1>3, <1>4, <1>5, <1>6, <1>7, <1>8, <1>9, <1>10, <1>11 DEF Next, Dispatch

\* While one event is dispatched, whoever asks for its schema gets one answer,
\* however manifests change and whatever else is looked up (schema_locator.hpp:
\* 290-320, and everybody who calls it with the trace_context).
THEOREM VerdictsAgree == Spec => []OneVerdict
<1>1. VerdictInv => OneVerdict
  BY DEF VerdictInv
<1> QED
  BY <1>1, VerdictInit, VerdictNext, PTL DEF Spec

-----------------------------------------------------------------------------
(* Exceptions.                                                             *)

IsSequence(s) == \E S : s \in Seq(S)

Contained == IsSequence(log) /\ NoSchemaIsContained

\* What was logged last is what ended last.
LEMMA LoggedFacts ==
  ASSUME IsSequence(log), NEW who, NEW out, Logged(who, out)
  PROVE  IsSequence(log') /\ Last(log') = [who |-> who, out |-> out]
<1> DEFINE e == [who |-> who, out |-> out]
<1>1. PICK S : log \in Seq(S)
  BY DEF IsSequence
<1>2. log \in Seq(S \cup {e})
  BY <1>1
<1>3. log' = Append(log, e)
  BY DEF Logged
<1> HIDE DEF e
<1>4. Append(log, e) \in Seq(S \cup {e}) /\ Last(Append(log, e)) = e
  BY <1>2 DEF Last
<1> QED
  BY <1>3, <1>4 DEF IsSequence, e

\* A call that ends the dispatch has thrown something else, or nobody calls it
\* who would catch the exception.
LEMMA LoggedPreserves ==
  ASSUME Contained, NEW who, NEW out, Logged(who, out),
         pc' = "halted" => out = "throws" \/ who[1] \in Outermost
  PROVE  Contained'
BY LoggedFacts DEF Contained, NoSchemaIsContained

LEMMA ContainedNext == Contained /\ [Next]_vars => Contained'
<1> SUFFICES ASSUME Contained, [Next]_vars PROVE Contained'
  OBVIOUS
<1>1. ASSUME log' = log, pc' # "halted" \/ pc' = pc PROVE Contained'
  BY <1>1 DEF Contained, NoSchemaIsContained
<1>2. CASE SetUpCall \/ Forward \/ ProcessAgain \/ UNCHANGED vars
  BY <1>1, <1>2
     DEF SetUpCall, AddCallback, AddFilterCallback, AddFilter, Enable, SetDefault, SetUp,
         StartTrace, Forward, ForwardTo, ProcessAgain, vars, dispatchVars
<1>3. ASSUME NEW r \in Records, Receive(r) PROVE Contained'
  <2>1. IsSequence(log')
    BY <1>3 DEF Receive, IsSequence
  <2> QED
    BY <1>3, <2>1 DEF Receive, Contained, NoSchemaIsContained
<1>4. ASSUME NEW n PROVE NextFilter(n) => pc' # "halted"
  BY DEF NextFilter
<1>5. CASE RunCallback
  <2>1. CASE i > Len(callbacks_[prov])
    BY <1>1, <1>4, <1>5, <2>1 DEF RunCallback
  <2>2. CASE ~ (i > Len(callbacks_[prov]))
    <3>1. PICK out \in {"ok", "no_schema", "throws"} :
             /\ Logged(<<"callback", prov, i>>, out)
             /\ CASE out = "ok"        -> i' = i + 1 /\ UNCHANGED <<pc, j>>
                  [] out = "no_schema" -> OnNoSchema
                  [] out = "throws"    -> Halt
      BY <1>5, <2>2 DEF RunCallback
    <3>2. pc' = "halted" => out = "throws"
      BY <1>5, <3>1 DEF RunCallback, OnNoSchema
    <3> QED
      BY <3>1, <3>2, LoggedPreserves
  <2> QED
    BY <2>1, <2>2
<1>6. CASE RunPredicate
  <2>1. PICK out \in {"true", "false", "no_schema", "throws"} :
           /\ Logged(<<"predicate", prov, j>>, out)
           /\ CASE out = "true"      -> pc' = "filterCallbacks" /\ UNCHANGED <<i, j>>
                [] out = "false"     -> NextFilter(j + 1)
                [] out = "no_schema" -> FilterNoSchema
                [] out = "throws"    -> Halt
    BY <1>6 DEF RunPredicate
  <2>2. pc' = "halted" => out = "throws"
    BY <1>4, <2>1 DEF FilterNoSchema
  <2> QED
    BY <2>1, <2>2, LoggedPreserves
<1>7. CASE RunFilterCallback
  <2>1. CASE i > Len(filters_[prov][j].event_callbacks_)
    BY <1>1, <1>4, <1>7, <2>1 DEF RunFilterCallback
  <2>2. CASE ~ (i > Len(filters_[prov][j].event_callbacks_))
    <3>1. PICK out \in {"ok", "no_schema", "throws"} :
             /\ Logged(<<"filterCallback", prov, j, i>>, out)
             /\ CASE out = "ok"        -> i' = i + 1 /\ UNCHANGED <<pc, j>>
                  [] out = "no_schema" -> FilterNoSchema
                  [] out = "throws"    -> Halt
      BY <1>7, <2>2 DEF RunFilterCallback
    <3>2. pc' = "halted" => out = "throws"
      BY <1>7, <3>1 DEF RunFilterCallback, FilterNoSchema
    <3> QED
      BY <3>1, <3>2, LoggedPreserves
  <2> QED
    BY <2>1, <2>2
<1>8. CASE RunFilterErrors
  <2>1. PICK out \in {"ok", "no_schema", "throws"} :
           /\ Logged(<<"filterErrors", prov, j>>, out)
           /\ CASE out = "ok"        -> NextFilter(j + 1)
                [] out = "no_schema" -> OnNoSchema
                [] out = "throws"    -> Halt
    BY <1>8 DEF RunFilterErrors
  <2>2. pc' = "halted" => out = "throws"
    BY <1>4, <2>1 DEF OnNoSchema
  <2> QED
    BY <2>1, <2>2, LoggedPreserves
<1>9. CASE RunProviderErrors
  BY <1>9, LoggedPreserves DEF RunProviderErrors, Outermost
<1>10. CASE RunDefault
  BY <1>10, LoggedPreserves DEF RunDefault, Outermost
<1>11. ASSUME NEW k \in Keys, Install(k), UNCHANGED <<setupVars, dispatchVars>>
       PROVE  Contained'
  BY <1>1, <1>11 DEF dispatchVars
<1> QED
  BY <1>2, <1>3, <1>5, <1>6, <1>7, <1>8, <1>9, <1>10, <1>11 DEF Next, Dispatch

\* However long the callbacks, predicates and filters of a provider are, a
\* missing schema does not get out of it (provider.hpp:484-503,
\* event_filter.hpp:208-233): it ends in error callbacks, and ProcessTrace goes
\* on.  Only the default callback and the provider's error callbacks are not
\* covered.
THEOREM MissingSchemasAreContained == Spec => []NoSchemaIsContained
<1>1. Init => Contained
  BY DEF Init, Contained, NoSchemaIsContained, IsSequence
<1>2. Contained => NoSchemaIsContained
  BY DEF Contained
<1> QED
  BY <1>1, <1>2, ContainedNext, PTL DEF Spec
-----------------------------------------------------------------------------
(* The first of some.                                                      *)

LEMMA FirstExists ==
  ASSUME NEW S \in SUBSET Nat, S # {}
  PROVE  \E n \in S : \A m \in S : n <= m
<1>1. PICK n \in S : \A m \in S : ~(<<m, n>> \in OpToRel(<, Nat))
  BY NatLessThanWellFounded, WFMin
<1>2. \A m \in S : ~(m < n)
  BY <1>1 DEF OpToRel
<1> QED BY <1>2

LEMMA FirstOfFacts ==
  ASSUME providers_ \in Seq(Providers), NEW g
  PROVE  LET p == FirstOf(g) IN
         /\ p # NoProvider => p \in ToSet(providers_) /\ p \in Providers /\ Guid[p] = g
         /\ p = NoProvider => \A q \in ToSet(providers_) : Guid[q] # g
<1> DEFINE found == {n \in DOMAIN providers_ : Guid[providers_[n]] = g}
<1>1. ToSet(providers_) = {providers_[n] : n \in DOMAIN providers_}
  BY DEF ToSet
<1>2. found \subseteq Nat /\ \A n \in DOMAIN providers_ : providers_[n] \in Providers
  OBVIOUS
<1>3. CASE found = {}
  BY <1>1, <1>3 DEF FirstOf
<1>4. CASE found # {}
  <2> DEFINE first == CHOOSE n \in found : \A m \in found : n <= m
  <2>1. first \in found
    BY <1>2, <1>4, FirstExists
  <2>2. FirstOf(g) = providers_[first]
    BY <1>4 DEF FirstOf
  <2> HIDE DEF first
  <2> QED BY <1>1, <1>2, <2>1, <2>2, DispatchAssumption
<1> QED BY <1>3, <1>4
-----------------------------------------------------------------------------
(* The steps of on_event(), flattened.                                     *)

Same == UNCHANGED <<setupVars, rec, prov>>

LEMMA CallbackStep ==
  ASSUME RunCallback
  PROVE  /\ pc = "callbacks" /\ Same
         /\ \/ i > Len(callbacks_[prov]) /\ NextFilter(1) /\ log' = log
            \/ /\ ~ (i > Len(callbacks_[prov])) /\ j' = j
               /\ \/ Logged(<<"callback", prov, i>>, "ok") /\ i' = i + 1 /\ pc' = pc
                  \/ /\ Logged(<<"callback", prov, i>>, "no_schema")
                     /\ i' = i /\ pc' = "providerErrors"
                  \/ Logged(<<"callback", prov, i>>, "throws") /\ i' = i /\ pc' = "halted"
<1>1. pc = "callbacks" /\ Same
  BY DEF RunCallback, Same
<1>2. CASE i > Len(callbacks_[prov])
  BY <1>1, <1>2 DEF RunCallback
<1>3. CASE ~ (i > Len(callbacks_[prov]))
  <2>1. PICK out \in {"ok", "no_schema", "throws"} :
           /\ Logged(<<"callback", prov, i>>, out)
           /\ CASE out = "ok"        -> i' = i + 1 /\ UNCHANGED <<pc, j>>
                [] out = "no_schema" -> OnNoSchema
                [] out = "throws"    -> Halt
    BY <1>3 DEF RunCallback
  <2> QED BY <1>1, <1>3, <2>1 DEF OnNoSchema, Halt
<1> QED BY <1>2, <1>3

LEMMA PredicateStep ==
  ASSUME RunPredicate
  PROVE  /\ pc = "predicate" /\ Same
         /\ \/ /\ Logged(<<"predicate", prov, j>>, "true")
               /\ pc' = "filterCallbacks" /\ i' = i /\ j' = j
            \/ Logged(<<"predicate", prov, j>>, "false") /\ NextFilter(j + 1)
            \/ /\ Logged(<<"predicate", prov, j>>, "no_schema")
               /\ pc' = "filterErrors" /\ i' = i /\ j' = j
            \/ /\ Logged(<<"predicate", prov, j>>, "throws")
               /\ pc' = "halted" /\ i' = i /\ j' = j
<1>1. PICK out \in {"true", "false", "no_schema", "throws"} :
         /\ Logged(<<"predicate", prov, j>>, out)
         /\ CASE out = "true"      -> pc' = "filterCallbacks" /\ UNCHANGED <<i, j>>
              [] out = "false"     -> NextFilter(j + 1)
              [] out = "no_schema" -> FilterNoSchema
              [] out = "throws"    -> Halt
  BY DEF RunPredicate
<1>2. pc = "predicate" /\ Same
  BY DEF RunPredicate, Same
<1> QED BY <1>1, <1>2 DEF FilterNoSchema, Halt

LEMMA FilterCallbackStep ==
  ASSUME RunFilterCallback
  PROVE  LET n == Len(filters_[prov][j].event_callbacks_) IN
         /\ pc = "filterCallbacks" /\ Same
         /\ \/ i > n /\ NextFilter(j + 1) /\ log' = log
            \/ /\ ~ (i > n) /\ j' = j
               /\ \/ Logged(<<"filterCallback", prov, j, i>>, "ok") /\ i' = i + 1 /\ pc' = pc
                  \/ /\ Logged(<<"filterCallback", prov, j, i>>, "no_schema")
                     /\ i' = i /\ pc' = "filterErrors"
                  \/ /\ Logged(<<"filterCallback", prov, j, i>>, "throws")
                     /\ i' = i /\ pc' = "halted"
<1>1. pc = "filterCallbacks" /\ Same
  BY DEF RunFilterCallback, Same
<1>2. CASE i > Len(filters_[prov][j].event_callbacks_)
  BY <1>1, <1>2 DEF RunFilterCallback
<1>3. CASE ~ (i > Len(filters_[prov][j].event_callbacks_))
  <2>1. PICK out \in {"ok", "no_schema", "throws"} :
           /\ Logged(<<"filterCallback", prov, j, i>>, out)
           /\ CASE out = "ok"        -> i' = i + 1 /\ UNCHANGED <<pc, j>>
                [] out = "no_schema" -> FilterNoSchema
                [] out = "throws"    -> Halt
    BY <1>3 DEF RunFilterCallback
  <2> QED BY <1>1, <1>3, <2>1 DEF FilterNoSchema, Halt
<1> QED BY <1>2, <1>3

LEMMA ErrorSteps ==
  ASSUME RunFilterErrors \/ RunProviderErrors \/ RunDefault
  PROVE  /\ Same
         /\ \/ /\ pc = "filterErrors"
               /\ \/ /\ Logged(<<"filterErrors", prov, j>>, "throws")
                     /\ pc' = "halted" /\ i' = i /\ j' = j
                  \/ /\ Logged(<<"filterErrors", prov, j>>, "no_schema")
                     /\ pc' = "providerErrors" /\ i' = i /\ j' = j
                  \/ Logged(<<"filterErrors", prov, j>>, "ok") /\ NextFilter(j + 1)
            \/ /\ pc = "providerErrors" /\ i' = i /\ j' = j
               /\ \/ /\ \E out \in {"no_schema", "throws"} :
                           Logged(<<"providerErrors", prov>>, out)
                     /\ pc' = "halted"
                  \/ Logged(<<"providerErrors", prov>>, "ok") /\ pc' = "idle"
            \/ /\ pc = "default" /\ pc' \in {"idle", "halted"} /\ i' = i /\ j' = j
               /\ \E out : Logged(<<"default">>, out)
<1>1. Same
  BY DEF RunFilterErrors, RunProviderErrors, RunDefault, Same
<1>2. CASE RunFilterErrors
  <2>1. PICK out \in {"ok", "no_schema", "throws"} :
           /\ Logged(<<"filterErrors", prov, j>>, out)
           /\ CASE out = "ok"        -> NextFilter(j + 1)
                [] out = "no_schema" -> OnNoSchema
                [] out = "throws"    -> Halt
    BY <1>2 DEF RunFilterErrors
  <2> QED BY <1>1, <1>2, <2>1 DEF RunFilterErrors, OnNoSchema, Halt
<1>3. CASE RunProviderErrors \/ RunDefault
  BY <1>1, <1>3 DEF RunProviderErrors, RunDefault
<1> QED BY <1>2, <1>3

-----------------------------------------------------------------------------
(* Types.                                                                  *)

Copies == [of : Filters, event_callbacks_ : Seq(Callbacks)]

SetupTypes ==
  /\ providers_ \in Seq(Providers) /\ default_callback_ \in Seq(Callbacks)
  /\ callbacks_ \in [Providers -> Seq(Callbacks)]
  /\ event_callbacks_ \in [Filters -> Seq(Callbacks)]
  /\ filters_ \in [Providers -> Seq(Copies)]

InProvider == {"callbacks", "predicate", "filterCallbacks", "filterErrors", "providerErrors"}
InFilter == {"predicate", "filterCallbacks", "filterErrors"}

\* Where the dispatch is.
Position ==
  /\ prov \in Providers \cup {NoProvider} /\ rec \in Records \cup {NoRecord}
  /\ i \in Nat /\ j \in Nat
  /\ pc \notin {"setup", "idle", "halted"} => rec # NoRecord
  /\ pc = "setup" => rec = NoRecord
  /\ pc = "forward" => i = 1
  /\ pc \in InProvider => prov \in ToSet(providers_)
  /\ pc = "callbacks" => i \in 1..(Len(callbacks_[prov]) + 1)
  /\ pc \in InFilter =>
       /\ j \in DOMAIN filters_[prov]
       /\ i \in 1..(Len(filters_[prov][j].event_callbacks_) + 1)

RoutingTypes == LocatorOK /\ SetupTypes /\ Position

LEMMA ProvidersEnabled ==
  ASSUME SetupTypes, NEW p \in ToSet(providers_)
  PROVE  p \in Providers
BY DEF SetupTypes, ToSet

\* A filter of the provider, and its callbacks.
LEMMA FilterTypes ==
  ASSUME SetupTypes, NEW p \in Providers
  PROVE  /\ filters_[p] \in Seq(Copies) /\ callbacks_[p] \in Seq(Callbacks)
         /\ DOMAIN filters_[p] \subseteq Nat \ {0}
         /\ \A n \in DOMAIN filters_[p] : filters_[p][n].event_callbacks_ \in Seq(Callbacks)
<1>1. filters_[p] \in Seq(Copies) /\ callbacks_[p] \in Seq(Callbacks)
  BY DEF SetupTypes
<1>2. \A n \in DOMAIN filters_[p] : filters_[p][n] \in Copies
  BY <1>1
<1>3. DOMAIN filters_[p] \subseteq Nat \ {0}
  BY <1>1
<1> QED BY <1>1, <1>2, <1>3 DEF Copies

LEMMA LocatorKept ==
  ASSUME LocatorOK, \/ \E k, v : k \in Keys /\ v \in Schemas \cup Errors /\ Lookup(k, v)
                    \/ UNCHANGED locatorVars
                    \/ \E k \in Keys : Install(k)
  PROVE  LocatorOK'
<1> USE SchemaAssumption DEF LocatorOK
<1>1. CASE UNCHANGED locatorVars
  BY <1>1 DEF locatorVars
<1>2. ASSUME NEW k \in Keys, NEW v \in Schemas \cup Errors, Lookup(k, v)
      PROVE  LocatorOK'
  BY <1>2 DEF Lookup, FromTdh
<1>3. ASSUME NEW k \in Keys, Install(k)
      PROVE  LocatorOK'
  BY <1>3 DEF Install
<1> QED BY <1>1, <1>2, <1>3

\* The filter that is next, if there is one, is a later one with callbacks, and those between
\* have none.
LEMMA NextFilterFacts ==
  ASSUME SetupTypes, prov \in Providers, NEW n \in Nat, NextFilter(n)
  PROVE  LET skipped(o) == filters_[prov][o].event_callbacks_ = <<>> IN
         \/ /\ pc' = "idle" /\ i' = i /\ j' = j
            /\ \A o \in DOMAIN filters_[prov] : n <= o => skipped(o)
         \/ /\ pc' \in {"predicate", "filterCallbacks"} /\ i' = 1
            /\ j' \in DOMAIN filters_[prov] /\ n <= j'
            /\ \A o \in DOMAIN filters_[prov] : n <= o /\ o < j' => skipped(o)
<1> DEFINE later == {m \in DOMAIN filters_[prov] : m >= n /\ Runs(prov, m)}
<1>1. DOMAIN filters_[prov] \subseteq Nat
  BY FilterTypes
<1>2. CASE later = {}
  <2>1. \A o \in DOMAIN filters_[prov] : n <= o => filters_[prov][o].event_callbacks_ = <<>>
    BY <1>1, <1>2 DEF Runs
  <2> QED BY <1>2, <2>1 DEF NextFilter
<1>3. CASE later # {}
  <2> DEFINE first == CHOOSE m \in later : \A o \in later : m <= o
  <2>1. first \in later /\ \A o \in later : first <= o
    BY <1>1, <1>3, FirstExists
  <2>2. j' = first /\ i' = 1 /\ pc' \in {"predicate", "filterCallbacks"}
    BY <1>3 DEF NextFilter
  <2> HIDE DEF first
  <2>3. \A o \in DOMAIN filters_[prov] :
          n <= o /\ o < first => filters_[prov][o].event_callbacks_ = <<>>
    BY <1>1, <2>1 DEF Runs
  <2> QED BY <2>1, <2>2, <2>3
<1> QED BY <1>2, <1>3

\* The next filter, if there is one, is one of the provider's.
LEMMA ToNextFilter ==
  ASSUME RoutingTypes, pc \in InProvider, NEW n \in Nat, NextFilter(n),
         UNCHANGED <<setupVars, rec, prov>>
  PROVE  SetupTypes' /\ Position'
<1>1. prov \in Providers /\ prov \in ToSet(providers_) /\ rec # NoRecord
  BY ProvidersEnabled DEF RoutingTypes, Position, InProvider
<1>2. SetupTypes'
  BY DEF RoutingTypes, SetupTypes, setupVars
<1>3. UNCHANGED <<providers_, filters_, prov, rec>>
  BY DEF setupVars
<1>4. CASE pc' = "idle" /\ i' = i /\ j' = j
  BY <1>2, <1>3, <1>4 DEF RoutingTypes, Position, InProvider, InFilter
<1>5. CASE /\ pc' \in {"predicate", "filterCallbacks"} /\ i' = 1
           /\ j' \in DOMAIN filters_[prov]
  <2>1. j' \in Nat /\ filters_[prov][j'].event_callbacks_ \in Seq(Callbacks)
    BY <1>1, <1>5, FilterTypes DEF RoutingTypes
  <2>2. i' \in 1..(Len(filters_[prov][j'].event_callbacks_) + 1)
    BY <1>5, <2>1
  <2> QED BY <1>1, <1>2, <1>3, <1>5, <2>1, <2>2 DEF RoutingTypes, Position, InProvider, InFilter
<1> QED BY <1>1, <1>4, <1>5, NextFilterFacts DEF RoutingTypes

\* Within one callback list, one filter, or to an error callback.
LEMMA Within ==
  ASSUME RoutingTypes, UNCHANGED <<setupVars, rec, prov, j>>,
         \/ pc' \in {"idle", "halted", "setup"} /\ i' = i /\ (pc' = "setup" => pc = "setup")
         \/ pc \in InProvider /\ pc' = "providerErrors" /\ i' = i
         \/ pc \in InFilter /\ pc' \in InFilter /\ i' = i
         \/ pc = "callbacks" /\ pc' = pc /\ i' = i + 1 /\ i <= Len(callbacks_[prov])
         \/ /\ pc = "filterCallbacks" /\ pc' = pc /\ i' = i + 1
            /\ i <= Len(filters_[prov][j].event_callbacks_)
  PROVE  SetupTypes' /\ Position'
<1>1. UNCHANGED <<providers_, default_callback_, callbacks_, event_callbacks_, filters_>>
  BY DEF setupVars
<1>2. SetupTypes'
  BY <1>1 DEF RoutingTypes, SetupTypes
<1>3. ASSUME pc = "callbacks" PROVE Len(callbacks_[prov]) \in Nat
  BY <1>3, ProvidersEnabled, FilterTypes DEF RoutingTypes, Position, InProvider
<1>4. ASSUME pc \in InFilter PROVE Len(filters_[prov][j].event_callbacks_) \in Nat
  <2>1. prov \in Providers /\ j \in DOMAIN filters_[prov]
    BY <1>4, ProvidersEnabled DEF RoutingTypes, Position, InProvider, InFilter
  <2> QED BY <2>1, FilterTypes DEF RoutingTypes
<1> QED BY <1>1, <1>2, <1>3, <1>4 DEF RoutingTypes, Position, InProvider, InFilter

LEMMA RoutingTypesInit == Init => RoutingTypes
BY SchemaAssumption, DispatchAssumption
   DEF Init, LocatorInit, LocatorOK, RoutingTypes, SetupTypes, Position, InProvider, InFilter,
       Copies

LEMMA LocatorNext == RoutingTypes /\ [Next]_vars => LocatorOK'
<1> SUFFICES ASSUME RoutingTypes, [Next]_vars PROVE LocatorOK'
  OBVIOUS
<1>1. rec \in Records => Key[rec] \in Keys
  BY DispatchAssumption
<1>2. pc \notin {"setup", "idle", "halted"} => rec \in Records
  BY DEF RoutingTypes, Position
<1>3. CASE UNCHANGED locatorVars
  BY <1>3, LocatorKept DEF RoutingTypes
<1>4. CASE SetUpCall \/ (\E r \in Records : Receive(r)) \/ ProcessAgain \/ UNCHANGED vars
  BY <1>3, <1>4 DEF SetUpCall, AddCallback, AddFilterCallback, AddFilter, Enable, SetDefault,
     SetUp, StartTrace, Receive, ProcessAgain, vars
<1>5. CASE Dispatch
  <2>1. rec \in Records
    BY <1>2, <1>5 DEF Dispatch, Forward, RunCallback, RunPredicate, RunFilterCallback,
       RunFilterErrors, RunProviderErrors, RunDefault
  <2>2. \/ UNCHANGED locatorVars
        \/ \E v \in Schemas \cup Errors : Lookup(Key[rec], v)
    BY <1>5 DEF Dispatch, Forward, RunCallback, RunPredicate, RunFilterCallback,
       RunFilterErrors, RunProviderErrors, RunDefault, Invoke
  <2> QED BY <1>1, <2>1, <2>2, LocatorKept DEF RoutingTypes
<1>6. CASE \E k \in Keys : Install(k) /\ UNCHANGED <<setupVars, dispatchVars>>
  BY <1>6, LocatorKept DEF RoutingTypes
<1> QED BY <1>4, <1>5, <1>6 DEF Next

LEMMA SetUpTypes == RoutingTypes /\ SetUpCall => SetupTypes' /\ Position'
<1> SUFFICES ASSUME RoutingTypes, SetUpCall PROVE SetupTypes' /\ Position'
  OBVIOUS
<1>1. pc = "setup" /\ UNCHANGED <<rec, prov, i, j>> /\ pc' \in {"setup", "idle"}
  BY DEF SetUpCall, AddCallback, AddFilterCallback, AddFilter, Enable, SetDefault, SetUp,
     StartTrace, dispatchVars
<1>2. Position'
  BY <1>1 DEF RoutingTypes, Position, InProvider, InFilter
<1>3. SetupTypes'
  <2> USE DEF RoutingTypes, SetupTypes
  <2>1. ASSUME NEW p \in Providers, NEW c \in Callbacks, AddCallback(p, c)
        PROVE  SetupTypes'
    BY <2>1 DEF AddCallback
  <2>2. ASSUME NEW f \in Filters, NEW c \in Callbacks, AddFilterCallback(f, c)
        PROVE  SetupTypes'
    BY <2>2 DEF AddFilterCallback
  <2>3. ASSUME NEW p \in Providers, NEW f \in Filters, AddFilter(p, f)
        PROVE  SetupTypes'
    <3>1. [of |-> f, event_callbacks_ |-> event_callbacks_[f]] \in Copies
      BY DEF Copies
    <3> QED BY <2>3, <3>1 DEF AddFilter
  <2>4. ASSUME NEW p \in Providers, Enable(p) PROVE SetupTypes'
    BY <2>4 DEF Enable
  <2>5. ASSUME NEW c \in Callbacks, SetDefault(c) PROVE SetupTypes'
    BY <2>5 DEF SetDefault
  <2>6. CASE StartTrace
    BY <2>6 DEF StartTrace, setupVars
  <2> QED BY <2>1, <2>2, <2>3, <2>4, <2>5, <2>6 DEF SetUpCall
<1> QED BY <1>2, <1>3

LEMMA ForwardTypes == RoutingTypes /\ Forward => SetupTypes' /\ Position'
<1> SUFFICES ASSUME RoutingTypes, Forward PROVE SetupTypes' /\ Position'
  OBVIOUS
<1>1. /\ pc = "forward" /\ i = 1 /\ rec \in Records
      /\ UNCHANGED <<setupVars, rec, i, j>>
  BY DEF Forward, ForwardTo, RoutingTypes, Position
<1>2. \/ pc' \in {"default", "idle"} /\ prov' = NoProvider
      \/ pc' = "callbacks" /\ prov' # NoProvider /\ \E g : prov' = FirstOf(g)
  BY DEF Forward, ForwardTo
<1>3. \/ pc' \in {"default", "idle"} /\ prov' = NoProvider
      \/ pc' = "callbacks" /\ prov' \in Providers /\ prov' \in ToSet(providers_)
  BY <1>2, FirstOfFacts DEF RoutingTypes, SetupTypes
<1>4. SetupTypes' /\ UNCHANGED <<providers_, callbacks_, filters_>>
  BY <1>1 DEF RoutingTypes, SetupTypes, setupVars
<1>5. prov' \in Providers => Len(callbacks_[prov']) \in Nat
  BY FilterTypes DEF RoutingTypes
<1> QED BY <1>1, <1>3, <1>4, <1>5 DEF RoutingTypes, Position, InProvider, InFilter

LEMMA DispatchKeepsTypes == RoutingTypes /\ Dispatch => SetupTypes' /\ Position'
<1> SUFFICES ASSUME RoutingTypes, Dispatch PROVE SetupTypes' /\ Position'
  OBVIOUS
<1> USE DEF Same
<1>0. 1 \in Nat /\ j + 1 \in Nat
  BY DEF RoutingTypes, Position
<1>1. CASE Forward
  BY <1>1, ForwardTypes
<1>2. CASE RunCallback
  <2>1. pc = "callbacks" => i \in Nat /\ Len(callbacks_[prov]) \in Nat
    BY ProvidersEnabled, FilterTypes DEF RoutingTypes, Position, InProvider
  <2>2. i <= Len(callbacks_[prov]) \/ i > Len(callbacks_[prov])
    BY <1>2, <2>1, CallbackStep
  <2> QED BY <1>0, <1>2, <2>2, CallbackStep, ToNextFilter, Within DEF InProvider
<1>3. CASE RunPredicate
  BY <1>0, <1>3, PredicateStep, ToNextFilter, Within DEF InProvider, InFilter
<1>4. CASE RunFilterCallback
  <2> DEFINE n == Len(filters_[prov][j].event_callbacks_)
  <2>1. pc = "filterCallbacks" => i \in Nat /\ n \in Nat
    BY ProvidersEnabled, FilterTypes DEF RoutingTypes, Position, InProvider, InFilter
  <2>2. i <= n \/ i > n
    BY <1>4, <2>1, FilterCallbackStep
  <2> QED BY <1>0, <1>4, <2>2, FilterCallbackStep, ToNextFilter, Within DEF InProvider, InFilter
<1>5. CASE RunFilterErrors \/ RunProviderErrors \/ RunDefault
  BY <1>0, <1>5, ErrorSteps, ToNextFilter, Within DEF InProvider, InFilter
<1> QED BY <1>1, <1>2, <1>3, <1>4, <1>5 DEF Dispatch

LEMMA RoutingTypesNext == RoutingTypes /\ [Next]_vars => RoutingTypes'
<1> SUFFICES ASSUME RoutingTypes, [Next]_vars PROVE SetupTypes' /\ Position'
  BY LocatorNext DEF RoutingTypes
<1>1. CASE SetUpCall
  BY <1>1, SetUpTypes
<1>2. ASSUME NEW r \in Records, Receive(r) PROVE SetupTypes' /\ Position'
  BY <1>2, DispatchAssumption
     DEF Receive, setupVars, RoutingTypes, SetupTypes, Position, InProvider, InFilter
<1>3. CASE Dispatch
  BY <1>3, DispatchKeepsTypes
<1>4. CASE ProcessAgain
  BY <1>4 DEF ProcessAgain, setupVars, RoutingTypes, SetupTypes, Position, InProvider, InFilter
<1>5. CASE UNCHANGED <<setupVars, dispatchVars>>
  BY <1>5 DEF dispatchVars, setupVars, RoutingTypes, SetupTypes, Position, InProvider, InFilter
<1> QED BY <1>1, <1>2, <1>3, <1>4, <1>5 DEF Next, vars

\* Whatever the client has set up and whatever its code does with an event, on_event()
\* (provider.hpp:484-503, event_filter.hpp:208-233) is in a provider the trace enabled, and
\* at a filter and a callback that exist.
THEOREM DispatchTypeCorrect == Spec => []TypeOK
<1>1. RoutingTypes /\ VerdictInv => TypeOK
  BY DEF RoutingTypes, SetupTypes, Position, InProvider, InFilter, VerdictInv, DispatchTypes,
     TypeOK
<1> QED
  BY <1>1, RoutingTypesInit, RoutingTypesNext, VerdictInit, VerdictNext, PTL DEF Spec

-----------------------------------------------------------------------------
(* To which provider.                                                      *)

\* An event that is routed by its schema has a verdict from then on.
Judged ==
  /\ pc = "forward" => verdicts = {}
  /\ pc \notin {"setup", "forward"} /\ rec # NoRecord /\ BySchema => verdicts # {}

OwnerInv == RoutingTypes /\ VerdictInv /\ Judged /\ RoutedToOwner

\* Who asks again gets the verdict by which the event was routed.
LEMMA OwnerKept ==
  ASSUME OwnerInv, VerdictInv', UNCHANGED <<rec, prov, providers_>>,
         verdicts \subseteq verdicts', pc \notin {"setup", "forward"}, pc' # "forward"
  PROVE  Judged' /\ RoutedToOwner'
<1>1. BySchema' <=> BySchema
  BY DEF BySchema, ByHeader
<1>2. CASE rec # NoRecord /\ BySchema
  <2>1. verdicts # {} /\ \A v, w \in verdicts' : v = w
    BY <1>2 DEF OwnerInv, Judged, VerdictInv, OneVerdict
  <2>2. verdicts' = verdicts
    BY <2>1
  <2> QED BY <1>1, <1>2, <2>1, <2>2 DEF OwnerInv, Judged, RoutedToOwner
<1>3. CASE rec = NoRecord \/ ~BySchema
  BY <1>1, <1>3 DEF Judged, RoutedToOwner
<1> QED BY <1>2, <1>3

LEMMA OwnerForward ==
  ASSUME OwnerInv, Forward PROVE Judged' /\ RoutedToOwner'
<1>1. pc' # "forward" /\ UNCHANGED <<rec, providers_>> /\ verdicts = {}
  BY DEF Forward, ForwardTo, OwnerInv, Judged, setupVars
<1>2. (BySchema' <=> BySchema) /\ ~(ByHeader /\ BySchema)
  BY <1>1 DEF BySchema, ByHeader
<1>3. CASE ~BySchema
  BY <1>1, <1>2, <1>3 DEF Judged, RoutedToOwner
<1>4. CASE BySchema
  <2>1. PICK v \in Schemas \cup Errors :
           /\ verdicts' = verdicts \cup {v}
           /\ prov' = IF v \in Schemas THEN FirstOf(SchemaGuid[v]) ELSE NoProvider
    BY <1>2, <1>4 DEF Forward, ForwardTo
  <2>2. v \in Schemas =>
          /\ prov' # NoProvider => Guid[prov'] = SchemaGuid[v]
          /\ prov' = NoProvider => \A q \in ToSet(providers_) : Guid[q] # SchemaGuid[v]
    BY <2>1, FirstOfFacts DEF OwnerInv, RoutingTypes, SetupTypes
  <2> QED BY <1>1, <2>1, <2>2 DEF Judged, RoutedToOwner
<1> QED BY <1>3, <1>4

LEMMA OwnerNext == OwnerInv /\ [Next]_vars => OwnerInv'
<1> SUFFICES ASSUME OwnerInv, [Next]_vars, VerdictInv' PROVE Judged' /\ RoutedToOwner'
  BY RoutingTypesNext, VerdictNext DEF OwnerInv
<1>1. CASE SetUpCall
  <2>1. rec' = NoRecord /\ pc' # "forward"
    BY <1>1 DEF SetUpCall, AddCallback, AddFilterCallback, AddFilter, Enable, SetDefault, SetUp,
       StartTrace, dispatchVars, OwnerInv, RoutingTypes, Position
  <2> QED BY <2>1 DEF Judged, RoutedToOwner
<1>2. ASSUME NEW r \in Records, Receive(r) PROVE Judged' /\ RoutedToOwner'
  BY <1>2 DEF Receive, Judged, RoutedToOwner
<1>3. CASE Forward
  BY <1>3, OwnerForward
<1>4. CASE Dispatch /\ ~Forward
  <2>1. pc \notin {"setup", "forward"} /\ UNCHANGED <<rec, prov, providers_>>
    BY <1>4 DEF Dispatch, RunCallback, RunPredicate, RunFilterCallback, RunFilterErrors,
       RunProviderErrors, RunDefault, setupVars
  <2>2. verdicts \subseteq verdicts'
    BY <1>4 DEF Dispatch, RunCallback, RunPredicate, RunFilterCallback, RunFilterErrors,
       RunProviderErrors, RunDefault, Invoke
  <2>3. NextFilter(1) \/ NextFilter(j + 1) => pc' # "forward"
    BY DEF NextFilter
  <2>4. pc' # "forward"
    BY <1>4, <2>1, <2>3, CallbackStep, PredicateStep, FilterCallbackStep, ErrorSteps DEF Dispatch
  <2> QED BY <2>1, <2>2, <2>4, OwnerKept
<1>5. CASE ProcessAgain
  BY <1>5 DEF ProcessAgain, Judged, RoutedToOwner
<1>6. CASE UNCHANGED <<setupVars, dispatchVars>>
  <2>1. UNCHANGED <<pc, rec, prov, verdicts, providers_>>
    BY <1>6 DEF dispatchVars, setupVars
  <2> QED BY <2>1 DEF OwnerInv, Judged, RoutedToOwner, BySchema, ByHeader
<1> QED BY <1>1, <1>2, <1>3, <1>4, <1>5, <1>6 DEF Next, vars

\* For any providers, in whatever order and however often they are enabled, an event without
\* a provider GUID goes to the owner of the schema its callbacks will see (ut.hpp:216-263),
\* though manifests change between the two lookups.
THEOREM EventsReachTheirOwner == Spec => []RoutedToOwner
<1>1. Init => Judged /\ RoutedToOwner
  BY DEF Init, Judged, RoutedToOwner
<1>2. Init => OwnerInv
  BY <1>1, RoutingTypesInit, VerdictInit DEF OwnerInv
<1>3. OwnerInv => RoutedToOwner
  BY DEF OwnerInv
<1> QED BY <1>2, <1>3, OwnerNext, PTL DEF Spec

-----------------------------------------------------------------------------
(* What is told to error callbacks.                                        *)

LEMMA LogGrows ==
  ASSUME IsSequence(log), NEW who, NEW out, Logged(who, out)
  PROVE  /\ IsSequence(log') /\ Len(log) \in Nat /\ Len(log') = Len(log) + 1
         /\ DOMAIN log = 1..Len(log) /\ DOMAIN log' = 1..(Len(log) + 1)
         /\ \A n \in DOMAIN log : log'[n] = log[n]
         /\ log'[Len(log) + 1].who = who /\ log'[Len(log) + 1].out = out
<1> DEFINE e == [who |-> who, out |-> out]
<1>1. PICK S : log \in Seq(S)
  BY DEF IsSequence
<1>2. log \in Seq(S \cup {e})
  BY <1>1
<1>3. log' = Append(log, e) /\ e.who = who /\ e.out = out
  BY DEF Logged
<1> HIDE DEF e
<1>4. IsSequence(log')
  BY <1>2, <1>3 DEF IsSequence
<1> QED BY <1>2, <1>3, <1>4

IsNoSchema(n) == log[n].out = "no_schema" /\ log[n].who[1] \notin Outermost

\* Those whose exception the provider catches.
OfProvider == {"callback", "filterErrors"}

\* The error callbacks to be told of an entry.
Told(n) == IF log[n].who[1] \in OfProvider THEN <<"providerErrors", prov>>
           ELSE <<"filterErrors", prov, log[n].who[3]>>

\* Only the filter being run can have failed last.
OfThisFilter ==
  LET n == Len(log) IN
  log # <<>> /\ IsNoSchema(n) /\ log[n].who[1] \notin OfProvider => log[n].who[3] = j

Nothing == pc = "forward" => log = <<>>

ReportInv == IsSequence(log) /\ Nothing /\ OfThisFilter /\ ErrorsReported

\* Entries before the last are as they were.
LEMMA ReportsGrow ==
  ASSUME ReportInv, NEW who, NEW out, Logged(who, out), prov' = prov, pc' # "forward",
         pc = "providerErrors" => who = <<"providerErrors", prov>>,
         pc = "filterErrors" => who = <<"filterErrors", prov, j>>,
         out = "no_schema" /\ who[1] \notin Outermost =>
           \/ who[1] \in OfProvider /\ pc' = "providerErrors"
           \/ who[1] \notin OfProvider /\ who[3] = j' /\ pc' = "filterErrors"
  PROVE  ReportInv'
<1> DEFINE last == Len(log) + 1
<1>1. /\ IsSequence(log') /\ Len(log) \in Nat /\ Len(log') = last
      /\ DOMAIN log = 1..Len(log) /\ DOMAIN log' = 1..last
      /\ \A n \in DOMAIN log : log'[n] = log[n]
      /\ log'[last].who = who /\ log'[last].out = out
  BY LogGrows DEF ReportInv
<1>2. OfThisFilter'
  BY <1>1 DEF OfThisFilter, IsNoSchema
<1>3. ASSUME NEW n \in DOMAIN log', IsNoSchema(n)'
      PROVE  IF n = Len(log') THEN pc' = Told(n)'[1] ELSE log'[n + 1].who = Told(n)'
  <2>1. CASE n = last
    BY <1>1, <1>3, <2>1 DEF IsNoSchema, Told
  <2>2. CASE n \in DOMAIN log
    <3>1. IsNoSchema(n) /\ Told(n)' = Told(n) /\ n # last
      BY <1>1, <1>3, <2>2 DEF IsNoSchema, Told
    <3>2. IF n = Len(log) THEN pc = Told(n)[1] ELSE log[n + 1].who = Told(n)
      BY <2>2, <3>1 DEF ReportInv, ErrorsReported, IsNoSchema, Told, OfProvider
    <3>3. CASE n # Len(log)
      <4>1. n + 1 \in DOMAIN log
        BY <1>1, <2>2, <3>3
      <4> QED BY <1>1, <3>1, <3>2, <3>3, <4>1
    <3>4. CASE n = Len(log)
      <4>1. log # <<>>
        BY <2>2
      <4>2. log[n].who[1] \notin OfProvider => log[n].who[3] = j
        BY <3>1, <3>4, <4>1 DEF ReportInv, OfThisFilter
      <4>3. who = Told(n)
        BY <3>2, <3>4, <4>2 DEF Told
      <4> QED BY <1>1, <3>1, <3>4, <4>3
    <3> QED BY <3>3, <3>4
  <2> QED BY <1>1, <2>1, <2>2
<1>4. ErrorsReported'
  BY <1>3 DEF ErrorsReported, IsNoSchema, Told, OfProvider
<1> QED BY <1>1, <1>2, <1>4 DEF ReportInv, Nothing

\* Steps that log nothing are not taken at error callbacks.
LEMMA ReportsKept ==
  ASSUME ReportInv, log' = log, pc \notin {"providerErrors", "filterErrors"},
         prov' = prov \/ log = <<>>, pc' # "forward"
  PROVE  ReportInv'
<1>1. \A n \in DOMAIN log : IsNoSchema(n) => n # Len(log)
  BY DEF ReportInv, ErrorsReported, IsNoSchema, OfProvider
<1>2. log # <<>> => Len(log) \in DOMAIN log
  BY DEF ReportInv, IsSequence
<1>3. OfThisFilter'
  BY <1>1, <1>2 DEF OfThisFilter, IsNoSchema
<1>4. ErrorsReported'
  BY <1>1 DEF ReportInv, ErrorsReported, IsNoSchema
<1> QED BY <1>3, <1>4 DEF ReportInv, Nothing

LEMMA ReportNext == ReportInv /\ [Next]_vars => ReportInv'
<1> SUFFICES ASSUME ReportInv, [Next]_vars PROVE ReportInv'
  OBVIOUS
<1>0. NextFilter(1) \/ NextFilter(j + 1) => pc' \in {"idle", "predicate", "filterCallbacks"}
  BY DEF NextFilter
<1>1. CASE SetUpCall \/ ProcessAgain
  <2>1. log' = log /\ pc \in {"setup", "halted"} /\ prov' = prov /\ pc' # "forward"
    BY <1>1 DEF SetUpCall, AddCallback, AddFilterCallback, AddFilter, Enable, SetDefault, SetUp,
       StartTrace, dispatchVars, ProcessAgain
  <2> QED BY <2>1, ReportsKept
<1>2. ASSUME NEW r \in Records, Receive(r) PROVE ReportInv'
  BY <1>2 DEF Receive, ReportInv, IsSequence, Nothing, OfThisFilter, ErrorsReported
<1>3. CASE Forward
  <2>1. log' = log /\ log = <<>> /\ pc = "forward" /\ pc' # "forward"
    BY <1>3 DEF Forward, ForwardTo, ReportInv, Nothing
  <2> QED BY <2>1, ReportsKept
<1>4. CASE RunCallback
  BY <1>0, <1>4, CallbackStep, ReportsKept, ReportsGrow DEF Same, OfProvider
<1>5. CASE RunPredicate
  BY <1>0, <1>5, PredicateStep, ReportsGrow DEF Same, OfProvider
<1>6. CASE RunFilterCallback
  BY <1>0, <1>6, FilterCallbackStep, ReportsKept, ReportsGrow DEF Same, OfProvider
<1>7. CASE RunFilterErrors \/ RunProviderErrors \/ RunDefault
  BY <1>0, <1>7, ErrorSteps, ReportsGrow DEF Same, OfProvider, Outermost
<1>8. CASE UNCHANGED <<setupVars, dispatchVars>>
  BY <1>8 DEF dispatchVars, ReportInv, Nothing, OfThisFilter, IsNoSchema, ErrorsReported
<1> QED BY <1>1, <1>2, <1>3, <1>4, <1>5, <1>6, <1>7, <1>8 DEF Next, Dispatch, vars

\* However many callbacks and filters a provider has, whoever catches could_not_find_schema
\* calls its error callbacks next (provider.hpp:495-502, event_filter.hpp:225-232).
THEOREM MissingSchemasAreReported == Spec => []ErrorsReported
<1>1. Init => ReportInv
  BY DEF Init, ReportInv, IsSequence, Nothing, OfThisFilter, ErrorsReported
<1>2. ReportInv => ErrorsReported
  BY DEF ReportInv
<1> QED BY <1>1, <1>2, ReportNext, PTL DEF Spec

-----------------------------------------------------------------------------
(* Nothing runs twice.                                                     *)

\* What has run comes before what is next, when that is callback c of filter f at p.
Before(p, c, f, w) ==
  /\ p \notin {"forward", "default"}
  /\ p = "callbacks" => w[1] = "callback" /\ w[3] \in Nat /\ w[3] < c
  /\ p = "providerErrors" => w[1] # "providerErrors"
  /\ p \in InFilter =>
       \/ w[1] = "callback"
       \/ /\ w[1] \in {"predicate", "filterCallback", "filterErrors"}
          /\ w[3] \in Nat
          /\ \/ w[3] < f
             \/ w[3] = f /\ w[1] # "filterErrors" /\ p # "predicate"
  /\ p = "filterCallbacks" /\ w[1] = "filterCallback" /\ w[3] = f =>
       w[4] \in Nat /\ w[4] < c

OnceInv ==
  IsSequence(log) /\ AtMostOnce /\ \A n \in DOMAIN log : Before(pc, i, j, log[n].who)

\* A call that has not run yet, and comes before the next.
LEMMA OnceGrows ==
  ASSUME OnceInv, NEW who, NEW out, Logged(who, out),
         \A n \in DOMAIN log : log[n].who # who,
         \A n \in DOMAIN log : Before(pc', i', j', log[n].who), Before(pc', i', j', who)
  PROVE  OnceInv'
<1> DEFINE last == Len(log) + 1
<1>1. /\ IsSequence(log') /\ Len(log) \in Nat
      /\ DOMAIN log = 1..Len(log) /\ DOMAIN log' = 1..last
      /\ \A n \in DOMAIN log : log'[n] = log[n]
      /\ log'[last].who = who
  BY LogGrows DEF OnceInv
<1>2. \A n \in DOMAIN log' : n = last \/ n \in DOMAIN log
  BY <1>1
<1> HIDE DEF last
<1>3. AtMostOnce'
  BY <1>1, <1>2 DEF OnceInv, AtMostOnce
<1>4. \A n \in DOMAIN log' : Before(pc', i', j', log'[n].who)
  <2> SUFFICES ASSUME NEW n \in DOMAIN log' PROVE Before(pc', i', j', log'[n].who)
    OBVIOUS
  <2>1. CASE n = last
    BY <1>1, <2>1 DEF Before
  <2>2. CASE n \in DOMAIN log
    BY <1>1, <2>2 DEF Before
  <2> QED BY <1>2, <2>1, <2>2
<1> QED BY <1>1, <1>3, <1>4 DEF OnceInv

\* What ends with the next filter leaves everything before it behind.
LEMMA BeforeNextFilter ==
  ASSUME RoutingTypes, pc \in InProvider, NEW w, NEW n \in Nat, NextFilter(n),
         \/ w[1] = "callback"
         \/ /\ w[1] \in {"predicate", "filterCallback", "filterErrors"}
            /\ w[3] \in Nat /\ w[3] < n
  PROVE  Before(pc', i', j', w)
<1>1. prov \in Providers /\ DOMAIN filters_[prov] \subseteq Nat
  BY ProvidersEnabled, FilterTypes DEF RoutingTypes, Position
<1>2. \/ pc' = "idle"
      \/ pc' \in {"predicate", "filterCallbacks"} /\ j' \in Nat /\ n <= j'
  BY <1>1, NextFilterFacts DEF RoutingTypes
<1> QED BY <1>2 DEF Before, InFilter

LEMMA OnceNext == RoutingTypes /\ OnceInv /\ [Next]_vars => OnceInv'
<1> SUFFICES ASSUME RoutingTypes, OnceInv, [Next]_vars PROVE OnceInv'
  OBVIOUS
<1>0. 1 \in Nat /\ j \in Nat /\ i \in Nat /\ j + 1 \in Nat
  BY DEF RoutingTypes, Position
<1>1. ASSUME log' = log, \A n \in DOMAIN log : Before(pc', i', j', log[n].who) PROVE OnceInv'
  BY <1>1 DEF OnceInv, AtMostOnce, Before
<1>2. CASE SetUpCall \/ ProcessAgain
  <2>1. log' = log /\ pc' \in {"setup", "idle"}
    BY <1>2 DEF SetUpCall, AddCallback, AddFilterCallback, AddFilter, Enable, SetDefault, SetUp,
       StartTrace, dispatchVars, ProcessAgain
  <2> QED BY <1>1, <2>1 DEF Before, InFilter
<1>3. ASSUME NEW r \in Records, Receive(r) PROVE OnceInv'
  <2>1. IsSequence(log') /\ DOMAIN log' = {}
    BY <1>3 DEF Receive, IsSequence
  <2> QED BY <2>1 DEF OnceInv, AtMostOnce
<1>4. CASE Forward
  <2>1. log' = log /\ DOMAIN log = {}
    BY <1>4 DEF Forward, ForwardTo, OnceInv, Before
  <2> QED BY <1>1, <2>1
<1>5. CASE RunCallback
  <2> DEFINE who == <<"callback", prov, i>>
  <2>1. pc = "callbacks" /\ \A n \in DOMAIN log :
          log[n].who[1] = "callback" /\ log[n].who[3] \in Nat /\ log[n].who[3] < i
    BY <1>5, CallbackStep DEF OnceInv, Before
  <2>2. CASE log' = log /\ NextFilter(1)
    <3>1. \A n \in DOMAIN log : Before(pc', i', j', log[n].who)
      BY <1>0, <2>1, <2>2, BeforeNextFilter DEF InProvider
    <3> QED BY <1>1, <2>2, <3>1
  <2>3. CASE \E out : /\ Logged(who, out)
                      /\ \/ i' = i + 1 /\ pc' = pc
                         \/ pc' \in {"providerErrors", "halted"}
    <3>1. who[1] = "callback" /\ who[3] = i
      OBVIOUS
    <3> HIDE DEF who
    <3>2. Before(pc', i', j', who) /\ \A n \in DOMAIN log : Before(pc', i', j', log[n].who)
      BY <1>0, <2>1, <2>3, <3>1 DEF Before, InFilter
    <3>3. \A n \in DOMAIN log : log[n].who # who
      BY <1>0, <2>1, <3>1
    <3> QED BY <2>3, <3>2, <3>3, OnceGrows
  <2> QED BY <1>5, <2>2, <2>3, CallbackStep
<1>6. CASE RunPredicate
  <2> DEFINE who == <<"predicate", prov, j>>
  <2>1. pc = "predicate" /\ \A n \in DOMAIN log :
          \/ log[n].who[1] = "callback"
          \/ /\ log[n].who[1] \in {"predicate", "filterCallback", "filterErrors"}
             /\ log[n].who[3] \in Nat /\ log[n].who[3] < j
    BY <1>6, PredicateStep DEF OnceInv, Before, InFilter
  <2>2. who[1] = "predicate" /\ who[3] = j
    OBVIOUS
  <2> HIDE DEF who
  <2>3. \A n \in DOMAIN log : log[n].who # who
    BY <1>0, <2>1, <2>2
  <2>4. CASE NextFilter(j + 1) /\ \E out : Logged(who, out)
    <3>1. Before(pc', i', j', who) /\ \A n \in DOMAIN log : Before(pc', i', j', log[n].who)
      BY <1>0, <2>1, <2>2, <2>4, BeforeNextFilter DEF InProvider
    <3> QED BY <2>3, <2>4, <3>1, OnceGrows
  <2>5. CASE /\ pc' \in {"filterCallbacks", "filterErrors", "halted"} /\ j' = j
             /\ \E out : Logged(who, out)
    <3>1. Before(pc', i', j', who) /\ \A n \in DOMAIN log : Before(pc', i', j', log[n].who)
      BY <1>0, <2>1, <2>2, <2>5 DEF Before, InFilter
    <3> QED BY <2>3, <2>5, <3>1, OnceGrows
  <2> QED BY <1>6, <2>4, <2>5, PredicateStep DEF who
<1>7. CASE RunFilterCallback
  <2> DEFINE who == <<"filterCallback", prov, j, i>>
  <2>1. pc = "filterCallbacks" /\ \A n \in DOMAIN log : Before(pc, i, j, log[n].who)
    BY <1>7, FilterCallbackStep DEF OnceInv
  <2>2. who[1] = "filterCallback" /\ who[3] = j /\ who[4] = i
    OBVIOUS
  <2> HIDE DEF who
  <2>3. \A n \in DOMAIN log : log[n].who # who
    BY <1>0, <2>1, <2>2 DEF Before, InFilter
  <2>4. CASE NextFilter(j + 1) /\ log' = log
    <3>1. \A n \in DOMAIN log : Before(pc', i', j', log[n].who)
      <4>1. \A n \in DOMAIN log :
              \/ log[n].who[1] = "callback"
              \/ /\ log[n].who[1] \in {"predicate", "filterCallback", "filterErrors"}
                 /\ log[n].who[3] \in Nat /\ log[n].who[3] < j + 1
        BY <1>0, <2>1 DEF Before, InFilter
      <4> QED BY <1>0, <2>1, <2>4, <4>1, BeforeNextFilter DEF InProvider
    <3> QED BY <1>1, <2>4, <3>1
  <2>5. CASE /\ j' = j /\ \E out : Logged(who, out)
             /\ \/ i' = i + 1 /\ pc' = pc
                \/ pc' \in {"filterErrors", "halted"}
    <3>1. Before(pc', i', j', who) /\ \A n \in DOMAIN log : Before(pc', i', j', log[n].who)
      BY <1>0, <2>1, <2>2, <2>5 DEF Before, InFilter
    <3> QED BY <2>3, <2>5, <3>1, OnceGrows
  <2> QED BY <1>7, <2>4, <2>5, FilterCallbackStep DEF who
<1>8. CASE RunFilterErrors \/ RunProviderErrors \/ RunDefault
  <2>1. CASE pc = "filterErrors"
    <3> DEFINE who == <<"filterErrors", prov, j>>
    <3>1. who[1] = "filterErrors" /\ who[3] = j
      OBVIOUS
    <3> HIDE DEF who
    <3>2. \A n \in DOMAIN log :
            \/ log[n].who[1] = "callback"
            \/ /\ log[n].who[1] \in {"predicate", "filterCallback", "filterErrors"}
               /\ log[n].who[3] \in Nat /\ log[n].who[3] < j + 1
      BY <1>0, <2>1 DEF OnceInv, Before, InFilter
    <3>3. \A n \in DOMAIN log : log[n].who # who
      BY <1>0, <2>1, <3>1 DEF OnceInv, Before, InFilter
    <3>4. CASE NextFilter(j + 1) /\ \E out : Logged(who, out)
      <4>1. Before(pc', i', j', who) /\ \A n \in DOMAIN log : Before(pc', i', j', log[n].who)
        BY <1>0, <2>1, <3>1, <3>2, <3>4, BeforeNextFilter DEF InProvider
      <4> QED BY <3>3, <3>4, <4>1, OnceGrows
    <3>5. CASE pc' \in {"halted", "providerErrors"} /\ \E out : Logged(who, out)
      <4>1. Before(pc', i', j', who) /\ \A n \in DOMAIN log : Before(pc', i', j', log[n].who)
        BY <3>1, <3>2, <3>5 DEF Before, InFilter
      <4> QED BY <3>3, <3>5, <4>1, OnceGrows
    <3> QED BY <1>8, <2>1, <3>4, <3>5, ErrorSteps DEF who
  <2>2. CASE pc \in {"providerErrors", "default"}
    <3>1. PICK who, out :
             /\ Logged(who, out) /\ pc' \in {"idle", "halted"}
             /\ pc = "providerErrors" => who[1] = "providerErrors"
      BY <1>8, <2>2, ErrorSteps
    <3>2. Before(pc', i', j', who) /\ \A n \in DOMAIN log : Before(pc', i', j', log[n].who)
      BY <3>1 DEF Before, InFilter
    <3>3. \A n \in DOMAIN log : log[n].who # who
      BY <2>2, <3>1 DEF OnceInv, Before
    <3> QED BY <3>1, <3>2, <3>3, OnceGrows
  <2> QED BY <1>8, <2>1, <2>2, ErrorSteps
<1>9. CASE UNCHANGED <<setupVars, dispatchVars>>
  BY <1>9 DEF dispatchVars, OnceInv, AtMostOnce, Before
<1> QED BY <1>2, <1>3, <1>4, <1>5, <1>6, <1>7, <1>8, <1>9 DEF Next, Dispatch, vars

\* A provider enabled twice, one of several with a GUID, and a filter whose error callbacks
\* run are no reason to call anything twice for an event (ut.hpp:232-241, provider.hpp:
\* 484-503, event_filter.hpp:208-233).
THEOREM NothingRunsTwice == Spec => []AtMostOnce
<1>1. Init => OnceInv
  BY DEF Init, OnceInv, IsSequence, AtMostOnce
<1>2. OnceInv => AtMostOnce
  BY DEF OnceInv
<1> QED
  BY <1>1, <1>2, OnceNext, RoutingTypesInit, RoutingTypesNext, PTL DEF Spec

-----------------------------------------------------------------------------
(* Every filter has its turn.                                              *)

\* What log s says, of the first k callbacks of filter n of p, and of the whole filter.
In(s, who, out) == \E m \in DOMAIN s : s[m] = [who |-> who, out |-> out]

Heard(s, p, n, k) == \A m \in 1..k : In(s, <<"filterCallback", p, n, m>>, "ok")

Settled(s, p, n, k) ==
  \/ In(s, <<"predicate", p, n>>, "false")
  \/ In(s, <<"filterErrors", p, n>>, "ok")
  \/ Heard(s, p, n, k)

Size(n) == Len(filters_[prov][n].event_callbacks_)

FilterInv ==
  /\ IsSequence(log)
  /\ pc = "default" => prov = NoProvider
  /\ pc \in InFilter =>
       \A n \in DOMAIN filters_[prov] : n < j => Settled(log, prov, n, Size(n))
  /\ pc = "predicate" => i = 1
  /\ pc = "filterCallbacks" => Heard(log, prov, j, i - 1)
  /\ Finished /\ prov # NoProvider =>
       \/ In(log, <<"providerErrors", prov>>, "ok")
       \/ \A n \in DOMAIN filters_[prov] : Settled(log, prov, n, Size(n))

\* The log forgets nothing.
LEMMA InGrows ==
  ASSUME IsSequence(log), NEW who, NEW out, Logged(who, out)
  PROVE  /\ IsSequence(log') /\ In(log', who, out)
         /\ \A w, o : In(log, w, o) => In(log', w, o)
<1> DEFINE e == [who |-> who, out |-> out]
<1>1. PICK S : log \in Seq(S)
  BY DEF IsSequence
<1>2. log \in Seq(S \cup {e}) /\ log' = Append(log, e)
  BY <1>1 DEF Logged
<1> HIDE DEF e
<1>3. /\ DOMAIN log \subseteq DOMAIN log' /\ Len(log) + 1 \in DOMAIN log'
      /\ log'[Len(log) + 1] = e /\ \A n \in DOMAIN log : log'[n] = log[n]
  BY <1>2
<1> QED BY <1>2, <1>3 DEF In, IsSequence, e

LEMMA SettledGrows ==
  ASSUME \A w, o : In(log, w, o) => In(log', w, o), NEW p, NEW n, NEW k
  PROVE  /\ Heard(log, p, n, k) => Heard(log', p, n, k)
         /\ Settled(log, p, n, k) => Settled(log', p, n, k)
BY DEF Heard, Settled

\* The filters before the next have been settled, those without callbacks among them.
LEMMA SettledNext ==
  ASSUME RoutingTypes, pc \in InProvider, NEW n \in Nat, NextFilter(n), Same,
         IsSequence(log'),
         \A m \in DOMAIN filters_[prov] : m < n => Settled(log', prov, m, Size(m))
  PROVE  FilterInv'
<1>1. prov \in Providers /\ DOMAIN filters_[prov] \subseteq Nat
  BY ProvidersEnabled, FilterTypes DEF RoutingTypes, Position
<1>2. UNCHANGED <<filters_, prov, rec>>
  BY DEF Same, setupVars
<1>3. ASSUME NEW m \in DOMAIN filters_[prov], filters_[prov][m].event_callbacks_ = <<>>
      PROVE  Settled(log', prov, m, Size(m))
  BY <1>3 DEF Settled, Heard, Size
<1>4. CASE /\ pc' = "idle"
           /\ \A m \in DOMAIN filters_[prov] :
                 n <= m => filters_[prov][m].event_callbacks_ = <<>>
  <2>1. \A m \in DOMAIN filters_[prov] : Settled(log', prov, m, Size(m))
    <3> SUFFICES ASSUME NEW m \in DOMAIN filters_[prov] PROVE Settled(log', prov, m, Size(m))
      OBVIOUS
    <3>1. m < n \/ n <= m
      BY <1>1
    <3> QED BY <1>3, <1>4, <3>1
  <2> QED BY <1>2, <1>4, <2>1 DEF FilterInv, InFilter, Size
<1>5. CASE /\ pc' \in {"predicate", "filterCallbacks"} /\ i' = 1 /\ j' \in DOMAIN filters_[prov]
           /\ \A m \in DOMAIN filters_[prov] :
                 n <= m /\ m < j' => filters_[prov][m].event_callbacks_ = <<>>
  <2>1. \A m \in DOMAIN filters_[prov] : m < j' => Settled(log', prov, m, Size(m))
    <3> SUFFICES ASSUME NEW m \in DOMAIN filters_[prov], m < j'
                 PROVE  Settled(log', prov, m, Size(m))
      OBVIOUS
    <3>1. m < n \/ n <= m
      BY <1>1
    <3> QED BY <1>3, <1>5, <3>1
  <2>2. Heard(log', prov, j', i' - 1)
    BY <1>5 DEF Heard
  <2> QED BY <1>2, <1>5, <2>1, <2>2 DEF FilterInv, Finished, InFilter, Size
<1> QED BY <1>1, <1>4, <1>5, NextFilterFacts DEF RoutingTypes

\* A call within a filter, or one that ends the dispatch.
LEMMA FilterGoesOn ==
  ASSUME RoutingTypes, FilterInv, Same, NEW who, NEW out, Logged(who, out), j' = j,
         \/ pc' = "halted"
         \/ pc = "callbacks" /\ pc' \in {"callbacks", "providerErrors"}
         \/ pc = "predicate" /\ pc' = "filterCallbacks" /\ i' = 1
         \/ pc \in InFilter /\ pc' \in {"filterErrors", "providerErrors"}
         \/ /\ pc = "filterCallbacks" /\ pc' = pc /\ i' = i + 1
            /\ who = <<"filterCallback", prov, j, i>> /\ out = "ok"
         \/ /\ pc = "providerErrors" /\ pc' = "idle"
            /\ who = <<"providerErrors", prov>> /\ out = "ok"
         \/ pc = "default" /\ pc' = "idle"
  PROVE  FilterInv'
<1>1. UNCHANGED <<filters_, prov, rec>> /\ i \in Nat
  BY DEF Same, setupVars, RoutingTypes, Position
<1>2. /\ IsSequence(log') /\ In(log', who, out)
      /\ \A w, o : In(log, w, o) => In(log', w, o)
  BY InGrows DEF FilterInv
<1>3. pc' \in InFilter =>
        \A n \in DOMAIN filters_[prov] : n < j => Settled(log', prov, n, Size(n))
  BY <1>2, SettledGrows DEF FilterInv, InFilter
<1>4. pc' = "filterCallbacks" => Heard(log', prov, j, i' - 1)
  <2>1. CASE pc = "predicate" /\ i' = 1
    BY <2>1 DEF Heard
  <2>2. CASE /\ pc = "filterCallbacks" /\ i' = i + 1
             /\ who = <<"filterCallback", prov, j, i>> /\ out = "ok"
    <3>1. Heard(log', prov, j, i - 1)
      BY <1>2, <2>2, SettledGrows DEF FilterInv
    <3>2. \A m \in 1..(i' - 1) : m \in 1..(i - 1) \/ m = i
      BY <1>1, <2>2
    <3> QED BY <1>2, <2>2, <3>1, <3>2 DEF Heard
  <2> QED BY <2>1, <2>2 DEF InFilter
<1>5. pc' = "idle" => prov = NoProvider \/ In(log', <<"providerErrors", prov>>, "ok")
  BY <1>2 DEF FilterInv
<1> QED BY <1>1, <1>2, <1>3, <1>4, <1>5 DEF FilterInv, Finished, InFilter, Size

\* A filter that has been settled is behind the next one.
LEMMA SettledUpTo ==
  ASSUME RoutingTypes, pc \in InFilter, FilterInv,
         \A w, o : In(log, w, o) => In(log', w, o), Settled(log', prov, j, Size(j))
  PROVE  \A m \in DOMAIN filters_[prov] : m < j + 1 => Settled(log', prov, m, Size(m))
<1>1. prov \in Providers /\ DOMAIN filters_[prov] \subseteq Nat /\ j \in Nat
  BY ProvidersEnabled, FilterTypes DEF RoutingTypes, Position, InFilter, InProvider
<1>2. \A m \in DOMAIN filters_[prov] : m < j + 1 => m < j \/ m = j
  BY <1>1
<1> QED BY <1>2, SettledGrows DEF FilterInv

LEMMA FilterNext == RoutingTypes /\ FilterInv /\ [Next]_vars => FilterInv'
<1> SUFFICES ASSUME RoutingTypes, FilterInv, [Next]_vars PROVE FilterInv'
  OBVIOUS
<1>0. 1 \in Nat /\ j \in Nat /\ j + 1 \in Nat
  BY DEF RoutingTypes, Position
<1>1. CASE SetUpCall \/ ProcessAgain
  <2>1. log' = log /\ pc' \in {"setup", "idle"} /\ rec' = NoRecord
    BY <1>1 DEF SetUpCall, AddCallback, AddFilterCallback, AddFilter, Enable, SetDefault, SetUp,
       StartTrace, dispatchVars, ProcessAgain, RoutingTypes, Position
  <2> QED BY <2>1 DEF FilterInv, Finished, InFilter
<1>2. ASSUME NEW r \in Records, Receive(r) PROVE FilterInv'
  BY <1>2 DEF Receive, FilterInv, IsSequence, Finished, InFilter
<1>3. CASE Forward
  <2>1. log' = log /\ \/ pc' = "callbacks"
                      \/ pc' \in {"idle", "default"} /\ prov' = NoProvider
    BY <1>3 DEF Forward, ForwardTo
  <2> QED BY <2>1 DEF FilterInv, Finished, InFilter
<1>4. CASE RunCallback
  <2>1. CASE pc = "callbacks" /\ Same /\ NextFilter(1) /\ log' = log
    <3>1. prov \in Providers
      BY <2>1, ProvidersEnabled DEF RoutingTypes, Position, InProvider
    <3>2. \A m \in DOMAIN filters_[prov] : ~(m < 1)
      BY <3>1, FilterTypes DEF RoutingTypes
    <3> QED BY <1>0, <2>1, <3>2, SettledNext DEF InProvider, FilterInv
  <2>2. CASE ~(NextFilter(1) /\ log' = log)
    BY <1>4, <2>2, CallbackStep, FilterGoesOn
  <2> QED BY <1>4, <2>1, <2>2, CallbackStep
<1>5. CASE RunPredicate
  <2>1. CASE Logged(<<"predicate", prov, j>>, "false") /\ NextFilter(j + 1)
    <3>1. /\ IsSequence(log') /\ In(log', <<"predicate", prov, j>>, "false")
          /\ \A w, o : In(log, w, o) => In(log', w, o)
      BY <2>1, InGrows DEF FilterInv
    <3>2. Settled(log', prov, j, Size(j))
      BY <3>1 DEF Settled
    <3> QED
      BY <1>0, <1>5, <2>1, <3>1, <3>2, PredicateStep, SettledUpTo, SettledNext
         DEF InProvider, InFilter
  <2>2. CASE pc' \in {"filterErrors", "halted"} /\ j' = j
    BY <1>5, <2>2, PredicateStep, FilterGoesOn DEF InFilter, NextFilter
  <2>3. CASE pc' = "filterCallbacks" /\ i' = i /\ j' = j
    <3>1. PICK who, out : Logged(who, out)
      BY <1>5, PredicateStep
    <3>2. pc = "predicate" /\ Same /\ i = 1
      BY <1>5, PredicateStep DEF FilterInv
    <3> QED BY <2>3, <3>1, <3>2, FilterGoesOn
  <2> QED BY <1>5, <2>1, <2>2, <2>3, PredicateStep
<1>6. CASE RunFilterCallback
  <2>1. CASE /\ pc = "filterCallbacks" /\ Same /\ i > Size(j)
             /\ NextFilter(j + 1) /\ log' = log
    <3>1. i - 1 = Size(j)
      <4>1. /\ prov \in Providers /\ j \in DOMAIN filters_[prov]
            /\ i \in 1..(Size(j) + 1)
        BY <2>1, ProvidersEnabled DEF RoutingTypes, Position, InFilter, InProvider, Size
      <4>2. Size(j) \in Nat
        BY <4>1, FilterTypes DEF RoutingTypes, Size
      <4> QED BY <2>1, <4>1, <4>2
    <3>2. Settled(log', prov, j, Size(j))
      BY <2>1, <3>1 DEF FilterInv, Settled
    <3>3. IsSequence(log') /\ \A w, o : In(log, w, o) => In(log', w, o)
      BY <2>1 DEF FilterInv
    <3> QED BY <1>0, <2>1, <3>2, <3>3, SettledUpTo, SettledNext DEF InProvider, InFilter
  <2>2. CASE ~ (i > Size(j))
    BY <1>6, <2>2, FilterCallbackStep, FilterGoesOn DEF InFilter, Size
  <2> QED BY <1>6, <2>1, <2>2, FilterCallbackStep DEF Size
<1>7. CASE RunFilterErrors \/ RunProviderErrors \/ RunDefault
  <2>1. CASE /\ pc = "filterErrors" /\ Same
             /\ Logged(<<"filterErrors", prov, j>>, "ok") /\ NextFilter(j + 1)
    <3>1. /\ IsSequence(log') /\ In(log', <<"filterErrors", prov, j>>, "ok")
          /\ \A w, o : In(log, w, o) => In(log', w, o)
      BY <2>1, InGrows DEF FilterInv
    <3>2. Settled(log', prov, j, Size(j))
      BY <3>1 DEF Settled
    <3> QED BY <1>0, <2>1, <3>1, <3>2, SettledUpTo, SettledNext DEF InProvider, InFilter
  <2>2. CASE /\ pc = "filterErrors" /\ Same /\ j' = j /\ pc' \in {"halted", "providerErrors"}
             /\ \E out : Logged(<<"filterErrors", prov, j>>, out)
    BY <2>2, FilterGoesOn DEF InFilter
  <2>3. CASE pc # "filterErrors"
    BY <1>7, <2>3, ErrorSteps, FilterGoesOn
  <2> QED BY <1>7, <2>1, <2>2, <2>3, ErrorSteps
<1>8. CASE UNCHANGED <<setupVars, dispatchVars>>
  BY <1>8 DEF setupVars, dispatchVars, FilterInv, Finished, Size
<1> QED BY <1>1, <1>2, <1>3, <1>4, <1>5, <1>6, <1>7, <1>8 DEF Next, Dispatch, vars

\* For any filters of a provider, one that rejects an event or finds no schema for it leaves
\* it to the ones added after it (provider.hpp:491-494, event_filter.hpp:208-233).
THEOREM FiltersHaveTheirTurn == Spec => []FiltersAreIndependent
<1>1. Init => FilterInv
  BY DEF Init, FilterInv, IsSequence, Finished, InFilter
<1>2. RoutingTypes /\ FilterInv => FiltersAreIndependent
  <2> SUFFICES ASSUME RoutingTypes, FilterInv, Finished, prov # NoProvider,
                      ~Said(<<"providerErrors", prov>>, "ok"),
                      NEW n \in DOMAIN filters_[prov]
               PROVE  \/ Said(<<"predicate", prov, n>>, "false")
                      \/ Said(<<"filterErrors", prov, n>>, "ok")
                      \/ \A m \in DOMAIN filters_[prov][n].event_callbacks_ :
                            Said(<<"filterCallback", prov, n, m>>, "ok")
    BY DEF FiltersAreIndependent
  <2>1. \A who, out : Said(who, out) <=> In(log, who, out)
    BY DEF Said, In
  <2>2. Settled(log, prov, n, Size(n))
    BY <2>1 DEF FilterInv
  <2>3. prov \in Providers
    BY DEF RoutingTypes, Position
  <2>4. filters_[prov][n].event_callbacks_ \in Seq(Callbacks)
    BY <2>3, FilterTypes DEF RoutingTypes
  <2>5. DOMAIN filters_[prov][n].event_callbacks_ = 1..Size(n)
    BY <2>4 DEF Size
  <2> QED BY <2>1, <2>2, <2>5 DEF Settled, Heard
<1> QED
  BY <1>1, <1>2, FilterNext, RoutingTypesInit, RoutingTypesNext, PTL DEF Spec
=============================================================================
