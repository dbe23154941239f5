# krabsetw: TLA+ models, checks and proofs

krabsetw is a C++ library (`src/krabs`), with a C++/CLI wrapper
(`src/Microsoft.O365.Security.Native.ETW`), around Event Tracing for Windows (ETW). A client
describes *providers* with *filters* and *callbacks*, enables them in a *trace*, and starts it;
the thread that starts it is then lent to ETW, which calls back with one event record after
another, until another thread stops the trace. Callbacks look up the *schema* of a record and
read its properties with a *parser*.

Paths below are relative to `src/krabs/krabs/`, or, with the prefix `.NET/`, to
`src/Microsoft.O365.Security.Native.ETW/`.

## 1. The system

| Component | State | Operations | Talks to | What is hard |
|---|---|---|---|---|
| Trace session (`trace.hpp`, `etw.hpp`) | `registrationHandle_`, `sessionHandle_`, `eventsHandled_`, `buffersRead_` | `start`, `open`, `process`, `stop`, `query_stats`, destructor | ETW, whose sessions are global and named; its own callbacks | no locks: `stop` runs beside `start`; every ETW call may fail; other programs stop sessions; a fallback for processes without the right to control sessions |
| Provider enabling (`ut.hpp`, `kt.hpp`) | none: unions of the providers' settings | `enable_providers`, `enable_rundown` | providers, ETW | several providers of one GUID; failing half-way; old systems |
| Kernel providers (`kernel_providers.hpp`, `kernel_guids.hpp`, `perfinfo_groupmask.hpp`) | flags, group mask, class GUID | tables of constants, arithmetic on masks | provider enabling, routing | the flag that logs an event and the GUID that routes it are two tables |
| Event routing (`ut.hpp`, `kt.hpp`, `trace.hpp`) | `providers_`, `default_callback_`, MOF/WPP switches | `forward_events`, `on_event` | providers, schema locator | order of providers; MOF and WPP events need a schema to be routed |
| Provider (`provider.hpp`) | `callbacks_`, `filters_`, `error_callbacks_`, `any_`, `all_`, `level_`, … | setters, conversion, `on_event` | filters, client code | client code that throws; settings lost in a conversion |
| Event filter (`filtering/event_filter.hpp`) | `event_callbacks_`, `predicate_`, event ids | `on_event` | client code | as above; copied into the provider |
| Schema locator (`schema_locator.hpp`) | `cache_` | `get_event_schema`, `has_event_schema` | TDH, whose manifests change meanwhile | staleness, errors that are cached |
| Parser (`parser.hpp`, `size_provider.hpp`) | place in the record, `propertyCache_`, `nextHint_` | `parse`, `try_parse`, `view_of` | TDH for sizes | lazy walk, order of lookups, exceptions in the middle, boundaries |
| Parse types, type assertions (`parse_types.hpp`, `tdh_helpers.hpp`) | none | conversions from bytes | parser | sizes, missing terminators, pointers of 32-bit events |
| Predicates, comparers (`filtering/`) | none | pure functions | parser | boundaries; a second path to the same bytes; lists |
| GUID parser (`guid.hpp`) | none | `parse_guid`, `to_string` | — | places in a text without a terminator |
| Record builder, proxies (`testing/`) | properties to pack | `add_properties`, `pack`, `push_event` | schema, providers | inverse of the parser; extended data with pointers |
| Managed traces and providers (`.NET/UserTrace.hpp`, `Provider.hpp`, …) | native objects behind `NativePtr`, `disposed_` | `Enable`, `AddFilter`, `Start`, `Stop`, `Dispose` | all of the above, the garbage collector | native code refers to objects that .NET frees |
| Managed callbacks (`.NET/Callbacks.hpp`) | delegates, record objects | add and remove handlers, notifications | client code | compare-and-swap beside events; one record object for all events |
| Managed records (`.NET/EventRecord.hpp`, `EventRecordMetadata.hpp`) | none | getters in three forms, extended data | parser | exceptions or `false`, type by type |

### What makes each correct

* **Trace session**: the only consumer handle ever open is the one the object knows; it is closed
  exactly once; after `stop` the session has ended and the thread in `ProcessTrace` comes back;
  the events are those of the session in which the providers were enabled; counters count.
* **Settings and enabling**: a provider gets what it would get alone, unless another of its GUID
  has the union refuse the event; what asked for a rundown is asked for it; the kernel logs exactly the masks
  of the providers, and hands what it logs to them.
* **Routing, providers, filters**: each event reaches the provider that owns it, no callback runs
  twice, one filter never keeps an event from another, a missing schema becomes a call of an
  error callback and never ends the trace.
* **Schema locator**: all who look up the schema of one event agree; what exists is found.
* **Parser**: a lookup gives the property where it is, if the sizes so far come out right, and inside
  the record in any case, whatever came before.
* **Values, predicates, getters, builder**: what was packed is read back; the two ways to the bytes
  of a string, predicate and getter, agree; so do `Get`, `TryGet` and `Get` with a default.
* **Managed**: a native object is freed once, and not while it is in use; a handler that stays is
  called for every event, with a record that shows this event.

The list of hazards, line by line, with the properties that cover each, is `hazards` in
`PROJECT.json`.

## 2. Modules

| Module | Models |
|---|---|
| `TraceSession` | `trace<T>` and `trace_manager<T>` against one ETW service, several threads and processes |
| `TraceLifecycle` | abstract: what a client may rely on about the consumer of a trace |
| `ProviderSettings` | settings of user providers, their union by GUID, rundown, and the events ETW then writes |
| `KernelSettings` | kernel providers, flags of `StartTrace`, group masks, versions of Windows |
| `SchemaLocator` | the schema cache against a TDH whose manifests change |
| `EventDispatch` | extends `SchemaLocator`: setting a trace up, routing, providers, filters, client code |
| `Parser` | `find_property`, as called by `parse`, `try_parse` and `view_of` |
| `Values` | types of TDH and of C++, the sizes of properties, `parse<T>` over bytes |
| `GuidText` | `parse_guid` and `to_string` |
| `RecordBuilder` | extends `Values` and `GuidText`: the builder of synthetic records |
| `EventRecord` | the getters of the .NET records and of their extended data |
| `Predicates` | predicates, comparers and the fluent interface |
| `Records` | composes the four above: a record, built or received, as the rest of the library sees it |
| `ManagedTrace` | .NET traces, providers and filters, the native objects they own, and the garbage collector |
| `CallbackBridge` | delegates changed by compare-and-swap beside notifications |
| `HandlerList` | abstract: what an event of .NET promises about its handlers |
| `MCTraceSession`, `MCSettings`, `MCEventDispatch`, `MCParser`, `MCRecords`, `MCClient` | instances for TLC; `MCClient` composes the four that concern one client and its events |
| `TraceSessionProofs`, `ConsumerProofs`, `SettingsProofs`, `EventDispatchProofs`, `ParserProofs`, `RecordsProofs`, `ManagedProofs`, `BridgeProofs` | theorems |

Definitions whose comment begins with *Mutant of* are wrong on purpose. They show that a property
notices the bug they describe, and nothing else refers to them.

### TraceSession

`pc[t]` is where thread `t` is. A call (`Start`, `Open`, `Process`, `Stop`, `Destroy`) runs the
method up to its first ETW call. Each further step is one ETW call, or one access of a member that
another thread may change; nothing in `trace<T>` takes a lock, so all of them interleave.

| Steps | Code |
|---|---|
| `Register`, `StopOld`, `OpenTrace` and `CheckClose` … `ClearHandle` from `probeOpen` | `register_trace` (`etw.hpp:317-355`), with the probe for processes that may not stop the session that exists |
| `Enable` | `ut::enable_providers`, `kt::enable_providers` |
| `OpenTrace` | `open_trace` (`etw.hpp:357-366`) |
| `CheckHandle`, `Rundown`, `ProcessTrace` | `process_trace` (`etw.hpp:368-383`) |
| `Deliver`, `CallbackThrows` | `trace_callback_thunk`, `trace::on_event` |
| `StopTrace` | `stop_trace` as called by `stop` (`etw.hpp:214-219, 283-296`) |
| `CheckClose`, `CloseTrace`, `ClearHandle` | `close_trace` (`etw.hpp:385-396`) |

ETW is not in the repository. It is modelled from the results the code tests for: sessions with
unique names, handles with a state (`hstate`), the Context given to `OpenTrace` (`hctx`) and
the session attached (`hsess`). Where the answer depends on the system it is a choice: a missing
session may be reported before or after missing rights, and a kernel trace enabling with
`INVALID_PROCESSTRACE_HANDLE` (`kt.hpp` does not test for it) may succeed or not.

Many of the properties are about *disciplined* traces (`Disciplined`): used as the examples use
them, by one thread that runs them and one that stops them, and opened only while closed. Outside
of that they fail, as one would expect of an object without locks, and the library does not claim
otherwise. A session counts as orphaned (`Orphaned`) once every thread that runs the trace has had its
call end well and is still with this trace: a thread told of an error knows what to stop, and what one
that went on to another trace was told is no longer in `result`.

### ProviderSettings and KernelSettings

A mask of bits is the set of its bits, so that `|=` is `\cup` and a cast to `UCHAR` an intersection
with `0..7`. `prov[p]` has the members of a `provider<T>`; each setter is an action, so is
`operator provider<>` (`Convert`), which leaves filters and rundown behind. `any()` assigns, though an example has it
augment: the history field `asked` keeps every keyword that was given to it, so that `LossesExplained`
starts from all a client ever asked for (`Wished`), and has to name what took a keyword back
(`Replaced`) or which other provider has the union refuse this very event (`Narrows`). `list` is the trace's
`providers_`: references, so that what a provider is set to later still counts. `OpenTrace` makes
one request for each GUID out of the union over its providers (`Request`, `ut.hpp:127-202`);
`OpenFails`, `OpenFallback` and `RundownFails` are the ways in which enabling ends early. `Written` is
what ETW writes for such a request: external, from its documentation and the comments of
`provider.hpp`. The calls of one client follow each other here; `TraceSession` has their interleaving
with other threads, with `Enable` and `Rundown` as steps that succeed or fail.

In `KernelSettings` a ULONG is a set of bits too, and what the kernel logs is a set of pairs of a
mask's index and a bit. `NativeTable` and `ManagedTable` are the two tables of providers, row by row;
`ClassesOf` says which classes of events each flag or mask logs: external, and more than one for the
network flag, of whose classes `udp_ip` is in `kernel_guids.hpp` but in no provider (`Unserved`).
`KernelRundownFails` is the request of `enable_rundown` refused. `KernelOpen` is `StartTrace` with the
united flags, then the group masks (`SetMasks`) which the code reads, unites and sets. Whether the
system is Windows 8 or later is a choice, as it changes the name of the session, its GUID and its mode.
`NtQuerySystemInformation` is taken to succeed.

### SchemaLocator and EventDispatch

An event goes through `Receive`, `Forward`, then `RunCallback` for the callbacks of the provider,
`RunPredicate` and `RunFilterCallback` for each filter, and `RunFilterErrors`, `RunProviderErrors` or
`RunDefault`. A step runs one piece of client code, which may return, throw, or decode the event
and find no schema. Error callbacks get nothing to decode with but may throw `could_not_find_schema`
all the same: from a filter's, the provider catches it; from a provider's, nobody does (`Outermost`).
Between any two steps `Install` may change a manifest.

A schema is looked up in one step, `Lookup`: `cache_` belongs to the thread in `ProcessTrace`, and
the two calls of TDH either agree or fail. A record has a `Key`, which stands for its
`schema_key`. `log` and `verdicts` are history variables: what was called for the current event,
and what lookups for it answered.

Setting up is a phase before the trace starts. To change callbacks or providers while events
arrive is a data race of the client, since the library's deques are not protected.
`Delivered` is what ETW passes on after `enable_providers` asked for the event ids of a GUID.

### Parser

One event, with the offsets its properties really have, against a parser that has to find them out.
`FindProperty` is `find_property` up to its loop and each `Walk` a turn of it. `PropertySizes` is
`get_property_size`: what it gives for a property depends on who tells the size (`told`). The schema
tells the length of one element (`element`), also of an array with a fixed count. A scan for a null ends
with the record, finds the size in the right place and anything in a wrong one. TDH is asked by name, so
it tells the size of the first property of that name (`FirstNamed`), and its errors are ignored, which
leaves 0. `Measured(n)` says that the size of a property, asked for where it begins, comes out right,
and `LookupCorrect` promises the place of a property if it and those before it are measured. Struct
members, to which the loop of `find_property` does not descend, are not part of a layout. Assertions are
not part of the model, as in release builds.

### Values, GuidText, RecordBuilder, Predicates, EventRecord and Records

These are operators over bytes. An event is a record with its schema in order and its `data`; `Places`
is the walk over it that `Parser` takes step by step, and `ParseAs` has a branch for each
specialization of `parse`, with the sizes, the checks and the exceptions of each. With `Debug`
the type assertions are compiled in (`Asserted`). Texts of GUIDs are characters, since where a parser
looks in a text is the point.

`RecordBuilder` is a state machine: properties (`AddProperties`), extended data (`AddContainerId`,
`AddProcessStartKey`) and changes of the header in any order; `built` is what `pack` and
`pack_incomplete` give for it, with the extended data as pointers into one buffer, and of the data as
much as `UserDataLength` tells, a USHORT (`UserData`). `RoundTrip` is about the records it makes that
can be read back at all (`Readable`): below 64 KB, of properties whose size the schema or the bytes
themselves tell (`WellSized`), and by name, of which a parser finds the first. `Records` adds
`ReceiveRecord`, which puts a record from ETW in its place. `Predicates` has the result of each predicate on
a record: true, false or the exception it ends in. `EventRecord` has the three forms of each
getter (`get`, `try` and `or`).

### ManagedTrace

Objects of .NET (`managed`, `held`), the pointer in each `NativePtr` (`ptr`) and the native object behind
it (`native`), one trace with any providers and filters. Native code has references of its own
that the garbage collector does not see: `inList`, the native providers of the trace, and `copies`,
the copies of native filters with functions made for delegates of the .NET filter. `Collect` frees
an object that nobody holds, at any time, as a finalizer may, the trace during `start()`
included; `Dispose`, `DisposeStop`, `SetDisposed`, `Delete` and `Clear` are the steps of
`~UserTrace` and of the lock of `NativePtr`, which several threads may take at once. `fault` says what a call
through a pointer met: nothing wrong, null, dangling, or an exception out of a destructor, which ends
the program; no step follows a fault. A behaviour is that of a `careful` client, or of any.

### CallbackBridge and HandlerList

`target[f]` is a delegate, an object with a list of handlers: `CompareExchange` compares the object
(`SameObject`), the loop around it the list (`SameList`), and the difference is part of the model.
`Ask` reads the delegate, `Swap` is a round of the loop. `note[r]` is where a notification of the thread
`r` is: the delegate it has read, which is immutable, and whether the record object has been updated
(`Wrap`). `HandlerList` has each addition and removal take effect at one moment of the
call; `CallbackBridge` implements it by the mapping of `List`.

With `Exclusive`, the client removes no handler while another thread changes the same event. Without,
an addition can be lost: after a failed exchange the loop compares lists, and if another thread has
removed and added what was there, the lists are equal though the objects are not, and the loop ends.

## 3. Runs

| Run | Expect | Shows |
|---|---|---|
| `session_one` | pass | one privileged trace, a running and a stopping thread, another program that stops sessions: no leak, no stale close, exact counts, `TraceLifecycle` implemented, and `stop` releases the consumer |
| `session_fallback` | pass | two traces of unprivileged processes, one of them a kernel trace that reads a file: the probe leaks nothing, and the fallback consumes the session that runs |
| `session_stop_race` | violation | `stop` during `start` leaves the session running |
| `session_unprivileged_stop` | violation | a session consumed through the fallback cannot be stopped |
| `settings` | pass | events are lost only where a setter took their keyword back or another provider has the union refuse them, rundowns are asked for, the kernel logs what its providers ask and forwards it, but for UDP events |
| `settings_any` | violation | a second `any` takes back the keywords of the first |
| `kernel_system_call` | violation | the handlers of the .NET `SystemCallProvider` are never called |
| `managed_event_ids` | violation | a .NET `EventFilter` made from a list lets event id 0 through |
| `dispatch` | pass | routing, providers, filters and the schema cache |
| `dispatch_same_guid` | violation | the second provider of a GUID gets nothing |
| `client` | pass | four parts, one in each behaviour. Parser: lookups in all orders over small events. Records: what is built is read back, and predicates and getters agree on it. Managed trace: native objects are freed once and not in use. Bridge: handlers are neither lost nor given foreign records |
| `parser_arrays` | violation | behind an array with a fixed count properties are read from within the array |

### Bounds

* `session_one`: three calls per thread, two events per `ProcessTrace`, one session stopped from
  outside. Two calls are enough to open, be interrupted and restart; the third lets a stop race
  with the second opening. Every action fires but those that need the fallback, which
  `session_fallback` fires. `Sessions` and `Handles` are as many as the calls can create.
* `session_fallback`: two calls of each thread, so that one call finds what the other left.
* `settings`: two providers, of one or of two GUIDs; two keywords, so that `any` and `all` can agree
  and differ; levels of none, one bit within `UCHAR` and one beyond. Seven calls construct and enable
  both providers, set two masks and open the trace (`MaxCalls`). For a kernel trace six calls do the
  same, with every row of the table and masks with bits in each place (`MaxKernelCalls`).
  Providers and keywords are symmetric: no definition tells them apart.
* `dispatch`: five calls of setting up (any two filters or callbacks in a provider, or two
  providers with one each and a default), two events, one manifest changed, one failure of TDH. A
  lookup repeated within one event, or from one event to the next, is what the cache can get
  wrong, and both occur.
* `client`, parser: up to three properties of up to two bytes, a record short by a byte, exact or long by
  one. The schema tells all sizes but one, which a scan or TDH tells; the first property may be an
  array of bytes, TDH may fail for it; names in order or the first one twice, hints in range and past the
  end. Three properties are a first, a middle and a last one. `parser_arrays` takes of these the events
  whose sizes the schema tells, in records of the exact length.
* `client`, records: seven schemas of up to three properties: strings in the middle and at the end, fixed
  sizes, a type the builder cannot fill, a name twice. Any two additions of six values or of extended
  data, or one of fourteen records from ETW whose layouts the builder does not make. Texts of up to
  three characters, so that one is longer than any string and one inside.
* `client`, managed: a trace, one provider and one filter, two disposing threads, eight calls (make three
  objects, link them, start, and dispose twice). Or a bridge with two threads that change
  handlers three times, five delegates, two notifications of one trace thread. Threads, handlers and events
  are symmetric; the properties of this run are all of safety.

`CHECK_DEADLOCK FALSE` appears where the bounds stop the clients, and where a client that makes no
further call is a legal end.

### Fairness

`FairSpec` of `TraceSession` has weak fairness on `Advance(t)` of each thread: a thread within a call
keeps running and `ProcessTrace` returns once it has a reason to. That is the scheduler and ETW.
Nothing is assumed about clients making calls, events arriving or other programs. The other
modules promise nothing that must happen, and have no fairness.

## 4. Theorems

Proved for every value of the constants that meets the modules' assumptions.

* `TraceSessionProofs`: `TypeCorrect`; `HandlesAreNotLeaked`, `ClosesAreNotStale` and
  `StopsReturnClosed` from `Invariance`. The properties are not inductive: that an
  `OpenTrace` does not overwrite a handle depends on which threads may be where. `IInv` says
  that a stop runs in a stopper and everything else in a runner (`CallOK`), that nobody uses a trace
  while it is destroyed (`LifeOK`), that `sessionHandle_` is `INVALID` while a trace is being opened
  (`OpeningOK`), holds a handle opened for that trace (`HandleOK`), which is open (`OpenOK`) but for the
  moment between `CloseTrace` and the assignment after it (`ClearOK`).
* `ConsumerProofs`, on top of `IInv`, relates a trace to the sessions of ETW.
  `EventsAreCounted` from `ConsumersInvariant`: a thread in `ProcessTrace` has a handle of its own trace
  to itself (`ProcOK`), so the counter has one writer, and a handle whose close is pending is not
  reused meanwhile (`ClosingOK`). `SessionsAreNotOrphaned` from `OrphansInvariant`: a session without a
  handle has a call in progress that will open or stop it, or a thread that was told of an error
  (`OrphanOK`); this needs what a `stop()` (`StoppedOK`) or the loss of the handle (`LostOK`) say of the
  session. `OwnSessionIsConsumed`: between `StartTrace` and `OpenTrace` the session of the name is the one
  just registered or none (`EnabledOK`), so the handle is attached to it or to none (`OwnHandleOK`).
  `FallbacksConsume`: the fallback leaves no way out but those it names (`FallbackOK`).
  `LifecycleIsImplemented` maps each trace to the phase of its consumer (`PhaseOf`) and shows,
  action by action, that a step of `Next` is a step of `TraceLifecycle` or leaves all phases alone.
* `SettingsProofs`: `SettingsTypeCorrect`, `RundownsReach`, `EventsLostExplained`, for any providers, masks
  and calls. `SettingsInv` says that a provider keeps its GUID and never takes back a rundown (`Kept`),
  that an open session has been asked for the union of what `seen` recorded (`Snap`), and that
  a processing one was asked for the state of who wanted it (`RundownAsked`). That a loss has an
  explanation then follows from how each part of a request grows in a union (`UnionPasses`,
  `LevelGrows`), event by event, and from what `any()` takes back (`WishedPasses`). For kernel traces `MasksAreExact`, `KernelEventsAreHeard` and `OldSystemsAreServed` from
  `KernelInv`: what is logged is what the providers asked for that `open()` found (`LoggedOK`), and a
  provider is still a row of its table but for its rundown (`FromTable`). `TableRows` then goes through
  the table row by row, and all classes of each but `Unserved`. `KernelEventsAreHeard` assumes the native table: for the other one it is
  false, see below.
* `EventDispatchProofs`: `VerdictsAgree`, because what a lookup answers is what the cache then holds
  and no lookup replaces an entry (`VerdictInv`); `MissingSchemasAreContained`, because the dispatch
  halts only after a call that threw something else, or one that nobody calls who would catch it
  (`Contained`, `Outermost`).
  `DispatchTypeCorrect` rests on where `on_event` can be (`Position`). `EventsReachTheirOwner` needs more
  than that routing was right when it happened: an event routed by its schema has a verdict
  (`Judged`), and by `VerdictInv` all callbacks see the same one. `MissingSchemasAreReported`: whoever is
  about to report is in the filter or provider that caught (`ReportInv`). `NothingRunsTwice`: what has
  run comes before what is next (`OnceInv`). `FiltersHaveTheirTurn`: the filters before the current
  one are settled (`FilterInv`).
* `ParserProofs`: `ParserTypes`, `ParserStaysInBounds`, `LookupsAreCorrect` and `PropertiesDoNotMove` from
  `ParserInvariance`: what was walked is cached inside the record (`CacheInBounds`), and in its place if it
  and all before it came out right, where then the walk is, too (`CachePlaced`); a walk that fell off the
  edge left it so. No size is assumed right but by `Measured`, which the model can refute. `OffsetsGrow` has the
  geometry of a layout, from its sizes alone.
* `RecordsProofs`, for any schemas, values and bytes. `ListsFold`: a loop over a list of predicates is the
  chain of `||` or `&&` it stands for, for lists of any length, of which `ListsHold` is the property of the
  run. `FormsOfGettersAgree`: by the outcomes a parse can have, and what each form makes of them.
  `PredicatesSeeWhatIsRead`: the comparers are equality, prefix, suffix and occurrence of sequences
  (`EqualsIs`, `StartsIs`, `EndsIs`, `ContainsIs`); the walk over a record finds places inside of it
  (`PlacesWalk`), where predicate and getter read the same string (`TextAgrees`, `CountedAgrees`);
  and what a builder packs is a record with bytes (`BuilderInv`, `TurnsPack`).
  `EventsCarryTheirData`: by `ItemsOK`, each item has the bytes of a GUID's text or of a start key; the pointers
  are the lengths of what was copied before (`PointersPoint`, `PartsOfJoined`), and a size fits its
  USHORT. `ContainerIdsParseBack`: `GuidsParseBack`, for every GUID, digit by digit of its text.
  `SuppliedValuesAreRead` takes `pack_impl` and the walk of the parser along a schema of any length. What is
  packed for a property is one of four kinds (`IsPart`): a string, a SID, a BOOLEAN, or bytes whose
  number the schema tells (`SuppliedPart`, `FilledPart`), and each reads back from where it begins
  (`TextReads`, `SidReads`, `BoolReads`, `PlainReads`). The record is its parts joined (`TurnPacks`,
  `PartsAre`); only the last can lack bytes, the terminator of a string (`Trimmed`), and then the end of the
  record ends it. Hence the walk measures each part as it was packed and finds the next (`WalkFinds`).
* `ManagedProofs`: `ManagedTypeCorrect`, `NativeFreedOnce`, `DisposedIsFreed` and `CarefulClientIsSafe`.
  `OwnInv` says that a native object is alive exactly while a pointer owns it, but for the moment between
  `delete` and `ptr = nullptr` (`Owned`), in which one thread only can be (`OneClears`).
  `CarefulInv` adds what a careful client keeps: while a trace can run, all it is linked to is held.
* `BridgeProofs`: `HandlersAreHeard`, because a handler that stayed was in the delegate when it was read,
  and what was read is called in order (`StayedThere`, `HeardSoFar`). `RecordsAreOwn` assumes one trace
  thread: with two it fails, see below. `HandlerListIsImplemented` assumes `Exclusive`: the loop compares
  objects to exchange and lists to end, and `SwapInv` says that both tell the same. The delegate a
  thread has read is the one that is there, or handlers were added since and the list is longer
  (`ReadOK`); who removes is alone (`AloneNow`).

Values and records are computed by recursive functions (`Places`, `PackImpl`, `ExtendedBuffer`). The proofs
do not use induction as a rule: `RecursionExists` and `RecursionUnique` say that such a function exists
and is the only one, from `UpFrom`, which is by the least counterexample. What they need of the values
a client gives is assumed where these are declared: GUIDs and start keys have their bytes, values
are bytes, texts are characters, and schemas are sequences of properties with a length
(`BuilderAssumption`, `RecordsAssumption`). A value has the bytes that its C++ type has (`IsValue`), the
`sizeof(T)` that `record_property_thunk` copies, and a client adds fewer than 65536 items of extended data,
which is what `ExtendedDataCount` can count.

Only model-checked:

* `StopClosesHandle`: liveness is out of the prover's reach.
* The seven runs that expect a violation.

## 5. What the checks found

Each of these is a run that TLC finds violated.

* `stop()` cannot undo a `start()` that has not reached `StartTrace`, and does not say so: it ends
  the session of that name and closes the handle that exist at that moment (`etw.hpp:217-218`).
* `stop()` of a trace that consumes a session it may not control throws before `close_trace()`
  (`etw.hpp:217`), so the handle stays open, and the thread in `process()` is never released.
* Providers of one GUID: only the first enabled gets events (`ut.hpp:234-239`), though the flags of
  all are united.
* The .NET `SystemCallProvider` has the GUID `system_trace` (`.NET/Kernel/KernelProviders.hpp:166`), the
  events it turns on are of `perf_info`: its handlers are never called.
* The .NET `EventFilter` made from a list of ids has as many zeros in front of them
  (`.NET/Conversions.hpp:17`).

* `any()` assigns (`provider.hpp:528`), though `docs/KrabsExample.md:22` has it augment: the keywords of
  earlier calls are not asked for.
* An array with a fixed count is taken for one of its elements (`size_provider.hpp:67-83`): the properties
  behind it are read from within the array.

What the models say of the code without a run of its own:

* A size that only TDH can tell is asked for by name (`size_provider.hpp:155-168`): of two properties of one
  name the second gets the size of the first, and `LookupCorrect` says nothing of it and those behind.
* The network flag has the kernel log UDP events, too, whose class GUID `udp_ip` (`kernel_guids.hpp:115-120`)
  no provider has: they go to the default callback only (`kt.hpp:173-186`), so `KernelEventsHeard` is about
  all classes but this one (`Unserved`).
* The `all` masks of the providers of a GUID are united as the `any` masks are (`ut.hpp:140`): an event that
  each of two providers would get alone can be lost to both. If one gives a keyword to `all` only, which
  alone refuses nothing, and the other gives one to `any` only, the union refuses what has only the second.
* An error callback of a filter that throws `could_not_find_schema` keeps the event from the filters behind it
  (`provider.hpp:497`).

* The example of `set_trace_filename()` (`trace.hpp:170-174`) omits `open()`, without which `process()`
  throws (`etw.hpp:371`).
* Event ids of filters are united by GUID (`ut.hpp:144-148`) and not applied again by the filter.
* Errors of TDH stay in the schema cache (`schema_locator.hpp:298-304`), transient ones too.
* The assertion at `parser.hpp:201` does not allow for two empty properties at the end of a record.
* A .NET trace disposed by one thread while another uses it, or dropped during `start()`, leaves calls
  through a null or dangling pointer: `CarefulIsSafe` is about clients that do neither. The copy of a
  filter in a native provider refers to a delegate of the .NET `EventFilter`, which the provider
  does not keep: a careful client does.
* A bridge used by two trace threads at once shows one thread the other's event (`.NET/Callbacks.hpp:81`):
  `RecordIsOwn` holds for one trace thread.
* The loop of `CombineOrRemoveDelegate` ends when the lists are equal (`.NET/Callbacks.hpp:150`), though
  `CompareExchange` compared objects: an addition can be lost (`Exclusive`, section 2).
* The level is kept as a `UCHAR` (`ut.hpp:28`): a level of 256 asks for everything.
* A record of a single empty string, trimmed, has no data, and then its property is not found
  (`testing/synth_record.hpp:140-146`). BINARY is filled with one byte (`testing/filler.hpp:38`).
* `UserDataLength` is a USHORT (`testing/synth_record.hpp:146`): of a built record of 64 KB or more, a parser
  sees its length modulo 64 KB.
* `version_is` and `opcode_is` take 16 bits and compare with 8 (`filtering/predicates.hpp:238, 329`);
  `all_of` of an empty list is false (`:280`); predicates over properties have no type assertions.
* `TryGetDateTime` throws for a time beyond the year 9999 instead of giving false.
* The size in front of a counted string is trusted over the size of the property
  (`parse_types.hpp:300-326`).

## 6. Not modelled

* `query_stats`, `buffers_processed`, `set_trace_properties`, `set_trace_information` and their .NET
  forms: they report or configure buffers, and no decision of the library depends on what they read.
* Equality and hash of `schema_key`, the names in TraceLogging metadata: a comparison of fields without
  state; a key is a model value. The accessors of `schema` that copy a field or a name of TDH's
  structures. Property enumeration (`property.hpp`), which copies names and types.
* The forwarders of .NET (`Fluent.hpp`, `Predicate.hpp`, `SynthRecord`, `Proxy`, `EventRecordMetadata`'s
  header fields), and the copy and swap of `synth_record`.
* Disposing a .NET provider or filter by hand: `Collect` frees them at any time nobody holds them, and the
  client's own order of `Dispose` calls adds a client that frees what it still uses.
* `version_helpers.hpp`, `wstring_convert.hpp` and other calls of the system without state: the version is
  the variable `os`.
* Changing callbacks, filters or providers of a native trace while events arrive: a data race of
  the client, on deques that promise nothing then.
