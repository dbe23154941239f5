---------------------------- MODULE ManagedTrace ----------------------------
(***************************************************************************)
(* A UserTrace or KernelTrace of the .NET library, the providers enabled   *)
(* in it, their filters, and the native objects they own through           *)
(* NativePtr: who frees them, when the client disposes the trace, drops    *)
(* its references, or collects garbage while a thread is in the native     *)
(* start().  What the native trace does then is in TraceSession.           *)
(***************************************************************************)
EXTENDS Integers, FiniteSets

CONSTANTS
  MProviders,    \* Provider, RawProvider and KernelProvider objects
  Filters,       \* EventFilter objects
  Disposers,     \* threads of the client that dispose the trace or stop it
  MaxManaged     \* bound: calls of the client

ASSUME ManagedAssumption ==
  "trace" \notin MProviders \cup Filters /\ MProviders \cap Filters = {} /\ MaxManaged \in Nat

VARIABLES
  careful,    \* the client keeps what a running trace uses, and disposes once it returned
  managed,    \* managed[o]: the .NET object is "unborn", "live" or "collected"
  held,       \* objects the client refers to
  ptr,        \* ptr[o]: NativePtr::ptr is not null
  native,     \* native[o]: the native object is "unborn", "alive" or "freed"
  freed,      \* history: how often each native object was deleted
  disposed,   \* disposed_
  inList,     \* native trace::providers_, which refers to native providers only
  copies,     \* <<p, f>>: native filters_ of p has a copy of the filter of f, with the
              \* address of a function made for a delegate of f
  start,      \* the thread in native start(): "idle", "running", or "draining" events
  disposing,  \* disposing[t]: where t is in Dispose()
  threw,      \* a Dispose() has ended in an exception
  fault,      \* what has gone wrong: the program may do anything from then on
  mcalls

mvars == <<careful, managed, held, ptr, native, freed, disposed, inList, copies, start,
           disposing, threw, fault, mcalls>>

Objects == {"trace"} \cup MProviders \cup Filters
MCall == fault = "none" /\ mcalls < MaxManaged /\ mcalls' = mcalls + 1

\* Native code is called through ptr, or through a reference the native trace holds
Through(o) == IF ~ptr[o] THEN "null" ELSE IF native[o] = "alive" THEN "none" ELSE "dangling"
Natively(o) == IF native[o] = "alive" /\ managed[o] = "live" THEN "none" ELSE "dangling"
Worst(S) == IF S \subseteq {"none"} THEN "none" ELSE CHOOSE f \in S : f # "none"

\* A thread of the client that is not in Dispose()
Free(t) == disposing[t] = "idle"
Disposing == {t \in Disposers : ~Free(t)}

ManagedInit ==
  /\ careful \in BOOLEAN
  /\ managed = [o \in Objects |-> "unborn"] /\ held = {}
  /\ ptr = [o \in Objects |-> FALSE]
  /\ native = [o \in Objects |-> "unborn"] /\ freed = [o \in Objects |-> 0]
  /\ disposed = FALSE /\ inList = {} /\ copies = {} /\ start = "idle"
  /\ disposing = [t \in Disposers |-> "idle"] /\ threw = FALSE
  /\ fault = "none" /\ mcalls = 0
-----------------------------------------------------------------------------
(* The client *)

\* Mutant of Constructed: Swap would leave the pointer in the temporary, whose destructor
\* deletes the native object.
ConstructedByCopy(o) ==
  /\ native' = [native EXCEPT ![o] = "freed"]
  /\ freed' = [freed EXCEPT ![o] = 1]

\* NativePtr(new T) or NativePtr(args), or a swap with such a temporary, which then holds
\* null when it is destroyed
Constructed(o) == native' = [native EXCEPT ![o] = "alive"] /\ UNCHANGED freed

New(o) ==
  /\ MCall /\ managed[o] = "unborn"
  /\ managed' = [managed EXCEPT ![o] = "live"]
  /\ held' = held \cup {o}
  /\ ptr' = [ptr EXCEPT ![o] = TRUE]
  /\ Constructed(o)
  /\ UNCHANGED <<careful, disposed, inList, copies, start, disposing, threw, fault>>

\* What the client does with a trace that no thread disposes or has disposed
Using == "trace" \in held /\ Disposing = {} /\ ~disposed /\ ~threw

\* AddFilter(): the native filter is copied
AddFilter(p, f) ==
  /\ MCall /\ p \in held /\ f \in held
  /\ fault' = Worst({Through(p), Through(f)})
  /\ copies' = copies \cup {<<p, f>>}
  /\ UNCHANGED <<careful, managed, held, ptr, native, freed, disposed, inList, start,
                 disposing, threw>>

\* Enable(): the native trace gets a reference to the native provider, nothing else
Enable(p) ==
  /\ MCall /\ Using /\ p \in held
  /\ fault' = Worst({Through("trace"), Through(p)})
  /\ inList' = inList \cup {p}
  /\ UNCHANGED <<careful, managed, held, ptr, native, freed, disposed, copies, start,
                 disposing, threw>>

Start ==
  /\ MCall /\ Using /\ start = "idle"
  /\ fault' = Worst({Through("trace")} \cup {Natively(p) : p \in inList})
  /\ start' = "running"
  /\ UNCHANGED <<careful, managed, held, ptr, native, freed, disposed, inList, copies,
                 disposing, threw>>

\* Stop(): ControlTrace can be refused, which throws; else start() will come back
Stop(t, refused) ==
  /\ MCall /\ Using /\ Free(t)
  /\ fault' = Through("trace")
  /\ start' = IF start = "running" /\ ~refused THEN "draining" ELSE start
  /\ UNCHANGED <<careful, managed, held, ptr, native, freed, disposed, inList, copies,
                 disposing, threw>>

\* What a trace may call when it starts, and that no thread can start it any more
Linked == inList \cup {f \in Filters : \E p \in MProviders : <<p, f>> \in copies}
Over == managed["trace"] # "unborn" /\ ~Using

\* A careful client keeps the trace until start() is back, and the providers that are
\* enabled and their filters as long as it could be started
Drop(o) ==
  /\ fault = "none" /\ o \in held
  /\ careful => /\ start = "idle" /\ Disposing = {}
                /\ o \in Linked => Over
  /\ held' = held \ {o}
  /\ UNCHANGED <<careful, managed, ptr, native, freed, disposed, inList, copies, start, disposing,
                 threw, fault, mcalls>>
-----------------------------------------------------------------------------
(* The thread in start(), and the garbage collector *)

\* trace_callback_thunk, forward_events and the delegate of the provider, or of the trace
Event(o) ==
  /\ fault = "none" /\ start # "idle" /\ o \in inList \cup {"trace"}
  /\ fault' = Worst({Natively("trace"), Natively(o)})
  /\ UNCHANGED <<careful, managed, held, ptr, native, freed, disposed, inList, copies, start,
                 disposing, threw, mcalls>>

\* ... and on to the delegate of a filter
FilterEvent(p, f) ==
  /\ fault = "none" /\ start # "idle" /\ p \in inList /\ <<p, f>> \in copies
  /\ fault' = Worst({Natively("trace"), Natively(p)}
                      \cup IF managed[f] = "live" THEN {} ELSE {"dangling"})
  /\ UNCHANGED <<careful, managed, held, ptr, native, freed, disposed, inList, copies, start,
                 disposing, threw, mcalls>>

\* The session ends, by this program or another
SessionEnds ==
  /\ fault = "none" /\ start = "running"
  /\ start' = "draining"
  /\ UNCHANGED <<careful, managed, held, ptr, native, freed, disposed, inList, copies, disposing,
                 threw, fault, mcalls>>

StartReturns ==
  /\ fault = "none" /\ start = "draining"
  /\ start' = "idle"
  /\ UNCHANGED <<careful, managed, held, ptr, native, freed, disposed, inList, copies, disposing,
                 threw, fault, mcalls>>

\* Mutant of FreeMemory: nothing is deleted.
FreeMemoryNever(o) == UNCHANGED <<native, freed>>

\* delete ptr, unless it is null
FreeMemory(o) ==
  /\ native' = IF ptr[o] THEN [native EXCEPT ![o] = "freed"] ELSE native
  /\ freed' = IF ptr[o] THEN [freed EXCEPT ![o] = @ + 1] ELSE freed

\* ~trace() calls stop(): what it throws ends the program
AfterDelete(deleted, refused) ==
  /\ fault' = IF deleted /\ refused THEN "terminated" ELSE fault
  /\ start' = IF deleted /\ ~refused /\ start = "running" THEN "draining" ELSE start

\* Nobody refers to the object: !NativePtr() runs, and the delegates are gone with it.
\* A thread in the native start() does not refer to it.
Collect(o, refused) ==
  /\ fault = "none" /\ managed[o] = "live" /\ o \notin held
  /\ o = "trace" => Disposing = {}
  /\ managed' = [managed EXCEPT ![o] = "collected"]
  /\ FreeMemory(o)
  /\ ptr' = [ptr EXCEPT ![o] = FALSE]
  /\ AfterDelete(ptr[o] /\ o = "trace", refused)
  /\ UNCHANGED <<careful, held, disposed, inList, copies, disposing, threw, mcalls>>
-----------------------------------------------------------------------------
(* Dispose(): ~UserTrace(), and finally that of trace_ *)

At(t, at) == fault = "none" /\ disposing[t] = at
Goto(t, at) == disposing' = [disposing EXCEPT ![t] = at]

Dispose(t) ==
  /\ MCall /\ Free(t) /\ "trace" \in held
  /\ careful => start = "idle" /\ Disposing = {} /\ ~threw
  /\ Goto(t, IF disposed THEN "lock" ELSE "stop")
  /\ UNCHANGED <<careful, managed, held, ptr, native, freed, disposed, inList, copies, start,
                 threw, fault>>

DisposeStop(t, refused) ==
  /\ At(t, "stop")
  /\ fault' = Through("trace")
  /\ start' = IF start = "running" /\ ~refused THEN "draining" ELSE start
  /\ threw' = (threw \/ refused)
  /\ Goto(t, IF refused THEN "lock" ELSE "set")
  /\ UNCHANGED <<careful, managed, held, ptr, native, freed, disposed, inList, copies, mcalls>>

SetDisposed(t) ==
  /\ At(t, "set")
  /\ disposed' = TRUE
  /\ Goto(t, "lock")
  /\ UNCHANGED <<careful, managed, held, ptr, native, freed, inList, copies, start, threw, fault,
                 mcalls>>

\* Mutant of Locked: there is no lock.
LockedNever == TRUE

\* msclr::lock of the NativePtr: no other thread is between delete and ptr = nullptr
Locked == \A t \in Disposers : disposing[t] # "clear"

Delete(t, refused) ==
  /\ At(t, "lock") /\ Locked
  /\ FreeMemory("trace")
  /\ AfterDelete(ptr["trace"], refused)
  /\ Goto(t, "clear")
  /\ UNCHANGED <<careful, managed, held, ptr, disposed, inList, copies, threw, mcalls>>

Clear(t) ==
  /\ At(t, "clear")
  /\ ptr' = [ptr EXCEPT !["trace"] = FALSE]
  /\ Goto(t, "idle")
  /\ UNCHANGED <<careful, managed, held, native, freed, disposed, inList, copies, start, threw,
                 fault, mcalls>>

ManagedNext ==
  \/ \E o \in Objects : New(o) \/ Drop(o) \/ Event(o)
  \/ \E o \in Objects, refused \in BOOLEAN : Collect(o, refused)
  \/ \E p \in MProviders : Enable(p) \/ \E f \in Filters : AddFilter(p, f) \/ FilterEvent(p, f)
  \/ Start \/ SessionEnds \/ StartReturns
  \/ \E t \in Disposers :
       \/ Dispose(t) \/ SetDisposed(t) \/ Clear(t)
       \/ \E refused \in BOOLEAN : Stop(t, refused) \/ DisposeStop(t, refused) \/ Delete(t, refused)

ManagedSpec == ManagedInit /\ [][ManagedNext]_mvars
-----------------------------------------------------------------------------
(* Properties *)

\* Types, and that a native object is freed only by the NativePtr that owns it.
ManagedTypeOK ==
  /\ managed \in [Objects -> {"unborn", "live", "collected"}]
  /\ held \subseteq {o \in Objects : managed[o] = "live"}
  /\ ptr \in [Objects -> BOOLEAN] /\ native \in [Objects -> {"unborn", "alive", "freed"}]
  /\ freed \in [Objects -> Nat]
  /\ inList \subseteq MProviders /\ copies \subseteq MProviders \X Filters
  /\ careful \in BOOLEAN /\ disposed \in BOOLEAN /\ threw \in BOOLEAN
  /\ start \in {"idle", "running", "draining"}
  /\ disposing \in [Disposers -> {"idle", "stop", "set", "lock", "clear"}]
  /\ fault \in {"none", "null", "dangling", "terminated"} /\ mcalls \in Nat

\* No native object is deleted twice, though several threads dispose the trace at once and
\* the garbage collector runs (NativePtr.hpp:148-159).
FreedOnce == \A o \in Objects : freed[o] <= 1

\* If a thread has disposed the trace and none is in Dispose(), the native trace is gone.
DisposeFrees ==
  disposed /\ Disposing = {} /\ fault = "none" => native["trace"] = "freed" /\ ~ptr["trace"]

\* A client that keeps the trace, its providers and their filters while the trace uses
\* them, and disposes the trace after start() has returned, from one thread at a time and
\* not after an exception, never has a call go through a null or a dangling pointer
\* (UserTrace.hpp:239-247, Provider.hpp:197-202, EventFilter.hpp:86-91).
CarefulIsSafe == careful => fault \in {"none", "terminated"}
=============================================================================
