---------------------------- MODULE ManagedProofs ----------------------------
(***************************************************************************)
(* Theorems about ManagedTrace, for any objects and threads of the client. *)
(***************************************************************************)
EXTENDS ManagedTrace, TLAPS

USE ManagedAssumption

-----------------------------------------------------------------------------
(* Who owns the native objects, whatever the client does.                  *)

\* Only a live object has a pointer; only the trace loses its native object before that.
Owned ==
  \A o \in Objects :
    /\ managed[o] = "unborn" => native[o] = "unborn" /\ freed[o] = 0 /\ ~ptr[o]
    /\ managed[o] = "collected" => ~ptr[o]
    /\ managed[o] = "live" /\ o # "trace" => ptr[o] /\ native[o] = "alive"
    /\ native[o] = "alive" => freed[o] = 0
    /\ freed[o] <= 1

\* Between delete and ptr = nullptr is one thread, which holds the lock; a trace without a
\* pointer has been freed.
OneClears ==
  /\ \A t, u \in Disposers : disposing[t] = "clear" /\ disposing[u] = "clear" => t = u
  /\ \A t \in Disposers : disposing[t] = "clear" => native["trace"] = "freed"
  /\ ptr["trace"] /\ native["trace"] # "alive" => \E t \in Disposers : disposing[t] = "clear"
  /\ ~ptr["trace"] /\ managed["trace"] # "unborn" => native["trace"] = "freed"

\* A live trace is freed only after the stop of a Dispose(), by a thread on its way from
\* there to the end.
Disposed ==
  /\ \A t \in Disposers : disposing[t] # "idle" => managed["trace"] = "live"
  /\ \A t \in Disposers : disposing[t] \in {"lock", "clear"} => disposed \/ threw
  /\ disposed \/ threw => managed["trace"] # "unborn"
  /\ managed["trace"] = "live" /\ native["trace"] # "alive" => disposed \/ threw
  /\ disposed /\ ptr["trace"] => \E t \in Disposers : disposing[t] \in {"lock", "clear"}

OwnInv == ManagedTypeOK /\ Owned /\ OneClears /\ Disposed
-----------------------------------------------------------------------------
LEMMA OwnInvStart == ManagedInit => OwnInv
<1> SUFFICES ASSUME ManagedInit PROVE OwnInv
  OBVIOUS
<1> USE DEF ManagedInit
<1>1. ManagedTypeOK
  BY DEF ManagedTypeOK
<1>2. Owned
  BY DEF Owned
<1>3. OneClears /\ Disposed
  BY DEF OneClears, Disposed, Objects
<1> QED BY <1>1, <1>2, <1>3 DEF OwnInv

\* Worst is one of the faults it is given.
LEMMA WorstIn ==
  ASSUME NEW S \in SUBSET {"none", "null", "dangling"}
  PROVE  /\ Worst(S) \in {"none", "null", "dangling"}
         /\ S \subseteq {"none"} => Worst(S) = "none"
BY DEF Worst

\* A call that only looks at objects, or changes the list, the filters or start().
Quiet ==
  /\ UNCHANGED <<careful, managed, ptr, native, freed, disposed, disposing, threw>>
  /\ held' \subseteq held /\ inList' \subseteq MProviders
  /\ copies' \subseteq MProviders \X Filters /\ start' \in {"idle", "running", "draining"}
  /\ fault' \in {"none", "null", "dangling", "terminated"} /\ mcalls' \in Nat

LEMMA QuietKeepsOwn ==
  ASSUME OwnInv, Quiet
  PROVE  OwnInv'
BY DEF OwnInv, Quiet, ManagedTypeOK, Owned, OneClears, Disposed

LEMMA NewKeepsOwn ==
  ASSUME OwnInv, NEW o \in Objects, New(o)
  PROVE  OwnInv'
<1> USE DEF New, Constructed, MCall, OwnInv
<1>1. ManagedTypeOK'
  BY DEF ManagedTypeOK
<1>2. Owned'
  BY DEF ManagedTypeOK, Owned
<1>3. OneClears'
  BY DEF ManagedTypeOK, Owned, OneClears, Disposed, Objects
<1>4. Disposed'
  BY DEF ManagedTypeOK, Owned, Disposed, Objects
<1> QED BY <1>1, <1>2, <1>3, <1>4

LEMMA CollectKeepsOwn ==
  ASSUME OwnInv, NEW o \in Objects, NEW refused \in BOOLEAN, Collect(o, refused)
  PROVE  OwnInv'
<1> USE DEF Collect, FreeMemory, AfterDelete, OwnInv
<1>1. ManagedTypeOK'
  BY DEF ManagedTypeOK
<1>2. Owned'
  BY DEF ManagedTypeOK, Owned, OneClears, Disposing, Free
<1>3. OneClears'
  BY DEF ManagedTypeOK, OneClears, Disposing, Free, Objects
<1>4. Disposed'
  BY DEF ManagedTypeOK, Disposed, Disposing, Free, Objects
<1> QED BY <1>1, <1>2, <1>3, <1>4

LEMMA DisposeKeepsOwn ==
  ASSUME OwnInv, NEW t \in Disposers, Dispose(t)
  PROVE  OwnInv'
<1> USE DEF Dispose, MCall, Free, Goto, OwnInv
<1>1. ManagedTypeOK'
  BY DEF ManagedTypeOK
<1>2. Owned'
  BY DEF Owned
<1>3. OneClears'
  BY DEF ManagedTypeOK, OneClears
<1>4. Disposed'
  BY DEF ManagedTypeOK, Disposed
<1> QED BY <1>1, <1>2, <1>3, <1>4

LEMMA DisposeStopKeepsOwn ==
  ASSUME OwnInv, NEW t \in Disposers, NEW refused \in BOOLEAN, DisposeStop(t, refused)
  PROVE  OwnInv'
<1> USE DEF DisposeStop, At, Goto, Through, OwnInv
<1>1. ManagedTypeOK'
  BY DEF ManagedTypeOK
<1>2. Owned'
  BY DEF Owned
<1>3. OneClears'
  BY DEF ManagedTypeOK, OneClears
<1>4. Disposed'
  BY DEF ManagedTypeOK, Disposed
<1> QED BY <1>1, <1>2, <1>3, <1>4

LEMMA SetDisposedKeepsOwn ==
  ASSUME OwnInv, NEW t \in Disposers, SetDisposed(t)
  PROVE  OwnInv'
<1> USE DEF SetDisposed, At, Goto, OwnInv
<1>1. ManagedTypeOK'
  BY DEF ManagedTypeOK
<1>2. Owned'
  BY DEF Owned
<1>3. OneClears'
  BY DEF ManagedTypeOK, OneClears
<1>4. Disposed'
  BY DEF ManagedTypeOK, Disposed
<1> QED BY <1>1, <1>2, <1>3, <1>4

LEMMA DeleteKeepsOwn ==
  ASSUME OwnInv, NEW t \in Disposers, NEW refused \in BOOLEAN, Delete(t, refused)
  PROVE  OwnInv'
<1> USE DEF Delete, At, Goto, Locked, FreeMemory, AfterDelete, OwnInv
<1>1. ManagedTypeOK'
  BY DEF ManagedTypeOK, Objects
<1>2. Owned'
  BY DEF ManagedTypeOK, Owned, OneClears, Disposed, Objects
<1>3. OneClears'
  BY DEF ManagedTypeOK, OneClears, Disposed, Objects
<1>4. Disposed'
  BY DEF ManagedTypeOK, Disposed, Objects
<1> QED BY <1>1, <1>2, <1>3, <1>4

LEMMA ClearKeepsOwn ==
  ASSUME OwnInv, NEW t \in Disposers, Clear(t)
  PROVE  OwnInv'
<1> USE DEF Clear, At, Goto, OwnInv
<1>1. ManagedTypeOK'
  BY DEF ManagedTypeOK, Objects
<1>2. Owned'
  BY DEF ManagedTypeOK, Owned, Objects
<1>3. OneClears'
  BY DEF ManagedTypeOK, OneClears, Objects
<1>4. Disposed'
  BY DEF ManagedTypeOK, Disposed, Objects
<1> QED BY <1>1, <1>2, <1>3, <1>4

LEMMA QuietSteps ==
  ASSUME OwnInv,
         \/ \E o \in Objects : Drop(o) \/ Event(o)
         \/ \E p \in MProviders :
              Enable(p) \/ \E f \in Filters : AddFilter(p, f) \/ FilterEvent(p, f)
         \/ Start \/ SessionEnds \/ StartReturns
         \/ \E t \in Disposers, refused \in BOOLEAN : Stop(t, refused)
  PROVE  Quiet
<1> USE DEF MCall, OwnInv, Quiet
<1>0. /\ \A o : Through(o) \in {"none", "null", "dangling"}
      /\ \A o : Natively(o) \in {"none", "null", "dangling"}
  BY DEF Through, Natively
<1>1. ASSUME NEW o \in Objects, Drop(o)
      PROVE  Quiet
  BY <1>1 DEF Drop, ManagedTypeOK
<1>2. ASSUME NEW o \in Objects, Event(o)
      PROVE  Quiet
  BY <1>0, <1>2, WorstIn DEF Event, ManagedTypeOK
<1>3. ASSUME NEW p \in MProviders, Enable(p)
      PROVE  Quiet
  BY <1>0, <1>3, WorstIn DEF Enable, ManagedTypeOK
<1>4. ASSUME NEW p \in MProviders, NEW f \in Filters, AddFilter(p, f)
      PROVE  Quiet
  BY <1>0, <1>4, WorstIn DEF AddFilter, ManagedTypeOK
<1>5. ASSUME NEW p \in MProviders, NEW f \in Filters, FilterEvent(p, f)
      PROVE  Quiet
  <2> DEFINE S == {Natively("trace"), Natively(p)}
                    \cup IF managed[f] = "live" THEN {} ELSE {"dangling"}
  <2>1. S \in SUBSET {"none", "null", "dangling"}
    BY <1>0
  <2>2. Worst(S) \in {"none", "null", "dangling"}
    BY <2>1, WorstIn
  <2>3. fault' = Worst(S)
    BY <1>5 DEF FilterEvent
  <2> HIDE DEF S
  <2> QED BY <1>5, <2>2, <2>3 DEF FilterEvent, ManagedTypeOK
<1>6. ASSUME Start
      PROVE  Quiet
  <2> DEFINE S == {Through("trace")} \cup {Natively(p) : p \in inList}
  <2>1. S \in SUBSET {"none", "null", "dangling"}
    BY <1>0
  <2>2. Worst(S) \in {"none", "null", "dangling"}
    BY <2>1, WorstIn
  <2>3. fault' = Worst(S)
    BY <1>6 DEF Start
  <2> HIDE DEF S
  <2> QED BY <1>6, <2>2, <2>3 DEF Start, ManagedTypeOK
<1>7. CASE SessionEnds \/ StartReturns
  BY <1>7 DEF SessionEnds, StartReturns, ManagedTypeOK
<1>8. ASSUME NEW t \in Disposers, NEW refused \in BOOLEAN, Stop(t, refused)
      PROVE  Quiet
  BY <1>0, <1>8 DEF Stop, ManagedTypeOK
<1> QED BY <1>1, <1>2, <1>3, <1>4, <1>5, <1>6, <1>7, <1>8

LEMMA OwnInvHolds == ManagedSpec => []OwnInv
<1>1. OwnInv /\ [ManagedNext]_mvars => OwnInv'
  <2> SUFFICES ASSUME OwnInv, [ManagedNext]_mvars PROVE OwnInv'
    OBVIOUS
  <2>1. CASE UNCHANGED mvars
    BY <2>1 DEF mvars, OwnInv, ManagedTypeOK, Owned, OneClears, Disposed
  <2>2. CASE ManagedNext
    BY <2>2, QuietSteps, QuietKeepsOwn, NewKeepsOwn, CollectKeepsOwn, DisposeKeepsOwn,
       DisposeStopKeepsOwn, SetDisposedKeepsOwn, DeleteKeepsOwn, ClearKeepsOwn
    DEF ManagedNext
  <2> QED BY <2>1, <2>2
<1> QED BY <1>1, OwnInvStart, PTL DEF ManagedSpec

\* The state of the objects, the threads and the calls always has its types.
THEOREM ManagedTypeCorrect == ManagedSpec => []ManagedTypeOK
BY OwnInvHolds, PTL DEF OwnInv

\* No native object is deleted twice, however many threads dispose the trace and whenever
\* the garbage collector runs (NativePtr.hpp:148-159).
THEOREM NativeFreedOnce == ManagedSpec => []FreedOnce
<1>1. OwnInv => FreedOnce
  BY DEF OwnInv, Owned, FreedOnce
<1> QED BY <1>1, OwnInvHolds, PTL

\* When the threads that dispose a trace are out of Dispose(), the native trace is freed and
\* its pointer is null (UserTrace.hpp:239-247).
THEOREM DisposedIsFreed == ManagedSpec => []DisposeFrees
<1>1. OwnInv => DisposeFrees
  <2> SUFFICES ASSUME OwnInv, disposed, Disposing = {}
               PROVE  native["trace"] = "freed" /\ ~ptr["trace"]
    BY DEF DisposeFrees
  <2>1. ~ptr["trace"]
    BY DEF OwnInv, Disposed, Disposing, Free
  <2> QED BY <2>1 DEF OwnInv, OneClears, Disposed
<1> QED BY <1>1, OwnInvHolds, PTL
-----------------------------------------------------------------------------
(* What a careful client has.                                              *)

\* What a trace may use is referred to as long as it can be started; a thread is in start()
\* only while the trace is used; one thread disposes, and it stops what is not yet disposed.
Careful ==
  careful =>
    /\ fault \in {"none", "terminated"}
    /\ Over \/ Linked \subseteq held
    /\ start # "idle" => Using
    /\ \A t, u \in Disposers : disposing[t] # "idle" /\ disposing[u] # "idle" => t = u
    /\ \A t \in Disposers : disposing[t] \in {"stop", "set"} => ~disposed /\ ~threw

CarefulInv == OwnInv /\ Careful

\* What is referred to can be called, the trace as long as it is not disposed.
LEMMA HeldIsSafe ==
  ASSUME OwnInv
  PROVE  /\ \A o \in held : o # "trace" =>
              managed[o] = "live" /\ Through(o) = "none" /\ Natively(o) = "none"
         /\ managed["trace"] = "live" /\ ~disposed /\ ~threw =>
              Through("trace") = "none" /\ Natively("trace") = "none"
BY DEF OwnInv, ManagedTypeOK, Owned, OneClears, Disposed, Through, Natively, Objects

LEMMA WorstOfNone ==
  ASSUME NEW S, S \subseteq {"none"}
  PROVE  Worst(S) = "none"
BY DEF Worst

\* Steps that do not touch what Using and Linked depend on, and end without a fault.
Harmless ==
  /\ UNCHANGED <<careful, held, disposed, disposing, threw, inList, copies>>
  /\ managed' = managed /\ fault' \in {"none", "terminated"}
  /\ start' # "idle" => start # "idle" \/ Using

LEMMA HarmlessKeepsCareful ==
  ASSUME CarefulInv, Harmless
  PROVE  Careful'
BY DEF CarefulInv, Careful, Harmless, Over, Linked, Using, Disposing, Free

LEMMA EventIsHarmless ==
  ASSUME CarefulInv, careful, start # "idle",
         NEW o \in inList \cup {"trace"}
  PROVE  Natively(o) = "none"
<1>1. Using /\ Linked \subseteq held
  BY DEF CarefulInv, Careful, Over
<1>2. inList \subseteq held /\ inList \subseteq MProviders /\ "trace" \in held
  BY <1>1 DEF Linked, Using, CarefulInv, OwnInv, ManagedTypeOK
<1> QED BY <1>1, <1>2, HeldIsSafe DEF CarefulInv, Using, OwnInv, ManagedTypeOK

LEMMA QuietKeepsCareful ==
  ASSUME CarefulInv, careful,
         \/ \E o \in Objects : Drop(o) \/ Event(o)
         \/ \E p \in MProviders :
              Enable(p) \/ \E f \in Filters : AddFilter(p, f) \/ FilterEvent(p, f)
         \/ Start \/ SessionEnds \/ StartReturns
         \/ \E t \in Disposers, refused \in BOOLEAN : Stop(t, refused)
  PROVE  Careful'
<1> USE DEF MCall
<1>0. OwnInv /\ Careful /\ ManagedTypeOK
  BY DEF CarefulInv, OwnInv
<1>1. ASSUME Using
      PROVE  "trace" \in held /\ Through("trace") = "none" /\ Natively("trace") = "none"
  BY <1>0, <1>1, HeldIsSafe DEF Using, ManagedTypeOK
<1>2. \A o \in held : o # "trace" => Through(o) = "none" /\ Natively(o) = "none"
  BY <1>0, HeldIsSafe
<1>3. ASSUME NEW o \in Objects, Drop(o)
      PROVE  Careful'
  BY <1>0, <1>3 DEF Drop, Careful, Over, Linked, Using, Disposing, Free, ManagedTypeOK
<1>4. ASSUME NEW o \in Objects, Event(o)
      PROVE  Harmless
  <2>1. Natively("trace") = "none" /\ Natively(o) = "none"
    BY <1>4, EventIsHarmless DEF Event
  <2> QED BY <1>4, <2>1, WorstOfNone DEF Event, Harmless
<1>5. ASSUME NEW p \in MProviders, Enable(p)
      PROVE  Careful'
  <2>1. Through("trace") = "none" /\ Through(p) = "none"
    BY <1>1, <1>2, <1>5 DEF Enable
  <2>2. fault' = "none"
    BY <1>5, <2>1, WorstOfNone DEF Enable
  <2> QED BY <1>0, <1>5, <2>2 DEF Enable, Careful, Over, Linked, Using, Disposing, Free
<1>6. ASSUME NEW p \in MProviders, NEW f \in Filters, AddFilter(p, f)
      PROVE  Careful'
  <2>1. Through(p) = "none" /\ Through(f) = "none"
    BY <1>2, <1>6 DEF AddFilter
  <2>2. fault' = "none"
    BY <1>6, <2>1, WorstOfNone DEF AddFilter
  <2>3. Linked' = Linked \cup {f}
    BY <1>6 DEF AddFilter, Linked
  <2> QED BY <1>0, <1>6, <2>2, <2>3 DEF AddFilter, Careful, Over, Using, Disposing, Free
<1>7. ASSUME NEW p \in MProviders, NEW f \in Filters, FilterEvent(p, f)
      PROVE  Harmless
  <2>1. Natively("trace") = "none" /\ Natively(p) = "none"
    BY <1>7, EventIsHarmless DEF FilterEvent
  <2>2. f \in held
    BY <1>0, <1>7 DEF FilterEvent, Careful, Over, Linked
  <2>3. managed[f] = "live"
    BY <1>0, <2>2, HeldIsSafe
  <2>4. fault' = "none"
    BY <1>7, <2>1, <2>3, WorstOfNone DEF FilterEvent
  <2> QED BY <1>7, <2>4 DEF FilterEvent, Harmless
<1>8. ASSUME Start
      PROVE  Harmless
  <2>1. Using /\ Through("trace") = "none" /\ inList \subseteq held
    BY <1>0, <1>1, <1>8 DEF Start, Careful, Over, Linked
  <2>2. \A p \in inList : Natively(p) = "none"
    BY <1>0, <1>2, <2>1 DEF ManagedTypeOK
  <2>3. fault' = "none"
    BY <1>8, <2>1, <2>2, WorstOfNone DEF Start
  <2> QED BY <1>8, <2>1, <2>3 DEF Start, Harmless
<1>9. ASSUME SessionEnds \/ StartReturns
      PROVE  Harmless
  BY <1>9 DEF SessionEnds, StartReturns, Harmless
<1>10. ASSUME NEW t \in Disposers, NEW refused \in BOOLEAN, Stop(t, refused)
       PROVE  Harmless
  BY <1>1, <1>10 DEF Stop, Harmless
<1> QED BY <1>3, <1>4, <1>5, <1>6, <1>7, <1>8, <1>9, <1>10, <1>0, HarmlessKeepsCareful
        DEF CarefulInv, Harmless

LEMMA OtherKeepsCareful ==
  ASSUME CarefulInv, careful,
         \/ \E o \in Objects : New(o)
         \/ \E o \in Objects, refused \in BOOLEAN : Collect(o, refused)
         \/ \E t \in Disposers :
              \/ Dispose(t) \/ SetDisposed(t) \/ Clear(t)
              \/ \E refused \in BOOLEAN : DisposeStop(t, refused) \/ Delete(t, refused)
  PROVE  Careful'
<1> USE DEF MCall, At, Goto
<1>0. OwnInv /\ Careful /\ ManagedTypeOK /\ Owned /\ OneClears /\ Disposed
  BY DEF CarefulInv, OwnInv
<1>1. ASSUME NEW o \in Objects, New(o)
      PROVE  Careful'
  <2>1. Linked' = Linked /\ Disposing' = Disposing /\ held \subseteq held'
    BY <1>1 DEF New, Linked, Disposing, Free
  <2>2. Over => Over'
    BY <1>0, <1>1, <2>1 DEF New, Over, Using, ManagedTypeOK
  <2>3. Using => Using'
    BY <1>1, <2>1 DEF New, Using
  <2> QED BY <1>0, <1>1, <2>1, <2>2, <2>3 DEF New, Careful
<1>2. ASSUME NEW o \in Objects, NEW refused \in BOOLEAN, Collect(o, refused)
      PROVE  Careful'
  <2>1. Linked' = Linked /\ Disposing' = Disposing /\ (Using' <=> Using)
    BY <1>2 DEF Collect, Linked, Disposing, Free, Using
  <2>2. Over => Over'
    BY <1>0, <1>2, <2>1 DEF Collect, Over, ManagedTypeOK
  <2>3. start' # "idle" => start # "idle"
    BY <1>2 DEF Collect, AfterDelete
  <2>4. fault' \in {"none", "terminated"}
    BY <1>2 DEF Collect, AfterDelete
  <2> QED BY <1>0, <1>2, <2>1, <2>2, <2>3, <2>4 DEF Collect, Careful
<1>3. ASSUME NEW t \in Disposers, Dispose(t)
      PROVE  Careful'
  <2>1. start = "idle" /\ Disposing = {} /\ ~threw /\ Over'
    BY <1>0, <1>3 DEF Dispose, Over, Using, Disposing, Free, ManagedTypeOK
  <2> QED BY <1>0, <1>3, <2>1 DEF Dispose, Careful, Disposing, Free, ManagedTypeOK
<1>4. ASSUME NEW t \in Disposers, disposing[t] # "idle"
      PROVE  ~Using /\ Over /\ start = "idle"
  BY <1>0, <1>4 DEF Over, Using, Disposing, Free, Careful, Disposed
<1>5. ASSUME NEW t \in Disposers, NEW refused \in BOOLEAN, DisposeStop(t, refused)
      PROVE  Careful'
  <2>1. Through("trace") = "none"
    BY <1>0, <1>5, HeldIsSafe DEF DisposeStop, Careful, Disposed
  <2>2. start' = "idle" /\ Over'
    BY <1>0, <1>4, <1>5 DEF DisposeStop, Over, Using, Disposing, Free, ManagedTypeOK
  <2> QED BY <1>0, <1>5, <2>1, <2>2 DEF DisposeStop, Careful, ManagedTypeOK
<1>6. ASSUME NEW t \in Disposers, SetDisposed(t)
      PROVE  Careful'
  <2>1. start' = "idle" /\ Over'
    BY <1>0, <1>4, <1>6 DEF SetDisposed, Over, Using
  <2> QED BY <1>0, <1>6, <2>1 DEF SetDisposed, Careful, ManagedTypeOK
<1>7. ASSUME NEW t \in Disposers, NEW refused \in BOOLEAN, Delete(t, refused)
      PROVE  Careful'
  <2>1. start' = "idle" /\ Over'
    BY <1>0, <1>4, <1>7
    DEF Delete, AfterDelete, Over, Using, Disposing, Free, ManagedTypeOK
  <2> QED BY <1>0, <1>7, <2>1 DEF Delete, AfterDelete, Careful, ManagedTypeOK
<1>8. ASSUME NEW t \in Disposers, Clear(t)
      PROVE  Careful'
  <2>1. start' = "idle" /\ Over'
    BY <1>0, <1>4, <1>8 DEF Clear, Over, Using, Disposed
  <2> QED BY <1>0, <1>8, <2>1 DEF Clear, Careful, ManagedTypeOK
<1> QED BY <1>1, <1>2, <1>3, <1>5, <1>6, <1>7, <1>8

\* A client that keeps what the trace uses and disposes it when start() is back never has a
\* call go through a null or a dangling pointer (UserTrace.hpp:239-247,
\* Provider.hpp:197-202, EventFilter.hpp:86-91).
THEOREM CarefulClientIsSafe == ManagedSpec => []CarefulIsSafe
<1>1. ManagedInit => CarefulInv
  BY OwnInvStart
  DEF ManagedInit, CarefulInv, Careful, Over, Linked, Using, Disposing, Free, Objects
<1>2. CarefulInv /\ OwnInv' /\ [ManagedNext]_mvars => CarefulInv'
  <2> SUFFICES ASSUME CarefulInv, OwnInv', [ManagedNext]_mvars PROVE Careful'
    BY DEF CarefulInv
  <2>1. careful' = careful
    BY DEF ManagedNext, mvars, New, Drop, Event, Collect, Enable, AddFilter, FilterEvent, Start,
       SessionEnds, StartReturns, Dispose, SetDisposed, Clear, Stop, DisposeStop, Delete
  <2>2. CASE ~careful
    BY <2>1, <2>2 DEF Careful
  <2>3. CASE careful /\ UNCHANGED mvars
    BY <2>3 DEF mvars, CarefulInv, Careful, Over, Linked, Using, Disposing, Free
  <2>4. CASE careful /\ ManagedNext
    BY <2>4, QuietKeepsCareful, OtherKeepsCareful DEF ManagedNext
  <2> QED BY <2>2, <2>3, <2>4
<1>3. CarefulInv => CarefulIsSafe
  BY DEF CarefulInv, Careful, CarefulIsSafe
<1> QED BY <1>1, <1>2, <1>3, OwnInvHolds, PTL DEF ManagedSpec
=============================================================================
