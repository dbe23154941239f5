--------------------------- MODULE CallbackBridge ---------------------------
(***************************************************************************)
(* The bridge between the native callbacks of one provider, filter or      *)
(* trace and the delegates of its .NET client (Callbacks.hpp): threads of  *)
(* the client add and remove handlers by compare-and-swap while trace      *)
(* threads deliver events to them, in record objects that are made once    *)
(* and then updated.                                                       *)
(***************************************************************************)
EXTENDS Integers, Sequences

CONSTANTS
  Fields,       \* the delegates of the bridge that the client uses
  Handlers,     \* delegates to one method, each one object of the client
  Threads,      \* threads of the client that add and remove handlers
  TraceThreads, \* threads in ProcessTrace of the traces that use the bridge
  Records,      \* ETW events; what TDH says of each may vary
  Idle,         \* in no call, or no event shown
  Exclusive,    \* the client removes no handler while another thread changes the event
  MaxChanges,   \* bound: additions and removals
  MaxDelegates, \* bound: delegates made by Combine and Remove
  MaxNotified   \* bound: events

VARIABLES
  target,      \* target[f]: the delegate, an object with its list of handlers
  change,      \* change[t]: arguments and locals of CombineOrRemoveDelegate
  note,        \* note[r]: where EventNotification is, and the delegate it holds
  shown,        \* shown[k]: the event that metadata_, record_ or error_ shows
  stayed,      \* history: stayed[r][f]: handlers in f ever since r received its event
  heard,       \* history: heard[r][f]: handlers called for the event of r
  changes, made, notified

bvars == <<target, change, note, shown, stayed, heard, changes, made, notified>>

RecordKinds == {"metadata", "record", "error"}
AllFields == {"OnMetadata", "OnEvent", "OnError"}
KindOf == [OnMetadata |-> "metadata", OnEvent |-> "record", OnError |-> "error"]

\* A delegate is an object: two of them may have equal lists
Null == [object |-> 0, list |-> <<>>]
Single(h) == [object |-> h, list |-> <<h>>]
HandlersOf(d) == {d.list[i] : i \in DOMAIN d.list}

Delegates == [object : Handlers \cup Nat, list : Seq(Handlers)]
Changing == [field : AllFields, handler : Handlers, remove : BOOLEAN, original : Delegates]
Asking == [field : AllFields, handler : Handlers, remove : BOOLEAN]

\* Objects that Combine and Remove make, which are numbered, are none of the client's.
ASSUME BridgeAssumption ==
  /\ Fields \subseteq AllFields
  /\ \A h \in Handlers : h \notin Nat
  /\ Idle \notin Changing /\ Idle \notin Asking
  /\ Exclusive \in BOOLEAN
  /\ MaxChanges \in Nat /\ MaxDelegates \in Nat /\ MaxNotified \in Nat

BridgeInit ==
  /\ target = [f \in AllFields |-> Null]
  /\ change = [t \in Threads |-> Idle]
  /\ note = [r \in TraceThreads |-> Idle]
  /\ shown = [k \in RecordKinds |-> Idle]
  /\ stayed = [r \in TraceThreads |-> [f \in AllFields |-> {}]]
  /\ heard = [r \in TraceThreads |-> [f \in AllFields |-> {}]]
  /\ changes = 0 /\ made = 1 /\ notified = 0
-----------------------------------------------------------------------------
(* External: System.Delegate *)

\* Combine gives the new delegate itself if there was none, else a new object
Combine(d, h) ==
  IF d.list = <<>> THEN Single(h) ELSE [object |-> made, list |-> Append(d.list, h)]

\* Remove takes the last occurrence away; of what is left, no handler is null, one is its
\* own delegate, more are a new object
Remove(d, h) ==
  LET is == {i \in DOMAIN d.list : d.list[i] = h}
      at == CHOOSE i \in is : \A j \in is : j <= i
      left == SubSeq(d.list, 1, at - 1) \o SubSeq(d.list, at + 1, Len(d.list))
  IN  IF is = {} THEN d
      ELSE IF left = <<>> THEN Null
      ELSE IF Len(left) = 1 THEN Single(left[1])
      ELSE [object |-> made, list |-> left]

\* CompareExchange compares objects, operator != of delegates the lists
SameObject(d, e) == d.object = e.object
SameList(d, e) == d.list = e.list
-----------------------------------------------------------------------------
(* CombineOrRemoveDelegate *)

Alone(t, remove, f) ==
  \A u \in Threads \ {t} : change[u] # Idle /\ change[u].field = f => ~remove /\ ~change[u].remove

\* add or remove of an event, up to T original = target
Ask(t, f, h, remove) ==
  /\ change[t] = Idle /\ changes < MaxChanges /\ changes' = changes + 1
  /\ Exclusive => Alone(t, remove, f)
  /\ change' = [change EXCEPT ![t] =
                  [field |-> f, handler |-> h, remove |-> remove, original |-> target[f]]]
  /\ UNCHANGED <<target, note, shown, stayed, heard, made, notified>>

\* Mutant of NewValue: remove is taken for combine.
NewValueCombine(c) == Combine(c.original, c.handler)

NewValue(c) ==
  IF c.remove THEN Remove(c.original, c.handler) ELSE Combine(c.original, c.handler)

Stays(f, d) ==
  [r \in TraceThreads |-> [stayed[r] EXCEPT ![f] = @ \cap HandlersOf(d)]]

\* Mutant of Exchange: the delegate is stored without a comparison.
ExchangeAlways(c, d) == TRUE

\* The object is still the one that was read
Exchange(c, d) == SameObject(d, c.original)

\* One round of the loop; it ends when original == comparand
Swap(t) ==
  LET mine == change[t]
      d == target[mine.field]
  IN  /\ mine # Idle /\ made < MaxDelegates
      /\ IF Exchange(mine, d)
         THEN /\ target' = [target EXCEPT ![mine.field] = NewValue(mine)]
              /\ stayed' = Stays(mine.field, NewValue(mine))
              /\ made' = made + 1
         ELSE UNCHANGED <<target, stayed, made>>
      /\ change' = [change EXCEPT ![t] =
                      IF Exchange(mine, d) \/ SameList(d, mine.original) THEN Idle
                      ELSE [mine EXCEPT !.original = d]]
      /\ UNCHANGED <<note, shown, heard, changes, notified>>
-----------------------------------------------------------------------------
(* EventNotification and ErrorNotification *)

\* The delegate is read once, whatever happens to the event then
Snapshot(r, f, e) ==
  note' = [note EXCEPT ![r] = [field |-> f, event |-> e, calls |-> target[f].list,
                               wrapped |-> FALSE]]

Receive(r, e) ==
  /\ note[r] = Idle /\ notified < MaxNotified /\ notified' = notified + 1
  /\ Snapshot(r, "OnMetadata", e)
  /\ stayed' = [stayed EXCEPT ![r] = [f \in AllFields |-> HandlersOf(target[f])]]
  /\ heard' = [heard EXCEPT ![r] = [f \in AllFields |-> {}]]
  /\ UNCHANGED <<target, change, shown, changes, made>>

\* The native provider or filter calls its error callback, as a predicate or another
\* callback missed the schema
ReceiveError(r, e) ==
  /\ note[r] = Idle /\ notified < MaxNotified /\ notified' = notified + 1
  /\ Snapshot(r, "OnError", e)
  /\ stayed' = [stayed EXCEPT ![r] =
                  [f \in AllFields |-> IF f = "OnError" THEN HandlersOf(target[f]) ELSE {}]]
  /\ heard' = [heard EXCEPT ![r] = [f \in AllFields |-> {}]]
  /\ UNCHANGED <<target, change, shown, changes, made>>

\* Mutant of Update: an object that exists is not updated.
UpdateOnce(k, e) == IF shown[k] = Idle THEN e ELSE shown[k]

Update(k, e) == e

\* WrapMetadata, WrapRecord and WrapError: make the object, or update it
Wrap(r) ==
  /\ note[r] # Idle /\ note[r].calls # <<>> /\ ~note[r].wrapped
  /\ note' = [note EXCEPT ![r].wrapped = TRUE]
  /\ LET k == KindOf[note[r].field] IN shown' = [shown EXCEPT ![k] = Update(k, note[r].event)]
  /\ UNCHANGED <<target, change, stayed, heard, changes, made, notified>>

\* The next handler of the delegate, in order
CallHandler(r) ==
  /\ note[r] # Idle /\ note[r].calls # <<>> /\ note[r].wrapped
  /\ note' = [note EXCEPT ![r].calls = Tail(@)]
  /\ heard' = [heard EXCEPT ![r][note[r].field] = @ \cup {Head(note[r].calls)}]
  /\ UNCHANGED <<target, change, shown, stayed, changes, made, notified>>

\* An exception of a handler leaves the notification, and ProcessTrace
HandlerThrows(r) ==
  /\ note[r] # Idle /\ note[r].calls # <<>> /\ note[r].wrapped
  /\ note' = [note EXCEPT ![r] = Idle]
  /\ UNCHANGED <<target, change, shown, stayed, heard, changes, made, notified>>

\* All handlers of f are done, or there was none
Done(r, f) == note[r] # Idle /\ note[r].field = f /\ note[r].calls = <<>>

ReadOnEvent(r) ==
  /\ Done(r, "OnMetadata")
  /\ Snapshot(r, "OnEvent", note[r].event)
  /\ UNCHANGED <<target, change, shown, stayed, heard, changes, made, notified>>

\* Mutant of SchemaMissing: the schema is missed while the handlers run.
SchemaMissingLate(r) ==
  /\ note[r] # Idle /\ note[r].field = "OnEvent"
  /\ note[r].calls # <<>>
  /\ Snapshot(r, "OnError", note[r].event)
  /\ UNCHANGED <<target, change, shown, stayed, heard, changes, made, notified>>

\* TDH knows no schema: the handlers shown are dropped for those of OnError
SchemaMissing(r) ==
  /\ note[r] # Idle /\ note[r].field = "OnEvent"
  /\ note[r].calls # <<>> /\ ~note[r].wrapped
  /\ Snapshot(r, "OnError", note[r].event)
  /\ UNCHANGED <<target, change, shown, stayed, heard, changes, made, notified>>

Return(r) ==
  /\ Done(r, "OnEvent") \/ Done(r, "OnError")
  /\ note' = [note EXCEPT ![r] = Idle]
  /\ UNCHANGED <<target, change, shown, stayed, heard, changes, made, notified>>

BridgeNext ==
  \/ \E t \in Threads :
       Swap(t) \/ \E f \in Fields, h \in Handlers, remove \in BOOLEAN : Ask(t, f, h, remove)
  \/ \E r \in TraceThreads :
       \/ \E e \in Records : Receive(r, e) \/ ReceiveError(r, e)
       \/ Wrap(r) \/ CallHandler(r) \/ HandlerThrows(r)
       \/ ReadOnEvent(r) \/ SchemaMissing(r) \/ Return(r)

BridgeSpec == BridgeInit /\ [][BridgeNext]_bvars
-----------------------------------------------------------------------------
(* Properties *)

\* The bridge implements HandlerList: each addition and removal takes effect once, whatever
\* other threads add meanwhile (Callbacks.hpp:140-151).
List == INSTANCE HandlerList WITH
  Fields <- AllFields,
  handlers <- [f \in AllFields |-> target[f].list],
  asked <- [t \in Threads |-> IF change[t] = Idle THEN Idle
              ELSE [field |-> change[t].field, handler |-> change[t].handler,
                    remove |-> change[t].remove]]

ImplementsHandlerList == List!Spec

\* When a notification ends without an exception, the handlers that were there throughout
\* have all been called: those of OnMetadata, and those of OnEvent or of OnError, never of
\* both, for an error that native code reports those of OnError only, though others come
\* and go meanwhile (Callbacks.hpp:102-138).
HandlersHear ==
  \A r \in TraceThreads : Done(r, "OnEvent") \/ Done(r, "OnError") =>
    /\ stayed[r]["OnMetadata"] \subseteq heard[r]["OnMetadata"]
    /\ stayed[r][note[r].field] \subseteq heard[r][note[r].field]
    /\ heard[r]["OnEvent"] = {} \/ heard[r]["OnError"] = {}

\* The object that a handler is given shows the event it is called for: no other event
\* updates it before all the handlers are done (Callbacks.hpp:71-100).
RecordIsOwn ==
  \A r \in TraceThreads : note[r] # Idle /\ note[r].calls # <<>> /\ note[r].wrapped =>
    shown[KindOf[note[r].field]] = note[r].event
=============================================================================
