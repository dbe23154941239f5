---------------------------- MODULE BridgeProofs ----------------------------
(***************************************************************************)
(* Theorems about CallbackBridge, for any handlers, events and threads of  *)
(* the client and of traces.                                               *)
(***************************************************************************)
EXTENDS CallbackBridge, WellFoundedInduction, TLAPS

-----------------------------------------------------------------------------
(* Lists of handlers.                                                      *)

\* The last of some positions.
LEMMA LastExists ==
  ASSUME NEW n \in Nat, NEW is \in SUBSET (1..n), is # {}
  PROVE  \E i \in is : \A j \in is : j <= i
<1> DEFINE T == {n - i : i \in is}
<1>0. \A i \in is : i \in Int /\ n - i \in Nat
  OBVIOUS
<1>1. T \subseteq Nat /\ T # {}
  BY <1>0
<1>2. PICK x \in T : \A y \in T : ~(<<y, x>> \in OpToRel(<, Nat))
  BY <1>1, NatLessThanWellFounded, WFMin
<1>3. \A y \in T : ~(y < x)
  BY <1>1, <1>2 DEF OpToRel
<1>4. PICK i \in is : x = n - i
  OBVIOUS
<1>5. ASSUME NEW j \in is
      PROVE  j <= i
  <2>1. n - j \in T /\ ~(n - j < n - i)
    BY <1>3, <1>4
  <2> QED BY <1>0, <2>1
<1> QED BY <1>5

LEMMA CombineType ==
  ASSUME NEW d \in Delegates, NEW h \in Handlers, made \in Nat
  PROVE  Combine(d, h) \in Delegates
<1>1. <<h>> \in Seq(Handlers) /\ Append(d.list, h) \in Seq(Handlers)
  BY DEF Delegates
<1> QED BY <1>1 DEF Combine, Single, Delegates

LEMMA RemoveType ==
  ASSUME NEW d \in Delegates, NEW h \in Handlers, made \in Nat
  PROVE  Remove(d, h) \in Delegates
<1> DEFINE is == {i \in DOMAIN d.list : d.list[i] = h}
           at == CHOOSE i \in is : \A j \in is : j <= i
           left == SubSeq(d.list, 1, at - 1) \o SubSeq(d.list, at + 1, Len(d.list))
<1>1. d.list \in Seq(Handlers) /\ Null \in Delegates
  BY DEF Delegates, Null
<1>2. CASE is = {}
  BY <1>2 DEF Remove
<1>3. CASE is # {}
  <2>1. Len(d.list) \in Nat /\ is \in SUBSET (1..Len(d.list))
    BY <1>1
  <2>2. at \in 1..Len(d.list)
    <3>1. \E i \in is : \A j \in is : j <= i
      BY <1>3, <2>1, LastExists
    <3> QED BY <2>1, <3>1
  <2> HIDE DEF at
  <2>3. left \in Seq(Handlers)
    BY <1>1, <2>2
  <2> HIDE DEF left
  <2>4. left = <<>> \/ left[1] \in Handlers
    BY <2>3
  <2>5. left # <<>> => Single(left[1]) \in Delegates
    BY <2>4 DEF Single, Delegates
  <2>6. [object |-> made, list |-> left] \in Delegates
    BY <2>3 DEF Delegates
  <2>7. Remove(d, h) = IF left = <<>> THEN Null
                       ELSE IF Len(left) = 1 THEN Single(left[1])
                       ELSE [object |-> made, list |-> left]
    BY <1>3 DEF Remove, left, at
  <2> QED BY <1>1, <2>5, <2>6, <2>7
<1> QED BY <1>2, <1>3

Range(s) == {s[i] : i \in DOMAIN s}

\* What is called next, and what after it.
LEMMA HeadAndTail ==
  ASSUME NEW s \in Seq(Handlers), s # <<>>
  PROVE  /\ Tail(s) \in Seq(Handlers) /\ Head(s) \in Handlers
         /\ Range(s) = {Head(s)} \cup Range(Tail(s))
<1>1. /\ Len(s) \in Nat \ {0} /\ Len(Tail(s)) = Len(s) - 1
      /\ DOMAIN s = 1..Len(s) /\ DOMAIN Tail(s) = 1..(Len(s) - 1)
      /\ \A i \in 1..(Len(s) - 1) : Tail(s)[i] = s[i + 1]
      /\ Head(s) = s[1]
  OBVIOUS
<1>2. \A i \in 2..Len(s) : i - 1 \in 1..(Len(s) - 1) /\ Tail(s)[i - 1] = s[i]
  BY <1>1
<1>3. Range(s) \subseteq {Head(s)} \cup Range(Tail(s))
  <2> SUFFICES ASSUME NEW i \in 1..Len(s), i # 1
               PROVE  s[i] \in Range(Tail(s))
    BY <1>1 DEF Range
  <2>1. i \in 2..Len(s)
    BY <1>1
  <2> QED BY <1>1, <1>2, <2>1 DEF Range
<1>4. {Head(s)} \cup Range(Tail(s)) \subseteq Range(s)
  BY <1>1 DEF Range
<1> QED BY <1>3, <1>4
-----------------------------------------------------------------------------
(* The inductive invariant.                                                *)

Notifying == [field : AllFields, event : Records, calls : Seq(Handlers), wrapped : BOOLEAN]

BridgeTypes ==
  /\ target \in [AllFields -> Delegates]
  /\ change \in [Threads -> {Idle} \cup Changing]
  /\ note \in [TraceThreads -> {Idle} \cup Notifying]
  /\ stayed \in [TraceThreads -> [AllFields -> SUBSET Handlers]]
  /\ heard \in [TraceThreads -> [AllFields -> SUBSET Handlers]]
  /\ made \in Nat

\* A handler that has stayed is in the delegate.
StayedThere ==
  \A r \in TraceThreads, f \in AllFields : stayed[r][f] \subseteq HandlersOf(target[f])

\* Those that have stayed have been called or are to be called, in a notification that is
\* at f with the handlers of calls left.
Pending(r, f, calls) == stayed[r][f] \subseteq heard[r][f] \cup Range(calls)

\* Up to the field it is at, a notification has called nobody of the fields it comes to
\* later or never.
HeardSoFar(r, n) ==
  /\ Pending(r, n.field, n.calls)
  /\ n.field # "OnMetadata" => stayed[r]["OnMetadata"] \subseteq heard[r]["OnMetadata"]
  /\ n.field = "OnMetadata" \/ (n.field = "OnEvent" /\ ~n.wrapped) \/ n.field = "OnError"
       => heard[r]["OnEvent"] = {}
  /\ n.field # "OnError" => heard[r]["OnError"] = {}

HearInv ==
  /\ BridgeTypes
  /\ StayedThere
  /\ \A r \in TraceThreads : note[r] # Idle => HeardSoFar(r, note[r])
-----------------------------------------------------------------------------
(* The steps of the client.                                                *)

LEMMA NewValueType ==
  ASSUME BridgeTypes, NEW c \in Changing
  PROVE  NewValue(c) \in Delegates
BY CombineType, RemoveType DEF BridgeTypes, NewValue, Changing

LEMMA AskKeepsInv ==
  ASSUME HearInv, NEW t \in Threads, NEW f \in Fields, NEW h \in Handlers,
         NEW remove \in BOOLEAN, Ask(t, f, h, remove)
  PROVE  HearInv'
<1>1. f \in AllFields
  BY BridgeAssumption DEF AllFields
<1>2. [field |-> f, handler |-> h, remove |-> remove, original |-> target[f]] \in Changing
  BY <1>1 DEF Changing, HearInv, BridgeTypes
<1>3. BridgeTypes'
  BY <1>2 DEF Ask, HearInv, BridgeTypes
<1> QED BY <1>3 DEF Ask, HearInv, StayedThere, HeardSoFar, Pending

LEMMA SwapKeepsInv ==
  ASSUME HearInv, NEW t \in Threads, Swap(t)
  PROVE  HearInv'
<1> DEFINE c == change[t]
           d == target[c.field]
<1>1. c \in Changing /\ d \in Delegates /\ c.field \in AllFields
  BY DEF Swap, HearInv, BridgeTypes, Changing
<1>2. [c EXCEPT !.original = d] \in Changing
  BY <1>1 DEF Changing
<1>3. change' \in [Threads -> {Idle} \cup Changing]
  BY <1>2 DEF Swap, HearInv, BridgeTypes
<1>4. CASE Exchange(c, d)
  <2> DEFINE e == NewValue(c)
             kept == Stays(c.field, e)
  <2>1. e \in Delegates
    BY <1>1, NewValueType DEF HearInv
  <2> HIDE DEF e
  <2>2. /\ target' = [target EXCEPT ![c.field] = e] /\ stayed' = kept /\ made' = made + 1
        /\ UNCHANGED <<note, heard>>
    BY <1>4 DEF Swap, e
  <2>3. /\ kept \in [TraceThreads -> [AllFields -> SUBSET Handlers]]
        /\ \A r \in TraceThreads, f \in AllFields :
             kept[r][f] = IF f = c.field THEN stayed[r][f] \cap HandlersOf(e) ELSE stayed[r][f]
    BY <1>1 DEF Stays, HearInv, BridgeTypes
  <2> HIDE DEF kept
  <2>4. BridgeTypes'
    BY <1>1, <1>3, <2>1, <2>2, <2>3 DEF HearInv, BridgeTypes
  <2>5. \A r \in TraceThreads, f \in AllFields : stayed'[r][f] \subseteq stayed[r][f]
    BY <2>2, <2>3
  <2>6. StayedThere'
    <3> SUFFICES ASSUME NEW r \in TraceThreads, NEW f \in AllFields
                 PROVE  stayed'[r][f] \subseteq HandlersOf(target'[f])
      BY DEF StayedThere, HandlersOf
    <3>0. target \in [AllFields -> Delegates] /\ stayed[r][f] \subseteq HandlersOf(target[f])
      BY DEF HearInv, BridgeTypes, StayedThere
    <3>1. CASE f = c.field
      <4>1. target'[f] = e
        BY <1>1, <2>2, <3>0, <3>1
      <4> QED BY <2>2, <2>3, <3>1, <4>1
    <3>2. CASE f # c.field
      <4>1. target'[f] = target[f]
        BY <1>1, <2>2, <3>0, <3>2
      <4> QED BY <2>2, <2>3, <3>0, <3>2, <4>1
    <3> QED BY <3>1, <3>2
  <2>7. ASSUME NEW r \in TraceThreads, note'[r] # Idle
        PROVE  HeardSoFar(r, note[r])'
    <3>1. HeardSoFar(r, note[r]) /\ note[r].field \in AllFields /\ "OnMetadata" \in AllFields
      BY <2>2, <2>7 DEF HearInv, BridgeTypes, Notifying, AllFields
    <3> QED BY <2>2, <2>5, <3>1 DEF HeardSoFar, Pending
  <2> QED BY <2>4, <2>6, <2>7 DEF HearInv
<1>5. CASE ~Exchange(c, d)
  <2>1. UNCHANGED <<target, stayed, made, note, heard>>
    BY <1>5 DEF Swap
  <2>2. BridgeTypes'
    BY <1>3, <2>1 DEF HearInv, BridgeTypes
  <2> QED BY <2>1, <2>2 DEF HearInv, StayedThere, HeardSoFar, Pending
<1> QED BY <1>4, <1>5
-----------------------------------------------------------------------------
(* The steps of a notification.                                            *)

\* A step of one notification that changes nothing the others depend on.
LEMMA NoteKeepsInv ==
  ASSUME HearInv, NEW r \in TraceThreads, UNCHANGED <<target, change, made>>, BridgeTypes',
         \A q \in TraceThreads \ {r} :
           note'[q] = note[q] /\ stayed'[q] = stayed[q] /\ heard'[q] = heard[q],
         \A f \in AllFields : stayed'[r][f] \subseteq HandlersOf(target[f]),
         note'[r] # Idle => HeardSoFar(r, note[r])'
  PROVE  HearInv'
<1>1. StayedThere'
  BY DEF HearInv, StayedThere, HandlersOf
<1>2. ASSUME NEW q \in TraceThreads, note'[q] # Idle
      PROVE  HeardSoFar(q, note[q])'
  BY <1>2 DEF HearInv, HeardSoFar, Pending
<1> QED BY <1>1, <1>2 DEF HearInv

\* A delegate read afresh has all who stayed.
LEMMA SnapshotPends ==
  ASSUME HearInv, NEW r \in TraceThreads, NEW f \in AllFields
  PROVE  /\ target[f].list \in Seq(Handlers)
         /\ Range(target[f].list) = HandlersOf(target[f])
         /\ stayed[r][f] \subseteq Range(target[f].list)
BY DEF HearInv, BridgeTypes, StayedThere, Delegates, HandlersOf, Range

\* What a notification holds once it has read the delegate of f.
Read(f, e) == [field |-> f, event |-> e, calls |-> target[f].list, wrapped |-> FALSE]

LEMMA ReadType ==
  ASSUME HearInv, NEW f \in AllFields, NEW e \in Records
  PROVE  Read(f, e) \in Notifying
BY DEF HearInv, BridgeTypes, Delegates, Read, Notifying

LEMMA ReceiveKeepsInv ==
  ASSUME HearInv, NEW r \in TraceThreads, NEW e \in Records, Receive(r, e)
  PROVE  HearInv'
<1> DEFINE all == [f \in AllFields |-> HandlersOf(target[f])]
           none == [f \in AllFields |-> {}]
           n == Read("OnMetadata", e)
<1>1. "OnMetadata" \in AllFields /\ "OnEvent" \in AllFields /\ "OnError" \in AllFields
  BY DEF AllFields
<1>2. all \in [AllFields -> SUBSET Handlers] /\ none \in [AllFields -> SUBSET Handlers]
  BY DEF HearInv, BridgeTypes, Delegates, HandlersOf
<1>3. n \in Notifying /\ n.field = "OnMetadata" /\ n.calls = target["OnMetadata"].list
  BY <1>1, ReadType DEF Read
<1>4. /\ note' = [note EXCEPT ![r] = n] /\ stayed' = [stayed EXCEPT ![r] = all]
      /\ heard' = [heard EXCEPT ![r] = none] /\ UNCHANGED <<target, change, made>>
  BY DEF Receive, Snapshot, Read
<1>5. \A f \in AllFields : all[f] = HandlersOf(target[f]) /\ none[f] = {}
  OBVIOUS
<1> HIDE DEF all, none, n
<1>6. BridgeTypes'
  BY <1>2, <1>3, <1>4 DEF HearInv, BridgeTypes
<1>7. note'[r] = n /\ stayed'[r] = all /\ heard'[r] = none
  BY <1>4 DEF HearInv, BridgeTypes
<1>8. \A q \in TraceThreads \ {r} :
        note'[q] = note[q] /\ stayed'[q] = stayed[q] /\ heard'[q] = heard[q]
  BY <1>4 DEF HearInv, BridgeTypes
<1>9. HeardSoFar(r, note[r])'
  BY <1>1, <1>3, <1>5, <1>7, SnapshotPends DEF HeardSoFar, Pending
<1> QED BY <1>4, <1>5, <1>6, <1>7, <1>8, <1>9, NoteKeepsInv

LEMMA ReceiveErrorKeepsInv ==
  ASSUME HearInv, NEW r \in TraceThreads, NEW e \in Records, ReceiveError(r, e)
  PROVE  HearInv'
<1> DEFINE own == [f \in AllFields |-> IF f = "OnError" THEN HandlersOf(target[f]) ELSE {}]
           none == [f \in AllFields |-> {}]
           n == Read("OnError", e)
<1>1. "OnMetadata" \in AllFields /\ "OnEvent" \in AllFields /\ "OnError" \in AllFields
  BY DEF AllFields
<1>2. own \in [AllFields -> SUBSET Handlers] /\ none \in [AllFields -> SUBSET Handlers]
  BY DEF HearInv, BridgeTypes, Delegates, HandlersOf
<1>3. n \in Notifying /\ n.field = "OnError" /\ n.calls = target["OnError"].list
  BY <1>1, ReadType DEF Read
<1>4. /\ note' = [note EXCEPT ![r] = n] /\ stayed' = [stayed EXCEPT ![r] = own]
      /\ heard' = [heard EXCEPT ![r] = none] /\ UNCHANGED <<target, change, made>>
  BY DEF ReceiveError, Snapshot, Read
<1>5. \A f \in AllFields : /\ own[f] = IF f = "OnError" THEN HandlersOf(target[f]) ELSE {}
                           /\ none[f] = {}
  OBVIOUS
<1> HIDE DEF own, none, n
<1>6. BridgeTypes'
  BY <1>2, <1>3, <1>4 DEF HearInv, BridgeTypes
<1>7. note'[r] = n /\ stayed'[r] = own /\ heard'[r] = none
  BY <1>4 DEF HearInv, BridgeTypes
<1>8. \A q \in TraceThreads \ {r} :
        note'[q] = note[q] /\ stayed'[q] = stayed[q] /\ heard'[q] = heard[q]
  BY <1>4 DEF HearInv, BridgeTypes
<1>9. HeardSoFar(r, note[r])'
  BY <1>1, <1>3, <1>5, <1>7, SnapshotPends DEF HeardSoFar, Pending
<1> QED BY <1>4, <1>5, <1>6, <1>7, <1>8, <1>9, NoteKeepsInv

LEMMA WrapKeepsInv ==
  ASSUME HearInv, NEW r \in TraceThreads, Wrap(r)
  PROVE  HearInv'
<1>1. note[r] \in Notifying /\ HeardSoFar(r, note[r])
  BY DEF Wrap, HearInv, BridgeTypes
<1> DEFINE n == [note[r] EXCEPT !.wrapped = TRUE]
<1>2. /\ n \in Notifying /\ n.field = note[r].field /\ n.calls = note[r].calls /\ n.wrapped
  BY <1>1 DEF Notifying
<1>3. /\ note' = [note EXCEPT ![r] = n] /\ UNCHANGED <<target, change, made, stayed, heard>>
  BY DEF Wrap
<1> HIDE DEF n
<1>4. BridgeTypes' /\ note'[r] = n /\ \A q \in TraceThreads \ {r} : note'[q] = note[q]
  BY <1>2, <1>3 DEF HearInv, BridgeTypes
<1>5. HeardSoFar(r, note[r])'
  BY <1>1, <1>2, <1>3, <1>4 DEF HeardSoFar, Pending
<1>6. \A f \in AllFields : stayed'[r][f] \subseteq HandlersOf(target[f])
  BY <1>3 DEF HearInv, StayedThere
<1> QED BY <1>3, <1>4, <1>5, <1>6, NoteKeepsInv

LEMMA CallKeepsInv ==
  ASSUME HearInv, NEW r \in TraceThreads, CallHandler(r)
  PROVE  HearInv'
<1>1. note[r] \in Notifying /\ HeardSoFar(r, note[r]) /\ note[r].calls # <<>>
  BY DEF CallHandler, HearInv, BridgeTypes
<1> DEFINE n == [note[r] EXCEPT !.calls = Tail(@)]
           f == note[r].field
           h == Head(note[r].calls)
<1>2. /\ Tail(note[r].calls) \in Seq(Handlers) /\ h \in Handlers /\ f \in AllFields
      /\ Range(note[r].calls) = {h} \cup Range(Tail(note[r].calls))
  BY <1>1, HeadAndTail DEF Notifying
<1>3. /\ n \in Notifying /\ n.field = f /\ n.calls = Tail(note[r].calls)
      /\ n.wrapped = note[r].wrapped /\ note[r].wrapped
  BY <1>1, <1>2 DEF Notifying, CallHandler
<1>4. /\ note' = [note EXCEPT ![r] = n] /\ UNCHANGED <<target, change, made, stayed>>
      /\ heard' = [heard EXCEPT ![r][f] = @ \cup {h}]
  BY DEF CallHandler
<1> HIDE DEF n, h
<1>5. BridgeTypes' /\ note'[r] = n
  BY <1>2, <1>3, <1>4 DEF HearInv, BridgeTypes
<1>6. \A q \in TraceThreads \ {r} : note'[q] = note[q] /\ heard'[q] = heard[q]
  BY <1>4 DEF HearInv, BridgeTypes
<1>7. \A g \in AllFields : heard'[r][g] = IF g = f THEN heard[r][g] \cup {h} ELSE heard[r][g]
  BY <1>2, <1>4 DEF HearInv, BridgeTypes
<1>8. HeardSoFar(r, note[r])'
  <2>1. stayed'[r][f] \subseteq heard'[r][f] \cup Range(n.calls)
    <3>1. stayed'[r][f] = stayed[r][f] /\ heard'[r][f] = heard[r][f] \cup {h}
      BY <1>2, <1>4, <1>7
    <3>2. stayed[r][f] \subseteq heard[r][f] \cup Range(note[r].calls)
      BY <1>1 DEF HeardSoFar, Pending
    <3>3. Range(note[r].calls) = {h} \cup Range(n.calls)
      BY <1>2, <1>3
    <3> QED BY <3>1, <3>2, <3>3
  <2>2. "OnMetadata" \in AllFields /\ "OnEvent" \in AllFields /\ "OnError" \in AllFields
    BY DEF AllFields
  <2> QED BY <1>1, <1>3, <1>4, <1>5, <1>7, <2>1, <2>2 DEF HeardSoFar, Pending
<1>9. \A g \in AllFields : stayed'[r][g] \subseteq HandlersOf(target[g])
  BY <1>4 DEF HearInv, StayedThere
<1> QED BY <1>4, <1>5, <1>6, <1>8, <1>9, NoteKeepsInv

\* The notification ends, by an exception or not.
LEMMA EndKeepsInv ==
  ASSUME HearInv, NEW r \in TraceThreads, HandlerThrows(r) \/ Return(r)
  PROVE  HearInv'
<1>1. note' = [note EXCEPT ![r] = Idle] /\ UNCHANGED <<target, change, made, stayed, heard>>
  BY DEF HandlerThrows, Return
<1>2. BridgeTypes' /\ note'[r] = Idle /\ \A q \in TraceThreads \ {r} : note'[q] = note[q]
  BY <1>1 DEF HearInv, BridgeTypes
<1>3. \A f \in AllFields : stayed'[r][f] \subseteq HandlersOf(target[f])
  BY <1>1 DEF HearInv, StayedThere
<1> QED BY <1>1, <1>2, <1>3, NoteKeepsInv

\* It goes on to OnEvent when those of OnMetadata are done, or to OnError if the schema is
\* missing.
LEMMA GoOnKeepsInv ==
  ASSUME HearInv, NEW r \in TraceThreads, NEW f \in {"OnEvent", "OnError"},
         note[r] # Idle, Snapshot(r, f, note[r].event),
         UNCHANGED <<target, change, made, stayed, heard>>,
         f = "OnEvent" => Done(r, "OnMetadata"),
         f = "OnError" => note[r].field = "OnEvent" /\ ~note[r].wrapped
  PROVE  HearInv'
<1>1. note[r] \in Notifying /\ HeardSoFar(r, note[r])
  BY DEF HearInv, BridgeTypes
<1> DEFINE n == Read(f, note[r].event)
<1>2. f \in AllFields /\ "OnMetadata" \in AllFields
  BY DEF AllFields
<1>3. n \in Notifying /\ n.field = f /\ n.calls = target[f].list
  BY <1>1, <1>2, ReadType DEF Read, Notifying
<1>4. note' = [note EXCEPT ![r] = n]
  BY DEF Snapshot, Read
<1> HIDE DEF n
<1>5. BridgeTypes' /\ note'[r] = n /\ \A q \in TraceThreads \ {r} : note'[q] = note[q]
  BY <1>3, <1>4 DEF HearInv, BridgeTypes
<1>6. stayed[r]["OnMetadata"] \subseteq heard[r]["OnMetadata"]
  <2>1. CASE f = "OnEvent"
    <3>1. note[r].field = "OnMetadata" /\ note[r].calls = <<>>
      BY <2>1 DEF Done
    <3>2. Range(<<>>) = {}
      BY DEF Range
    <3> QED BY <1>1, <3>1, <3>2 DEF HeardSoFar, Pending
  <2>2. CASE f = "OnError"
    BY <1>1, <2>2 DEF HeardSoFar
  <2> QED BY <2>1, <2>2
<1>7. heard[r]["OnEvent"] = {} /\ heard[r]["OnError"] = {}
  BY <1>1 DEF HeardSoFar, Done
<1>8. stayed[r][f] \subseteq Range(n.calls)
  BY <1>2, <1>3, SnapshotPends
<1>9. HeardSoFar(r, note[r])'
  BY <1>3, <1>5, <1>6, <1>7, <1>8 DEF HeardSoFar, Pending
<1>10. \A g \in AllFields : stayed'[r][g] \subseteq HandlersOf(target[g])
  BY DEF HearInv, StayedThere
<1> QED BY <1>5, <1>9, <1>10, NoteKeepsInv
-----------------------------------------------------------------------------
LEMMA HearInvHolds == BridgeSpec => []HearInv
<1>1. BridgeInit => HearInv
  <2> SUFFICES ASSUME BridgeInit PROVE HearInv
    OBVIOUS
  <2>1. Null \in Delegates
    BY DEF Null, Delegates
  <2>2. BridgeTypes
    BY <2>1 DEF BridgeInit, BridgeTypes
  <2> QED BY <2>2 DEF BridgeInit, HearInv, StayedThere
<1>2. HearInv /\ [BridgeNext]_bvars => HearInv'
  <2> SUFFICES ASSUME HearInv, [BridgeNext]_bvars PROVE HearInv'
    OBVIOUS
  <2>1. ASSUME NEW r \in TraceThreads, ReadOnEvent(r)
        PROVE  HearInv'
    BY <2>1, GoOnKeepsInv DEF ReadOnEvent, Done
  <2>2. ASSUME NEW r \in TraceThreads, SchemaMissing(r)
        PROVE  HearInv'
    BY <2>2, GoOnKeepsInv DEF SchemaMissing
  <2>3. CASE UNCHANGED bvars
    BY <2>3 DEF bvars, HearInv, BridgeTypes, StayedThere, HeardSoFar, Pending
  <2>4. CASE BridgeNext
    BY <2>1, <2>2, <2>4, AskKeepsInv, SwapKeepsInv, ReceiveKeepsInv, ReceiveErrorKeepsInv,
       WrapKeepsInv, CallKeepsInv, EndKeepsInv
    DEF BridgeNext
  <2> QED BY <2>3, <2>4
<1> QED BY <1>1, <1>2, PTL DEF BridgeSpec

\* Handlers that are there from the event to the end of its notification are called, those
\* of OnMetadata and then those of OnEvent or OnError but not both, whatever other threads
\* add and remove meanwhile (Callbacks.hpp:102-138).
THEOREM HandlersAreHeard == BridgeSpec => []HandlersHear
<1>1. HearInv => HandlersHear
  <2> SUFFICES ASSUME HearInv, NEW r \in TraceThreads, NEW f \in {"OnEvent", "OnError"},
                      Done(r, f)
               PROVE  /\ stayed[r]["OnMetadata"] \subseteq heard[r]["OnMetadata"]
                      /\ stayed[r][note[r].field] \subseteq heard[r][note[r].field]
                      /\ heard[r]["OnEvent"] = {} \/ heard[r]["OnError"] = {}
    BY DEF HandlersHear
  <2>1. HeardSoFar(r, note[r]) /\ note[r].field = f /\ note[r].calls = <<>>
    BY DEF Done, HearInv
  <2>2. Range(<<>>) = {}
    BY DEF Range
  <2> QED BY <2>1, <2>2 DEF HeardSoFar, Pending
<1> QED BY <1>1, HearInvHolds, PTL
-----------------------------------------------------------------------------
(* The objects that are made once and then updated.                        *)

OwnRecord ==
  /\ shown \in [RecordKinds -> Records \cup {Idle}]
  /\ \A r \in TraceThreads : note[r] # Idle /\ note[r].wrapped =>
       shown[KindOf[note[r].field]] = note[r].event

\* If one thread processes the events of all traces that use the bridge, a handler finds the
\* event it is called for in the object it is given.  With two threads it does not.
THEOREM RecordsAreOwn ==
  ASSUME \A r, q \in TraceThreads : r = q
  PROVE  BridgeSpec => []RecordIsOwn
<1>1. BridgeInit => OwnRecord
  BY DEF BridgeInit, OwnRecord
<1>2. HearInv /\ OwnRecord /\ [BridgeNext]_bvars => OwnRecord'
  <2> SUFFICES ASSUME HearInv, OwnRecord, [BridgeNext]_bvars PROVE OwnRecord'
    OBVIOUS
  <2>0. note \in [TraceThreads -> {Idle} \cup Notifying]
    BY DEF HearInv, BridgeTypes
  <2>1. ASSUME NEW r \in TraceThreads, NEW f \in AllFields, NEW e \in Records, Snapshot(r, f, e),
               shown' = shown
        PROVE  OwnRecord'
    <3>1. note' = [q \in TraceThreads |-> Read(f, e)]
      BY <2>0, <2>1 DEF Snapshot, Read
    <3> QED BY <2>1, <3>1 DEF OwnRecord, Read
  <2>2. ASSUME NEW r \in TraceThreads, NEW e \in Records, Receive(r, e) \/ ReceiveError(r, e)
        PROVE  OwnRecord'
    BY <2>1, <2>2 DEF Receive, ReceiveError, AllFields
  <2>3. ASSUME NEW r \in TraceThreads, ReadOnEvent(r) \/ SchemaMissing(r)
        PROVE  OwnRecord'
    <3>1. note[r].event \in Records
      BY <2>0, <2>3 DEF ReadOnEvent, SchemaMissing, Done, Notifying
    <3> QED BY <2>1, <2>3, <3>1 DEF ReadOnEvent, SchemaMissing, AllFields
  <2>4. ASSUME NEW r \in TraceThreads, Wrap(r)
        PROVE  OwnRecord'
    <3> DEFINE k == KindOf[note[r].field]
    <3>1. note[r] \in Notifying /\ k \in RecordKinds
      BY <2>0, <2>4 DEF Wrap, Notifying, KindOf, AllFields, RecordKinds
    <3>2. /\ note'[r].field = note[r].field /\ note'[r].event = note[r].event
          /\ shown' = [shown EXCEPT ![k] = note[r].event]
      BY <2>0, <2>4, <3>1 DEF Wrap, Update, Notifying
    <3>3. note[r].event \in Records
      BY <3>1 DEF Notifying
    <3> HIDE DEF k
    <3>4. shown' \in [RecordKinds -> Records \cup {Idle}] /\ shown'[k] = note[r].event
      BY <3>1, <3>2, <3>3 DEF OwnRecord
    <3> QED BY <3>2, <3>4 DEF OwnRecord, k
  <2>5. ASSUME NEW r \in TraceThreads, CallHandler(r)
        PROVE  OwnRecord'
    <3>1. note[r] \in Notifying /\ note[r].wrapped /\ shown' = shown
      BY <2>0, <2>5 DEF CallHandler
    <3>2. note'[r].field = note[r].field /\ note'[r].event = note[r].event
      BY <2>0, <2>5, <3>1 DEF CallHandler, Notifying
    <3> QED BY <2>5, <3>1, <3>2 DEF OwnRecord, CallHandler
  <2>6. ASSUME NEW r \in TraceThreads, HandlerThrows(r) \/ Return(r)
        PROVE  OwnRecord'
    BY <2>0, <2>6 DEF HandlerThrows, Return, OwnRecord
  <2>7. CASE UNCHANGED <<note, shown>>
    BY <2>7 DEF OwnRecord
  <2> QED BY <2>2, <2>3, <2>4, <2>5, <2>6, <2>7 DEF BridgeNext, bvars, Ask, Swap
<1>3. OwnRecord => RecordIsOwn
  BY DEF OwnRecord, RecordIsOwn
<1> QED BY <1>1, <1>2, <1>3, HearInvHolds, PTL DEF BridgeSpec
-----------------------------------------------------------------------------
(* The changes of a delegate implement HandlerList.                        *)

\* One object has one list: null has none, a client's delegate is a list of itself, and the
\* other objects are numbered as they are made.
ObjectOK(d) ==
  /\ d.object = 0 <=> d.list = <<>>
  /\ d.object \in Handlers => d.list = <<d.object>>
  /\ d.object \in Nat => d.object < made

\* The delegate a thread has read is the one that is there, or handlers were added since;
\* who removes a handler finds what it has read.
ReadOK(c) ==
  /\ ObjectOK(c.original)
  /\ c.original.object = target[c.field].object => c.original.list = target[c.field].list
  /\ c.original.object # target[c.field].object =>
       ~c.remove /\ Len(c.original.list) < Len(target[c.field].list)

AloneNow(t, c) ==
  \A u \in Threads \ {t} :
    change[u] # Idle /\ change[u].field = c.field => ~c.remove /\ ~change[u].remove

SwapInv ==
  /\ BridgeTypes /\ made > 0
  /\ \A f \in AllFields : ObjectOK(target[f])
  /\ \A t \in Threads : change[t] # Idle => ReadOK(change[t]) /\ AloneNow(t, change[t])

\* Taking away the last occurrence is the same for both.
LEMMA RemoveList ==
  ASSUME NEW d \in Delegates, NEW h \in Handlers
  PROVE  Remove(d, h).list = List!Without(d.list, h)
<1> DEFINE s == d.list
           is == {i \in DOMAIN s : s[i] = h}
           at == CHOOSE i \in is : \A j \in is : j <= i
           last == CHOOSE i \in DOMAIN s : s[i] = h /\ \A j \in DOMAIN s : s[j] = h => j <= i
           left == SubSeq(s, 1, at - 1) \o SubSeq(s, at + 1, Len(s))
<1>0. s \in Seq(Handlers) /\ Len(s) \in Nat /\ DOMAIN s = 1..Len(s)
  BY DEF Delegates
<1>1. CASE is = {}
  BY <1>1 DEF Remove, List!Without
<1>2. CASE is # {}
  <2>1. PICK top \in is : \A j \in is : j <= top
    BY <1>0, <1>2, LastExists
  <2>2. at \in is /\ \A j \in is : j <= at
    BY <2>1
  <2>3. last \in DOMAIN s /\ s[last] = h /\ \A j \in DOMAIN s : s[j] = h => j <= last
    BY <2>1
  <2>4. at = last
    <3>1. last \in is /\ at \in 1..Len(s) /\ last \in 1..Len(s)
      BY <1>0, <2>2, <2>3
    <3>2. at <= last /\ last <= at
      BY <2>2, <2>3, <3>1
    <3> HIDE DEF at, last
    <3> QED BY <3>1, <3>2
  <2>5. List!Without(s, h) = left
    <3>1. \E i \in DOMAIN s : s[i] = h
      BY <1>2
    <3>2. List!Without(s, h) = SubSeq(s, 1, last - 1) \o SubSeq(s, last + 1, Len(s))
      BY <3>1 DEF List!Without
    <3> HIDE DEF at, last
    <3> QED BY <2>4, <3>2
  <2>6. left \in Seq(Handlers)
    <3>1. at \in 1..Len(s)
      BY <1>0, <2>2
    <3> HIDE DEF at
    <3> QED BY <1>0, <3>1
  <2>7. Remove(d, h) = IF left = <<>> THEN Null
                       ELSE IF Len(left) = 1 THEN Single(left[1])
                       ELSE [object |-> made, list |-> left]
    BY <1>2 DEF Remove
  <2> HIDE DEF left
  <2>8. Len(left) = 1 => left = <<left[1]>>
    BY <2>6
  <2> QED BY <2>5, <2>7, <2>8 DEF Null, Single
<1> QED BY <1>1, <1>2

\* The change that HandlerList sees.
AskOf(c) == [field |-> c.field, handler |-> c.handler, remove |-> c.remove]

LEMMA NewValueList ==
  ASSUME NEW c \in Changing
  PROVE  /\ NewValue(c).list = List!Changed(c.original.list, AskOf(c))
         /\ ~c.remove => NewValue(c).list = Append(c.original.list, c.handler)
<1>1. c.original \in Delegates /\ c.handler \in Handlers
  BY DEF Changing
<1>2. CASE c.remove
  BY <1>1, <1>2, RemoveList DEF NewValue, List!Changed, AskOf
<1>3. CASE ~c.remove
  <2>1. Append(<<>>, c.handler) = <<c.handler>>
    OBVIOUS
  <2> QED BY <1>3, <2>1 DEF NewValue, List!Changed, AskOf, Combine, Single
<1> QED BY <1>2, <1>3

\* What Combine and Remove give: null, a handler's own delegate, a new object, or, if there
\* was nothing to remove, the delegate itself.
LEMMA NewValueObject ==
  ASSUME NEW c \in Changing
  PROVE  \/ NewValue(c) = Null
         \/ \E h \in Handlers : NewValue(c) = Single(h)
         \/ NewValue(c).object = made /\ NewValue(c).list # <<>>
         \/ c.remove /\ NewValue(c) = c.original
<1> DEFINE d == c.original
           h == c.handler
<1>1. d \in Delegates /\ h \in Handlers
  BY DEF Changing
<1>2. CASE ~c.remove
  <2>1. Append(d.list, h) # <<>>
    BY <1>1 DEF Delegates
  <2> QED BY <1>1, <1>2, <2>1 DEF NewValue, Combine
<1>3. CASE c.remove
  <2> DEFINE is == {i \in DOMAIN d.list : d.list[i] = h}
             at == CHOOSE i \in is : \A j \in is : j <= i
             left == SubSeq(d.list, 1, at - 1) \o SubSeq(d.list, at + 1, Len(d.list))
  <2>1. CASE is = {}
    BY <1>3, <2>1 DEF NewValue, Remove
  <2>2. CASE is # {}
    <3>1. Len(d.list) \in Nat /\ is \in SUBSET (1..Len(d.list))
      BY <1>1 DEF Delegates
    <3>2. at \in 1..Len(d.list)
      <4>1. \E i \in is : \A j \in is : j <= i
        BY <2>2, <3>1, LastExists
      <4> QED BY <3>1, <4>1
    <3>3. left \in Seq(Handlers)
      <4> HIDE DEF at
      <4> QED BY <1>1, <3>2 DEF Delegates
    <3>4. NewValue(c) = IF left = <<>> THEN Null
                        ELSE IF Len(left) = 1 THEN Single(left[1])
                        ELSE [object |-> made, list |-> left]
      BY <1>3, <2>2 DEF NewValue, Remove
    <3> HIDE DEF left
    <3>5. Len(left) = 1 => left[1] \in Handlers
      BY <3>3
    <3> QED BY <3>4, <3>5
  <2> QED BY <2>1, <2>2
<1> QED BY <1>2, <1>3

\* A new delegate keeps one object for one list.
LEMMA NewObjectOK ==
  ASSUME SwapInv, NEW c \in Changing, ObjectOK(c.original), made' = made + 1,
         NEW e, e = NewValue(c)
  PROVE  ObjectOK(e)'
<1>1. made \in Nat /\ made > 0
  BY DEF SwapInv, BridgeTypes
<1>2. CASE e = Null
  BY <1>1, <1>2, BridgeAssumption DEF Null, ObjectOK
<1>3. ASSUME NEW h \in Handlers, e = Single(h)
      PROVE  ObjectOK(e)'
  BY <1>1, <1>3, BridgeAssumption DEF Single, ObjectOK
<1>4. CASE e.object = made /\ e.list # <<>>
  BY <1>1, <1>4, BridgeAssumption DEF ObjectOK
<1>5. CASE e = c.original
  BY <1>1, <1>5 DEF ObjectOK
<1> QED BY <1>2, <1>3, <1>4, <1>5, NewValueObject

LEMMA AskKeepsSwapInv ==
  ASSUME Exclusive, HearInv, SwapInv, NEW t \in Threads, NEW f \in Fields, NEW h \in Handlers,
         NEW remove \in BOOLEAN, Ask(t, f, h, remove), HearInv'
  PROVE  SwapInv'
<1>1. f \in AllFields /\ UNCHANGED <<target, made>> /\ Alone(t, remove, f)
  BY BridgeAssumption DEF Ask
<1> PICK c \in Changing :
      c = [field |-> f, handler |-> h, remove |-> remove, original |-> target[f]]
  BY <1>1 DEF Changing, HearInv, BridgeTypes
<1>2. /\ c.field = f /\ c.remove = remove /\ c.original = target[f]
  OBVIOUS
<1>3. change'[t] = c /\ \A u \in Threads \ {t} : change'[u] = change[u]
  BY DEF Ask, SwapInv, BridgeTypes
<1>4. \A g \in AllFields : ObjectOK(target[g])'
  BY <1>1 DEF SwapInv, ObjectOK
<1>5. ReadOK(c)'
  BY <1>1, <1>2, <1>4 DEF ReadOK, ObjectOK
<1>6. AloneNow(t, c)'
  BY <1>1, <1>2, <1>3 DEF AloneNow, Alone
<1>7. ASSUME NEW u \in Threads \ {t}, change'[u] # Idle
      PROVE  ReadOK(change[u])' /\ AloneNow(u, change[u])'
  <2>1. ReadOK(change[u]) /\ AloneNow(u, change[u])
    BY <1>3, <1>7 DEF SwapInv
  <2>2. ReadOK(change[u])'
    BY <1>1, <1>3, <1>7, <2>1 DEF ReadOK, ObjectOK
  <2>3. AloneNow(u, change[u])'
    BY <1>1, <1>2, <1>3, <1>7, <2>1 DEF AloneNow, Alone
  <2> QED BY <2>2, <2>3
<1> QED BY <1>1, <1>3, <1>4, <1>5, <1>6, <1>7 DEF SwapInv, HearInv

\* The thread replaces the delegate that it has read, or reads the one that is there: what
\* the others have read is still that one, or older and shorter.
LEMMA SwapKeepsSwapInv ==
  ASSUME Exclusive, HearInv, SwapInv, NEW t \in Threads, Swap(t), HearInv'
  PROVE  SwapInv'
<1> PICK c \in Changing : c = change[t]
  BY DEF Swap, HearInv, BridgeTypes
<1> PICK d \in Delegates : d = target[c.field]
  BY DEF HearInv, BridgeTypes, Changing
<1>0. /\ c.field \in AllFields /\ c.original \in Delegates /\ made \in Nat /\ change[t] # Idle
      /\ ReadOK(c) /\ AloneNow(t, c) /\ ObjectOK(c.original) /\ ObjectOK(d)
  BY DEF SwapInv, HearInv, BridgeTypes, Changing, Swap, ReadOK
<1>1. \A u \in Threads \ {t} : change'[u] = change[u]
  BY DEF Swap, HearInv, BridgeTypes
<1>2. CASE ~Exchange(c, d)
  <2>1. UNCHANGED <<target, made>>
    BY <1>2 DEF Swap
  <2>2. change'[t] = Idle \/ (change'[t] = [c EXCEPT !.original = d])
    BY <1>2 DEF Swap, HearInv, BridgeTypes
  <2>3. ASSUME NEW u \in Threads, change'[u] # Idle
        PROVE  ReadOK(change[u])' /\ AloneNow(u, change[u])'
    <3>1. CASE u = t
      <4>1. /\ change'[t].field = c.field /\ change'[t].remove = c.remove
            /\ change'[t].original = d
        BY <2>2, <2>3, <3>1 DEF Changing
      <4> QED BY <1>0, <1>1, <2>1, <3>1, <4>1 DEF ReadOK, AloneNow, ObjectOK
    <3>2. CASE u # t
      <4>1. ReadOK(change[u]) /\ AloneNow(u, change[u])
        BY <1>1, <2>3, <3>2 DEF SwapInv
      <4>2. change'[t] # Idle => change'[t].field = c.field /\ change'[t].remove = c.remove
        BY <2>2 DEF Changing
      <4> QED BY <1>0, <1>1, <2>1, <2>3, <3>2, <4>1, <4>2 DEF ReadOK, AloneNow, ObjectOK
    <3> QED BY <3>1, <3>2
  <2> QED BY <2>1, <2>3 DEF SwapInv, HearInv, ObjectOK
<1>3. CASE Exchange(c, d)
  <2> PICK e \in Delegates : e = NewValue(c)
    BY NewValueType DEF HearInv
  <2>1. /\ target' = [target EXCEPT ![c.field] = e] /\ made' = made + 1
        /\ change'[t] = Idle
    BY <1>3 DEF Swap, HearInv, BridgeTypes
  <2>2. ObjectOK(e)'
    BY <1>0, <2>1, NewObjectOK
  <2>3. \A x : ObjectOK(x) => ObjectOK(x)'
    BY <1>0, <2>1 DEF ObjectOK
  <2>4. \A g \in AllFields : target'[g] = IF g = c.field THEN e ELSE target[g]
    BY <2>1 DEF HearInv, BridgeTypes
  <2>5. \A g \in AllFields : ObjectOK(target[g])'
    BY <2>2, <2>3, <2>4 DEF SwapInv, ObjectOK
  <2>6. ASSUME NEW u \in Threads, change'[u] # Idle
        PROVE  ReadOK(change[u])' /\ AloneNow(u, change[u])'
    <3>0. u # t /\ change'[u] = change[u]
      BY <1>1, <2>1, <2>6
    <3>1. ReadOK(change[u]) /\ AloneNow(u, change[u]) /\ change[u] \in Changing
      BY <2>6, <3>0 DEF SwapInv, HearInv, BridgeTypes
    <3>2. AloneNow(u, change[u])'
      BY <1>1, <2>1, <3>0, <3>1 DEF AloneNow
    <3> PICK b \in Changing : b = change[u]
      BY <3>1
    <3>3. ReadOK(b)'
      <4>1. ReadOK(b) /\ b.field \in AllFields /\ b.original \in Delegates
            /\ ObjectOK(b.original) /\ ObjectOK(b.original)'
        BY <2>3, <3>1 DEF ReadOK, Changing
      <4>2. CASE b.field # c.field
        <5>1. target'[b.field] = target[b.field]
          BY <2>4, <4>1, <4>2
        <5> QED BY <4>1, <5>1 DEF ReadOK
      <4>3. CASE b.field = c.field
        <5>1. ~b.remove /\ ~c.remove
          BY <1>0, <2>6, <3>0, <3>1, <4>3 DEF AloneNow
        <5>2. target'[b.field] = e
          BY <2>4, <4>1, <4>3
        <5>3. Len(e.list) = Len(d.list) + 1
          <6>1. c.original.list = d.list /\ c.handler \in Handlers /\ d.list \in Seq(Handlers)
            BY <1>0, <1>3 DEF Exchange, SameObject, ReadOK, Delegates, Changing
          <6>2. e.list = Append(d.list, c.handler)
            BY <5>1, <6>1, NewValueList
          <6> QED BY <6>1, <6>2
        <5>4. Len(b.original.list) < Len(e.list)
          BY <4>1, <4>3, <5>3 DEF ReadOK, Delegates
        <5>5. b.original.object = e.object => b.original.list = e.list
          <6>1. CASE e = Null
            BY <4>1, <6>1 DEF Null, ObjectOK
          <6>2. ASSUME NEW h \in Handlers, e = Single(h)
                PROVE  b.original.object = e.object => b.original.list = e.list
            BY <4>1, <6>2 DEF Single, ObjectOK
          <6>3. CASE e.object = made
            BY <1>0, <4>1, <6>3 DEF ObjectOK
          <6> QED BY <5>1, <6>1, <6>2, <6>3, NewValueObject
        <5> QED BY <4>1, <5>1, <5>2, <5>4, <5>5 DEF ReadOK
      <4> QED BY <4>2, <4>3
    <3> QED BY <3>0, <3>2, <3>3
  <2> QED BY <1>0, <2>1, <2>5, <2>6 DEF SwapInv, HearInv
<1> QED BY <1>2, <1>3

LEMMA SwapInvHolds ==
  ASSUME Exclusive
  PROVE  BridgeSpec => []SwapInv
<1>1. BridgeInit => SwapInv
  <2> SUFFICES ASSUME BridgeInit PROVE SwapInv
    OBVIOUS
  <2>1. Null \in Delegates /\ ObjectOK(Null)
    BY BridgeAssumption DEF BridgeInit, Null, Delegates, ObjectOK
  <2>2. BridgeTypes
    BY <2>1 DEF BridgeInit, BridgeTypes
  <2> QED BY <2>1, <2>2 DEF BridgeInit, SwapInv
<1>2. HearInv /\ HearInv' /\ SwapInv /\ [BridgeNext]_bvars => SwapInv'
  <2> SUFFICES ASSUME HearInv, HearInv', SwapInv, [BridgeNext]_bvars PROVE SwapInv'
    OBVIOUS
  <2>1. CASE UNCHANGED <<target, change, made>>
    BY <2>1 DEF HearInv, SwapInv, ObjectOK, ReadOK, AloneNow
  <2> QED BY <2>1, AskKeepsSwapInv, SwapKeepsSwapInv
          DEF BridgeNext, bvars, Receive, ReceiveError, Wrap, CallHandler, HandlerThrows,
              ReadOnEvent, SchemaMissing, Return
<1> QED BY <1>1, <1>2, HearInvHolds, PTL DEF BridgeSpec

\* If no handler is removed while another thread changes the same event, each addition and
\* removal takes effect once and as a whole, and is not undone (Callbacks.hpp:140-151).
THEOREM HandlerListIsImplemented ==
  ASSUME Exclusive
  PROVE  BridgeSpec => ImplementsHandlerList
<1> DEFINE lists == [f \in AllFields |-> target[f].list]
           asks == [t \in Threads |-> IF change[t] = Idle THEN Idle
                      ELSE [field |-> change[t].field, handler |-> change[t].handler,
                            remove |-> change[t].remove]]
<1>1. BridgeInit => List!Init
  BY DEF BridgeInit, Null, List!Init
<1>2. HearInv /\ SwapInv /\ [BridgeNext]_bvars => List!Next \/ UNCHANGED <<lists, asks>>
  <2> SUFFICES ASSUME HearInv, SwapInv, [BridgeNext]_bvars
               PROVE  List!Next \/ UNCHANGED <<lists, asks>>
    OBVIOUS
  <2>1. ASSUME NEW t \in Threads, NEW f \in Fields, NEW h \in Handlers, NEW remove \in BOOLEAN,
               Ask(t, f, h, remove)
        PROVE  List!Next
    <3> DEFINE a == [field |-> f, handler |-> h, remove |-> remove]
               c == [field |-> f, handler |-> h, remove |-> remove, original |-> target[f]]
    <3>1. a \in List!Change /\ a \in Asking
      BY BridgeAssumption DEF List!Change, Asking
    <3>2. c \in Changing
      BY BridgeAssumption DEF Changing, HearInv, BridgeTypes
    <3>3. /\ asks[t] = Idle /\ change' = [change EXCEPT ![t] = c] /\ UNCHANGED lists
      BY <2>1 DEF Ask
    <3>4. asks' = [asks EXCEPT ![t] = a]
      <4>1. c # Idle /\ c.field = f /\ c.handler = h /\ c.remove = remove
        BY <3>2, BridgeAssumption
      <4> HIDE DEF c
      <4> QED BY <3>3, <4>1 DEF HearInv, BridgeTypes
    <3> QED BY <3>1, <3>3, <3>4 DEF List!Next, List!Ask
  <2>2. ASSUME NEW t \in Threads, Swap(t)
        PROVE  List!Next \/ UNCHANGED <<lists, asks>>
    <3> PICK c \in Changing : c = change[t]
      BY <2>2 DEF Swap, HearInv, BridgeTypes
    <3> PICK d \in Delegates : d = target[c.field]
      BY DEF HearInv, BridgeTypes, Changing
    <3>0. c.field \in AllFields /\ c # Idle /\ ReadOK(c) /\ AskOf(c) # Idle /\ asks[t] = AskOf(c)
      BY <2>2, BridgeAssumption DEF Swap, SwapInv, AskOf, Asking, Changing
    <3>1. CASE Exchange(c, d)
      <4>1. /\ target' = [target EXCEPT ![c.field] = NewValue(c)]
            /\ change' = [change EXCEPT ![t] = Idle]
        BY <2>2, <3>1 DEF Swap
      <4>2. NewValue(c).list = List!Changed(d.list, AskOf(c))
        BY <3>0, <3>1, NewValueList DEF Exchange, SameObject, ReadOK
      <4>3. lists' = [lists EXCEPT ![c.field] = List!Changed(@, AskOf(c))]
        BY <3>0, <4>1, <4>2 DEF HearInv, BridgeTypes
      <4>4. asks' = [asks EXCEPT ![t] = Idle]
        BY <4>1 DEF HearInv, BridgeTypes
      <4>5. AskOf(c).field = c.field
        BY DEF AskOf
      <4> QED BY <3>0, <4>3, <4>4, <4>5 DEF List!Next, List!Apply
    <3>2. CASE ~Exchange(c, d)
      <4>1. ~SameList(d, c.original)
        BY <3>0, <3>2 DEF Exchange, SameObject, SameList, ReadOK, Delegates, Changing
      <4> DEFINE b == [c EXCEPT !.original = d]
      <4>2. UNCHANGED target /\ change' = [change EXCEPT ![t] = b]
        BY <2>2, <3>2, <4>1 DEF Swap
      <4>3. b \in Changing /\ b.field = c.field /\ b.handler = c.handler /\ b.remove = c.remove
        BY DEF Changing
      <4>4. asks' = asks
        <5>1. b # Idle
          BY <4>3, BridgeAssumption
        <5> HIDE DEF b
        <5> QED BY <3>0, <4>2, <4>3, <5>1 DEF HearInv, BridgeTypes, AskOf
      <4> QED BY <4>2, <4>4
    <3> QED BY <3>1, <3>2
  <2>3. CASE UNCHANGED <<target, change>>
    BY <2>3
  <2> QED BY <2>1, <2>2, <2>3
          DEF BridgeNext, bvars, Receive, ReceiveError, Wrap, CallHandler, HandlerThrows,
              ReadOnEvent, SchemaMissing, Return
<1> QED BY <1>1, <1>2, HearInvHolds, SwapInvHolds, PTL
        DEF BridgeSpec, ImplementsHandlerList, List!Spec
=============================================================================
