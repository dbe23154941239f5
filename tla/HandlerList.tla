---------------------------- MODULE HandlerList ----------------------------
(***************************************************************************)
(* What an event of the .NET classes promises to the client: adding or     *)
(* removing a handler takes effect as a whole, at one moment between the   *)
(* call and its return, and no other call undoes it.                       *)
(***************************************************************************)
EXTENDS Sequences, Integers

CONSTANTS Fields, Handlers, Threads, Idle

VARIABLES
  handlers,   \* handlers[f]: the handlers of the event f, in the order they were added
  asked       \* asked[t]: the change that t is making, or Idle

Change == [field : Fields, handler : Handlers, remove : BOOLEAN]

\* Delegate.Remove takes the last occurrence
Without(s, h) ==
  IF \E i \in DOMAIN s : s[i] = h
  THEN LET at == CHOOSE i \in DOMAIN s : s[i] = h /\ \A j \in DOMAIN s : s[j] = h => j <= i
       IN  SubSeq(s, 1, at - 1) \o SubSeq(s, at + 1, Len(s))
  ELSE s

Changed(s, c) == IF c.remove THEN Without(s, c.handler) ELSE Append(s, c.handler)

Init ==
  /\ handlers = [f \in Fields |-> <<>>]
  /\ asked = [t \in Threads |-> Idle]

Ask(t, c) ==
  /\ asked[t] = Idle
  /\ asked' = [asked EXCEPT ![t] = c]
  /\ UNCHANGED handlers

Apply(t) ==
  /\ asked[t] # Idle
  /\ handlers' = [handlers EXCEPT ![asked[t].field] = Changed(@, asked[t])]
  /\ asked' = [asked EXCEPT ![t] = Idle]

Next == \E t \in Threads : Apply(t) \/ \E c \in Change : Ask(t, c)

Spec == Init /\ [][Next]_<<handlers, asked>>
=============================================================================
