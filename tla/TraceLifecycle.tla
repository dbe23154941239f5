--------------------------- MODULE TraceLifecycle ---------------------------
(***************************************************************************)
(* What a client of a disciplined krabs::trace may rely on: each trace has *)
(* at most one ETW consumer at a time, and that consumer goes through      *)
(*                                                                         *)
(*    closed --Open--> open --Begin--> processing --End--> open            *)
(*    open --Close--> closed                                               *)
(*    processing --CloseBusy--> draining --Drained--> closed               *)
(*                                                                         *)
(* whatever ETW answers, and whatever the thread that runs the trace and   *)
(* the thread that stops it do at the same time.  TraceSession implements  *)
(* it: see Lifecycle there.                                                *)
(***************************************************************************)
CONSTANT Traces

VARIABLE phase   \* of the consumer of each trace

Phases == {"closed", "open", "processing", "draining"}

Init == phase = [o \in Traces |-> "closed"]

Move(o, from, to) == phase[o] = from /\ phase' = [phase EXCEPT ![o] = to]

Open(o)      == Move(o, "closed", "open")
Begin(o)     == Move(o, "open", "processing")
End(o)       == Move(o, "processing", "open")
Close(o)     == Move(o, "open", "closed")
CloseBusy(o) == Move(o, "processing", "draining")
Drained(o)   == Move(o, "draining", "closed")

Next == \E o \in Traces :
  Open(o) \/ Begin(o) \/ End(o) \/ Close(o) \/ CloseBusy(o) \/ Drained(o)

Spec == Init /\ [][Next]_phase
=============================================================================
