---------------------------- MODULE TraceSession ----------------------------
(***************************************************************************)
(* The life of krabs::trace<T> objects: the calls start(), open(),         *)
(* process(), stop() and ~trace() (krabs/trace.hpp), each a sequence of    *)
(* Event Tracing for Windows (ETW) calls made by details::trace_manager    *)
(* (krabs/etw.hpp), run by several threads of one or several processes     *)
(* against one ETW service.                                                *)
(*                                                                         *)
(* ETW itself is not part of the repository.  Its sessions (named, at most *)
(* one running per name) and consumer handles are modelled from the        *)
(* results the code tests for.                                             *)
(*                                                                         *)
(* A step is one ETW call, or one read or write of a member that another   *)
(* thread may change: nothing in trace<T> takes a lock.                    *)
(***************************************************************************)
EXTENDS Naturals

CONSTANTS
  Threads,       \* threads that call the library
  Traces,        \* krabs::trace objects, of one process or of several
  Names,         \* session names
  Sessions,      \* incarnations of sessions; also the values StartTrace returns
  Handles,       \* consumer handles OpenTrace can return
  INVALID,       \* INVALID_PROCESSTRACE_HANDLE
  ZERO,          \* what StartTrace stores on failure
  NoSession      \* no session is running

CONSTANTS
  Name,          \* [Traces -> Names], name_
  FileTraces,    \* traces with set_trace_filename()
  KernelTraces,  \* krabs::kernel_trace; the others are krabs::user_trace
  RundownTraces, \* traces with a provider that enables rundown events
  Admin,         \* traces of processes allowed to control sessions
  Runners,       \* [Traces -> SUBSET Threads], may call start, open, process
  Stoppers,      \* [Traces -> SUBSET Threads], may call stop and destroy
  Careful,       \* traces opened only while their client holds them closed
  Ops,           \* calls the clients make
  InitialSession \* [Names -> Sessions \cup {NoSession}], running at the start

CONSTANTS
  MaxCalls,      \* bound: calls of one thread
  MaxEvents,     \* bound: events delivered during one ProcessTrace
  MaxOutside     \* bound: sessions stopped by somebody else

AllOps == {"start", "open", "process", "stop", "destroy"}

ASSUME SessionAssumption ==
  /\ INVALID \notin Handles \cup Sessions
  /\ ZERO \notin Sessions
  /\ NoSession \notin Sessions
  /\ INVALID # ZERO

ASSUME ClientAssumption ==
  /\ Traces # {}
  /\ Name \in [Traces -> Names]
  /\ Runners \in [Traces -> SUBSET Threads]
  /\ Stoppers \in [Traces -> SUBSET Threads]
  /\ Ops \subseteq AllOps
  /\ InitialSession \in [Names -> Sessions \cup {NoSession}]

ASSUME BoundAssumption == MaxCalls \in Nat /\ MaxEvents \in Nat /\ MaxOutside \in Nat

VARIABLES
  pc,                  \* where each thread is; "idle" between calls
  op, cur,             \* the call a thread makes (made last), and its trace
  result,              \* how the last call ended: "ok" or the exception
  calls,               \* calls made by each thread
  status,              \* TRUE iff the thread's last CloseTrace succeeded
  proc,                \* the handle the thread last gave to ProcessTrace
  delivered,           \* events the thread's current ProcessTrace delivered
  registrationHandle_, \* the trace object's members
  sessionHandle_,
  eventsHandled_,
  life,                \* "alive", "destroyed", or "terminated" (~trace threw)
  session,             \* ETW: the session running under each name
  usedSessions,        \* ETW: incarnations that exist or have existed
  enabledIn,           \* ETW: sessions in which the providers were enabled
  hstate, hctx, hsess, \* ETW: state, Context and session of each handle
  outside,             \* sessions stopped by somebody else so far
  overlapped           \* history: traces with a stop() that ran while the
                       \* trace was being opened, or opened while it ran

threadVars == <<pc, op, cur, result, calls, status, proc, delivered>>
traceVars  == <<registrationHandle_, sessionHandle_, eventsHandled_, life>>
etwVars    == <<session, usedSessions, enabledIn, hstate, hctx, hsess, outside>>
vars       == <<threadVars, traceVars, etwVars, overlapped>>

PCs == {"idle", "register", "stopOld", "registerAgain", "probeOpen", "enable",
        "openTrace", "process", "rundown", "processTrace", "processing",
        "stopTrace", "close", "closeTrace", "closeClear"}

Exceptions == {"trace_already_registered", "need_to_be_admin_failure",
               "no_trace_sessions_remaining", "open_trace_failure",
               "unexpected_error", "callback_exception"}

Init ==
  /\ pc = [t \in Threads |-> "idle"]
  /\ op = [t \in Threads |-> "stop"]
  /\ cur = [t \in Threads |-> CHOOSE o \in Traces : TRUE]
  /\ result = [t \in Threads |-> "ok"]
  /\ calls = [t \in Threads |-> 0]
  /\ status = [t \in Threads |-> TRUE]
  /\ proc = [t \in Threads |-> INVALID]
  /\ delivered = [t \in Threads |-> 0]
  /\ registrationHandle_ = [o \in Traces |-> INVALID]
  /\ sessionHandle_ = [o \in Traces |-> INVALID]
  /\ eventsHandled_ = [o \in Traces |-> 0]
  /\ life = [o \in Traces |-> "alive"]
  /\ session = InitialSession
  /\ usedSessions = {InitialSession[n] : n \in Names} \ {NoSession}
  /\ enabledIn = {}
  /\ hstate = [h \in Handles |-> "unused"]
  /\ hctx = [h \in Handles |-> CHOOSE o \in Traces : TRUE]
  /\ hsess = [h \in Handles |-> NoSession]
  /\ outside = 0
  /\ overlapped = {}

-----------------------------------------------------------------------------
(* Helpers: control of a thread. *)

At(t, l) == pc[t] = l
Goto(t, l) == pc' = [pc EXCEPT ![t] = l] /\ UNCHANGED result

\* The call returns (r = "ok") or throws r.
Finish(t, r) == /\ pc' = [pc EXCEPT ![t] = "idle"]
                /\ result' = [result EXCEPT ![t] = r]

InCall(t, o) == pc[t] # "idle" /\ cur[t] = o
Stopping(t, o) == InCall(t, o) /\ op[t] \in {"stop", "destroy"}
Opening(t, o) ==
  InCall(t, o) /\ op[t] \in {"start", "open"} /\
  pc[t] \in {"register", "stopOld", "registerAgain", "probeOpen", "close",
            "closeTrace", "closeClear", "enable", "openTrace"}
Running(s) == \E n \in Names : session[n] = s
Busy(h) == \E t \in Threads : At(t, "processing") /\ proc[t] = h

-----------------------------------------------------------------------------
(* The client's calls.  Each enters the trace method and runs it up to its *)
(* first ETW call.                                                         *)

Call(t, o, c) ==
  /\ c \in Ops
  /\ At(t, "idle")
  /\ life[o] = "alive"
  /\ \A s \in Threads : InCall(s, o) => op[s] # "destroy"
  /\ calls[t] < MaxCalls
  /\ calls' = [calls EXCEPT ![t] = @ + 1]
  /\ op' = [op EXCEPT ![t] = c]
  /\ cur' = [cur EXCEPT ![t] = o]
  /\ overlapped' =
       IF \E s \in Threads : \/ (c \in {"start", "open"} /\ Stopping(s, o))
                            \/ (c = "stop" /\ Opening(s, o))
       THEN overlapped \cup {o} ELSE overlapped
  /\ UNCHANGED <<status, proc, delivered, registrationHandle_, sessionHandle_,
                 life, etwVars>>

\* Mutant of Start: opens without looking at sessionHandle_.
StartAlwaysOpens(t, o) ==
  /\ t \in Runners[o]
  /\ Call(t, o, "start")
  /\ eventsHandled_' = [eventsHandled_ EXCEPT ![o] = 0]
  /\ Goto(t, "register")

\* trace::start and trace_manager::start: open() only without a handle.
Start(t, o) ==
  /\ t \in Runners[o]
  /\ Call(t, o, "start")
  /\ eventsHandled_' = [eventsHandled_ EXCEPT ![o] = 0]
  /\ Goto(t, IF sessionHandle_[o] = INVALID THEN "register" ELSE "process")

\* trace::open.  A careful client opens a trace it knows to be closed: never
\* opened, or stopped by a stop() that has returned.
Open(t, o) ==
  /\ t \in Runners[o]
  /\ o \in Careful => /\ sessionHandle_[o] = INVALID
                      /\ \A s \in Threads : ~Stopping(s, o)
  /\ Call(t, o, "open")
  /\ eventsHandled_' = [eventsHandled_ EXCEPT ![o] = 0]
  /\ Goto(t, "register")

\* Mutant of Process: the count of an earlier run is kept.
ProcessKeepsCount(t, o) ==
  /\ t \in Runners[o]
  /\ Call(t, o, "process")
  /\ Goto(t, "process")
  /\ UNCHANGED eventsHandled_

\* trace::process.
Process(t, o) ==
  /\ t \in Runners[o]
  /\ Call(t, o, "process")
  /\ eventsHandled_' = [eventsHandled_ EXCEPT ![o] = 0]
  /\ Goto(t, "process")

\* trace::stop.
Stop(t, o) ==
  /\ t \in Stoppers[o]
  /\ Call(t, o, "stop")
  /\ Goto(t, "stopTrace")
  /\ UNCHANGED eventsHandled_

\* trace::~trace, by a client that lets no other call overlap it (see Call).
Destroy(t, o) ==
  /\ t \in Stoppers[o]
  /\ \A s \in Threads : ~InCall(s, o)
  /\ Call(t, o, "destroy")
  /\ Goto(t, "stopTrace")
  /\ UNCHANGED eventsHandled_

-----------------------------------------------------------------------------
(* register_trace(): StartTrace, stopping a session of the same name first.*)

StartTraceSucceeds(o, s) ==
  /\ session[Name[o]] = NoSession
  /\ o \in Admin
  /\ s \in Sessions \ usedSessions
  /\ session' = [session EXCEPT ![Name[o]] = s]
  /\ usedSessions' = usedSessions \cup {s}
  /\ registrationHandle_' = [registrationHandle_ EXCEPT ![o] = s]

\* StartTrace fails: the handle it was given is zeroed.
StartTraceFails(o) ==
  /\ registrationHandle_' = [registrationHandle_ EXCEPT ![o] = ZERO]
  /\ UNCHANGED <<session, usedSessions>>

\* The error StartTrace gives; "exists" is ERROR_ALREADY_EXISTS.
StartTraceError(o, e) ==
  \/ e = "exists" /\ session[Name[o]] # NoSession
  \/ e = "need_to_be_admin_failure" /\ session[Name[o]] = NoSession /\ o \notin Admin
  \/ e = "no_trace_sessions_remaining" /\ session[Name[o]] = NoSession /\ o \in Admin

NewSession == CHOOSE s \in Sessions : s \notin usedSessions

Register(t) ==
  LET o == cur[t] IN
  /\ pc[t] \in {"register", "registerAgain"}
  /\ \/ StartTraceSucceeds(o, NewSession) /\ Goto(t, "enable")
     \/ /\ StartTraceFails(o)
        /\ \E e \in Exceptions \cup {"exists"} :
             /\ StartTraceError(o, e)
             /\ IF e # "exists" THEN Finish(t, e)
                ELSE IF At(t, "register") THEN Goto(t, "stopOld")
                ELSE Finish(t, "trace_already_registered")
  /\ UNCHANGED <<op, cur, calls, status, proc, delivered, sessionHandle_,
                 eventsHandled_, life, enabledIn, hstate, hctx, hsess, outside, overlapped>>

\* Mutant of ControlStop: the session keeps running.
ControlStopForgotten(o, ok) ==
  /\ ok => o \in Admin \/ session[Name[o]] = NoSession
  /\ ~ok => o \notin Admin
  /\ UNCHANGED session

\* ControlTrace(STOP) by name.  ERROR_WMI_INSTANCE_NOT_FOUND counts as success.
\* Without the right to control sessions it fails with ERROR_ACCESS_DENIED or
\* ERROR_INVALID_PARAMETER, though a missing session may be reported first.
ControlStop(o, ok) ==
  /\ ok => o \in Admin \/ session[Name[o]] = NoSession
  /\ ~ok => o \notin Admin
  /\ session' = IF ok THEN [session EXCEPT ![Name[o]] = NoSession] ELSE session

\* The stop_trace() of register_trace(): a refusal is caught, and the session
\* is then only consumed, if it can be opened.
StopOld(t) ==
  /\ At(t, "stopOld")
  /\ \E ok \in BOOLEAN :
       /\ ControlStop(cur[t], ok)
       /\ Goto(t, IF ok THEN "registerAgain" ELSE "probeOpen")
  /\ UNCHANGED <<op, cur, calls, status, proc, delivered, traceVars,
                 usedSessions, enabledIn, hstate, hctx, hsess, outside, overlapped>>

-----------------------------------------------------------------------------
(* enable_providers() and open_trace().                                    *)

\* Mutant of Enable: the status is not checked.
EnableUnchecked(t) ==
  LET r == registrationHandle_[cur[t]] IN
  /\ At(t, "enable")
  /\ Goto(t, "openTrace")
  /\ \E new \in {{}, {r} \cap Sessions} : enabledIn' = enabledIn \cup new
  /\ UNCHANGED <<op, cur, calls, status, proc, delivered, traceVars, session,
                 usedSessions, hstate, hctx, hsess, outside, overlapped>>

\* EnableTraceEx2 and NtSetSystemInformation need a running session; they can
\* fail for other reasons too.  A user trace that registered no session skips
\* them (ut.hpp:127); a kernel trace does not, and what the system then
\* answers is not known.
Enable(t) ==
  LET r == registrationHandle_[cur[t]]
      skip == r = INVALID /\ cur[t] \notin KernelTraces IN
  /\ At(t, "enable")
  /\ \/ skip /\ Goto(t, "openTrace") /\ UNCHANGED enabledIn
     \/ /\ Running(r) \/ (r = INVALID /\ ~skip)
        /\ Goto(t, "openTrace")
        /\ enabledIn' = enabledIn \cup ({r} \cap Sessions)
     \/ ~skip /\ Finish(t, "unexpected_error") /\ UNCHANGED enabledIn
  /\ UNCHANGED <<op, cur, calls, status, proc, delivered, traceVars, session,
                 usedSessions, hstate, hctx, hsess, outside, overlapped>>

FreshHandle == CHOOSE h \in Handles : hstate[h] = "unused"

\* OpenTrace(): a handle on the file, or on whatever session runs under the
\* name now, possibly none: ProcessTrace then finds that out.
OpenTraceOK(o) ==
  LET h == FreshHandle IN
  /\ \E f \in Handles : hstate[f] = "unused"
  /\ hstate' = [hstate EXCEPT ![h] = "open"]
  /\ hctx' = [hctx EXCEPT ![h] = o]
  /\ hsess' = [hsess EXCEPT ![h] = IF o \in FileTraces THEN NoSession
                                   ELSE session[Name[o]]]
  /\ sessionHandle_' = [sessionHandle_ EXCEPT ![o] = h]

\* Mutant of OpenTraceFails: failure is taken to be a null handle.
OpenTraceFailsNull(o) ==
  /\ sessionHandle_' = [sessionHandle_ EXCEPT ![o] = ZERO]
  /\ UNCHANGED <<hstate, hctx, hsess>>

\* It fails for a missing file or session, for want of the right to consume or
\* of a resource.
OpenTraceFails(o) ==
  /\ sessionHandle_' = [sessionHandle_ EXCEPT ![o] = INVALID]
  /\ UNCHANGED <<hstate, hctx, hsess>>

\* Mutant of OpenTrace: the probe does not close its handle.
OpenTraceProbeOnly(t) ==
  /\ pc[t] \in {"openTrace", "probeOpen"}
  /\ \/ /\ OpenTraceOK(cur[t])
        /\ registrationHandle_' = [registrationHandle_ EXCEPT ![cur[t]] = INVALID]
        /\ IF At(t, "probeOpen") THEN Goto(t, "enable")
           ELSE IF op[t] = "start" THEN Goto(t, "process")
           ELSE Finish(t, "ok")
     \/ /\ OpenTraceFails(cur[t])
        /\ Finish(t, "open_trace_failure")
        /\ UNCHANGED registrationHandle_
  /\ UNCHANGED <<op, cur, calls, status, proc, delivered, eventsHandled_, life,
                 session, usedSessions, enabledIn, outside, overlapped>>

OpenTrace(t) ==
  /\ pc[t] \in {"openTrace", "probeOpen"}
  /\ \/ /\ OpenTraceOK(cur[t])
        /\ IF At(t, "probeOpen") THEN Goto(t, "close")
           ELSE IF op[t] = "start" THEN Goto(t, "process")
           ELSE Finish(t, "ok")
     \/ /\ OpenTraceFails(cur[t])
        /\ Finish(t, "open_trace_failure")
  /\ UNCHANGED <<op, cur, calls, status, proc, delivered, registrationHandle_,
                 eventsHandled_, life, session, usedSessions, enabledIn, outside, overlapped>>

-----------------------------------------------------------------------------
(* process_trace().                                                        *)

\* The check of sessionHandle_.
CheckHandle(t) ==
  /\ At(t, "process")
  /\ IF sessionHandle_[cur[t]] = INVALID THEN Finish(t, "open_trace_failure")
     ELSE Goto(t, "rundown")
  /\ UNCHANGED <<op, cur, calls, status, proc, delivered, traceVars, etwVars, overlapped>>

\* enable_rundown(): as Enable, and nothing at all if no provider asks for it.
Rundown(t) ==
  LET o == cur[t]
      r == registrationHandle_[o]
      skip == o \notin RundownTraces \/ (r = INVALID /\ o \notin KernelTraces) IN
  /\ At(t, "rundown")
  /\ \/ (skip \/ Running(r)) /\ Goto(t, "processTrace")
     \/ ~skip /\ Finish(t, "unexpected_error")
  /\ UNCHANGED <<op, cur, calls, status, proc, delivered, traceVars, etwVars, overlapped>>

\* ProcessTrace reads sessionHandle_ again.  It refuses a handle that is not
\* open or that another thread is processing, and a real-time handle that is
\* attached to no session.
CanProcess(h) ==
  /\ h \in Handles
  /\ hstate[h] = "open"
  /\ ~Busy(h)
  /\ hsess[h] # NoSession \/ hctx[h] \in FileTraces

ProcessTrace(t) ==
  LET h == sessionHandle_[cur[t]] IN
  /\ At(t, "processTrace")
  /\ proc' = [proc EXCEPT ![t] = h]
  /\ delivered' = [delivered EXCEPT ![t] = 0]
  /\ IF CanProcess(h) THEN Goto(t, "processing") ELSE Finish(t, "unexpected_error")
  /\ UNCHANGED <<op, cur, calls, status, traceVars, etwVars, overlapped>>

\* A handle closed during ProcessTrace goes when ProcessTrace leaves.
Release(t) ==
  hstate' = [hstate EXCEPT ![proc[t]] = IF @ = "closing" THEN "closed" ELSE @]

\* An event: trace_callback_thunk, trace::on_event.  Buffers that were already
\* filled are delivered even when the session or the handle is closed.
OnEvent(t) ==
  /\ At(t, "processing")
  /\ delivered[t] < MaxEvents
  /\ delivered' = [delivered EXCEPT ![t] = @ + 1]
  /\ eventsHandled_' = [eventsHandled_ EXCEPT ![hctx[proc[t]]] = @ + 1]
  /\ UNCHANGED <<op, cur, calls, status, proc, registrationHandle_, sessionHandle_,
                 life, session, usedSessions, enabledIn, hctx, hsess, outside, overlapped>>

Deliver(t) ==
  /\ OnEvent(t)
  /\ UNCHANGED <<pc, result, hstate>>

\* An exception of a user's callback unwinds ProcessTrace and the call.
CallbackThrows(t) ==
  /\ OnEvent(t)
  /\ Finish(t, "callback_exception")
  /\ Release(t)

\* ProcessTrace returns when the file ends, the session ends or the handle is
\* closed.
ProcessTraceReturns(t) ==
  /\ At(t, "processing")
  /\ \/ hctx[proc[t]] \in FileTraces
     \/ ~Running(hsess[proc[t]])
     \/ hstate[proc[t]] = "closing"
  /\ Release(t)
  /\ Finish(t, "ok")
  /\ UNCHANGED <<op, cur, calls, status, proc, delivered, traceVars, session,
                 usedSessions, enabledIn, hctx, hsess, outside, overlapped>>

-----------------------------------------------------------------------------
(* stop() and ~trace(): stop_trace(), then close_trace().  close_trace() is*)
(* also the end of the probe in register_trace().                          *)

\* ~trace is noexcept: an exception in it ends the process, and ETW closes
\* the handles of a process that ends.
EndStop(t, r, hs) ==
  LET o == cur[t] IN
  IF op[t] # "destroy" THEN UNCHANGED life /\ hstate' = hs
  ELSE IF r = "ok"
       THEN life' = [life EXCEPT ![o] = "destroyed"] /\ hstate' = hs
       ELSE /\ life' = [life EXCEPT ![o] = "terminated"]
            /\ hstate' = [h \in Handles |->
                 IF hs[h] # "unused" /\ hctx[h] = o THEN "closed" ELSE hs[h]]

\* Mutant of StopTrace: stop() without close_trace().
StopTraceOnly(t) ==
  /\ At(t, "stopTrace")
  /\ \E ok \in BOOLEAN :
       /\ ControlStop(cur[t], ok)
       /\ LET r == IF ok THEN "ok" ELSE "need_to_be_admin_failure" IN
          Finish(t, r) /\ EndStop(t, r, hstate)
  /\ UNCHANGED <<op, cur, calls, status, proc, delivered, registrationHandle_,
                 sessionHandle_, eventsHandled_, usedSessions, enabledIn, hctx,
                 hsess, outside, overlapped>>

\* A refused ControlTrace(STOP) throws before close_trace().
StopTrace(t) ==
  /\ At(t, "stopTrace")
  /\ \E ok \in BOOLEAN :
       /\ ControlStop(cur[t], ok)
       /\ IF ok THEN Goto(t, "close") /\ UNCHANGED <<life, hstate>>
          ELSE /\ Finish(t, "need_to_be_admin_failure")
               /\ EndStop(t, "need_to_be_admin_failure", hstate)
  /\ UNCHANGED <<op, cur, calls, status, proc, delivered, registrationHandle_,
                 sessionHandle_, eventsHandled_, usedSessions, enabledIn, hctx,
                 hsess, outside, overlapped>>

\* Mutant of AfterClose: the probe leaves the handle StartTrace zeroed.
AfterCloseKeepsZero(t, o) ==
  IF op[t] \in {"stop", "destroy"}
  THEN Finish(t, "ok") /\ EndStop(t, "ok", hstate) /\ UNCHANGED registrationHandle_
  ELSE Goto(t, "enable") /\ UNCHANGED <<life, hstate, registrationHandle_>>

\* After close_trace(): stop() returns, or the probe is over.
AfterClose(t, o) ==
  IF op[t] \in {"stop", "destroy"}
  THEN Finish(t, "ok") /\ EndStop(t, "ok", hstate) /\ UNCHANGED registrationHandle_
  ELSE /\ registrationHandle_' = [registrationHandle_ EXCEPT ![o] = INVALID]
       /\ Goto(t, "enable")
       /\ UNCHANGED <<life, hstate>>

\* Mutant of CheckClose: no check.
CheckCloseUnguarded(t) ==
  /\ At(t, "close")
  /\ Goto(t, "closeTrace")
  /\ UNCHANGED <<op, cur, calls, status, proc, delivered, traceVars, etwVars, overlapped>>

\* The check of sessionHandle_ in close_trace().
CheckClose(t) ==
  LET o == cur[t] IN
  /\ At(t, "close")
  /\ IF sessionHandle_[o] = INVALID THEN AfterClose(t, o)
     ELSE Goto(t, "closeTrace") /\ UNCHANGED <<life, hstate, registrationHandle_>>
  /\ UNCHANGED <<op, cur, calls, status, proc, delivered, sessionHandle_,
                 eventsHandled_, session, usedSessions, enabledIn, hctx, hsess,
                 outside, overlapped>>

\* Mutant of CloseTrace: the handle is forgotten without CloseTrace.
CloseTraceForgotten(t) ==
  /\ At(t, "closeTrace")
  /\ status' = [status EXCEPT ![t] = TRUE]
  /\ Goto(t, "closeClear")
  /\ UNCHANGED <<op, cur, calls, proc, delivered, traceVars, etwVars, overlapped>>

\* CloseTrace reads sessionHandle_ again.  On a handle being processed it
\* answers ERROR_CTX_CLOSE_PENDING, which counts as success; a handle that is
\* not open is an error, or still pending.
CloseTrace(t) ==
  LET h == sessionHandle_[cur[t]] IN
  /\ At(t, "closeTrace")
  /\ IF h \in Handles /\ hstate[h] = "open"
     THEN /\ status' = [status EXCEPT ![t] = TRUE]
          /\ hstate' = [hstate EXCEPT ![h] = IF Busy(h) THEN "closing" ELSE "closed"]
     ELSE /\ \E ok \in BOOLEAN :
               /\ ok => h \in Handles /\ hstate[h] = "closing"
               /\ status' = [status EXCEPT ![t] = ok]
          /\ UNCHANGED hstate
  /\ Goto(t, "closeClear")
  /\ UNCHANGED <<op, cur, calls, proc, delivered, traceVars, session,
                 usedSessions, enabledIn, hctx, hsess, outside, overlapped>>

\* sessionHandle_ is cleared, and only then the status is looked at.
ClearHandle(t) ==
  LET o == cur[t] IN
  /\ At(t, "closeClear")
  /\ sessionHandle_' = [sessionHandle_ EXCEPT ![o] = INVALID]
  /\ IF status[t] THEN AfterClose(t, o)
     ELSE /\ Finish(t, "unexpected_error")
          /\ EndStop(t, "unexpected_error", hstate)
          /\ UNCHANGED registrationHandle_
  /\ UNCHANGED <<op, cur, calls, status, proc, delivered, eventsHandled_, session,
                 usedSessions, enabledIn, hctx, hsess, outside, overlapped>>

-----------------------------------------------------------------------------
\* Another controller (logman, another program) stops a session.
OutsideStop(n) ==
  /\ outside < MaxOutside
  /\ session[n] # NoSession
  /\ outside' = outside + 1
  /\ session' = [session EXCEPT ![n] = NoSession]
  /\ UNCHANGED <<threadVars, traceVars, usedSessions, enabledIn, hstate, hctx, hsess,
                 overlapped>>

ClientCall(t, o) ==
  Start(t, o) \/ Open(t, o) \/ Process(t, o) \/ Stop(t, o) \/ Destroy(t, o)

\* The steps that follow once a call is made, other than the delivery of events.
Advance(t) ==
  \/ Register(t) \/ StopOld(t) \/ Enable(t) \/ OpenTrace(t)
  \/ CheckHandle(t) \/ Rundown(t) \/ ProcessTrace(t) \/ ProcessTraceReturns(t)
  \/ StopTrace(t) \/ CheckClose(t) \/ CloseTrace(t) \/ ClearHandle(t)

Next ==
  \/ \E t \in Threads, o \in Traces : ClientCall(t, o)
  \/ \E t \in Threads : Advance(t) \/ Deliver(t) \/ CallbackThrows(t)
  \/ \E n \in Names : OutsideStop(n)

Spec == Init /\ [][Next]_vars

\* A thread inside a call keeps running, and ProcessTrace returns when it has
\* a reason to.  Nobody is obliged to make a call, and no event need arrive.
FairSpec == Spec /\ \A t \in Threads : WF_vars(Advance(t))

-----------------------------------------------------------------------------
(* What the library promises.                                              *)

ThreadsOK ==
  /\ pc \in [Threads -> PCs]
  /\ op \in [Threads -> AllOps]
  /\ cur \in [Threads -> Traces]
  /\ result \in [Threads -> Exceptions \cup {"ok"}]
  /\ calls \in [Threads -> 0..MaxCalls]
  /\ status \in [Threads -> BOOLEAN]
  /\ proc \in [Threads -> Handles \cup {INVALID}]
  /\ delivered \in [Threads -> Nat]

TracesOK ==
  /\ registrationHandle_ \in [Traces -> Sessions \cup {INVALID, ZERO}]
  /\ sessionHandle_ \in [Traces -> Handles \cup {INVALID}]
  /\ eventsHandled_ \in [Traces -> Nat]
  /\ life \in [Traces -> {"alive", "destroyed", "terminated"}]
  /\ overlapped \subseteq Traces

EtwOK ==
  /\ session \in [Names -> Sessions \cup {NoSession}]
  /\ usedSessions \subseteq Sessions
  /\ enabledIn \subseteq Sessions
  /\ hstate \in [Handles -> {"unused", "open", "closing", "closed"}]
  /\ hctx \in [Handles -> Traces]
  /\ hsess \in [Handles -> Sessions \cup {NoSession}]
  /\ outside \in 0..MaxOutside

\* Every variable has the type of the member or of the ETW object it models.
TypeOK == ThreadsOK /\ TracesOK /\ EtwOK

OneThread(S) == \A s, t \in S : s = t

\* A trace used the way the documentation and the examples use one: it is not
\* opened while it is open, a single thread starts, opens and processes it, and
\* a single thread stops it; the same thread, unless the process may control
\* sessions, for otherwise the probe in register_trace() closes handles too.
Disciplined(o) ==
  /\ o \in Careful
  /\ \/ o \in Admin /\ OneThread(Runners[o]) /\ OneThread(Stoppers[o])
     \/ OneThread(Runners[o] \cup Stoppers[o])

\* Nobody else uses the session name of o.
OwnName(o) ==
  /\ InitialSession[Name[o]] = NoSession
  /\ \A u \in Traces : Name[u] = Name[o] => u = o

\* However a disciplined trace is started, stopped, restarted or interrupted by
\* an exception, its only open consumer handle is the one sessionHandle_ holds,
\* so that a later stop() closes it: open_trace() never overwrites an open
\* handle, and close_trace() never forgets one.
NoHandleLeak ==
  \A h \in Handles :
    hstate[h] = "open" /\ Disciplined(hctx[h]) => sessionHandle_[hctx[h]] = h

\* Between the check in close_trace() and the CloseTrace call that reads
\* sessionHandle_ again, nobody clears or closes the handle of a disciplined
\* trace: stop() never fails with unexpected_error.
NoStaleClose ==
  \A t \in Threads :
    At(t, "closeTrace") /\ Disciplined(cur[t]) =>
      sessionHandle_[cur[t]] \in Handles /\ hstate[sessionHandle_[cur[t]]] = "open"

\* The session of o runs although no call is in progress, the trace holds no
\* handle on it, and the last call of the thread that runs it was a call on o
\* that returned normally.
Orphaned(o) ==
  /\ Disciplined(o) /\ OwnName(o)
  /\ \A t \in Threads : ~InCall(t, o)
  /\ session[Name[o]] # NoSession
  /\ sessionHandle_[o] = INVALID
  /\ \A t \in Runners[o] : cur[t] = o /\ result[t] = "ok"

\* A session the library registered never outlives its trace unnoticed, if no
\* stop() has overlapped the opening of the trace: after start() and stop() have
\* returned normally, in whatever order their steps took place, it has ended.
NoOrphanSession == \A o \in Traces \ overlapped : ~Orphaned(o)

\* The same of every stop(): it "closes a trace session" (trace.hpp:207).
StopEndsSession == \A o \in Traces : ~Orphaned(o)

\* The events a real-time trace delivers come from the session it registered
\* and enabled its providers in, even if another thread stopped a session of
\* that name between StartTrace, EnableTraceEx2, OpenTrace and ProcessTrace.
ConsumesOwnSession ==
  \A t \in Threads :
    LET o == cur[t] IN
    At(t, "processing") /\ Disciplined(o) /\ OwnName(o) /\ o \notin FileTraces =>
      /\ hsess[proc[t]] = registrationHandle_[o]
      /\ hsess[proc[t]] \in enabledIn

\* While one thread processes a trace, eventsHandled_ counts the events of that
\* ProcessTrace: nobody resets it, and nothing of an earlier run is left.
EventsHandledExact ==
  \A t \in Threads :
    At(t, "processing") /\ OneThread(Runners[cur[t]]) =>
      eventsHandled_[cur[t]] = delivered[t]

\* stop() of a disciplined trace that returns normally leaves no open consumer
\* handle behind, whatever the thread that runs the trace did meanwhile.
StopReturnsClosed ==
  [][\A t \in Threads :
       /\ Stopping(t, cur[t]) /\ Disciplined(cur[t])
       /\ pc'[t] = "idle" /\ result'[t] = "ok"
       => \A h \in Handles : hctx'[h] = cur[t] => hstate'[h] # "open"]_vars

\* A stop() that finds a consumer handle ends with that handle closed and
\* ProcessTrace returned: the thread blocked in start() or process() comes back.
StopClosesHandle ==
  \A t \in Threads, h \in Handles :
    At(t, "stopTrace") /\ sessionHandle_[cur[t]] = h ~> hstate[h] = "closed"

\* A process that may not control sessions can consume a session that runs: its
\* user trace is refused by OpenTrace or stopped by a callback, and by nothing
\* else, because the probe leaves a registrationHandle_ that enable_providers()
\* and enable_rundown() recognise.
FallbackConsumes ==
  \A t \in Threads :
    LET o == cur[t] IN
    /\ o \notin Admin \cup KernelTraces \cup FileTraces
    /\ op[t] = "start" /\ calls[t] > 0 /\ At(t, "idle")
    /\ Disciplined(o)
    /\ session[Name[o]] \in Sessions /\ session[Name[o]] = InitialSession[Name[o]]
    => result[t] \in {"open_trace_failure", "callback_exception"}

\* The consumer of a disciplined trace behaves as TraceLifecycle says: it is
\* opened when there is none, processed by one thread when it is open, and
\* closed once.
LiveHandles(o) ==
  {h \in Handles : hctx[h] = o /\ hstate[h] \in {"open", "closing"}}

PhaseOf(o) ==
  IF LiveHandles(o) = {} THEN "closed"
  ELSE IF \E h \in LiveHandles(o) : hstate[h] = "closing" THEN "draining"
  ELSE IF \E h \in LiveHandles(o) : Busy(h) THEN "processing"
  ELSE "open"

Lifecycle == INSTANCE TraceLifecycle
  WITH Traces <- {o \in Traces : Disciplined(o)},
       phase  <- [o \in {u \in Traces : Disciplined(u)} |-> PhaseOf(o)]

ImplementsLifecycle == Lifecycle!Spec

=============================================================================
