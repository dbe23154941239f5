------------------------- MODULE TraceSessionProofs -------------------------
(***************************************************************************)
(* Theorems about TraceSession, for any number of threads, traces, names,  *)
(* sessions and handles.                                                   *)
(***************************************************************************)
EXTENDS TraceSession, TLAPS

-----------------------------------------------------------------------------
(* The inductive invariant.                                                *)

StopOps == {"stop", "destroy"}
OpenPCs == {"register", "stopOld", "registerAgain", "probeOpen", "enable", "openTrace"}
ClosePCs == {"close", "closeTrace", "closeClear"}

\* Who may be where: a stop runs in a stopper of the trace, anything else in a
\* runner, and only a call that opens the trace is in register_trace().
CallOK(t) ==
  pc[t] # "idle" =>
    /\ op[t] \in StopOps => t \in Stoppers[cur[t]] /\ pc[t] \in ClosePCs \cup {"stopTrace"}
    /\ op[t] \notin StopOps => t \in Runners[cur[t]] /\ pc[t] # "stopTrace"
    /\ pc[t] \in OpenPCs \cup ClosePCs => op[t] # "process"
    /\ pc[t] \in ClosePCs \cup {"probeOpen"} /\ op[t] \notin StopOps => cur[t] \notin Admin

\* The trace of a call exists, and nobody else uses it while it is destroyed.
LifeOK(t) ==
  pc[t] # "idle" =>
    /\ life[cur[t]] = "alive"
    /\ op[t] = "destroy" =>
         \A s \in Threads : pc[s] # "idle" /\ cur[s] = cur[t] => s = t

\* sessionHandle_ holds a handle that was opened for this trace.
HandleOK(o) ==
  sessionHandle_[o] # INVALID =>
    hstate[sessionHandle_[o]] # "unused" /\ hctx[sessionHandle_[o]] = o

\* A trace that is being opened has no handle yet.
OpeningOK(t) ==
  pc[t] \in OpenPCs /\ Disciplined(cur[t]) => sessionHandle_[cur[t]] = INVALID

\* Between CloseTrace and the assignment that follows it sessionHandle_ is stale.
ClearOK(t) ==
  pc[t] = "closeClear" /\ Disciplined(cur[t]) =>
    sessionHandle_[cur[t]] # INVALID /\ hstate[sessionHandle_[cur[t]]] # "open"

\* At every other time it is a handle that is open.
OpenOK(o) ==
  /\ Disciplined(o) /\ life[o] = "alive" /\ sessionHandle_[o] # INVALID
  /\ \A t \in Threads : ~(pc[t] = "closeClear" /\ cur[t] = o)
  => hstate[sessionHandle_[o]] = "open"

CallInv == \A t \in Threads : CallOK(t) /\ LifeOK(t)

HandleInv ==
  /\ \A t \in Threads : OpeningOK(t) /\ ClearOK(t)
  /\ \A o \in Traces : HandleOK(o) /\ OpenOK(o)
  /\ NoHandleLeak
  /\ NoStaleClose

IInv == TypeOK /\ CallInv /\ HandleInv

-----------------------------------------------------------------------------
(* Type correctness.                                                       *)

LEMMA FreshHandleIsUnused ==
  ASSUME \E h \in Handles : hstate[h] = "unused"
  PROVE  FreshHandle \in Handles /\ hstate[FreshHandle] = "unused"
  BY DEF FreshHandle

LEMMA InitTypeOK == Init => TypeOK
<1>1. (CHOOSE o \in Traces : TRUE) \in Traces
  BY ClientAssumption
<1>2. QED
  BY <1>1, SessionAssumption, ClientAssumption, BoundAssumption
  DEF Init, TypeOK, ThreadsOK, TracesOK, EtwOK, PCs, AllOps

\* Counting an event keeps eventsHandled_ a counter, wherever its Context points.
LEMMA OnEventTypeOK ==
  ASSUME TypeOK, NEW t \in Threads, OnEvent(t)
  PROVE  eventsHandled_' \in [Traces -> Nat] /\ delivered' \in [Threads -> Nat]
<1> DEFINE u == hctx[proc[t]]
<1>1. eventsHandled_' = [eventsHandled_ EXCEPT ![u] = @ + 1]
  BY DEF OnEvent
<1> HIDE DEF u
<1>2. eventsHandled_ \in [Traces -> Nat]
  BY DEF TypeOK, TracesOK
<1>3. u \in Traces => eventsHandled_[u] + 1 \in Nat
  BY <1>2
<1>4. delivered' = [delivered EXCEPT ![t] = @ + 1] /\ delivered \in [Threads -> Nat]
  BY DEF OnEvent, TypeOK, ThreadsOK
<1>5. delivered' \in [Threads -> Nat]
  BY <1>4
<1>6. eventsHandled_' \in [Traces -> Nat]
  BY <1>1, <1>2, <1>3
<1>7. QED
  BY <1>5, <1>6

\* What the end of a destructor changes.
LifeTypeOK ==
  /\ life \in [Traces -> {"alive", "destroyed", "terminated"}]
  /\ hstate \in [Handles -> {"unused", "open", "closing", "closed"}]

LEMMA EndStopTypeOK ==
  ASSUME TypeOK, NEW t \in Threads, NEW r, EndStop(t, r, hstate)
  PROVE  LifeTypeOK'
<1>1. LifeTypeOK
  BY DEF TypeOK, TracesOK, EtwOK, LifeTypeOK
<1>2. CASE op[t] # "destroy"
  BY <1>1, <1>2 DEF EndStop, LifeTypeOK
<1>3. CASE op[t] = "destroy" /\ r = "ok"
  BY <1>1, <1>3 DEF EndStop, LifeTypeOK
<1>4. CASE op[t] = "destroy" /\ r # "ok"
  <2>1. \A h \in Handles :
          (IF hstate[h] # "unused" /\ hctx[h] = cur[t] THEN "closed" ELSE hstate[h])
            \in {"unused", "open", "closing", "closed"}
    BY <1>1 DEF LifeTypeOK
  <2>2. hstate' \in [Handles -> {"unused", "open", "closing", "closed"}]
    BY <1>4, <2>1 DEF EndStop
  <2>3. life' \in [Traces -> {"alive", "destroyed", "terminated"}]
    BY <1>1, <1>4 DEF EndStop, LifeTypeOK
  <2>4. QED
    BY <2>2, <2>3 DEF LifeTypeOK
<1>5. QED
  BY <1>2, <1>3, <1>4

\* Every step keeps the types.
LEMMA NextTypeOK == TypeOK /\ [Next]_vars => TypeOK'
<1> SUFFICES ASSUME TypeOK, [Next]_vars PROVE TypeOK'
  OBVIOUS
<1> USE SessionAssumption, ClientAssumption, BoundAssumption
<1>1. ASSUME NEW t \in Threads, NEW o \in Traces, ClientCall(t, o) PROVE TypeOK'
  <2>1. CASE Start(t, o)
    BY <2>1 DEF Start, Call, Goto, TypeOK, ThreadsOK, TracesOK, EtwOK, etwVars, AllOps, PCs, At
  <2>2. CASE Open(t, o)
    BY <2>2 DEF Open, Call, Goto, TypeOK, ThreadsOK, TracesOK, EtwOK, etwVars, AllOps, PCs, At
  <2>3. CASE Process(t, o)
    BY <2>3 DEF Process, Call, Goto, TypeOK, ThreadsOK, TracesOK, EtwOK, etwVars, AllOps, PCs, At
  <2>4. CASE Stop(t, o)
    BY <2>4 DEF Stop, Call, Goto, TypeOK, ThreadsOK, TracesOK, EtwOK, etwVars, AllOps, PCs, At
  <2>5. CASE Destroy(t, o)
    BY <2>5 DEF Destroy, Call, Goto, TypeOK, ThreadsOK, TracesOK, EtwOK, etwVars, AllOps, PCs, At
  <2>6. QED
    BY <1>1, <2>1, <2>2, <2>3, <2>4, <2>5 DEF ClientCall
<1>2. ASSUME NEW t \in Threads, Register(t) PROVE TypeOK'
  <2> DEFINE o == cur[t]
  <2>1. \/ StartTraceSucceeds(o, NewSession)
        \/ StartTraceFails(o)
    BY <1>2 DEF Register
  <2>2. \/ Goto(t, "enable") \/ Goto(t, "stopOld")
        \/ \E e \in Exceptions : Finish(t, e)
    BY <1>2 DEF Register, Exceptions
  <2>3. UNCHANGED <<op, cur, calls, status, proc, delivered, sessionHandle_,
                    eventsHandled_, life, enabledIn, hstate, hctx, hsess, outside,
                    overlapped>>
    BY <1>2 DEF Register
  <2>4. ThreadsOK'
    BY <2>2, <2>3 DEF Goto, Finish, TypeOK, ThreadsOK, PCs
  <2>5. registrationHandle_' \in [Traces -> Sessions \cup {INVALID, ZERO}]
    BY <2>1 DEF StartTraceSucceeds, StartTraceFails, TypeOK, TracesOK
  <2>6. TracesOK'
    BY <2>3, <2>5 DEF TypeOK, TracesOK
  <2>7. /\ session' \in [Names -> Sessions \cup {NoSession}]
        /\ usedSessions' \subseteq Sessions
    BY <2>1 DEF StartTraceSucceeds, StartTraceFails, TypeOK, EtwOK
  <2>8. EtwOK'
    BY <2>3, <2>7 DEF TypeOK, EtwOK
  <2>9. QED
    BY <2>4, <2>6, <2>8 DEF TypeOK
<1>3. ASSUME NEW t \in Threads, StopOld(t) PROVE TypeOK'
  BY <1>3 DEF StopOld, ControlStop, Goto, TypeOK, ThreadsOK, TracesOK, EtwOK, PCs, At, traceVars
<1>4. ASSUME NEW t \in Threads, Enable(t) PROVE TypeOK'
  <2>1. Goto(t, "openTrace") \/ Finish(t, "unexpected_error")
    BY <1>4 DEF Enable
  <2>2. enabledIn' = enabledIn \/ enabledIn' = enabledIn \cup ({registrationHandle_[cur[t]]} \cap Sessions)
    BY <1>4 DEF Enable
  <2>3. UNCHANGED <<op, cur, calls, status, proc, delivered, traceVars, session,
                    usedSessions, hstate, hctx, hsess, outside, overlapped>>
    BY <1>4 DEF Enable
  <2>4. ThreadsOK'
    BY <2>1, <2>3 DEF Goto, Finish, TypeOK, ThreadsOK, PCs, Exceptions
  <2>5. TracesOK' /\ EtwOK'
    BY <2>2, <2>3 DEF TypeOK, TracesOK, EtwOK, traceVars
  <2>6. QED
    BY <2>4, <2>5 DEF TypeOK
<1>5. ASSUME NEW t \in Threads, OpenTrace(t) PROVE TypeOK'
  <2>1. \/ Goto(t, "close") \/ Goto(t, "process")
        \/ Finish(t, "ok") \/ Finish(t, "open_trace_failure")
    BY <1>5 DEF OpenTrace
  <2>2. UNCHANGED <<op, cur, calls, status, proc, delivered, registrationHandle_,
                    eventsHandled_, life, session, usedSessions, enabledIn, outside,
                    overlapped>>
    BY <1>5 DEF OpenTrace
  <2>3. ThreadsOK'
    BY <2>1, <2>2 DEF Goto, Finish, TypeOK, ThreadsOK, PCs, Exceptions
  <2>4. CASE OpenTraceOK(cur[t])
    <3>1. FreshHandle \in Handles
      BY <2>4, FreshHandleIsUnused DEF OpenTraceOK
    <3>2. cur[t] \in Traces /\ session[Name[cur[t]]] \in Sessions \cup {NoSession}
      BY DEF TypeOK, ThreadsOK, EtwOK
    <3>3. TracesOK' /\ EtwOK'
      BY <2>2, <2>4, <3>1, <3>2 DEF OpenTraceOK, TypeOK, TracesOK, EtwOK
    <3>4. QED
      BY <2>3, <3>3 DEF TypeOK
  <2>5. CASE OpenTraceFails(cur[t])
    <3>1. TracesOK' /\ EtwOK'
      BY <2>2, <2>5 DEF OpenTraceFails, TypeOK, TracesOK, EtwOK
    <3>2. QED
      BY <2>3, <3>1 DEF TypeOK
  <2>6. QED
    BY <1>5, <2>4, <2>5 DEF OpenTrace
<1>6. ASSUME NEW t \in Threads, CheckHandle(t) PROVE TypeOK'
  <2>1. Finish(t, "open_trace_failure") \/ Goto(t, "rundown")
    BY <1>6 DEF CheckHandle
  <2>2. UNCHANGED <<op, cur, calls, status, proc, delivered, traceVars, etwVars, overlapped>>
    BY <1>6 DEF CheckHandle
  <2>3. ThreadsOK'
    BY <2>1, <2>2 DEF Goto, Finish, TypeOK, ThreadsOK, PCs, Exceptions
  <2>4. TracesOK' /\ EtwOK'
    BY <2>2 DEF TypeOK, TracesOK, EtwOK, traceVars, etwVars
  <2>5. QED
    BY <2>3, <2>4 DEF TypeOK
<1>7. ASSUME NEW t \in Threads, Rundown(t) PROVE TypeOK'
  <2>1. Goto(t, "processTrace") \/ Finish(t, "unexpected_error")
    BY <1>7 DEF Rundown
  <2>2. UNCHANGED <<op, cur, calls, status, proc, delivered, traceVars, etwVars, overlapped>>
    BY <1>7 DEF Rundown
  <2>3. QED
    BY <2>1, <2>2 DEF Goto, Finish, TypeOK, ThreadsOK, TracesOK, EtwOK, PCs,
                      Exceptions, traceVars, etwVars
<1>8. ASSUME NEW t \in Threads, ProcessTrace(t) PROVE TypeOK'
  <2>1. Goto(t, "processing") \/ Finish(t, "unexpected_error")
    BY <1>8 DEF ProcessTrace
  <2>2. /\ proc' = [proc EXCEPT ![t] = sessionHandle_[cur[t]]]
        /\ delivered' = [delivered EXCEPT ![t] = 0]
        /\ UNCHANGED <<op, cur, calls, status, traceVars, etwVars, overlapped>>
    BY <1>8 DEF ProcessTrace
  <2>3. sessionHandle_[cur[t]] \in Handles \cup {INVALID}
    BY DEF TypeOK, ThreadsOK, TracesOK
  <2>4. ThreadsOK'
    BY <2>1, <2>2, <2>3 DEF Goto, Finish, TypeOK, ThreadsOK, PCs, Exceptions
  <2>5. TracesOK' /\ EtwOK'
    BY <2>2 DEF TypeOK, TracesOK, EtwOK, traceVars, etwVars
  <2>6. QED
    BY <2>4, <2>5 DEF TypeOK
<1>9. ASSUME NEW t \in Threads, ProcessTraceReturns(t) PROVE TypeOK'
  <2>1. /\ Release(t) /\ Finish(t, "ok")
        /\ UNCHANGED <<op, cur, calls, status, proc, delivered, traceVars, session,
                       usedSessions, enabledIn, hctx, hsess, outside, overlapped>>
    BY <1>9 DEF ProcessTraceReturns
  <2>2. hstate' \in [Handles -> {"unused", "open", "closing", "closed"}]
    BY <2>1 DEF Release, TypeOK, EtwOK
  <2>3. ThreadsOK'
    BY <2>1 DEF Finish, TypeOK, ThreadsOK, PCs
  <2>4. TracesOK' /\ EtwOK'
    BY <2>1, <2>2 DEF TypeOK, TracesOK, EtwOK, traceVars
  <2>5. QED
    BY <2>3, <2>4 DEF TypeOK
<1>10. ASSUME NEW t \in Threads, StopTrace(t) PROVE TypeOK'
  <2>1. Goto(t, "close") \/ Finish(t, "need_to_be_admin_failure")
    BY <1>10 DEF StopTrace
  <2>2. UNCHANGED <<op, cur, calls, status, proc, delivered, registrationHandle_, sessionHandle_,
                    eventsHandled_, usedSessions, enabledIn, hctx, hsess, outside, overlapped>>
    BY <1>10 DEF StopTrace
  <2>3. session' = [session EXCEPT ![Name[cur[t]]] = NoSession] \/ session' = session
    BY <1>10 DEF StopTrace, ControlStop
  <2>4. UNCHANGED <<life, hstate>> \/ EndStop(t, "need_to_be_admin_failure", hstate)
    BY <1>10 DEF StopTrace
  <2>5. ThreadsOK'
    BY <2>1, <2>2 DEF Goto, Finish, TypeOK, ThreadsOK, PCs, Exceptions
  <2>6. LifeTypeOK'
    BY <2>4, EndStopTypeOK DEF TypeOK, TracesOK, EtwOK, LifeTypeOK
  <2>7. TracesOK' /\ EtwOK'
    BY <2>2, <2>3, <2>6 DEF TypeOK, TracesOK, EtwOK, LifeTypeOK
  <2>8. QED
    BY <2>5, <2>7 DEF TypeOK
<1>11. ASSUME NEW t \in Threads, CheckClose(t) PROVE TypeOK'
  <2>1. Finish(t, "ok") \/ Goto(t, "enable") \/ Goto(t, "closeTrace")
    BY <1>11 DEF CheckClose, AfterClose
  <2>2. UNCHANGED <<op, cur, calls, status, proc, delivered, sessionHandle_, eventsHandled_,
                    session, usedSessions, enabledIn, hctx, hsess, outside, overlapped>>
    BY <1>11 DEF CheckClose
  <2>3. /\ UNCHANGED <<life, hstate>> \/ EndStop(t, "ok", hstate)
        /\ \/ registrationHandle_' = [registrationHandle_ EXCEPT ![cur[t]] = INVALID]
           \/ registrationHandle_' = registrationHandle_
    BY <1>11 DEF CheckClose, AfterClose
  <2>4. ThreadsOK'
    BY <2>1, <2>2 DEF Goto, Finish, TypeOK, ThreadsOK, PCs
  <2>5. LifeTypeOK'
    BY <2>3, EndStopTypeOK DEF TypeOK, TracesOK, EtwOK, LifeTypeOK
  <2>6. TracesOK' /\ EtwOK'
    BY <2>2, <2>3, <2>5 DEF TypeOK, TracesOK, EtwOK, LifeTypeOK
  <2>7. QED
    BY <2>4, <2>6 DEF TypeOK
<1>12. ASSUME NEW t \in Threads, CloseTrace(t) PROVE TypeOK'
  <2>1. Goto(t, "closeClear")
    BY <1>12 DEF CloseTrace
  <2>2. UNCHANGED <<op, cur, calls, proc, delivered, traceVars, session,
                    usedSessions, enabledIn, hctx, hsess, outside, overlapped>>
    BY <1>12 DEF CloseTrace
  <2>3. \E ok \in BOOLEAN : status' = [status EXCEPT ![t] = ok]
    BY <1>12 DEF CloseTrace
  <2>4. hstate' \in [Handles -> {"unused", "open", "closing", "closed"}]
    BY <1>12 DEF CloseTrace, TypeOK, EtwOK
  <2>5. status' \in [Threads -> BOOLEAN]
    BY <2>3 DEF TypeOK, ThreadsOK
  <2>6. ThreadsOK'
    BY <2>1, <2>2, <2>5 DEF Goto, TypeOK, ThreadsOK, PCs
  <2>7. TracesOK' /\ EtwOK'
    BY <2>2, <2>4 DEF TypeOK, TracesOK, EtwOK, traceVars
  <2>8. QED
    BY <2>6, <2>7 DEF TypeOK
<1>13. ASSUME NEW t \in Threads, ClearHandle(t) PROVE TypeOK'
  <2>1. Finish(t, "ok") \/ Goto(t, "enable") \/ Finish(t, "unexpected_error")
    BY <1>13 DEF ClearHandle, AfterClose
  <2>2. /\ UNCHANGED <<op, cur, calls, status, proc, delivered, eventsHandled_, session,
                       usedSessions, enabledIn, hctx, hsess, outside, overlapped>>
        /\ sessionHandle_' = [sessionHandle_ EXCEPT ![cur[t]] = INVALID]
    BY <1>13 DEF ClearHandle
  <2>3. /\ \/ UNCHANGED <<life, hstate>>
           \/ \E r \in {"ok", "unexpected_error"} : EndStop(t, r, hstate)
        /\ \/ registrationHandle_' = [registrationHandle_ EXCEPT ![cur[t]] = INVALID]
           \/ registrationHandle_' = registrationHandle_
    BY <1>13 DEF ClearHandle, AfterClose
  <2>4. ThreadsOK'
    BY <2>1, <2>2 DEF Goto, Finish, TypeOK, ThreadsOK, PCs, Exceptions
  <2>5. LifeTypeOK'
    BY <2>3, EndStopTypeOK DEF TypeOK, TracesOK, EtwOK, LifeTypeOK
  <2>6. TracesOK' /\ EtwOK'
    BY <2>2, <2>3, <2>5 DEF TypeOK, TracesOK, EtwOK, LifeTypeOK
  <2>7. QED
    BY <2>4, <2>6 DEF TypeOK
<1>14. ASSUME NEW t \in Threads, Deliver(t) PROVE TypeOK'
  BY <1>14, OnEventTypeOK DEF Deliver, OnEvent, TypeOK, ThreadsOK, TracesOK, EtwOK
<1>15. ASSUME NEW t \in Threads, CallbackThrows(t) PROVE TypeOK'
  <2>1. ThreadsOK'
    BY <1>15, OnEventTypeOK DEF CallbackThrows, OnEvent, Finish, TypeOK, ThreadsOK,
                                PCs, Exceptions
  <2>2. TracesOK'
    BY <1>15, OnEventTypeOK DEF CallbackThrows, OnEvent, TypeOK, TracesOK
  <2>3. EtwOK'
    BY <1>15 DEF CallbackThrows, OnEvent, Release, TypeOK, EtwOK
  <2>4. QED
    BY <2>1, <2>2, <2>3 DEF TypeOK
<1>16. ASSUME NEW n \in Names, OutsideStop(n) PROVE TypeOK'
  BY <1>16 DEF OutsideStop, TypeOK, ThreadsOK, TracesOK, EtwOK, threadVars, traceVars
<1>17. CASE UNCHANGED vars
  BY <1>17 DEF TypeOK, ThreadsOK, TracesOK, EtwOK, vars, threadVars, traceVars, etwVars
<1>18. QED
  BY <1>1, <1>2, <1>3, <1>4, <1>5, <1>6, <1>7, <1>8, <1>9, <1>10, <1>11, <1>12,
     <1>13, <1>14, <1>15, <1>16, <1>17 DEF Next, Advance

\* Type correctness: every member, and every object of ETW, keeps its type.
THEOREM TypeCorrect == Spec => []TypeOK
<1>1. Init => TypeOK
  BY InitTypeOK
<1>2. TypeOK /\ [Next]_vars => TypeOK'
  BY NextTypeOK
<1>3. QED
  BY <1>1, <1>2, PTL DEF Spec

-----------------------------------------------------------------------------
(* What a step of a thread inside a call does to its own control.          *)

RunPCs == {"process", "rundown", "processTrace", "processing"}

Follows(t, l) ==
  \/ l \in {"idle", pc[t]}
  \/ pc[t] \in OpenPCs /\ l \in OpenPCs \ {"probeOpen"}
  \/ pc[t] \in OpenPCs /\ l = "probeOpen" /\ cur[t] \notin Admin
  \/ pc[t] \in OpenPCs /\ l = "process"
  \/ pc[t] = "probeOpen" /\ l = "close"
  \/ pc[t] \in RunPCs /\ l \in RunPCs
  \/ pc[t] = "stopTrace" /\ l = "close"
  \/ pc[t] \in ClosePCs /\ l \in ClosePCs
  \/ pc[t] \in ClosePCs /\ op[t] \notin StopOps /\ l = "enable"

Inside(t) == Advance(t) \/ Deliver(t) \/ CallbackThrows(t)

\* A step inside a call keeps the call, and moves its program counter along.
LEMMA ThreadStep ==
  ASSUME TypeOK, NEW t \in Threads, Inside(t)
  PROVE  /\ op' = op /\ cur' = cur /\ pc[t] # "idle"
         /\ \E l \in PCs : pc' = [pc EXCEPT ![t] = l] /\ Follows(t, l)
<1> USE DEF Follows, PCs, OpenPCs, ClosePCs, RunPCs, StopOps, Goto, Finish, At
<1>1. CASE Register(t)
  <2>1. /\ op' = op /\ cur' = cur
        /\ pc[t] \in {"register", "registerAgain"}
        /\ Goto(t, "enable") \/ Goto(t, "stopOld") \/ \E e \in Exceptions : Finish(t, e)
    BY <1>1 DEF Register, Exceptions
  <2>2. QED
    BY <2>1
<1>2. CASE StopOld(t)
  <2>1. /\ op' = op /\ cur' = cur
        /\ pc[t] = "stopOld"
        /\ Goto(t, "registerAgain") \/ (Goto(t, "probeOpen") /\ cur[t] \notin Admin)
    BY <1>2 DEF StopOld, ControlStop
  <2>2. QED
    BY <2>1
<1>3. CASE Enable(t)
  <2>1. /\ op' = op /\ cur' = cur
        /\ pc[t] = "enable"
        /\ Goto(t, "openTrace") \/ Finish(t, "unexpected_error")
    BY <1>3 DEF Enable
  <2>2. QED
    BY <2>1
<1>4. CASE OpenTrace(t)
  <2>1. /\ op' = op /\ cur' = cur
        /\ pc[t] \in {"openTrace", "probeOpen"}
        /\ \/ pc[t] = "probeOpen" /\ Goto(t, "close")
           \/ Goto(t, "process") \/ Finish(t, "ok") \/ Finish(t, "open_trace_failure")
    BY <1>4 DEF OpenTrace
  <2>2. QED
    BY <2>1
<1>5. CASE CheckHandle(t)
  BY <1>5 DEF CheckHandle
<1>6. CASE Rundown(t)
  <2>1. /\ op' = op /\ cur' = cur
        /\ pc[t] = "rundown"
        /\ Goto(t, "processTrace") \/ Finish(t, "unexpected_error")
    BY <1>6 DEF Rundown
  <2>2. QED
    BY <2>1
<1>7. CASE ProcessTrace(t)
  <2>1. /\ op' = op /\ cur' = cur
        /\ pc[t] = "processTrace"
        /\ Goto(t, "processing") \/ Finish(t, "unexpected_error")
    BY <1>7 DEF ProcessTrace
  <2>2. QED
    BY <2>1
<1>8. CASE ProcessTraceReturns(t)
  BY <1>8 DEF ProcessTraceReturns
<1>9. CASE StopTrace(t)
  BY <1>9 DEF StopTrace
<1>10. CASE CheckClose(t)
  BY <1>10 DEF CheckClose, AfterClose
<1>11. CASE CloseTrace(t)
  BY <1>11 DEF CloseTrace
<1>12. CASE ClearHandle(t)
  BY <1>12 DEF ClearHandle, AfterClose
<1>13. CASE Deliver(t)
  <2>1. op' = op /\ cur' = cur /\ pc' = pc /\ pc[t] = "processing"
    BY <1>13 DEF Deliver, OnEvent
  <2>2. pc' = [pc EXCEPT ![t] = pc[t]] /\ pc[t] \in PCs
    BY <2>1 DEF TypeOK, ThreadsOK
  <2>3. QED
    BY <2>1, <2>2
<1>14. CASE CallbackThrows(t)
  BY <1>14 DEF CallbackThrows, OnEvent
<1>15. QED
  BY <1>1, <1>2, <1>3, <1>4, <1>5, <1>6, <1>7, <1>8, <1>9, <1>10, <1>11, <1>12,
     <1>13, <1>14 DEF Inside, Advance

\* A step inside a call changes no trace's life, but for the end of a destructor.
LEMMA LifeStep ==
  ASSUME TypeOK, NEW t \in Threads, Inside(t)
  PROVE  \/ life' = life
         \/ /\ op[t] = "destroy" /\ pc'[t] = "idle"
            /\ \E v : life' = [life EXCEPT ![cur[t]] = v]
<1> USE DEF EndStop, traceVars
<1>1. CASE StopTrace(t)
  BY <1>1 DEF StopTrace, Finish, TypeOK, ThreadsOK
<1>2. CASE CheckClose(t)
  BY <1>2 DEF CheckClose, AfterClose, Finish, TypeOK, ThreadsOK
<1>3. CASE ClearHandle(t)
  BY <1>3 DEF ClearHandle, AfterClose, Finish, TypeOK, ThreadsOK
<1>4. CASE Register(t) \/ StopOld(t) \/ Enable(t) \/ OpenTrace(t) \/ CheckHandle(t)
        \/ Rundown(t)
  BY <1>4 DEF Register, StopOld, Enable, OpenTrace, CheckHandle, Rundown
<1>5. CASE ProcessTrace(t) \/ ProcessTraceReturns(t) \/ CloseTrace(t) \/ Deliver(t)
        \/ CallbackThrows(t)
  BY <1>5 DEF ProcessTrace, ProcessTraceReturns, CloseTrace, Deliver, CallbackThrows, OnEvent
<1>6. QED
  BY <1>1, <1>2, <1>3, <1>4, <1>5 DEF Inside, Advance

\* A call that begins puts its thread at the start of the operation.
LEMMA CallStep ==
  ASSUME TypeOK, NEW t \in Threads, NEW o \in Traces, ClientCall(t, o)
  PROVE  /\ pc[t] = "idle" /\ life[o] = "alive"
         /\ \A s \in Threads : InCall(s, o) => op[s] # "destroy"
         /\ \E l \in PCs, c \in AllOps :
              /\ pc' = [pc EXCEPT ![t] = l]
              /\ op' = [op EXCEPT ![t] = c]
              /\ cur' = [cur EXCEPT ![t] = o]
              /\ \/ /\ c \in StopOps /\ l = "stopTrace" /\ t \in Stoppers[o]
                    /\ c = "destroy" => \A s \in Threads : ~InCall(s, o)
                 \/ c = "process" /\ l = "process" /\ t \in Runners[o]
                 \/ /\ c \in {"start", "open"} /\ t \in Runners[o]
                    /\ \/ l = "process"
                       \/ l = "register" /\ (o \in Careful => sessionHandle_[o] = INVALID)
         /\ UNCHANGED <<sessionHandle_, hstate, hctx, life>>
<1> USE DEF Call, Goto, At, PCs, AllOps, StopOps, etwVars
<1>1. CASE Start(t, o)
  BY <1>1 DEF Start
<1>2. CASE Open(t, o)
  BY <1>2 DEF Open
<1>3. CASE Process(t, o)
  BY <1>3 DEF Process
<1>4. CASE Stop(t, o)
  BY <1>4 DEF Stop
<1>5. CASE Destroy(t, o)
  BY <1>5 DEF Destroy
<1>6. QED
  BY <1>1, <1>2, <1>3, <1>4, <1>5 DEF ClientCall

-----------------------------------------------------------------------------
(* The calls: CallInv is inductive.                                        *)

LEMMA InitCallInv == Init => CallInv
<1> SUFFICES ASSUME Init PROVE CallInv
  OBVIOUS
<1>1. \A t \in Threads : pc[t] = "idle"
  BY DEF Init
<1>2. QED
  BY <1>1 DEF CallInv, CallOK, LifeOK

LEMMA NextCallInv == TypeOK /\ CallInv /\ [Next]_vars => CallInv'
<1> SUFFICES ASSUME TypeOK, CallInv, [Next]_vars PROVE CallInv'
  OBVIOUS
<1>1. ASSUME NEW t \in Threads, NEW o \in Traces, ClientCall(t, o) PROVE CallInv'
  <2>1. /\ pc[t] = "idle" /\ life[o] = "alive" /\ life' = life
        /\ \A s \in Threads : InCall(s, o) => op[s] # "destroy"
    BY <1>1, CallStep
  <2>2. PICK l \in PCs, c \in AllOps :
          /\ pc' = [pc EXCEPT ![t] = l]
          /\ op' = [op EXCEPT ![t] = c]
          /\ cur' = [cur EXCEPT ![t] = o]
          /\ \/ /\ c \in StopOps /\ l = "stopTrace" /\ t \in Stoppers[o]
                /\ c = "destroy" => \A s \in Threads : ~InCall(s, o)
             \/ c = "process" /\ l = "process" /\ t \in Runners[o]
             \/ /\ c \in {"start", "open"} /\ t \in Runners[o]
                /\ l \in {"process", "register"}
    BY <1>1, CallStep
  <2>3. /\ pc'[t] = l /\ op'[t] = c /\ cur'[t] = o
        /\ \A s \in Threads \ {t} : pc'[s] = pc[s] /\ op'[s] = op[s] /\ cur'[s] = cur[s]
    BY <2>2 DEF TypeOK, ThreadsOK
  <2>4. ASSUME NEW s \in Threads PROVE CallOK(s)'
    BY <2>2, <2>3 DEF CallInv, CallOK, StopOps, OpenPCs, ClosePCs
  <2>5. ASSUME NEW s \in Threads PROVE LifeOK(s)'
    <3>1. CASE s = t
      BY <2>1, <2>2, <2>3, <3>1 DEF LifeOK, InCall, StopOps
    <3>2. CASE s # t
      BY <2>1, <2>3, <3>2 DEF CallInv, LifeOK, InCall
    <3>3. QED
      BY <3>1, <3>2
  <2>6. QED
    BY <2>4, <2>5 DEF CallInv
<1>2. ASSUME NEW t \in Threads, Inside(t) PROVE CallInv'
  <2>1. op' = op /\ cur' = cur /\ pc[t] # "idle"
    BY <1>2, ThreadStep
  <2>2. PICK l \in PCs : pc' = [pc EXCEPT ![t] = l] /\ Follows(t, l)
    BY <1>2, ThreadStep
  <2>3. /\ pc'[t] = l
        /\ \A s \in Threads \ {t} : pc'[s] = pc[s]
    BY <2>2 DEF TypeOK, ThreadsOK
  <2>4. ASSUME NEW s \in Threads PROVE CallOK(s)'
    <3>1. CASE s = t
      <4>1. CallOK(t)
        BY DEF CallInv
      <4>2. QED
        BY <2>1, <2>2, <2>3, <3>1, <4>1
        DEF CallOK, Follows, StopOps, OpenPCs, ClosePCs, RunPCs
    <3>2. CASE s # t
      BY <2>1, <2>3, <3>2 DEF CallInv, CallOK
    <3>3. QED
      BY <3>1, <3>2
  <2>5. ASSUME NEW s \in Threads PROVE LifeOK(s)'
    <3>1. LifeOK(s) /\ LifeOK(t)
      BY DEF CallInv
    <3>2. pc'[s] # "idle" => pc[s] # "idle"
      BY <2>1, <2>3
    <3>3. pc'[s] # "idle" => life'[cur[s]] = "alive"
      <4>1. CASE life' = life
        BY <3>1, <3>2, <4>1 DEF LifeOK
      <4>2. CASE /\ op[t] = "destroy" /\ pc'[t] = "idle"
                 /\ \E v : life' = [life EXCEPT ![cur[t]] = v]
        <5>1. pc'[s] # "idle" => cur[s] # cur[t]
          BY <2>1, <3>1, <3>2, <4>2 DEF LifeOK
        <5>2. cur[s] \in Traces /\ life \in [Traces -> {"alive", "destroyed", "terminated"}]
          BY DEF TypeOK, ThreadsOK, TracesOK
        <5>3. QED
          BY <3>1, <3>2, <4>2, <5>1, <5>2 DEF LifeOK
      <4>3. QED
        BY <1>2, <4>1, <4>2, LifeStep
    <3>4. QED
      BY <2>1, <2>3, <3>1, <3>2, <3>3 DEF LifeOK
  <2>6. QED
    BY <2>4, <2>5 DEF CallInv
<1>3. ASSUME NEW n \in Names, OutsideStop(n) PROVE CallInv'
  BY <1>3 DEF OutsideStop, CallInv, CallOK, LifeOK, threadVars, traceVars
<1>4. CASE UNCHANGED vars
  BY <1>4 DEF CallInv, CallOK, LifeOK, vars, threadVars, traceVars
<1>5. QED
  BY <1>1, <1>2, <1>3, <1>4 DEF Next, Inside

-----------------------------------------------------------------------------
(* The handles: HandleInv is inductive.                                    *)

\* A disciplined trace is opened by one thread and closed by one thread.
LEMMA OneOpener ==
  ASSUME TypeOK, CallInv, NEW s \in Threads, NEW t \in Threads,
         cur[s] = cur[t], Disciplined(cur[t]), pc[s] \in OpenPCs, pc[t] \in OpenPCs
  PROVE  s = t
<1>1. s \in Runners[cur[t]] /\ t \in Runners[cur[t]]
  BY DEF CallInv, CallOK, OpenPCs, StopOps, ClosePCs
<1>2. QED
  BY <1>1 DEF Disciplined, OneThread

LEMMA OneCloser ==
  ASSUME TypeOK, CallInv, NEW s \in Threads, NEW t \in Threads,
         cur[s] = cur[t], Disciplined(cur[t]), pc[s] \in ClosePCs, pc[t] \in ClosePCs
  PROVE  s = t
<1> DEFINE o == cur[t]
<1>1. /\ s \in Stoppers[o] \/ (s \in Runners[o] /\ o \notin Admin)
      /\ t \in Stoppers[o] \/ (t \in Runners[o] /\ o \notin Admin)
  BY DEF CallInv, CallOK, StopOps, ClosePCs
<1>2. CASE o \in Admin /\ OneThread(Stoppers[o])
  BY <1>1, <1>2 DEF OneThread
<1>3. CASE OneThread(Runners[o] \cup Stoppers[o])
  BY <1>1, <1>3 DEF OneThread
<1>4. QED
  BY <1>2, <1>3 DEF Disciplined

LEMMA InitHandleInv == Init => HandleInv
<1> SUFFICES ASSUME Init PROVE HandleInv
  OBVIOUS
<1>1. /\ \A t \in Threads : pc[t] = "idle"
      /\ \A o \in Traces : sessionHandle_[o] = INVALID
      /\ \A h \in Handles : hstate[h] = "unused"
  BY DEF Init
<1>2. TypeOK
  BY InitTypeOK
<1>3. QED
  BY <1>1, <1>2 DEF HandleInv, OpeningOK, ClearOK, HandleOK, OpenOK, NoHandleLeak,
                    NoStaleClose, OpenPCs, At, TypeOK, ThreadsOK, TracesOK

\* A step of t that leaves the handles alone.
SameState(h) ==
  /\ (hstate'[h] = "open") <=> (hstate[h] = "open")
  /\ (hstate'[h] = "unused") <=> (hstate[h] = "unused")

QuietStep(t) ==
  /\ UNCHANGED <<sessionHandle_, hctx>>
  /\ \A h \in Handles : SameState(h)
  /\ \A o \in Traces : life'[o] = "alive" => life[o] = "alive"
  /\ \A s \in Threads \ {t} : pc'[s] = pc[s] /\ cur'[s] = cur[s]
  /\ pc[t] # "closeClear" /\ pc'[t] # "closeClear"
  /\ pc'[t] \in OpenPCs /\ Disciplined(cur'[t]) => sessionHandle_[cur'[t]] = INVALID
  /\ pc'[t] = "closeTrace" =>
       pc[t] = "close" /\ cur'[t] = cur[t] /\ sessionHandle_[cur[t]] # INVALID

LEMMA QuietKeeps ==
  ASSUME TypeOK, TypeOK', CallInv, HandleInv, NEW t \in Threads, QuietStep(t)
  PROVE  HandleInv'
<1> USE DEF QuietStep, SameState
<1>1. ASSUME NEW s \in Threads PROVE OpeningOK(s)'
  BY DEF HandleInv, OpeningOK
<1>2. ASSUME NEW s \in Threads PROVE ClearOK(s)'
  BY DEF HandleInv, ClearOK, TypeOK, TracesOK, ThreadsOK
<1>3. ASSUME NEW o \in Traces PROVE HandleOK(o)'
  BY DEF HandleInv, HandleOK, TypeOK, TracesOK
<1>4. ASSUME NEW o \in Traces PROVE OpenOK(o)'
  <2>1. ASSUME \A s \in Threads : ~(pc'[s] = "closeClear" /\ cur'[s] = o)
        PROVE  \A s \in Threads : ~(pc[s] = "closeClear" /\ cur[s] = o)
    BY <2>1
  <2>2. sessionHandle_[o] \in Handles \cup {INVALID} /\ OpenOK(o)
    BY DEF HandleInv, TypeOK, TracesOK
  <2>3. QED
    BY <2>1, <2>2 DEF OpenOK
<1>5. NoHandleLeak'
  BY DEF HandleInv, NoHandleLeak
<1>6. ASSUME NEW s \in Threads, pc'[s] = "closeTrace", Disciplined(cur'[s])
      PROVE  /\ sessionHandle_'[cur'[s]] \in Handles
             /\ hstate'[sessionHandle_'[cur'[s]]] = "open"
  <2>1. CASE s # t
    BY <1>6, <2>1 DEF HandleInv, NoStaleClose, At
  <2>2. CASE s = t
    <3> DEFINE o == cur[t]
    <3>1. pc[t] = "close" /\ cur'[t] = o /\ sessionHandle_[o] # INVALID /\ Disciplined(o)
      BY <1>6, <2>2
    <3>2. o \in Traces /\ sessionHandle_[o] \in Handles
      BY <3>1 DEF TypeOK, ThreadsOK, TracesOK
    <3>3. \A r \in Threads : ~(pc[r] = "closeClear" /\ cur[r] = o)
      BY <3>1, OneCloser DEF ClosePCs
    <3>4. life[o] = "alive"
      BY <3>1 DEF CallInv, LifeOK
    <3>5. hstate[sessionHandle_[o]] = "open"
      BY <3>1, <3>2, <3>3, <3>4 DEF HandleInv, OpenOK
    <3>6. QED
      BY <2>2, <3>1, <3>2, <3>5
  <2>3. QED
    BY <2>1, <2>2
<1>7. NoStaleClose'
  BY <1>6 DEF NoStaleClose, At
<1>8. QED
  BY <1>1, <1>2, <1>3, <1>4, <1>5, <1>7 DEF HandleInv

\* The step of each action that touches a handle.
OpenedStep(t) ==
  LET o == cur[t]
      h == FreshHandle IN
  /\ pc[t] \in {"openTrace", "probeOpen"} /\ pc'[t] \in {"close", "process", "idle"}
  /\ h \in Handles /\ hstate[h] = "unused"
  /\ hstate' = [hstate EXCEPT ![h] = "open"]
  /\ hctx' = [hctx EXCEPT ![h] = o]
  /\ sessionHandle_' = [sessionHandle_ EXCEPT ![o] = h]
  /\ life' = life

OpenFailedStep(t) ==
  /\ pc[t] \in {"openTrace", "probeOpen"} /\ pc'[t] = "idle"
  /\ sessionHandle_' = [sessionHandle_ EXCEPT ![cur[t]] = INVALID]
  /\ UNCHANGED <<hstate, hctx, life>>

ClosedStep(t) ==
  LET h == sessionHandle_[cur[t]] IN
  /\ pc[t] = "closeTrace" /\ pc'[t] = "closeClear"
  /\ IF h \in Handles /\ hstate[h] = "open"
     THEN \E x \in {"closing", "closed"} : hstate' = [hstate EXCEPT ![h] = x]
     ELSE hstate' = hstate
  /\ UNCHANGED <<sessionHandle_, hctx, life>>

\* What ends a trace: its process has closed all its handles.
Terminated(o) ==
  /\ life' = [life EXCEPT ![o] = "terminated"]
  /\ hstate' = [h \in Handles |->
       IF hstate[h] # "unused" /\ hctx[h] = o THEN "closed" ELSE hstate[h]]

ClearedStep(t) ==
  /\ pc[t] = "closeClear" /\ pc'[t] \in {"idle", "enable"}
  /\ sessionHandle_' = [sessionHandle_ EXCEPT ![cur[t]] = INVALID]
  /\ hctx' = hctx
  /\ \/ Terminated(cur[t])
     \/ /\ hstate' = hstate
        /\ life' = life \/ life' = [life EXCEPT ![cur[t]] = "destroyed"]

TerminatedStep(t) ==
  /\ op[t] = "destroy" /\ pc[t] = "stopTrace" /\ pc'[t] = "idle"
  /\ UNCHANGED <<sessionHandle_, hctx>>
  /\ Terminated(cur[t])

LEMMA OpenedKeeps ==
  ASSUME TypeOK, TypeOK', CallInv, HandleInv, NEW t \in Threads, OpenedStep(t),
         cur' = cur, \A s \in Threads \ {t} : pc'[s] = pc[s]
  PROVE  HandleInv'
<1> DEFINE o == cur[t]
           h == FreshHandle
<1>1. o \in Traces
  BY DEF TypeOK, ThreadsOK
<1>2. /\ h \in Handles /\ hstate[h] = "unused" /\ hstate'[h] = "open"
      /\ hctx'[h] = o /\ sessionHandle_'[o] = h
      /\ \A k \in Handles \ {h} : hstate'[k] = hstate[k] /\ hctx'[k] = hctx[k]
      /\ \A u \in Traces \ {o} : sessionHandle_'[u] = sessionHandle_[u]
      /\ pc[t] \in OpenPCs /\ pc'[t] \in {"close", "process", "idle"} /\ life' = life
  BY <1>1 DEF OpenedStep, TypeOK, TracesOK, EtwOK, OpenPCs
<1>3. Disciplined(o) => sessionHandle_[o] = INVALID
  BY <1>2 DEF HandleInv, OpeningOK
<1>4. \A u \in Traces : sessionHandle_[u] # h
  BY <1>2, SessionAssumption DEF HandleInv, HandleOK
<1>5. \A u \in Traces : sessionHandle_[u] \in Handles \cup {INVALID}
  BY DEF TypeOK, TracesOK
<1> HIDE DEF h
<1>6. ASSUME NEW s \in Threads PROVE OpeningOK(s)' /\ ClearOK(s)'
  <2>1. CASE s = t
    BY <1>2, <2>1 DEF OpeningOK, ClearOK, OpenPCs
  <2>2. CASE s # t /\ cur[s] = o /\ Disciplined(o)
    <3>1. pc[s] \notin OpenPCs
      BY <1>2, <2>2, OneOpener
    <3>2. pc[s] # "closeClear"
      BY <1>3, <2>2 DEF HandleInv, ClearOK
    <3>3. QED
      BY <2>2, <3>1, <3>2 DEF OpeningOK, ClearOK
  <2>3. CASE s # t /\ cur[s] # o
    <3>1. cur[s] \in Traces
      BY DEF TypeOK, ThreadsOK
    <3>2. QED
      BY <1>2, <1>4, <1>5, <2>3, <3>1 DEF HandleInv, OpeningOK, ClearOK
  <2>4. CASE s # t /\ cur[s] = o /\ ~Disciplined(o)
    BY <2>4 DEF OpeningOK, ClearOK
  <2>5. QED
    BY <2>1, <2>2, <2>3, <2>4
<1>7. ASSUME NEW u \in Traces PROVE HandleOK(u)' /\ OpenOK(u)'
  <2>1. CASE u = o
    BY <1>2, <2>1 DEF HandleOK, OpenOK
  <2>2. CASE u # o
    <3>1. (\A s \in Threads : ~(pc[s] = "closeClear" /\ cur[s] = u)) <=>
          (\A s \in Threads : ~(pc'[s] = "closeClear" /\ cur'[s] = u))
      BY <1>2, <2>2
    <3>2. QED
      BY <1>2, <1>4, <1>5, <2>2, <3>1 DEF HandleInv, HandleOK, OpenOK
  <2>3. QED
    BY <2>1, <2>2
<1>8. NoHandleLeak'
  <2>1. ASSUME NEW k \in Handles, hstate'[k] = "open", Disciplined(hctx'[k])
        PROVE  sessionHandle_'[hctx'[k]] = k
    <3>1. CASE k = h
      BY <1>2, <3>1
    <3>2. CASE k # h
      <4>1. sessionHandle_[hctx[k]] = k /\ hctx'[k] = hctx[k] /\ hctx[k] \in Traces
        BY <1>2, <2>1, <3>2 DEF HandleInv, NoHandleLeak, TypeOK, EtwOK
      <4>2. hctx[k] # o
        BY <1>2, <1>3, <2>1, <3>2, <4>1, SessionAssumption
      <4>3. QED
        BY <1>2, <4>1, <4>2
    <3>3. QED
      BY <3>1, <3>2
  <2>2. QED
    BY <2>1 DEF NoHandleLeak
<1>9. NoStaleClose'
  <2>1. ASSUME NEW s \in Threads, pc'[s] = "closeTrace", Disciplined(cur[s])
        PROVE  sessionHandle_'[cur[s]] \in Handles /\ hstate'[sessionHandle_'[cur[s]]] = "open"
    <3>1. s # t /\ pc[s] = "closeTrace" /\ cur[s] \in Traces
      BY <1>2, <2>1 DEF TypeOK, ThreadsOK
    <3>2. sessionHandle_[cur[s]] \in Handles /\ hstate[sessionHandle_[cur[s]]] = "open"
      BY <2>1, <3>1 DEF HandleInv, NoStaleClose, At
    <3>3. QED
      BY <1>2, <2>1, <3>1, <3>2
  <2>2. QED
    BY <2>1 DEF NoStaleClose, At
<1>10. QED
  BY <1>6, <1>7, <1>8, <1>9 DEF HandleInv

LEMMA OpenFailedKeeps ==
  ASSUME TypeOK, TypeOK', CallInv, HandleInv, NEW t \in Threads, OpenFailedStep(t),
         cur' = cur, \A s \in Threads \ {t} : pc'[s] = pc[s]
  PROVE  HandleInv'
<1> DEFINE o == cur[t]
<1>1. o \in Traces
  BY DEF TypeOK, ThreadsOK
<1>2. /\ pc[t] \in OpenPCs /\ pc'[t] = "idle" /\ hstate' = hstate /\ hctx' = hctx
      /\ life' = life /\ sessionHandle_'[o] = INVALID
      /\ \A u \in Traces \ {o} : sessionHandle_'[u] = sessionHandle_[u]
  BY <1>1 DEF OpenFailedStep, TypeOK, TracesOK, OpenPCs
<1>3. Disciplined(o) => sessionHandle_[o] = INVALID
  BY <1>2 DEF HandleInv, OpeningOK
<1>4. ASSUME NEW s \in Threads PROVE OpeningOK(s)' /\ ClearOK(s)'
  <2>1. cur[s] \in Traces
    BY DEF TypeOK, ThreadsOK
  <2>2. QED
    BY <1>2, <1>3, <2>1 DEF HandleInv, OpeningOK, ClearOK, OpenPCs
<1>5. ASSUME NEW u \in Traces PROVE HandleOK(u)' /\ OpenOK(u)'
  <2>1. (\A s \in Threads : ~(pc'[s] = "closeClear" /\ cur'[s] = u)) =>
        (\A s \in Threads : ~(pc[s] = "closeClear" /\ cur[s] = u))
    BY <1>2 DEF OpenPCs
  <2>2. QED
    BY <1>2, <2>1 DEF HandleInv, HandleOK, OpenOK
<1>6. NoHandleLeak'
  BY <1>2, <1>3, SessionAssumption DEF HandleInv, NoHandleLeak, TypeOK, EtwOK
<1>7. NoStaleClose'
  <2>1. ASSUME NEW s \in Threads, pc'[s] = "closeTrace", Disciplined(cur[s])
        PROVE  sessionHandle_'[cur[s]] \in Handles /\ hstate'[sessionHandle_'[cur[s]]] = "open"
    <3>1. s # t /\ pc[s] = "closeTrace" /\ cur[s] \in Traces
      BY <1>2, <2>1 DEF TypeOK, ThreadsOK
    <3>2. sessionHandle_[cur[s]] \in Handles /\ hstate[sessionHandle_[cur[s]]] = "open"
      BY <2>1, <3>1 DEF HandleInv, NoStaleClose, At
    <3>3. cur[s] # o
      BY <1>3, <2>1, <3>2, SessionAssumption
    <3>4. QED
      BY <1>2, <3>1, <3>2, <3>3
  <2>2. QED
    BY <2>1 DEF NoStaleClose, At
<1>8. QED
  BY <1>4, <1>5, <1>6, <1>7 DEF HandleInv

LEMMA ClosedKeeps ==
  ASSUME TypeOK, TypeOK', CallInv, HandleInv, NEW t \in Threads, ClosedStep(t),
         cur' = cur, \A s \in Threads \ {t} : pc'[s] = pc[s]
  PROVE  HandleInv'
<1> DEFINE o == cur[t]
           h == sessionHandle_[o]
<1>1. o \in Traces /\ h \in Handles \cup {INVALID}
  BY DEF TypeOK, ThreadsOK, TracesOK
<1>2. /\ pc[t] = "closeTrace" /\ pc'[t] = "closeClear"
      /\ sessionHandle_' = sessionHandle_ /\ hctx' = hctx /\ life' = life
      /\ \A k \in Handles : hstate'[k] = "open" => hstate[k] = "open"
      /\ \A k \in Handles : hstate[k] # "unused" <=> hstate'[k] # "unused"
      /\ \A k \in Handles : k # h => hstate'[k] = hstate[k]
      /\ h \in Handles => hstate'[h] # "open"
  BY <1>1 DEF ClosedStep, TypeOK, EtwOK
<1>3. Disciplined(o) => h \in Handles /\ hstate[h] = "open"
  BY <1>2 DEF HandleInv, NoStaleClose, At
<1>4. ASSUME NEW s \in Threads PROVE OpeningOK(s)' /\ ClearOK(s)'
  <2>1. cur[s] \in Traces /\ sessionHandle_[cur[s]] \in Handles \cup {INVALID}
    BY DEF TypeOK, ThreadsOK, TracesOK
  <2>2. CASE s = t
    BY <1>1, <1>2, <1>3, <2>2, SessionAssumption DEF OpeningOK, ClearOK, OpenPCs
  <2>3. CASE s # t
    BY <1>2, <2>1, <2>3 DEF HandleInv, OpeningOK, ClearOK
  <2>4. QED
    BY <2>2, <2>3
<1>5. ASSUME NEW u \in Traces PROVE HandleOK(u)' /\ OpenOK(u)'
  <2>1. sessionHandle_[u] \in Handles \cup {INVALID} /\ HandleOK(u) /\ OpenOK(u) /\ HandleOK(o)
    BY <1>1 DEF HandleInv, TypeOK, TracesOK
  <2>2. HandleOK(u)'
    BY <1>2, <2>1 DEF HandleOK
  <2>3. CASE u = o
    BY <1>2, <2>2, <2>3 DEF OpenOK
  <2>4. CASE u # o
    <3>1. sessionHandle_[u] # INVALID => sessionHandle_[u] # h
      BY <2>1, <2>4 DEF HandleOK
    <3>2. (\A s \in Threads : ~(pc'[s] = "closeClear" /\ cur'[s] = u)) =>
          (\A s \in Threads : ~(pc[s] = "closeClear" /\ cur[s] = u))
      BY <1>2
    <3>3. QED
      BY <1>2, <2>1, <2>2, <3>1, <3>2 DEF OpenOK
  <2>5. QED
    BY <2>3, <2>4
<1>6. NoHandleLeak'
  BY <1>2 DEF HandleInv, NoHandleLeak
<1>7. NoStaleClose'
  <2>1. ASSUME NEW s \in Threads, pc'[s] = "closeTrace", Disciplined(cur[s])
        PROVE  sessionHandle_'[cur[s]] \in Handles /\ hstate'[sessionHandle_'[cur[s]]] = "open"
    <3>1. s # t /\ pc[s] = "closeTrace" /\ cur[s] \in Traces
      BY <1>2, <2>1 DEF TypeOK, ThreadsOK
    <3>2. sessionHandle_[cur[s]] \in Handles /\ hstate[sessionHandle_[cur[s]]] = "open"
      BY <2>1, <3>1 DEF HandleInv, NoStaleClose, At
    <3>3. cur[s] # o
      BY <1>2, <2>1, <3>1, OneCloser DEF ClosePCs
    <3>4. HandleOK(cur[s]) /\ HandleOK(o)
      BY <1>1, <3>1 DEF HandleInv
    <3>5. sessionHandle_[cur[s]] # h
      BY <3>2, <3>3, <3>4, SessionAssumption DEF HandleOK
    <3>6. QED
      BY <1>2, <3>2, <3>5
  <2>2. QED
    BY <2>1 DEF NoStaleClose, At
<1>8. QED
  BY <1>4, <1>5, <1>6, <1>7 DEF HandleInv

\* What a terminated process leaves: no open handle more, none of another trace less.
LEMMA TerminatedEffect ==
  ASSUME TypeOK, NEW o \in Traces, Terminated(o)
  PROVE  /\ \A k \in Handles : hstate'[k] = "open" => hstate[k] = "open"
         /\ \A k \in Handles : (hstate'[k] = "unused") <=> (hstate[k] = "unused")
         /\ \A k \in Handles : hctx[k] # o => hstate'[k] = hstate[k]
         /\ life'[o] # "alive"
         /\ \A u \in Traces \ {o} : life'[u] = life[u]
  BY DEF Terminated, TypeOK, TracesOK, EtwOK

LEMMA ClearedKeeps ==
  ASSUME TypeOK, TypeOK', CallInv, HandleInv, NEW t \in Threads, ClearedStep(t),
         cur' = cur, \A s \in Threads \ {t} : pc'[s] = pc[s]
  PROVE  HandleInv'
<1> DEFINE o == cur[t]
<1>1. o \in Traces
  BY DEF TypeOK, ThreadsOK
<1>2. /\ pc[t] = "closeClear" /\ pc'[t] \in {"idle", "enable"} /\ hctx' = hctx
      /\ sessionHandle_'[o] = INVALID
      /\ \A u \in Traces \ {o} : sessionHandle_'[u] = sessionHandle_[u]
  BY <1>1 DEF ClearedStep, TypeOK, TracesOK
<1>3. /\ \A k \in Handles : hstate'[k] = "open" => hstate[k] = "open"
      /\ \A k \in Handles : (hstate'[k] = "unused") <=> (hstate[k] = "unused")
      /\ \A k \in Handles : hctx[k] # o => hstate'[k] = hstate[k]
      /\ \A u \in Traces \ {o} : life'[u] = life[u]
  <2>1. CASE Terminated(o)
    BY <1>1, <2>1, TerminatedEffect
  <2>2. CASE hstate' = hstate /\ (life' = life \/ life' = [life EXCEPT ![o] = "destroyed"])
    BY <2>2 DEF TypeOK, TracesOK
  <2>3. QED
    BY <2>1, <2>2 DEF ClearedStep
<1>4. \A u \in Traces : sessionHandle_[u] \in Handles \cup {INVALID} /\ HandleOK(u)
  BY DEF HandleInv, TypeOK, TracesOK
<1>5. ASSUME NEW s \in Threads PROVE OpeningOK(s)' /\ ClearOK(s)'
  <2>1. cur[s] \in Traces /\ (s # t => pc'[s] = pc[s])
    BY DEF TypeOK, ThreadsOK
  <2>2. CASE cur[s] = o
    <3>1. Disciplined(o) => pc'[s] # "closeClear"
      BY <1>2, <2>1, <2>2, OneCloser DEF ClosePCs
    <3>2. QED
      BY <1>2, <2>2, <3>1 DEF OpeningOK, ClearOK
  <2>3. CASE cur[s] # o
    BY <1>2, <1>3, <1>4, <2>1, <2>3 DEF HandleInv, OpeningOK, ClearOK
  <2>4. QED
    BY <2>2, <2>3
<1>6. ASSUME NEW u \in Traces PROVE HandleOK(u)' /\ OpenOK(u)'
  <2>1. CASE u = o
    BY <1>2, <2>1 DEF HandleOK, OpenOK
  <2>2. CASE u # o
    <3>1. (\A s \in Threads : ~(pc'[s] = "closeClear" /\ cur'[s] = u)) =>
          (\A s \in Threads : ~(pc[s] = "closeClear" /\ cur[s] = u))
      BY <2>2
    <3>2. HandleOK(u)'
      BY <1>2, <1>3, <1>4, <2>2 DEF HandleOK
    <3>3. OpenOK(u)'
      BY <1>2, <1>3, <1>4, <2>2, <3>1 DEF HandleInv, HandleOK, OpenOK
    <3>4. QED
      BY <3>2, <3>3
  <2>3. QED
    BY <2>1, <2>2
<1>7. NoHandleLeak'
  <2>1. ASSUME NEW k \in Handles, hstate'[k] = "open", Disciplined(hctx[k])
        PROVE  sessionHandle_'[hctx[k]] = k
    <3>1. hctx[k] \in Traces /\ hstate[k] = "open" /\ sessionHandle_[hctx[k]] = k
      BY <1>3, <2>1 DEF HandleInv, NoHandleLeak, TypeOK, EtwOK
    <3>2. hctx[k] # o
      BY <1>2, <2>1, <3>1 DEF HandleInv, ClearOK
    <3>3. QED
      BY <1>2, <3>1, <3>2
  <2>2. QED
    BY <1>2, <2>1 DEF NoHandleLeak
<1>8. NoStaleClose'
  <2>1. ASSUME NEW s \in Threads, pc'[s] = "closeTrace", Disciplined(cur[s])
        PROVE  sessionHandle_'[cur[s]] \in Handles /\ hstate'[sessionHandle_'[cur[s]]] = "open"
    <3>1. s # t /\ pc[s] = "closeTrace" /\ cur[s] \in Traces
      BY <1>2, <2>1 DEF TypeOK, ThreadsOK
    <3>2. sessionHandle_[cur[s]] \in Handles /\ hstate[sessionHandle_[cur[s]]] = "open"
      BY <2>1, <3>1 DEF HandleInv, NoStaleClose, At
    <3>3. cur[s] # o
      BY <1>2, <2>1, <3>1, OneCloser DEF ClosePCs
    <3>4. hctx[sessionHandle_[cur[s]]] = cur[s]
      BY <1>4, <3>1, <3>2, SessionAssumption DEF HandleOK
    <3>5. QED
      BY <1>2, <1>3, <3>1, <3>2, <3>3, <3>4
  <2>2. QED
    BY <2>1 DEF NoStaleClose, At
<1>9. QED
  BY <1>5, <1>6, <1>7, <1>8 DEF HandleInv

LEMMA TerminatedKeeps ==
  ASSUME TypeOK, TypeOK', CallInv, HandleInv, NEW t \in Threads, TerminatedStep(t),
         cur' = cur, \A s \in Threads \ {t} : pc'[s] = pc[s]
  PROVE  HandleInv'
<1> DEFINE o == cur[t]
<1>1. o \in Traces
  BY DEF TypeOK, ThreadsOK
<1>2. /\ pc[t] = "stopTrace" /\ pc'[t] = "idle" /\ op[t] = "destroy"
      /\ sessionHandle_' = sessionHandle_ /\ hctx' = hctx
  BY DEF TerminatedStep
<1>3. /\ \A k \in Handles : hstate'[k] = "open" => hstate[k] = "open"
      /\ \A k \in Handles : (hstate'[k] = "unused") <=> (hstate[k] = "unused")
      /\ \A k \in Handles : hctx[k] # o => hstate'[k] = hstate[k]
      /\ life'[o] # "alive"
      /\ \A u \in Traces \ {o} : life'[u] = life[u]
  BY <1>1, TerminatedEffect DEF TerminatedStep
<1>4. \A u \in Traces : sessionHandle_[u] \in Handles \cup {INVALID} /\ HandleOK(u)
  BY DEF HandleInv, TypeOK, TracesOK
<1>5. ASSUME NEW s \in Threads PROVE OpeningOK(s)' /\ ClearOK(s)'
  <2>1. cur[s] \in Traces
    BY DEF TypeOK, ThreadsOK
  <2>2. QED
    BY <1>2, <1>3, <1>4, <2>1 DEF HandleInv, OpeningOK, ClearOK, OpenPCs
<1>6. ASSUME NEW u \in Traces PROVE HandleOK(u)' /\ OpenOK(u)'
  <2>1. (\A s \in Threads : ~(pc'[s] = "closeClear" /\ cur'[s] = u)) =>
        (\A s \in Threads : ~(pc[s] = "closeClear" /\ cur[s] = u))
    BY <1>2
  <2>2. HandleOK(u)'
    BY <1>2, <1>3, <1>4 DEF HandleOK
  <2>3. OpenOK(u)'
    BY <1>2, <1>3, <1>4, <2>1 DEF HandleInv, HandleOK, OpenOK
  <2>4. QED
    BY <2>2, <2>3
<1>7. NoHandleLeak'
  BY <1>2, <1>3 DEF HandleInv, NoHandleLeak
<1>8. NoStaleClose'
  <2>1. ASSUME NEW s \in Threads, pc'[s] = "closeTrace", Disciplined(cur[s])
        PROVE  sessionHandle_'[cur[s]] \in Handles /\ hstate'[sessionHandle_'[cur[s]]] = "open"
    <3>1. s # t /\ pc[s] = "closeTrace" /\ cur[s] \in Traces
      BY <1>2, <2>1 DEF TypeOK, ThreadsOK
    <3>2. sessionHandle_[cur[s]] \in Handles /\ hstate[sessionHandle_[cur[s]]] = "open"
      BY <2>1, <3>1 DEF HandleInv, NoStaleClose, At
    <3>3. cur[s] # o
      BY <1>2, <3>1 DEF CallInv, LifeOK
    <3>4. hctx[sessionHandle_[cur[s]]] = cur[s]
      BY <1>4, <3>1, <3>2, SessionAssumption DEF HandleOK
    <3>5. QED
      BY <1>2, <1>3, <3>2, <3>3, <3>4
  <2>2. QED
    BY <2>1 DEF NoStaleClose, At
<1>9. QED
  BY <1>5, <1>6, <1>7, <1>8 DEF HandleInv

LEMMA NextHandleInv ==
  ASSUME TypeOK, TypeOK', CallInv, HandleInv, [Next]_vars
  PROVE  HandleInv'
<1> USE DEF OpenPCs, ClosePCs
<1>1. ASSUME NEW t \in Threads, NEW o \in Traces, ClientCall(t, o) PROVE HandleInv'
  <2>1. PICK l \in PCs, c \in AllOps :
          /\ pc' = [pc EXCEPT ![t] = l]
          /\ op' = [op EXCEPT ![t] = c]
          /\ cur' = [cur EXCEPT ![t] = o]
          /\ l \in {"stopTrace", "process", "register"}
          /\ l = "register" /\ o \in Careful => sessionHandle_[o] = INVALID
    BY <1>1, CallStep
  <2>2. UNCHANGED <<sessionHandle_, hstate, hctx, life>> /\ pc[t] = "idle"
    BY <1>1, CallStep
  <2>3. /\ pc'[t] = l /\ cur'[t] = o
        /\ \A s \in Threads \ {t} : pc'[s] = pc[s] /\ cur'[s] = cur[s]
    BY <2>1 DEF TypeOK, ThreadsOK
  <2>4. Disciplined(o) => o \in Careful
    BY DEF Disciplined
  <2>5. QuietStep(t)
    BY <2>1, <2>2, <2>3, <2>4 DEF QuietStep, SameState
  <2>6. QED
    BY <2>5, QuietKeeps
<1>2. ASSUME NEW t \in Threads, Inside(t) PROVE HandleInv'
  <2>1. op' = op /\ cur' = cur /\ pc[t] # "idle"
    BY <1>2, ThreadStep
  <2>2. PICK l \in PCs : pc' = [pc EXCEPT ![t] = l]
    BY <1>2, ThreadStep
  <2>3. pc'[t] = l /\ \A s \in Threads \ {t} : pc'[s] = pc[s]
    BY <2>2 DEF TypeOK, ThreadsOK
  <2>4. cur[t] \in Traces /\ OpeningOK(t)
    BY DEF HandleInv, TypeOK, ThreadsOK
  \* The actions that touch neither a handle nor the life of a trace.
  <2>5. ASSUME UNCHANGED <<sessionHandle_, hstate, hctx, life>>,
               pc[t] # "closeClear", pc'[t] \notin {"closeClear", "closeTrace"},
               pc'[t] \in OpenPCs => pc[t] \in OpenPCs
        PROVE  HandleInv'
    <3>1. QuietStep(t)
      BY <2>1, <2>3, <2>4, <2>5 DEF QuietStep, SameState, OpeningOK
    <3>2. QED
      BY <3>1, QuietKeeps
  <2>6. CASE Register(t)
    <3>1. /\ UNCHANGED <<sessionHandle_, hstate, hctx, life>>
          /\ pc[t] \in {"register", "registerAgain"}
          /\ Goto(t, "enable") \/ Goto(t, "stopOld") \/ \E e \in Exceptions : Finish(t, e)
      BY <2>6 DEF Register, Exceptions
    <3>2. pc'[t] \in {"enable", "stopOld", "idle"}
      BY <3>1 DEF Goto, Finish, TypeOK, ThreadsOK
    <3>3. QED
      BY <2>5, <3>1, <3>2
  <2>7. CASE StopOld(t)
    <3>1. /\ UNCHANGED <<sessionHandle_, hstate, hctx, life>> /\ pc[t] = "stopOld"
          /\ pc'[t] \in {"registerAgain", "probeOpen"}
      BY <2>7 DEF StopOld, Goto, At, traceVars, TypeOK, ThreadsOK
    <3>2. QED
      BY <2>5, <3>1
  <2>8. CASE Enable(t)
    <3>1. /\ UNCHANGED <<sessionHandle_, hstate, hctx, life>> /\ pc[t] = "enable"
          /\ Goto(t, "openTrace") \/ Finish(t, "unexpected_error")
      BY <2>8 DEF Enable, At, traceVars
    <3>2. pc'[t] \in {"openTrace", "idle"}
      BY <3>1 DEF Goto, Finish, TypeOK, ThreadsOK
    <3>3. QED
      BY <2>5, <3>1, <3>2
  <2>9. CASE OpenTrace(t)
    <3>1. /\ pc[t] \in {"openTrace", "probeOpen"}
          /\ \/ Goto(t, "close") \/ Goto(t, "process")
             \/ Finish(t, "ok") \/ Finish(t, "open_trace_failure")
          /\ life' = life
      BY <2>9 DEF OpenTrace
    <3>2. pc'[t] \in {"close", "process", "idle"}
      BY <3>1 DEF Goto, Finish, TypeOK, ThreadsOK
    <3>3. CASE OpenTraceOK(cur[t])
      <4>1. OpenedStep(t)
        BY <3>1, <3>2, <3>3, FreshHandleIsUnused DEF OpenedStep, OpenTraceOK
      <4>2. QED
        BY <2>1, <2>3, <4>1, OpenedKeeps
    <3>4. CASE OpenTraceFails(cur[t]) /\ Finish(t, "open_trace_failure")
      <4>1. OpenFailedStep(t)
        BY <3>1, <3>4 DEF OpenFailedStep, OpenTraceFails, Finish, TypeOK, ThreadsOK
      <4>2. QED
        BY <2>1, <2>3, <4>1, OpenFailedKeeps
    <3>5. QED
      BY <2>9, <3>3, <3>4 DEF OpenTrace
  <2>10. CASE CheckHandle(t)
    <3>1. /\ UNCHANGED <<sessionHandle_, hstate, hctx, life>> /\ pc[t] = "process"
          /\ pc'[t] \in {"rundown", "idle"}
      BY <2>10 DEF CheckHandle, Goto, Finish, At, traceVars, etwVars, TypeOK, ThreadsOK
    <3>2. QED
      BY <2>5, <3>1
  <2>11. CASE Rundown(t)
    <3>1. /\ UNCHANGED <<sessionHandle_, hstate, hctx, life>> /\ pc[t] = "rundown"
          /\ Goto(t, "processTrace") \/ Finish(t, "unexpected_error")
      BY <2>11 DEF Rundown, At, traceVars, etwVars
    <3>2. pc'[t] \in {"processTrace", "idle"}
      BY <3>1 DEF Goto, Finish, TypeOK, ThreadsOK
    <3>3. QED
      BY <2>5, <3>1, <3>2
  <2>12. CASE ProcessTrace(t)
    <3>1. /\ UNCHANGED <<sessionHandle_, hstate, hctx, life>> /\ pc[t] = "processTrace"
          /\ Goto(t, "processing") \/ Finish(t, "unexpected_error")
      BY <2>12 DEF ProcessTrace, At, traceVars, etwVars
    <3>2. pc'[t] \in {"processing", "idle"}
      BY <3>1 DEF Goto, Finish, TypeOK, ThreadsOK
    <3>3. QED
      BY <2>5, <3>1, <3>2
  <2>13. CASE Deliver(t)
    <3>1. UNCHANGED <<sessionHandle_, hstate, hctx, life>> /\ pc[t] = "processing" /\ pc' = pc
      BY <2>13 DEF Deliver, OnEvent, At
    <3>2. QED
      BY <2>5, <3>1
  <2>14. CASE ProcessTraceReturns(t) \/ CallbackThrows(t)
    <3>1. /\ UNCHANGED <<sessionHandle_, hctx, life>> /\ pc[t] = "processing"
          /\ pc'[t] = "idle" /\ Release(t)
      BY <2>14 DEF ProcessTraceReturns, CallbackThrows, OnEvent, Finish, At, traceVars,
                   TypeOK, ThreadsOK
    <3>2. \A h \in Handles : SameState(h)
      BY <3>1 DEF SameState, Release, TypeOK, EtwOK
    <3>3. QuietStep(t)
      BY <2>1, <2>3, <3>1, <3>2 DEF QuietStep
    <3>4. QED
      BY <3>3, QuietKeeps
  <2>15. CASE StopTrace(t)
    <3>1. /\ UNCHANGED <<sessionHandle_, hctx>> /\ pc[t] = "stopTrace"
          /\ pc'[t] \in {"close", "idle"}
          /\ \/ UNCHANGED <<hstate, life>>
             \/ op[t] = "destroy" /\ pc'[t] = "idle" /\ Terminated(cur[t])
      BY <2>15 DEF StopTrace, EndStop, Terminated, Goto, Finish, At, TypeOK, ThreadsOK
    <3>2. CASE UNCHANGED <<hstate, life>>
      BY <2>5, <3>1, <3>2
    <3>3. CASE op[t] = "destroy" /\ pc'[t] = "idle" /\ Terminated(cur[t])
      <4>1. TerminatedStep(t)
        BY <3>1, <3>3 DEF TerminatedStep
      <4>2. QED
        BY <2>1, <2>3, <4>1, TerminatedKeeps
    <3>4. QED
      BY <3>1, <3>2, <3>3
  <2>16. CASE CheckClose(t)
    <3>1. /\ UNCHANGED <<sessionHandle_, hctx, hstate>> /\ pc[t] = "close"
          /\ life' = life \/ life' = [life EXCEPT ![cur[t]] = "destroyed"]
          /\ \/ pc'[t] \in {"idle", "enable"} /\ sessionHandle_[cur[t]] = INVALID
             \/ pc'[t] = "closeTrace" /\ sessionHandle_[cur[t]] # INVALID
      BY <2>16 DEF CheckClose, AfterClose, EndStop, Goto, Finish, At, TypeOK, ThreadsOK
    <3>2. \A u \in Traces : life'[u] = "alive" => life[u] = "alive"
      BY <2>4, <3>1 DEF TypeOK, TracesOK
    <3>3. QuietStep(t)
      <4>1. CASE pc'[t] \in {"idle", "enable"} /\ sessionHandle_[cur[t]] = INVALID
        BY <2>1, <2>3, <3>1, <3>2, <4>1 DEF QuietStep, SameState
      <4>2. CASE pc'[t] = "closeTrace" /\ sessionHandle_[cur[t]] # INVALID
        BY <2>1, <2>3, <3>1, <3>2, <4>2 DEF QuietStep, SameState
      <4>3. QED
        BY <3>1, <4>1, <4>2
    <3>4. QED
      BY <3>3, QuietKeeps
  <2>17. CASE CloseTrace(t)
    <3>1. ClosedStep(t)
      BY <2>17 DEF CloseTrace, ClosedStep, Goto, At, traceVars, TypeOK, ThreadsOK
    <3>2. QED
      BY <2>1, <2>3, <3>1, ClosedKeeps
  <2>18. CASE ClearHandle(t)
    <3>1. /\ pc[t] = "closeClear" /\ hctx' = hctx
          /\ sessionHandle_' = [sessionHandle_ EXCEPT ![cur[t]] = INVALID]
          /\ pc'[t] \in {"idle", "enable"}
          /\ \/ Terminated(cur[t])
             \/ /\ hstate' = hstate
                /\ life' = life \/ life' = [life EXCEPT ![cur[t]] = "destroyed"]
      BY <2>18 DEF ClearHandle, AfterClose, EndStop, Terminated, Goto, Finish, At,
                   TypeOK, ThreadsOK
    <3>2. ClearedStep(t)
      BY <3>1 DEF ClearedStep
    <3>3. QED
      BY <2>1, <2>3, <3>2, ClearedKeeps
  <2>19. QED
    BY <1>2, <2>6, <2>7, <2>8, <2>9, <2>10, <2>11, <2>12, <2>13, <2>14, <2>15,
       <2>16, <2>17, <2>18 DEF Inside, Advance
<1>3. CASE UNCHANGED <<pc, op, cur, sessionHandle_, hstate, hctx, life>>
  BY <1>3 DEF HandleInv, OpeningOK, ClearOK, HandleOK, OpenOK, NoHandleLeak,
              NoStaleClose, At
<1>4. ASSUME NEW n \in Names, OutsideStop(n)
      PROVE  UNCHANGED <<pc, op, cur, sessionHandle_, hstate, hctx, life>>
  BY <1>4 DEF OutsideStop, threadVars, traceVars
<1>5. CASE UNCHANGED vars
  BY <1>3, <1>5 DEF vars, threadVars, traceVars, etwVars
<1>6. QED
  BY <1>1, <1>2, <1>3, <1>4, <1>5 DEF Next, Inside

-----------------------------------------------------------------------------
(* The theorems.                                                           *)

\* The strengthened invariant holds in every state.
THEOREM Invariance == Spec => []IInv
<1>1. Init => IInv
  BY InitTypeOK, InitCallInv, InitHandleInv DEF IInv
<1>2. IInv /\ [Next]_vars => IInv'
  <2> SUFFICES ASSUME IInv, [Next]_vars PROVE IInv'
    OBVIOUS
  <2>1. TypeOK'
    BY NextTypeOK DEF IInv
  <2>2. CallInv'
    BY NextCallInv DEF IInv
  <2>3. HandleInv'
    BY <2>1, NextHandleInv DEF IInv
  <2>4. QED
    BY <2>1, <2>2, <2>3 DEF IInv
<1>3. QED
  BY <1>1, <1>2, PTL DEF Spec

\* No run of start(), open(), process(), stop() and ~trace(), with whatever
\* answers ETW gives, leaves a disciplined trace with an open consumer handle
\* that its sessionHandle_ has forgotten.
THEOREM HandlesAreNotLeaked == Spec => []NoHandleLeak
<1>1. IInv => NoHandleLeak
  BY DEF IInv, HandleInv
<1>2. QED
  BY <1>1, Invariance, PTL

\* close_trace() of a disciplined trace always closes an open handle, although it
\* reads sessionHandle_ again after it has checked it.
THEOREM ClosesAreNotStale == Spec => []NoStaleClose
<1>1. IInv => NoStaleClose
  BY DEF IInv, HandleInv
<1>2. QED
  BY <1>1, Invariance, PTL

\* A stop that returns normally has just seen, or left, no sessionHandle_.
LEMMA StopReturnStep ==
  ASSUME IInv, [Next]_vars, NEW t \in Threads, Stopping(t, cur[t]),
         pc'[t] = "idle", result'[t] = "ok"
  PROVE  sessionHandle_'[cur[t]] = INVALID
<1> USE DEF At, Goto, Finish
<1>1. /\ pc[t] # "idle" /\ op[t] \in StopOps /\ pc[t] \in ClosePCs \cup {"stopTrace"}
      /\ cur[t] \in Traces /\ pc \in [Threads -> PCs] /\ result \in [Threads -> Exceptions \cup {"ok"}]
      /\ sessionHandle_ \in [Traces -> Handles \cup {INVALID}]
  BY DEF Stopping, InCall, IInv, CallInv, CallOK, StopOps, TypeOK, ThreadsOK, TracesOK
<1>2. ~(UNCHANGED pc)
  BY <1>1
<1>3. ASSUME NEW s \in Threads, NEW o \in Traces, ClientCall(s, o) PROVE FALSE
  <2>1. pc[s] = "idle" /\ \E l \in PCs : pc' = [pc EXCEPT ![s] = l]
    BY <1>3, CallStep DEF IInv
  <2>2. QED
    BY <1>1, <2>1
<1>4. ASSUME NEW s \in Threads, Inside(s) PROVE s = t
  <2>1. \E l \in PCs : pc' = [pc EXCEPT ![s] = l]
    BY <1>4, ThreadStep DEF IInv
  <2>2. QED
    BY <1>1, <2>1
<1>5. ASSUME Inside(t) PROVE sessionHandle_'[cur[t]] = INVALID
  <2>1. StopTrace(t) \/ CheckClose(t) \/ CloseTrace(t) \/ ClearHandle(t)
    BY <1>1, <1>5 DEF Inside, Advance, Register, StopOld, Enable, OpenTrace, CheckHandle,
       Rundown, ProcessTrace, ProcessTraceReturns, Deliver, CallbackThrows, OnEvent,
       ClosePCs
  <2>2. ~StopTrace(t)
    BY <1>1 DEF StopTrace
  <2>3. ~CloseTrace(t)
    BY <1>1 DEF CloseTrace
  <2>4. CASE CheckClose(t)
    BY <1>1, <2>4 DEF CheckClose
  <2>5. CASE ClearHandle(t)
    BY <1>1, <2>5 DEF ClearHandle
  <2>6. QED
    BY <2>1, <2>2, <2>3, <2>4, <2>5
<1>6. ASSUME NEW n \in Names, OutsideStop(n) PROVE FALSE
  BY <1>2, <1>6 DEF OutsideStop, threadVars
<1>7. ~(UNCHANGED vars)
  BY <1>2 DEF vars, threadVars
<1>8. QED
  BY <1>3, <1>4, <1>5, <1>6, <1>7 DEF Next, Inside

\* A stop() that returns normally leaves no open consumer handle of a disciplined
\* trace, even if the thread that runs the trace has opened it meanwhile.
THEOREM StopsReturnClosed == Spec => StopReturnsClosed
<1>1. ASSUME IInv, IInv', [Next]_vars
      PROVE  \A t \in Threads :
               /\ Stopping(t, cur[t]) /\ Disciplined(cur[t])
               /\ pc'[t] = "idle" /\ result'[t] = "ok"
               => \A h \in Handles : hctx'[h] = cur[t] => hstate'[h] # "open"
  <2>1. SUFFICES ASSUME NEW t \in Threads, Stopping(t, cur[t]), Disciplined(cur[t]),
                        pc'[t] = "idle", result'[t] = "ok",
                        NEW h \in Handles, hctx'[h] = cur[t], hstate'[h] = "open"
                 PROVE  FALSE
    OBVIOUS
  <2>2. sessionHandle_'[cur[t]] = INVALID
    BY <1>1, <2>1, StopReturnStep
  <2>3. sessionHandle_'[cur[t]] = h
    BY <1>1, <2>1 DEF IInv, HandleInv, NoHandleLeak
  <2>4. QED
    BY <2>2, <2>3, SessionAssumption
<1>2. QED
  BY <1>1, Invariance, PTL DEF Spec, StopReturnsClosed
=============================================================================
