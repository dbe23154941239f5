--------------------------- MODULE ConsumerProofs ---------------------------
(***************************************************************************)
(* Theorems about what the calls of TraceSession achieve: what is counted, *)
(* which session is consumed and which one is left behind, and that the    *)
(* consumers of a trace go through the phases of TraceLifecycle.           *)
(***************************************************************************)
EXTENDS TraceSessionProofs

-----------------------------------------------------------------------------
(* What a step changes, besides the control of its thread.                 *)

\* A step inside a call changes the locals of its own thread only.
LEMMA ThreadFrame ==
  ASSUME TypeOK, NEW t \in Threads, Inside(t)
  PROVE  /\ calls' = calls /\ overlapped' = overlapped
         /\ \A s \in Threads \ {t} :
              /\ pc'[s] = pc[s] /\ result'[s] = result[s] /\ status'[s] = status[s]
              /\ proc'[s] = proc[s] /\ delivered'[s] = delivered[s]
<1>1. \A s \in Threads \ {t} : pc'[s] = pc[s]
  BY ThreadStep DEF TypeOK, ThreadsOK
<1> USE DEF Goto, Finish, At, TypeOK, ThreadsOK
<1>2. CASE Register(t) \/ StopOld(t) \/ Enable(t) \/ OpenTrace(t)
  BY <1>1, <1>2 DEF Register, StopOld, Enable, OpenTrace
<1>3. CASE CheckHandle(t) \/ Rundown(t) \/ ProcessTrace(t) \/ ProcessTraceReturns(t)
  BY <1>1, <1>3 DEF CheckHandle, Rundown, ProcessTrace, ProcessTraceReturns
<1>4. CASE StopTrace(t) \/ CheckClose(t) \/ CloseTrace(t) \/ ClearHandle(t)
  <2>1. calls' = calls /\ overlapped' = overlapped /\ UNCHANGED <<proc, delivered>>
    BY <1>4 DEF StopTrace, CheckClose, CloseTrace, ClearHandle
  <2>2. \A s \in Threads \ {t} : result'[s] = result[s]
    BY <1>4 DEF StopTrace, CheckClose, CloseTrace, ClearHandle, AfterClose
  <2>3. \A s \in Threads \ {t} : status'[s] = status[s]
    BY <1>4 DEF StopTrace, CheckClose, CloseTrace, ClearHandle
  <2>4. QED
    BY <1>1, <2>1, <2>2, <2>3
<1>5. CASE Deliver(t) \/ CallbackThrows(t)
  BY <1>1, <1>5 DEF Deliver, CallbackThrows, OnEvent
<1>6. QED
  BY <1>2, <1>3, <1>4, <1>5 DEF Inside, Advance

\* A call that begins changes no local but those that name the call, and resets
\* the counter of events if it runs the trace.
LEMMA CallFrame ==
  ASSUME TypeOK, NEW t \in Threads, NEW o \in Traces, ClientCall(t, o)
  PROVE  /\ UNCHANGED <<result, status, proc, delivered, registrationHandle_, sessionHandle_,
                        life, etwVars>>
         /\ overlapped \subseteq overlapped'
         /\ \A s \in Threads \ {t} : pc'[s] = pc[s] /\ op'[s] = op[s] /\ cur'[s] = cur[s]
         /\ cur'[t] = o /\ pc'[t] \in {"register", "process", "stopTrace"}
         /\ \/ /\ op'[t] \in StopOps /\ pc'[t] = "stopTrace" /\ eventsHandled_' = eventsHandled_
            \/ /\ op'[t] \notin StopOps /\ pc'[t] # "stopTrace" /\ t \in Runners[o]
               /\ eventsHandled_' = [eventsHandled_ EXCEPT ![o] = 0]
<1> USE DEF Call, Goto, At, StopOps, TypeOK, ThreadsOK
<1>1. CASE Start(t, o) \/ Open(t, o) \/ Process(t, o)
  BY <1>1 DEF Start, Open, Process
<1>2. CASE Stop(t, o) \/ Destroy(t, o)
  BY <1>2 DEF Stop, Destroy
<1>3. QED
  BY <1>1, <1>2 DEF ClientCall

\* Inside a call only an event touches the counter of events.
LEMMA CounterStep ==
  ASSUME TypeOK, NEW t \in Threads, Inside(t)
  PROVE  /\ pc[t] = "processing" => pc'[t] \in {"processing", "idle"}
         /\ \/ /\ eventsHandled_' = eventsHandled_
               /\ pc[t] = "processing" => delivered'[t] = delivered[t]
            \/ /\ pc[t] = "processing"
               /\ eventsHandled_' = [eventsHandled_ EXCEPT ![hctx[proc[t]]] = @ + 1]
               /\ delivered' = [delivered EXCEPT ![t] = @ + 1]
<1> USE DEF At, Finish, traceVars, TypeOK, ThreadsOK
<1>1. CASE Register(t) \/ StopOld(t) \/ Enable(t) \/ OpenTrace(t) \/ CheckHandle(t) \/ Rundown(t)
  BY <1>1 DEF Register, StopOld, Enable, OpenTrace, CheckHandle, Rundown
<1>2. CASE ProcessTrace(t) \/ ProcessTraceReturns(t)
  BY <1>2 DEF ProcessTrace, ProcessTraceReturns
<1>3. CASE StopTrace(t) \/ CheckClose(t) \/ CloseTrace(t) \/ ClearHandle(t)
  BY <1>3 DEF StopTrace, CheckClose, CloseTrace, ClearHandle
<1>4. CASE Deliver(t) \/ CallbackThrows(t)
  BY <1>4 DEF Deliver, CallbackThrows, OnEvent
<1>5. QED
  BY <1>1, <1>2, <1>3, <1>4 DEF Inside, Advance

\* ETW's handles: only OpenTrace gives one a Context and a session.
LEMMA HandleStep ==
  ASSUME TypeOK, NEW t \in Threads, Inside(t)
  PROVE  \/ UNCHANGED <<hctx, hsess>>
         \/ OpenTrace(t) /\ OpenTraceOK(cur[t])
<1> USE DEF At, etwVars
<1>1. CASE Register(t) \/ StopOld(t) \/ Enable(t) \/ CheckHandle(t) \/ Rundown(t)
  BY <1>1 DEF Register, StopOld, Enable, CheckHandle, Rundown
<1>2. CASE ProcessTrace(t) \/ ProcessTraceReturns(t) \/ Deliver(t) \/ CallbackThrows(t)
  BY <1>2 DEF ProcessTrace, ProcessTraceReturns, Deliver, CallbackThrows, OnEvent
<1>3. CASE StopTrace(t) \/ CheckClose(t) \/ CloseTrace(t) \/ ClearHandle(t)
  BY <1>3 DEF StopTrace, CheckClose, CloseTrace, ClearHandle
<1>4. CASE OpenTrace(t)
  BY <1>4 DEF OpenTrace, OpenTraceFails
<1>5. QED
  BY <1>1, <1>2, <1>3, <1>4 DEF Inside, Advance

\* ETW's sessions: a step starts the session of its trace, stops it, or leaves
\* the sessions alone.
LEMMA SessionStep ==
  ASSUME TypeOK, NEW t \in Threads, Inside(t)
  PROVE  \/ /\ UNCHANGED <<session, usedSessions>>
            /\ pc[t] = "stopOld" => pc'[t] # "registerAgain"
            /\ pc[t] = "stopTrace" => pc'[t] # "close"
         \/ /\ \/ pc[t] = "stopOld" /\ pc'[t] = "registerAgain"
               \/ pc[t] = "stopTrace" /\ pc'[t] = "close"
            /\ cur[t] \in Admin \/ session[Name[cur[t]]] = NoSession
            /\ session' = [session EXCEPT ![Name[cur[t]]] = NoSession]
            /\ usedSessions' = usedSessions
         \/ Register(t) /\ pc'[t] = "enable" /\ StartTraceSucceeds(cur[t], NewSession)
<1> USE DEF At, Goto, Finish, etwVars, TypeOK, ThreadsOK
<1>1. CASE Register(t)
  BY <1>1 DEF Register, StartTraceFails
<1>2. CASE StopOld(t)
  BY <1>2 DEF StopOld, ControlStop
<1>3. CASE StopTrace(t)
  BY <1>3 DEF StopTrace, ControlStop
<1>4. CASE Enable(t) \/ OpenTrace(t) \/ CheckHandle(t) \/ Rundown(t)
  BY <1>4 DEF Enable, OpenTrace, CheckHandle, Rundown
<1>5. CASE ProcessTrace(t) \/ ProcessTraceReturns(t) \/ Deliver(t) \/ CallbackThrows(t)
  BY <1>5 DEF ProcessTrace, ProcessTraceReturns, Deliver, CallbackThrows, OnEvent
<1>6. CASE CheckClose(t) \/ CloseTrace(t) \/ ClearHandle(t)
  BY <1>6 DEF CheckClose, CloseTrace, ClearHandle
<1>7. QED
  BY <1>1, <1>2, <1>3, <1>4, <1>5, <1>6 DEF Inside, Advance

\* The states of the handles.
LEMMA HandleStateStep ==
  ASSUME TypeOK, NEW t \in Threads, Inside(t)
  PROVE  \/ hstate' = hstate /\ (pc[t] = "processing" => pc'[t] = "processing")
         \/ OpenTrace(t) /\ OpenTraceOK(cur[t])
         \/ pc[t] = "processing" /\ pc'[t] = "idle" /\ Release(t)
         \/ LET h == sessionHandle_[cur[t]] IN
            /\ CloseTrace(t) /\ h \in Handles /\ hstate[h] = "open"
            /\ hstate' = [hstate EXCEPT ![h] = IF Busy(h) THEN "closing" ELSE "closed"]
         \/ op[t] = "destroy" /\ pc[t] # "processing" /\ Terminated(cur[t])
<1> USE DEF At, Goto, Finish, etwVars, TypeOK, ThreadsOK
<1>1. CASE Register(t) \/ StopOld(t) \/ Enable(t) \/ CheckHandle(t) \/ Rundown(t)
  BY <1>1 DEF Register, StopOld, Enable, CheckHandle, Rundown
<1>2. CASE OpenTrace(t)
  BY <1>2 DEF OpenTrace, OpenTraceFails
<1>3. CASE ProcessTrace(t) \/ Deliver(t)
  BY <1>3 DEF ProcessTrace, Deliver, OnEvent
<1>4. CASE ProcessTraceReturns(t) \/ CallbackThrows(t)
  BY <1>4 DEF ProcessTraceReturns, CallbackThrows, OnEvent
<1>5. CASE CloseTrace(t)
  BY <1>5 DEF CloseTrace
<1>6. CASE StopTrace(t) \/ CheckClose(t) \/ ClearHandle(t)
  <2>1. pc[t] # "processing"
    BY <1>6 DEF StopTrace, CheckClose, ClearHandle
  <2>2. hstate' = hstate \/ \E r : EndStop(t, r, hstate)
    BY <1>6 DEF StopTrace, CheckClose, ClearHandle, AfterClose
  <2>3. QED
    BY <2>1, <2>2 DEF EndStop, Terminated
<1>7. QED
  BY <1>1, <1>2, <1>3, <1>4, <1>5, <1>6 DEF Inside, Advance

\* The handle a thread processes.
LEMMA ProcStep ==
  ASSUME TypeOK, NEW t \in Threads, Inside(t)
  PROVE  \/ proc' = proc /\ (pc'[t] = "processing" => pc[t] = "processing")
         \/ /\ pc[t] = "processTrace" /\ UNCHANGED etwVars
            /\ proc' = [proc EXCEPT ![t] = sessionHandle_[cur[t]]]
            /\ delivered' = [delivered EXCEPT ![t] = 0]
            /\ \/ CanProcess(sessionHandle_[cur[t]]) /\ pc'[t] = "processing"
               \/ ~CanProcess(sessionHandle_[cur[t]]) /\ pc'[t] = "idle"
<1> USE DEF At, Goto, Finish, TypeOK, ThreadsOK
<1>1. CASE Register(t) \/ StopOld(t) \/ Enable(t) \/ OpenTrace(t) \/ CheckHandle(t) \/ Rundown(t)
  BY <1>1 DEF Register, StopOld, Enable, OpenTrace, CheckHandle, Rundown
<1>2. CASE ProcessTrace(t)
  BY <1>2 DEF ProcessTrace
<1>3. CASE ProcessTraceReturns(t) \/ Deliver(t) \/ CallbackThrows(t)
  BY <1>3 DEF ProcessTraceReturns, Deliver, CallbackThrows, OnEvent
<1>4. CASE StopTrace(t) \/ CheckClose(t) \/ CloseTrace(t) \/ ClearHandle(t)
  BY <1>4 DEF StopTrace, CheckClose, CloseTrace, ClearHandle, AfterClose
<1>5. QED
  BY <1>1, <1>2, <1>3, <1>4 DEF Inside, Advance

\* sessionHandle_ changes in OpenTrace and in close_trace() only.
LEMMA SessionHandleStep ==
  ASSUME TypeOK, NEW t \in Threads, Inside(t)
  PROVE  \/ sessionHandle_' = sessionHandle_
         \/ /\ OpenTrace(t)
            /\ \/ OpenTraceOK(cur[t])
               \/ /\ sessionHandle_' = [sessionHandle_ EXCEPT ![cur[t]] = INVALID]
                  /\ pc'[t] = "idle" /\ result'[t] = "open_trace_failure"
         \/ /\ ClearHandle(t)
            /\ sessionHandle_' = [sessionHandle_ EXCEPT ![cur[t]] = INVALID]
<1> USE DEF At, traceVars
<1>1. CASE Register(t) \/ StopOld(t) \/ Enable(t) \/ CheckHandle(t) \/ Rundown(t)
  BY <1>1 DEF Register, StopOld, Enable, CheckHandle, Rundown
<1>2. CASE OpenTrace(t)
  BY <1>2 DEF OpenTrace, OpenTraceFails, Finish, TypeOK, ThreadsOK
<1>3. CASE ProcessTrace(t) \/ ProcessTraceReturns(t) \/ Deliver(t) \/ CallbackThrows(t)
  BY <1>3 DEF ProcessTrace, ProcessTraceReturns, Deliver, CallbackThrows, OnEvent
<1>4. CASE StopTrace(t) \/ CheckClose(t) \/ CloseTrace(t) \/ ClearHandle(t)
  BY <1>4 DEF StopTrace, CheckClose, CloseTrace, ClearHandle
<1>5. QED
  BY <1>1, <1>2, <1>3, <1>4 DEF Inside, Advance

\* registrationHandle_ changes in StartTrace and at the end of the probe only.
LEMMA RegistrationStep ==
  ASSUME TypeOK, NEW t \in Threads, Inside(t)
  PROVE  \/ /\ registrationHandle_' = registrationHandle_ /\ ~Register(t)
            /\ pc[t] \in ClosePCs /\ op[t] \notin StopOps => pc'[t] # "enable"
         \/ Register(t) /\ (StartTraceSucceeds(cur[t], NewSession) \/ StartTraceFails(cur[t]))
         \/ /\ pc[t] \in ClosePCs /\ op[t] \notin StopOps /\ pc'[t] = "enable"
            /\ registrationHandle_' = [registrationHandle_ EXCEPT ![cur[t]] = INVALID]
<1> USE DEF At, Goto, Finish, traceVars, TypeOK, ThreadsOK
<1>1. CASE Register(t)
  BY <1>1 DEF Register
<1>2. CASE StopOld(t) \/ Enable(t) \/ OpenTrace(t) \/ CheckHandle(t) \/ Rundown(t)
  BY <1>2 DEF StopOld, Enable, OpenTrace, CheckHandle, Rundown, Register
<1>3. CASE ProcessTrace(t) \/ ProcessTraceReturns(t) \/ Deliver(t) \/ CallbackThrows(t)
  BY <1>3 DEF ProcessTrace, ProcessTraceReturns, Deliver, CallbackThrows, OnEvent, Register
<1>4. CASE StopTrace(t) \/ CloseTrace(t)
  BY <1>4 DEF StopTrace, CloseTrace, Register
<1>5. CASE CheckClose(t) \/ ClearHandle(t)
  BY <1>5 DEF CheckClose, ClearHandle, AfterClose, Register, ClosePCs, StopOps
<1>6. QED
  BY <1>1, <1>2, <1>3, <1>4, <1>5 DEF Inside, Advance

-----------------------------------------------------------------------------
(* What is processed and what is counted.                                  *)

\* ProcessTrace runs on a handle of its caller's trace, that nobody else
\* processes and that no close makes go away.
ProcOK(t) ==
  pc[t] = "processing" =>
    /\ proc[t] \in Handles /\ hctx[proc[t]] = cur[t]
    /\ hstate[proc[t]] \in {"open", "closing"}
    /\ \A s \in Threads : pc[s] = "processing" /\ proc[s] = proc[t] => s = t

\* A handle whose close is pending is being processed, and its trace has not
\* been given another one.
ClosingOK(h) ==
  hstate[h] = "closing" =>
    /\ Busy(h)
    /\ Disciplined(hctx[h]) => sessionHandle_[hctx[h]] \in {h, INVALID}

\* Until events arrive the counter of the trace is zero.
CountOK(t) ==
  pc[t] # "idle" /\ op[t] \notin StopOps /\ OneThread(Runners[cur[t]]) =>
    eventsHandled_[cur[t]] = IF pc[t] = "processing" THEN delivered[t] ELSE 0

ConsumerInv ==
  /\ \A t \in Threads : ProcOK(t) /\ CountOK(t)
  /\ \A h \in Handles : ClosingOK(h)

LEMMA InitConsumerInv == Init => ConsumerInv
<1> SUFFICES ASSUME Init PROVE ConsumerInv
  OBVIOUS
<1>1. /\ \A t \in Threads : pc[t] = "idle"
      /\ \A h \in Handles : hstate[h] = "unused"
  BY DEF Init
<1>2. QED
  BY <1>1 DEF ConsumerInv, ProcOK, CountOK, ClosingOK

\* OpenTrace attaches an unused handle to the trace and to its session.
LEMMA OpenTraceEffect ==
  ASSUME TypeOK, NEW t \in Threads, OpenTrace(t), OpenTraceOK(cur[t])
  PROVE  /\ pc[t] \in {"openTrace", "probeOpen"} /\ pc'[t] # "processing" /\ proc' = proc
         /\ pc[t] = "probeOpen" => pc'[t] = "close"
         /\ \E h \in Handles :
              /\ hstate[h] = "unused" /\ hstate'[h] = "open" /\ hctx'[h] = cur[t]
              /\ hsess'[h] = IF cur[t] \in FileTraces THEN NoSession ELSE session[Name[cur[t]]]
              /\ sessionHandle_'[cur[t]] = h
              /\ \A k \in Handles \ {h} :
                   hstate'[k] = hstate[k] /\ hctx'[k] = hctx[k] /\ hsess'[k] = hsess[k]
              /\ \A u \in Traces \ {cur[t]} : sessionHandle_'[u] = sessionHandle_[u]
<1>1. /\ pc[t] \in {"openTrace", "probeOpen"} /\ proc' = proc
      /\ \/ Goto(t, "close") \/ Goto(t, "process")
         \/ Finish(t, "ok") \/ Finish(t, "open_trace_failure")
  BY DEF OpenTrace
<1>2. FreshHandle \in Handles /\ hstate[FreshHandle] = "unused"
  BY FreshHandleIsUnused DEF OpenTraceOK
<1>3. pc'[t] # "processing" /\ (pc[t] = "probeOpen" => pc'[t] = "close")
  <2>1. pc'[t] # "processing"
    BY <1>1 DEF Goto, Finish, TypeOK, ThreadsOK
  <2>2. OpenTraceFails(cur[t]) => FALSE
    BY <1>2, SessionAssumption DEF OpenTraceFails, OpenTraceOK, TypeOK, EtwOK
  <2>3. pc[t] = "probeOpen" => pc'[t] = "close"
    BY <2>2 DEF OpenTrace, At, Goto, TypeOK, ThreadsOK
  <2>4. QED
    BY <2>1, <2>3
<1>4. cur[t] \in Traces
  BY DEF TypeOK, ThreadsOK
<1>5. QED
  BY <1>1, <1>2, <1>3, <1>4 DEF OpenTraceOK, TypeOK, TracesOK, EtwOK

LEMMA ProcKept ==
  ASSUME IInv, ConsumerInv, NEW t \in Threads, Inside(t), proc' = proc,
         pc'[t] = "processing" => pc[t] = "processing",
         NEW s \in Threads, pc'[s] = "processing"
  PROVE  ProcOK(s)'
<1>1. /\ cur' = cur
      /\ \A r \in Threads : pc'[r] = "processing" => pc[r] = "processing"
  BY ThreadStep, ThreadFrame DEF IInv
<1>2. ProcOK(s)
  BY DEF ConsumerInv
<1>3. /\ proc[s] \in Handles /\ hctx[proc[s]] = cur[s]
      /\ hstate[proc[s]] \in {"open", "closing"}
      /\ \A r \in Threads : pc[r] = "processing" /\ proc[r] = proc[s] => r = s
  BY <1>1, <1>2 DEF ProcOK
<1>4. SUFFICES hctx'[proc[s]] = hctx[proc[s]] /\ hstate'[proc[s]] \in {"open", "closing"}
  BY <1>1, <1>3 DEF ProcOK
<1>5. hctx'[proc[s]] = hctx[proc[s]]
  BY <1>3, HandleStep, OpenTraceEffect DEF IInv
<1>6. hstate \in [Handles -> {"unused", "open", "closing", "closed"}]
  BY DEF IInv, TypeOK, EtwOK
<1>7. hstate'[proc[s]] \in {"open", "closing"}
  <2>1. CASE OpenTrace(t) /\ OpenTraceOK(cur[t])
    BY <1>3, <2>1, OpenTraceEffect DEF IInv
  <2>2. CASE pc[t] = "processing" /\ pc'[t] = "idle" /\ Release(t)
    <3>1. s # t
      BY <2>2
    <3>2. proc[s] # proc[t]
      BY <1>3, <2>2, <3>1
    <3>3. QED
      BY <1>3, <1>6, <2>2, <3>2 DEF Release
  <2>3. CASE LET h == sessionHandle_[cur[t]] IN
               /\ CloseTrace(t) /\ h \in Handles /\ hstate[h] = "open"
               /\ hstate' = [hstate EXCEPT ![h] = IF Busy(h) THEN "closing" ELSE "closed"]
    <3>1. Busy(proc[s])
      BY <1>1 DEF Busy, At
    <3>2. QED
      BY <1>3, <1>6, <2>3, <3>1
  <2>4. CASE op[t] = "destroy" /\ pc[t] # "processing" /\ Terminated(cur[t])
    <3>1. pc[s] # "idle" /\ pc[t] # "idle" /\ s # t
      BY <1>1, <2>4, ThreadStep DEF IInv
    <3>2. cur[s] # cur[t]
      BY <2>4, <3>1 DEF IInv, CallInv, LifeOK
    <3>3. QED
      BY <1>3, <1>6, <2>4, <3>2 DEF Terminated
  <2>5. QED
    BY <1>3, <2>1, <2>2, <2>3, <2>4, HandleStateStep DEF IInv
<1>8. QED
  BY <1>5, <1>7

LEMMA ProcStarted ==
  ASSUME IInv, ConsumerInv, NEW t \in Threads, Inside(t), UNCHANGED etwVars,
         proc' = [proc EXCEPT ![t] = sessionHandle_[cur[t]]],
         CanProcess(sessionHandle_[cur[t]]), pc[t] # "processing",
         NEW s \in Threads, pc'[s] = "processing"
  PROVE  ProcOK(s)'
<1> DEFINE h == sessionHandle_[cur[t]]
<1>1. /\ cur' = cur /\ hstate' = hstate /\ hctx' = hctx
      /\ \A r \in Threads \ {t} : pc'[r] = "processing" => pc[r] = "processing"
      /\ cur[t] \in Traces /\ proc \in [Threads -> Handles \cup {INVALID}]
  BY ThreadStep, ThreadFrame DEF IInv, etwVars, TypeOK, ThreadsOK
<1>2. h \in Handles /\ hstate[h] = "open" /\ hctx[h] = cur[t]
  <2>1. h \in Handles /\ hstate[h] = "open" /\ h # INVALID
    BY SessionAssumption DEF CanProcess
  <2>2. HandleOK(cur[t])
    BY <1>1 DEF IInv, HandleInv
  <2>3. QED
    BY <2>1, <2>2 DEF HandleOK
<1>3. \A r \in Threads : pc[r] = "processing" => proc[r] # h
  BY DEF CanProcess, Busy, At
<1> HIDE DEF h
<1>4. proc'[t] = h /\ \A r \in Threads \ {t} : proc'[r] = proc[r]
  BY <1>1 DEF h
<1>5. CASE s = t
  BY <1>1, <1>2, <1>3, <1>4, <1>5 DEF ProcOK
<1>6. CASE s # t
  <2>1. ProcOK(s) /\ pc[s] = "processing"
    BY <1>1, <1>6 DEF ConsumerInv
  <2>2. QED
    BY <1>1, <1>3, <1>4, <1>6, <2>1 DEF ProcOK
<1>7. QED
  BY <1>5, <1>6

\* A handle that was closed while it was processed is processed still.
LEMMA ClosingKept ==
  ASSUME IInv, ConsumerInv, NEW t \in Threads, Inside(t),
         NEW h \in Handles, hstate'[h] = "closing"
  PROVE  ClosingOK(h)'
<1>1. /\ cur' = cur /\ pc[t] # "idle" /\ cur[t] \in Traces
      /\ hstate \in [Handles -> {"unused", "open", "closing", "closed"}]
      /\ \A s \in Threads \ {t} : pc'[s] = pc[s] /\ proc'[s] = proc[s]
      /\ hctx[h] \in Traces /\ \A u \in Traces : sessionHandle_[u] \in Handles \cup {INVALID}
      /\ sessionHandle_ \in [Traces -> Handles \cup {INVALID}]
  BY ThreadStep, ThreadFrame DEF IInv, TypeOK, ThreadsOK, TracesOK, EtwOK
<1>2. ASSUME NEW s \in Threads, pc[s] = "processing", proc[s] = h,
             s # t \/ pc'[t] = "processing"
      PROVE  Busy(h)'
  <2>1. pc'[s] = "processing" /\ proc'[s] = h
    BY <1>1, <1>2, ProcStep DEF IInv
  <2>2. QED
    BY <2>1 DEF Busy, At
<1>3. CASE OpenTrace(t) /\ OpenTraceOK(cur[t])
  <2>1. PICK k \in Handles :
          /\ hstate[k] = "unused" /\ hstate'[k] = "open"
          /\ \A g \in Handles \ {k} : hstate'[g] = hstate[g] /\ hctx'[g] = hctx[g]
          /\ \A u \in Traces \ {cur[t]} : sessionHandle_'[u] = sessionHandle_[u]
    BY <1>3, OpenTraceEffect DEF IInv
  <2>2. hstate[h] = "closing" /\ hctx'[h] = hctx[h] /\ ClosingOK(h)
    BY <2>1 DEF ConsumerInv
  <2>3. PICK s \in Threads : pc[s] = "processing" /\ proc[s] = h
    BY <2>2 DEF ClosingOK, Busy, At
  <2>4. pc[t] \in {"openTrace", "probeOpen"} /\ s # t
    BY <1>3, <2>3 DEF OpenTrace
  <2>5. Disciplined(hctx[h]) => hctx[h] # cur[t]
    <3>1. cur[s] = hctx[h]
      BY <2>3 DEF ConsumerInv, ProcOK
    <3>2. s \in Runners[cur[s]] /\ t \in Runners[cur[t]]
      BY <2>3, <2>4 DEF IInv, CallInv, CallOK, StopOps, OpenPCs, ClosePCs
    <3>3. QED
      BY <2>4, <3>1, <3>2 DEF Disciplined, OneThread
  <2>6. Busy(h)'
    BY <1>2, <2>3, <2>4
  <2>7. QED
    BY <1>1, <2>1, <2>2, <2>5, <2>6 DEF ClosingOK
<1>4. CASE /\ hctx' = hctx
           /\ \A u \in Traces : sessionHandle_'[u] \in {sessionHandle_[u], INVALID}
  <2>1. CASE hstate[h] = "closing" /\ \E s \in Threads :
               pc[s] = "processing" /\ proc[s] = h /\ (s # t \/ pc'[t] = "processing")
    <3>1. Busy(h)'
      BY <1>2, <2>1
    <3>2. ClosingOK(h)
      BY DEF ConsumerInv
    <3>3. QED
      BY <1>1, <1>4, <2>1, <3>1, <3>2 DEF ClosingOK
  <2>2. ASSUME hstate[h] = "closing"
        PROVE  \E s \in Threads : pc[s] = "processing" /\ proc[s] = h
    BY <2>2 DEF ConsumerInv, ClosingOK, Busy, At
  <2>3. CASE hstate' = hstate /\ (pc[t] = "processing" => pc'[t] = "processing")
    BY <2>1, <2>2, <2>3
  <2>4. CASE pc[t] = "processing" /\ pc'[t] = "idle" /\ Release(t)
    <3>1. hstate[h] = "closing" /\ h # proc[t]
      BY <1>1, <2>4 DEF Release
    <3>2. QED
      BY <2>1, <2>2, <3>1
  <2>5. CASE LET g == sessionHandle_[cur[t]] IN
               /\ CloseTrace(t) /\ g \in Handles /\ hstate[g] = "open"
               /\ hstate' = [hstate EXCEPT ![g] = IF Busy(g) THEN "closing" ELSE "closed"]
    <3>1. pc[t] = "closeTrace"
      BY <2>5 DEF CloseTrace, At
    <3>2. CASE h = sessionHandle_[cur[t]]
      <4>1. Busy(h)
        BY <1>1, <2>5, <3>2
      <4>2. Busy(h)'
        BY <1>2, <3>1, <4>1 DEF Busy, At
      <4>3. hctx[h] = cur[t]
        BY <1>1, <3>2, SessionAssumption DEF IInv, HandleInv, HandleOK
      <4>4. QED
        BY <1>1, <1>4, <3>2, <4>2, <4>3 DEF ClosingOK
    <3>3. CASE h # sessionHandle_[cur[t]]
      BY <1>1, <2>1, <2>2, <2>5, <3>1, <3>3
    <3>4. QED
      BY <3>2, <3>3
  <2>6. CASE op[t] = "destroy" /\ pc[t] # "processing" /\ Terminated(cur[t])
    <3>1. hstate[h] = "closing"
      BY <1>1, <2>6 DEF Terminated
    <3>2. QED
      BY <2>1, <2>2, <2>6, <3>1
  <2>7. QED
    BY <1>3, <2>3, <2>4, <2>5, <2>6, HandleStateStep DEF IInv
<1>5. QED
  BY <1>1, <1>3, <1>4, HandleStep, SessionHandleStep DEF IInv

\* Only the thread that runs a trace counts its events and resets the count.
LEMMA CountKept ==
  ASSUME IInv, ConsumerInv, NEW t \in Threads, Inside(t), NEW s \in Threads
  PROVE  CountOK(s)'
<1> SUFFICES ASSUME pc'[s] # "idle", op'[s] \notin StopOps, OneThread(Runners[cur'[s]])
             PROVE  eventsHandled_'[cur'[s]] =
                      IF pc'[s] = "processing" THEN delivered'[s] ELSE 0
  BY DEF CountOK
<1>1. /\ cur' = cur /\ op' = op /\ pc[t] # "idle" /\ cur[s] \in Traces
      /\ \A r \in Threads \ {t} : pc'[r] = pc[r] /\ delivered'[r] = delivered[r]
      /\ eventsHandled_ \in [Traces -> Nat] /\ delivered \in [Threads -> Nat]
  BY ThreadStep, ThreadFrame DEF IInv, TypeOK, ThreadsOK, TracesOK
<1>2. pc[s] # "idle" /\ CountOK(s)
  BY <1>1 DEF ConsumerInv
<1>3. eventsHandled_[cur[s]] = IF pc[s] = "processing" THEN delivered[s] ELSE 0
  BY <1>1, <1>2 DEF CountOK
<1>4. CASE pc[t] = "processing" /\ eventsHandled_' = [eventsHandled_ EXCEPT ![hctx[proc[t]]] = @ + 1]
           /\ delivered' = [delivered EXCEPT ![t] = @ + 1]
  <2>1. hctx[proc[t]] = cur[t] /\ pc'[t] \in {"processing", "idle"}
    BY <1>4, CounterStep DEF ConsumerInv, ProcOK, IInv
  <2>2. CASE cur[s] = cur[t]
    <3>1. s \in Runners[cur[s]] /\ t \in Runners[cur[s]]
      BY <1>1, <1>2, <1>4, <2>2 DEF IInv, CallInv, CallOK, StopOps, ClosePCs
    <3>2. s = t
      BY <1>1, <3>1 DEF OneThread
    <3>3. QED
      BY <1>1, <1>3, <1>4, <2>1, <3>2
  <2>3. CASE cur[s] # cur[t]
    BY <1>1, <1>3, <1>4, <2>1, <2>3
  <2>4. QED
    BY <2>2, <2>3
<1>5. CASE eventsHandled_' = eventsHandled_ /\ (pc[t] = "processing" => delivered'[t] = delivered[t])
  <2>1. CASE s # t
    BY <1>1, <1>3, <1>5, <2>1
  <2>2. CASE s = t /\ pc[t] = "processing"
    BY <1>1, <1>3, <1>5, <2>2, CounterStep DEF IInv
  <2>3. CASE s = t /\ pc[t] # "processing"
    <3>1. pc'[t] = "processing" => delivered'[t] = 0
      BY <1>1, <2>3, ProcStep DEF IInv
    <3>2. QED
      BY <1>1, <1>3, <1>5, <2>3, <3>1
  <2>4. QED
    BY <2>1, <2>2, <2>3
<1>6. QED
  BY <1>4, <1>5, CounterStep DEF IInv

LEMMA NextConsumerInv == IInv /\ ConsumerInv /\ [Next]_vars => ConsumerInv'
<1> SUFFICES ASSUME IInv, ConsumerInv, [Next]_vars PROVE ConsumerInv'
  OBVIOUS
<1>1. ASSUME NEW t \in Threads, NEW o \in Traces, ClientCall(t, o) PROVE ConsumerInv'
  <2>1. /\ UNCHANGED <<proc, delivered, sessionHandle_, hstate, hctx>>
        /\ pc[t] = "idle" /\ pc'[t] \in {"register", "process", "stopTrace"} /\ cur'[t] = o
        /\ \A s \in Threads \ {t} : pc'[s] = pc[s] /\ op'[s] = op[s] /\ cur'[s] = cur[s]
        /\ \/ /\ op'[t] \in StopOps /\ eventsHandled_' = eventsHandled_
           \/ /\ op'[t] \notin StopOps /\ t \in Runners[o]
              /\ eventsHandled_' = [eventsHandled_ EXCEPT ![o] = 0]
    BY <1>1, CallFrame, CallStep DEF IInv, etwVars
  <2>2. ASSUME NEW s \in Threads PROVE ProcOK(s)'
    BY <2>1 DEF ConsumerInv, ProcOK
  <2>3. ASSUME NEW h \in Handles PROVE ClosingOK(h)'
    BY <2>1 DEF ConsumerInv, ClosingOK, Busy, At
  <2>4. ASSUME NEW s \in Threads PROVE CountOK(s)'
    <3>1. CASE s = t
      BY <2>1, <3>1 DEF CountOK, IInv, TypeOK, TracesOK
    <3>2. CASE s # t
      <4>1. CountOK(s) /\ cur[s] \in Traces /\ CallOK(s)
        BY DEF ConsumerInv, IInv, CallInv, TypeOK, ThreadsOK
      <4>2. CASE cur[s] = o /\ op'[t] \notin StopOps /\ t \in Runners[o]
        BY <2>1, <3>2, <4>1, <4>2 DEF CountOK, CallOK, OneThread
      <4>3. CASE eventsHandled_'[cur[s]] = eventsHandled_[cur[s]]
        BY <2>1, <3>2, <4>1, <4>3 DEF CountOK
      <4>4. QED
        BY <2>1, <4>1, <4>2, <4>3 DEF IInv, TypeOK, TracesOK
    <3>3. QED
      BY <3>1, <3>2
  <2>5. QED
    BY <2>2, <2>3, <2>4 DEF ConsumerInv
<1>2. ASSUME NEW t \in Threads, Inside(t) PROVE ConsumerInv'
  <2>1. ASSUME NEW s \in Threads, pc'[s] = "processing" PROVE ProcOK(s)'
    <3>1. CASE proc' = proc /\ (pc'[t] = "processing" => pc[t] = "processing")
      BY <1>2, <2>1, <3>1, ProcKept
    <3>2. CASE pc[t] = "processTrace" /\ UNCHANGED etwVars
               /\ proc' = [proc EXCEPT ![t] = sessionHandle_[cur[t]]]
               /\ CanProcess(sessionHandle_[cur[t]])
      BY <1>2, <2>1, <3>2, ProcStarted
    <3>3. CASE pc[t] = "processTrace" /\ UNCHANGED etwVars /\ pc'[t] = "idle"
               /\ proc' = [proc EXCEPT ![t] = sessionHandle_[cur[t]]]
      <4>1. /\ \A r \in Threads : pc'[r] = "processing" =>
                  pc[r] = "processing" /\ r # t /\ proc'[r] = proc[r]
            /\ cur' = cur /\ hstate' = hstate /\ hctx' = hctx
        BY <1>2, <3>3, ThreadFrame, ThreadStep DEF IInv, etwVars
      <4>2. QED
        BY <2>1, <4>1 DEF ConsumerInv, ProcOK
    <3>4. QED
      BY <1>2, <3>1, <3>2, <3>3, ProcStep DEF IInv
  <2>2. ASSUME NEW s \in Threads PROVE ProcOK(s)'
    BY <2>1 DEF ProcOK
  <2>3. ASSUME NEW h \in Handles PROVE ClosingOK(h)'
    BY <1>2, ClosingKept DEF ClosingOK
  <2>4. ASSUME NEW s \in Threads PROVE CountOK(s)'
    BY <1>2, CountKept
  <2>5. QED
    BY <2>2, <2>3, <2>4 DEF ConsumerInv
<1>3. CASE UNCHANGED <<threadVars, traceVars, hstate, hctx>>
  BY <1>3 DEF ConsumerInv, ProcOK, ClosingOK, CountOK, Busy, At, threadVars, traceVars
<1>4. ASSUME NEW n \in Names, OutsideStop(n) PROVE UNCHANGED <<threadVars, traceVars, hstate, hctx>>
  BY <1>4 DEF OutsideStop
<1>5. CASE UNCHANGED vars
  BY <1>3, <1>5 DEF vars, etwVars
<1>6. QED
  BY <1>1, <1>2, <1>3, <1>4, <1>5 DEF Next, Inside

\* What is processed and what is counted, in every state.
THEOREM ConsumersInvariant == Spec => []ConsumerInv
<1>1. Init => ConsumerInv
  BY InitConsumerInv
<1>2. IInv /\ ConsumerInv /\ [Next]_vars => ConsumerInv'
  BY NextConsumerInv
<1>3. QED
  BY <1>1, <1>2, Invariance, PTL DEF Spec

\* While one thread processes a trace, eventsHandled_ is the number of events
\* that this ProcessTrace has delivered, for any number of other traces and
\* threads, and whatever stop() does meanwhile.
THEOREM EventsAreCounted == Spec => []EventsHandledExact
<1>1. IInv /\ ConsumerInv => EventsHandledExact
  <2> SUFFICES ASSUME IInv, ConsumerInv, NEW t \in Threads, pc[t] = "processing",
                      OneThread(Runners[cur[t]])
               PROVE  eventsHandled_[cur[t]] = delivered[t]
    BY DEF EventsHandledExact, At
  <2>1. op[t] \notin StopOps
    BY DEF IInv, CallInv, CallOK, StopOps, ClosePCs
  <2>2. QED
    BY <2>1 DEF ConsumerInv, CountOK
<1>2. QED
  BY <1>1, Invariance, ConsumersInvariant, PTL

-----------------------------------------------------------------------------
(* The session that is left behind.                                        *)

\* A trace used as documented whose session name is its own.
Sole(o) == Disciplined(o) /\ OwnName(o)

EarlyPCs == {"register", "stopOld", "registerAgain", "enable", "openTrace", "process",
             "stopTrace"}
LatePCs == {"rundown", "processTrace", "processing"}

\* While no stop() overlaps the opening of o, none is in progress beside it.
NoOverlap(o) ==
  o \notin overlapped => \A s, t \in Threads : ~(Stopping(s, o) /\ Opening(t, o))

\* A process that controls no session has none under a name of its own.
Confined(o) ==
  OwnName(o) /\ o \notin Admin =>
    /\ session[Name[o]] = NoSession
    /\ \A h \in Handles : hctx[h] = o => hsess[h] = NoSession

\* Once stop() has stopped the session nobody starts it before stop() returns.
StoppedOK(o) ==
  o \notin overlapped /\ OwnName(o) =>
    \A t \in Threads : Stopping(t, o) /\ pc[t] \in ClosePCs => session[Name[o]] = NoSession

\* A thread that was to process the trace and lost the handle lost the session too.
LostOK(o) ==
  o \notin overlapped /\ Sole(o) /\ sessionHandle_[o] = INVALID =>
    \A t \in Threads : cur[t] = o /\ pc[t] \in LatePCs => session[Name[o]] = NoSession

\* A session without a handle: the call that started it is in progress, or its
\* thread has been told, or has something else to do first.
OrphanOK(o) ==
  /\ o \notin overlapped /\ Sole(o)
  /\ sessionHandle_[o] = INVALID /\ session[Name[o]] # NoSession
  => \E t \in Runners[o] : cur[t] # o \/ result[t] # "ok" \/ pc[t] \in EarlyPCs

OrphanInv ==
  \A o \in Traces :
    NoOverlap(o) /\ Confined(o) /\ StoppedOK(o) /\ LostOK(o) /\ OrphanOK(o)

LEMMA InitOrphanInv == Init => OrphanInv
<1> SUFFICES ASSUME Init, NEW o \in Traces
             PROVE  NoOverlap(o) /\ Confined(o) /\ StoppedOK(o) /\ LostOK(o) /\ OrphanOK(o)
  BY DEF OrphanInv
<1>1. /\ \A t \in Threads : pc[t] = "idle"
      /\ \A h \in Handles : hsess[h] = NoSession
      /\ OwnName(o) => session[Name[o]] = NoSession
  BY DEF Init, OwnName
<1>2. NoOverlap(o) /\ Confined(o) /\ StoppedOK(o)
  BY <1>1 DEF NoOverlap, Confined, StoppedOK, Stopping, InCall
<1>3. LostOK(o) /\ OrphanOK(o)
  BY <1>1 DEF LostOK, OrphanOK, Sole
<1>4. QED
  BY <1>2, <1>3

\* A call that begins is recorded in overlapped if it meets a call of the other kind.
LEMMA CallOverlap ==
  ASSUME TypeOK, NEW t \in Threads, NEW o \in Traces, ClientCall(t, o), o \notin overlapped'
  PROVE  /\ op'[t] \in {"start", "open"} => \A s \in Threads : ~Stopping(s, o)
         /\ op'[t] \in StopOps => \A s \in Threads : ~Opening(s, o)
<1> USE DEF Call, Goto, At, StopOps, TypeOK, ThreadsOK
<1>1. CASE Start(t, o) \/ Open(t, o) \/ Process(t, o)
  BY <1>1 DEF Start, Open, Process
<1>2. CASE Stop(t, o)
  BY <1>2 DEF Stop
<1>3. CASE Destroy(t, o)
  BY <1>3 DEF Destroy, Opening
<1>4. QED
  BY <1>1, <1>2, <1>3 DEF ClientCall

\* A call that has not begun to open or to stop its trace does not begin to later.
LEMMA OverlapStep ==
  ASSUME TypeOK, CallInv, NEW t \in Threads, Inside(t), NEW s \in Threads, NEW o \in Traces
  PROVE  /\ Stopping(s, o)' => Stopping(s, o)
         /\ Opening(s, o)' => Opening(s, o)
<1>1. op' = op /\ cur' = cur /\ pc[t] # "idle" /\ CallOK(t)
  BY ThreadStep DEF CallInv
<1>2. PICK l \in PCs : pc' = [pc EXCEPT ![t] = l] /\ Follows(t, l)
  BY ThreadStep
<1>3. pc'[t] = l /\ (s # t => pc'[s] = pc[s])
  BY <1>2 DEF TypeOK, ThreadsOK
<1>4. Stopping(s, o)' => Stopping(s, o)
  BY <1>1, <1>3 DEF Stopping, InCall
<1>5. CASE s # t
  BY <1>1, <1>3, <1>4, <1>5 DEF Opening, InCall
<1>6. CASE s = t
  BY <1>1, <1>2, <1>3, <1>4, <1>6
  DEF Opening, InCall, Follows, CallOK, OpenPCs, ClosePCs, RunPCs, StopOps
<1>7. QED
  BY <1>4, <1>5, <1>6

\* Who registers a session is opening its trace.
LEMMA RegisterOpens ==
  ASSUME TypeOK, CallInv, NEW t \in Threads, pc[t] \in OpenPCs
  PROVE  Opening(t, cur[t]) /\ t \in Runners[cur[t]] /\ op[t] \notin StopOps
  BY DEF TypeOK, ThreadsOK, AllOps, CallInv, CallOK, OpenPCs, ClosePCs, StopOps, Opening, InCall

\* The session of a trace with a name of its own, after a step of t.
LEMMA OwnSessionStep ==
  ASSUME TypeOK, NEW t \in Threads, Inside(t), NEW o \in Traces, OwnName(o)
  PROVE  \/ /\ session'[Name[o]] = session[Name[o]]
            /\ pc[t] = "stopTrace" /\ cur[t] = o => pc'[t] # "close"
         \/ session'[Name[o]] = NoSession
         \/ /\ cur[t] = o /\ o \in Admin /\ pc[t] \in OpenPCs /\ pc'[t] = "enable"
            /\ Register(t) /\ StartTraceSucceeds(o, NewSession)
<1>1. /\ cur[t] \in Traces /\ session \in [Names -> Sessions \cup {NoSession}]
      /\ Name[o] \in Names /\ Name[cur[t]] \in Names
      /\ Name[cur[t]] = Name[o] => cur[t] = o
  BY ClientAssumption DEF TypeOK, ThreadsOK, EtwOK, OwnName
<1>2. CASE session' = [session EXCEPT ![Name[cur[t]]] = NoSession] /\ cur[t] = o
  BY <1>1, <1>2
<1>3. CASE session' = [session EXCEPT ![Name[cur[t]]] = NoSession] /\ cur[t] # o
  BY <1>1, <1>3
<1>4. CASE Register(t) /\ pc'[t] = "enable" /\ StartTraceSucceeds(cur[t], NewSession) /\ cur[t] = o
  BY <1>4 DEF Register, StartTraceSucceeds, OpenPCs
<1>5. CASE Register(t) /\ pc'[t] = "enable" /\ StartTraceSucceeds(cur[t], NewSession) /\ cur[t] # o
  BY <1>1, <1>5 DEF StartTraceSucceeds
<1>6. QED
  BY <1>2, <1>3, <1>4, <1>5, SessionStep

\* A handle is there when a thread goes on to process it.
LEMMA LateStep ==
  ASSUME TypeOK, NEW t \in Threads, Inside(t), pc'[t] \in LatePCs
  PROVE  pc[t] \in LatePCs \/ (sessionHandle_[cur[t]] # INVALID /\ sessionHandle_' = sessionHandle_)
<1> USE DEF At, Goto, Finish, LatePCs, TypeOK, ThreadsOK
<1>1. CASE Register(t) \/ StopOld(t) \/ Enable(t)
  BY <1>1 DEF Register, StopOld, Enable
<1>2. CASE OpenTrace(t)
  BY <1>2 DEF OpenTrace
<1>3. CASE CheckHandle(t) \/ Rundown(t) \/ ProcessTrace(t)
  BY <1>3 DEF CheckHandle, Rundown, ProcessTrace, traceVars
<1>4. CASE ProcessTraceReturns(t) \/ Deliver(t) \/ CallbackThrows(t)
  BY <1>4 DEF ProcessTraceReturns, Deliver, CallbackThrows, OnEvent
<1>5. CASE StopTrace(t) \/ CheckClose(t) \/ CloseTrace(t) \/ ClearHandle(t)
  BY <1>5 DEF StopTrace, CheckClose, CloseTrace, ClearHandle, AfterClose
<1>6. QED
  BY <1>1, <1>2, <1>3, <1>4, <1>5 DEF Inside, Advance

\* The calls that return normally: an open() that has opened, a start() or
\* process() that has processed, and a stop() that has closed.
LEMMA ReturnStep ==
  ASSUME TypeOK, CallInv, NEW t \in Threads, Inside(t)
  PROVE  \/ result'[t] = result[t] /\ pc'[t] # "idle"
         \/ result'[t] # "ok"
         \/ pc[t] = "processing"
         \/ pc[t] \in ClosePCs /\ op[t] \in StopOps
         \/ OpenTrace(t) /\ OpenTraceOK(cur[t])
<1> USE DEF At, Goto, Finish, TypeOK, ThreadsOK, Exceptions
<1>1. CASE Register(t)
  <2>1. Goto(t, "enable") \/ Goto(t, "stopOld") \/ \E e \in Exceptions : Finish(t, e)
    BY <1>1 DEF Register
  <2>2. QED
    BY <2>1
<1>2. CASE StopOld(t) \/ Enable(t)
  BY <1>2 DEF StopOld, Enable
<1>3. CASE OpenTrace(t)
  BY <1>3 DEF OpenTrace
<1>4. CASE CheckHandle(t) \/ Rundown(t) \/ ProcessTrace(t)
  BY <1>4 DEF CheckHandle, Rundown, ProcessTrace
<1>5. CASE ProcessTraceReturns(t) \/ Deliver(t) \/ CallbackThrows(t)
  BY <1>5 DEF ProcessTraceReturns, Deliver, CallbackThrows, OnEvent
<1>6. CASE StopTrace(t) \/ CloseTrace(t)
  BY <1>6 DEF StopTrace, CloseTrace
<1>7. CASE CheckClose(t) \/ ClearHandle(t)
  BY <1>7 DEF CheckClose, ClearHandle, AfterClose, ClosePCs, StopOps
<1>8. QED
  BY <1>1, <1>2, <1>3, <1>4, <1>5, <1>6, <1>7 DEF Inside, Advance

LEMMA NextOrphanInv == IInv /\ OrphanInv /\ [Next]_vars => OrphanInv'
<1> SUFFICES ASSUME IInv, OrphanInv, [Next]_vars, NEW o \in Traces
             PROVE  (NoOverlap(o) /\ Confined(o) /\ StoppedOK(o) /\ LostOK(o) /\ OrphanOK(o))'
  BY DEF OrphanInv
<1>0. /\ NoOverlap(o) /\ Confined(o) /\ StoppedOK(o) /\ LostOK(o) /\ OrphanOK(o)
      /\ TypeOK /\ CallInv
  BY DEF OrphanInv, IInv
<1>1. ASSUME NEW t \in Threads, NEW u \in Traces, ClientCall(t, u)
      PROVE  (NoOverlap(o) /\ Confined(o) /\ StoppedOK(o) /\ LostOK(o) /\ OrphanOK(o))'
  <2>1. /\ UNCHANGED <<result, sessionHandle_, session, hctx, hsess>>
        /\ o \notin overlapped' => o \notin overlapped
        /\ pc[t] = "idle" /\ pc'[t] \in {"register", "process", "stopTrace"} /\ cur'[t] = u
        /\ op'[t] \in StopOps <=> pc'[t] = "stopTrace"
        /\ \A s \in Threads \ {t} : pc'[s] = pc[s] /\ op'[s] = op[s] /\ cur'[s] = cur[s]
    BY <1>0, <1>1, CallFrame, CallStep DEF etwVars
  <2>2. NoOverlap(o)'
    <3> SUFFICES ASSUME o \notin overlapped', NEW s \in Threads, NEW r \in Threads,
                        Stopping(s, o)', Opening(r, o)'
                 PROVE  FALSE
      BY DEF NoOverlap
    <3>1. s # r
      BY DEF Stopping, Opening
    <3>2. s # t => Stopping(s, o)
      BY <2>1 DEF Stopping, InCall
    <3>3. r # t => Opening(r, o)
      BY <2>1 DEF Opening, InCall
    <3>4. CASE s = t
      <4>1. u = o /\ op'[t] \in StopOps
        BY <2>1, <3>4 DEF Stopping, InCall, StopOps
      <4>2. QED
        BY <1>0, <1>1, <3>1, <3>3, <3>4, <4>1, CallOverlap
    <3>5. CASE r = t
      <4>1. u = o /\ op'[t] \in {"start", "open"}
        BY <2>1, <3>5 DEF Opening, InCall
      <4>2. QED
        BY <1>0, <1>1, <3>1, <3>2, <3>5, <4>1, CallOverlap
    <3>6. QED
      BY <1>0, <2>1, <3>2, <3>3, <3>4, <3>5 DEF NoOverlap
  <2>3. Confined(o)'
    BY <1>0, <2>1 DEF Confined
  <2>4. StoppedOK(o)'
    BY <1>0, <2>1 DEF StoppedOK, Stopping, InCall, ClosePCs
  <2>5. LostOK(o)'
    BY <1>0, <2>1 DEF LostOK, LatePCs
  <2>6. OrphanOK(o)'
    <3>1. Runners[o] \subseteq Threads
      BY ClientAssumption
    <3>2. \A s \in Threads :
            (cur[s] # o \/ result[s] # "ok" \/ pc[s] \in EarlyPCs) =>
            (cur'[s] # o \/ result'[s] # "ok" \/ pc'[s] \in EarlyPCs)
      BY <2>1 DEF EarlyPCs
    <3>3. QED
      BY <1>0, <2>1, <3>1, <3>2 DEF OrphanOK
  <2>7. QED
    BY <2>2, <2>3, <2>4, <2>5, <2>6
<1>2. ASSUME NEW t \in Threads, Inside(t)
      PROVE  (NoOverlap(o) /\ Confined(o) /\ StoppedOK(o) /\ LostOK(o) /\ OrphanOK(o))'
  <2>1. /\ op' = op /\ cur' = cur /\ overlapped' = overlapped /\ pc[t] # "idle"
        /\ \A s \in Threads \ {t} : pc'[s] = pc[s] /\ result'[s] = result[s]
        /\ cur[t] \in Traces /\ sessionHandle_ \in [Traces -> Handles \cup {INVALID}]
    BY <1>0, <1>2, ThreadStep, ThreadFrame DEF TypeOK, ThreadsOK, TracesOK
  <2>2. NoOverlap(o)'
    BY <1>0, <1>2, <2>1, OverlapStep DEF NoOverlap
  \* The session of o cannot be started while a stop() of o is in progress.
  <2>3. ASSUME OwnName(o), session[Name[o]] = NoSession, session'[Name[o]] # NoSession
        PROVE  /\ cur[t] = o /\ o \in Admin /\ t \in Runners[o] /\ pc[t] \in OpenPCs
               /\ pc'[t] = "enable" /\ Opening(t, o)
    BY <1>0, <1>2, <2>3, OwnSessionStep, RegisterOpens
  <2>4. Confined(o)'
    <3> SUFFICES ASSUME OwnName(o), o \notin Admin PROVE Confined(o)'
      BY DEF Confined
    <3>1. session[Name[o]] = NoSession /\ session'[Name[o]] = NoSession
      BY <1>0, <2>3 DEF Confined
    <3>2. \A h \in Handles : hctx'[h] = o => hsess'[h] = NoSession
      BY <1>0, <1>2, <3>1, HandleStep, OpenTraceEffect DEF Confined
    <3>3. QED
      BY <3>1, <3>2 DEF Confined
  <2>5. StoppedOK(o)'
    <3> SUFFICES ASSUME o \notin overlapped, OwnName(o), NEW s \in Threads,
                        Stopping(s, o)', pc'[s] \in ClosePCs, session'[Name[o]] # NoSession
                 PROVE  FALSE
      BY <2>1 DEF StoppedOK
    <3>1. Stopping(s, o)
      BY <1>0, <1>2, OverlapStep
    <3>2. CASE session[Name[o]] = NoSession
      BY <1>0, <2>3, <3>1, <3>2 DEF NoOverlap
    <3>3. CASE session[Name[o]] # NoSession
      <4>1. pc[s] \notin ClosePCs
        BY <1>0, <3>1, <3>3 DEF StoppedOK
      <4>2. s = t /\ pc[t] = "stopTrace" /\ pc'[t] = "close" /\ cur[t] = o
        <5>1. s = t
          BY <2>1, <4>1
        <5>2. pc[t] = "stopTrace" /\ cur[t] = o
          BY <1>0, <3>1, <4>1, <5>1 DEF CallInv, CallOK, Stopping, InCall, StopOps
        <5>3. PICK l \in PCs : pc' = [pc EXCEPT ![t] = l] /\ Follows(t, l)
          BY <1>0, <1>2, ThreadStep
        <5>4. QED
          BY <1>0, <5>1, <5>2, <5>3 DEF Follows, OpenPCs, ClosePCs, RunPCs, TypeOK, ThreadsOK
      <4>3. QED
        BY <1>0, <1>2, <4>2, OwnSessionStep DEF OpenPCs
    <3>4. QED
      BY <3>2, <3>3
  \* Who clears the handle of o has stopped its session, or has no session.
  <2>6. ASSUME o \notin overlapped, Sole(o), cur[t] = o, ClearHandle(t)
        PROVE  session[Name[o]] = NoSession /\ session'[Name[o]] = NoSession
    <3>1. pc[t] = "closeClear" /\ UNCHANGED session
      BY <2>6 DEF ClearHandle, At
    <3>2. CASE op[t] \in StopOps
      BY <1>0, <2>6, <3>1, <3>2 DEF StoppedOK, Stopping, InCall, StopOps, ClosePCs, Sole
    <3>3. CASE op[t] \notin StopOps
      BY <1>0, <2>6, <3>1, <3>3 DEF Confined, CallInv, CallOK, ClosePCs, Sole
    <3>4. QED
      BY <3>1, <3>2, <3>3
  \* The thread that runs o is one.
  <2>7. ASSUME Sole(o), cur[t] = o, op[t] \notin StopOps
        PROVE  /\ t \in Runners[o]
               /\ \A s \in Runners[o] : s = t
               /\ \A s \in Threads : cur[s] = o /\ pc[s] \in LatePCs => s = t
    BY <1>0, <2>1, <2>7
    DEF CallInv, CallOK, Sole, Disciplined, OneThread, LatePCs, StopOps, ClosePCs
  <2>8. LostOK(o)'
    <3> SUFFICES ASSUME o \notin overlapped, Sole(o), sessionHandle_'[o] = INVALID,
                        NEW s \in Threads, cur[s] = o, pc'[s] \in LatePCs,
                        session'[Name[o]] # NoSession
                 PROVE  FALSE
      BY <2>1 DEF LostOK
    <3>1. CASE sessionHandle_[o] # INVALID
      <4>1. ~(ClearHandle(t) /\ cur[t] = o)
        BY <2>6
      <4>2. ASSUME OpenTrace(t), cur[t] = o, pc'[t] = "idle" PROVE FALSE
        <5>1. pc[t] \in OpenPCs
          BY <4>2 DEF OpenTrace, OpenPCs
        <5>2. op[t] \notin StopOps
          BY <1>0, <5>1, RegisterOpens
        <5>3. s # t /\ pc[s] \in LatePCs
          BY <2>1, <4>2 DEF LatePCs
        <5>4. QED
          BY <2>7, <4>2, <5>2, <5>3
      <4>3. ~(OpenTrace(t) /\ OpenTraceOK(cur[t]) /\ cur[t] = o)
        BY <1>0, <1>2, OpenTraceEffect, SessionAssumption
      <4>4. sessionHandle_[o] = sessionHandle_'[o]
        BY <1>0, <1>2, <2>1, <4>1, <4>2, <4>3, SessionHandleStep, OpenTraceEffect
      <4>5. QED
        BY <3>1, <4>4
    <3>2. CASE sessionHandle_[o] = INVALID
      <4>1. pc[s] \in LatePCs
        BY <1>0, <1>2, <2>1, <3>2, LateStep
      <4>2. session[Name[o]] = NoSession
        BY <1>0, <3>2, <4>1 DEF LostOK
      <4>3. cur[t] = o /\ op[t] \notin StopOps /\ pc'[t] = "enable"
        BY <1>0, <2>3, <4>2, RegisterOpens DEF Sole
      <4>4. s = t
        BY <2>7, <4>1, <4>3
      <4>5. QED
        BY <4>3, <4>4 DEF LatePCs
    <3>3. QED
      BY <3>1, <3>2
  <2>9. OrphanOK(o)'
    <3> SUFFICES ASSUME o \notin overlapped, Sole(o), sessionHandle_'[o] = INVALID,
                        session'[Name[o]] # NoSession
                 PROVE  \E s \in Runners[o] :
                          cur[s] # o \/ result'[s] # "ok" \/ pc'[s] \in EarlyPCs
      BY <2>1 DEF OrphanOK
    <3>0. Runners[o] \subseteq Threads /\ OwnName(o) /\ o \in Admin
      BY <2>4, ClientAssumption DEF Sole, Confined
    <3>1. CASE session[Name[o]] = NoSession
      BY <2>3, <3>0, <3>1 DEF EarlyPCs
    <3>2. CASE session[Name[o]] # NoSession /\ sessionHandle_[o] # INVALID
      <4>1. ~(ClearHandle(t) /\ cur[t] = o)
        BY <2>6
      <4>2. ~(OpenTrace(t) /\ OpenTraceOK(cur[t]) /\ cur[t] = o)
        BY <1>0, <1>2, OpenTraceEffect, SessionAssumption
      <4>3. OpenTrace(t) /\ cur[t] = o /\ result'[t] = "open_trace_failure"
        BY <1>0, <1>2, <2>1, <3>2, <4>1, <4>2, SessionHandleStep, OpenTraceEffect
      <4>4. t \in Runners[o]
        BY <1>0, <4>3, RegisterOpens DEF OpenTrace, OpenPCs
      <4>5. QED
        BY <4>3, <4>4
    <3>3. CASE session[Name[o]] # NoSession /\ sessionHandle_[o] = INVALID
      <4>1. PICK s \in Runners[o] : cur[s] # o \/ result[s] # "ok" \/ pc[s] \in EarlyPCs
        BY <1>0, <3>3 DEF OrphanOK
      <4>2. CASE s # t \/ cur[s] # o
        BY <2>1, <3>0, <4>1, <4>2
      <4>3. CASE s = t /\ cur[t] = o
        <5>1. ~(pc[t] \in LatePCs) /\ ~(pc'[t] \in LatePCs)
          BY <1>0, <2>1, <2>8, <3>3, <4>3 DEF LostOK
        <5>2. ~(op[t] \in StopOps /\ pc[t] \in ClosePCs)
          BY <1>0, <2>1, <3>0, <3>3, <4>3 DEF StoppedOK, Stopping, InCall, StopOps
        <5>3. ~(op[t] \in StopOps /\ pc'[t] \in ClosePCs)
          BY <2>1, <2>5, <3>0, <4>3 DEF StoppedOK, Stopping, InCall, StopOps, ClosePCs
        <5>4. ~(OpenTrace(t) /\ OpenTraceOK(cur[t]))
          BY <1>0, <1>2, <4>3, OpenTraceEffect, SessionAssumption
        <5>5. CallOK(t)' /\ TypeOK'
          <6>1. TypeOK'
            BY <1>0, NextTypeOK
          <6>2. CallInv'
            BY <1>0, NextCallInv
          <6>3. QED
            BY <6>1, <6>2 DEF CallInv
        <5>6. pc'[t] \in EarlyPCs \cup {"idle"}
          BY <2>1, <3>0, <4>3, <5>1, <5>3, <5>5
          DEF CallOK, EarlyPCs, LatePCs, ClosePCs, TypeOK, ThreadsOK, PCs
        <5>7. pc'[t] = "idle" => result'[t] # "ok"
          BY <1>0, <1>2, <5>1, <5>2, <5>4, ReturnStep DEF LatePCs
        <5>8. QED
          BY <4>3, <5>6, <5>7
      <4>4. QED
        BY <4>2, <4>3
    <3>4. QED
      BY <3>1, <3>2, <3>3
  <2>10. QED
    BY <2>2, <2>4, <2>5, <2>8, <2>9
<1>3. CASE /\ UNCHANGED <<threadVars, traceVars, overlapped, hctx, hsess>>
           /\ session'[Name[o]] \in {session[Name[o]], NoSession}
  <2>1. UNCHANGED <<pc, op, cur, result, sessionHandle_, overlapped, hctx, hsess>>
    BY <1>3 DEF threadVars, traceVars
  <2>2. NoOverlap(o)' /\ StoppedOK(o)'
    BY <1>0, <1>3, <2>1 DEF NoOverlap, StoppedOK, Stopping, Opening, InCall
  <2>3. Confined(o)' /\ LostOK(o)' /\ OrphanOK(o)'
    BY <1>0, <1>3, <2>1 DEF Confined, LostOK, OrphanOK
  <2>4. QED
    BY <2>2, <2>3
<1>4. ASSUME NEW n \in Names, OutsideStop(n)
      PROVE  /\ UNCHANGED <<threadVars, traceVars, overlapped, hctx, hsess>>
             /\ session'[Name[o]] \in {session[Name[o]], NoSession}
  BY <1>0, <1>4, ClientAssumption DEF OutsideStop, TypeOK, EtwOK
<1>5. CASE UNCHANGED vars
  BY <1>3, <1>5 DEF vars, etwVars
<1>6. QED
  BY <1>1, <1>2, <1>3, <1>4, <1>5 DEF Next, Inside

\* What the sessions of the traces are, in every state.
THEOREM OrphansInvariant == Spec => []OrphanInv
<1>1. Init => OrphanInv
  BY InitOrphanInv
<1>2. IInv /\ OrphanInv /\ [Next]_vars => OrphanInv'
  BY NextOrphanInv
<1>3. QED
  BY <1>1, <1>2, Invariance, PTL DEF Spec

\* A session registered under a name of its own never outlives a disciplined
\* trace unnoticed, for any number of threads and traces, if no stop() has
\* overlapped the opening of that trace.
THEOREM SessionsAreNotOrphaned == Spec => []NoOrphanSession
<1>1. OrphanInv => NoOrphanSession
  <2> SUFFICES ASSUME OrphanInv, NEW o \in Traces \ overlapped, Orphaned(o) PROVE FALSE
    BY DEF NoOrphanSession
  <2>1. PICK t \in Runners[o] : cur[t] # o \/ result[t] # "ok" \/ pc[t] \in EarlyPCs
    BY DEF Orphaned, OrphanInv, OrphanOK, Sole
  <2>2. t \in Threads
    BY ClientAssumption
  <2>3. cur[t] = o /\ result[t] = "ok" /\ pc[t] = "idle"
    BY <2>2 DEF Orphaned, InCall
  <2>4. QED
    BY <2>1, <2>3 DEF EarlyPCs
<1>2. QED
  BY <1>1, OrphansInvariant, PTL

-----------------------------------------------------------------------------
(* The session that is consumed.                                           *)

\* Between StartTrace and OpenTrace the session of o is the one it registered,
\* or none any more; its providers are enabled before it is opened.
EnabledOK(t) ==
  LET o == cur[t] IN
  pc[t] \in {"enable", "openTrace"} /\ Sole(o) /\ o \in Admin =>
    /\ registrationHandle_[o] \in Sessions
    /\ session[Name[o]] \in {NoSession, registrationHandle_[o]}
    /\ pc[t] = "openTrace" => registrationHandle_[o] \in enabledIn

\* The handle of o is attached to that session, or to none.
OwnHandleOK(o) ==
  LET h == sessionHandle_[o] IN
  Sole(o) /\ o \in Admin \ FileTraces /\ h # INVALID =>
    \/ hsess[h] = NoSession
    \/ hsess[h] = registrationHandle_[o] /\ hsess[h] \in enabledIn

OwnInv ==
  /\ \A t \in Threads : EnabledOK(t)
  /\ \A o \in Traces : OwnHandleOK(o)
  /\ ConsumesOwnSession

LEMMA InitOwnInv == Init => OwnInv
<1> SUFFICES ASSUME Init PROVE OwnInv
  OBVIOUS
<1>1. /\ \A t \in Threads : pc[t] = "idle"
      /\ \A o \in Traces : sessionHandle_[o] = INVALID
  BY DEF Init
<1>2. QED
  BY <1>1 DEF OwnInv, EnabledOK, OwnHandleOK, ConsumesOwnSession, At

\* How a thread comes to enable the providers and to open the trace, and that a
\* session in which they were enabled stays one.
LEMMA EnableStep ==
  ASSUME TypeOK, NEW t \in Threads, Inside(t)
  PROVE  /\ enabledIn \subseteq enabledIn'
         /\ pc'[t] = "enable" =>
              \/ Register(t) /\ StartTraceSucceeds(cur[t], NewSession)
              \/ pc[t] \in ClosePCs /\ op[t] \notin StopOps
         /\ pc'[t] = "openTrace" =>
              /\ Enable(t) /\ pc[t] = "enable"
              /\ UNCHANGED <<registrationHandle_, session>>
              /\ \/ registrationHandle_[cur[t]] = INVALID
                 \/ {registrationHandle_[cur[t]]} \cap Sessions \subseteq enabledIn'
<1> USE DEF At, Goto, Finish, TypeOK, ThreadsOK, etwVars, traceVars
<1>1. CASE Register(t)
  <2>1. /\ enabledIn' = enabledIn
        /\ \/ StartTraceSucceeds(cur[t], NewSession) /\ Goto(t, "enable")
           \/ Goto(t, "stopOld") \/ \E e \in Exceptions : Finish(t, e)
    BY <1>1 DEF Register, Exceptions
  <2>2. QED
    BY <1>1, <2>1
<1>2. CASE StopOld(t)
  BY <1>2 DEF StopOld
<1>3. CASE Enable(t)
  BY <1>3 DEF Enable
<1>4. CASE OpenTrace(t)
  BY <1>4 DEF OpenTrace
<1>5. CASE CheckHandle(t) \/ Rundown(t) \/ ProcessTrace(t)
  BY <1>5 DEF CheckHandle, Rundown, ProcessTrace
<1>6. CASE ProcessTraceReturns(t) \/ Deliver(t) \/ CallbackThrows(t)
  BY <1>6 DEF ProcessTraceReturns, Deliver, CallbackThrows, OnEvent
<1>7. CASE StopTrace(t) \/ CloseTrace(t)
  BY <1>7 DEF StopTrace, CloseTrace
<1>8. CASE CheckClose(t) \/ ClearHandle(t)
  BY <1>8 DEF CheckClose, ClearHandle, AfterClose, ClosePCs, StopOps
<1>9. QED
  BY <1>1, <1>2, <1>3, <1>4, <1>5, <1>6, <1>7, <1>8 DEF Inside, Advance

\* Only the thread that opens a disciplined trace of an administrator changes
\* its registrationHandle_.
LEMMA OwnRegistration ==
  ASSUME TypeOK, CallInv, NEW t \in Threads, Inside(t), NEW o \in Traces, o \in Admin,
         ~(Register(t) /\ cur[t] = o)
  PROVE  registrationHandle_'[o] = registrationHandle_[o]
<1>1. cur[t] \in Traces /\ CallOK(t) /\ pc[t] # "idle"
  BY ThreadStep DEF CallInv, TypeOK, ThreadsOK
<1>2. CASE Register(t) /\ cur[t] # o
  BY <1>2 DEF Register, StartTraceSucceeds, StartTraceFails, TypeOK, TracesOK
<1>3. CASE /\ pc[t] \in ClosePCs /\ op[t] \notin StopOps
           /\ registrationHandle_' = [registrationHandle_ EXCEPT ![cur[t]] = INVALID]
  <2>1. cur[t] \notin Admin
    BY <1>1, <1>3 DEF CallOK
  <2>2. QED
    BY <1>3, <2>1 DEF TypeOK, TracesOK
<1>4. QED
  BY <1>2, <1>3, RegistrationStep

LEMMA NextOwnInv ==
  IInv /\ ConsumerInv /\ ConsumerInv' /\ OrphanInv /\ OwnInv /\ [Next]_vars => OwnInv'
<1> SUFFICES ASSUME IInv, ConsumerInv, ConsumerInv', OrphanInv, OwnInv, [Next]_vars PROVE OwnInv'
  OBVIOUS
<1>0. TypeOK /\ CallInv
  BY DEF IInv
<1>1. ASSUME NEW t \in Threads, NEW u \in Traces, ClientCall(t, u) PROVE OwnInv'
  <2>1. /\ UNCHANGED <<proc, registrationHandle_, sessionHandle_, session, hsess, enabledIn>>
        /\ pc'[t] \in {"register", "process", "stopTrace"}
        /\ \A s \in Threads \ {t} : pc'[s] = pc[s] /\ cur'[s] = cur[s]
    BY <1>0, <1>1, CallFrame DEF etwVars
  <2>2. QED
    BY <2>1 DEF OwnInv, EnabledOK, OwnHandleOK, ConsumesOwnSession, At
<1>2. ASSUME NEW t \in Threads, Inside(t) PROVE OwnInv'
  <2>1. /\ op' = op /\ cur' = cur
        /\ \A s \in Threads \ {t} : pc'[s] = pc[s] /\ proc'[s] = proc[s]
        /\ enabledIn \subseteq enabledIn'
        /\ cur \in [Threads -> Traces]
    BY <1>0, <1>2, ThreadStep, ThreadFrame, EnableStep DEF TypeOK, ThreadsOK
  <2>2. Register(t) => pc[t] \in {"register", "registerAgain"}
    BY DEF Register
  <2>3. ASSUME NEW s \in Threads PROVE EnabledOK(s)'
    <3> DEFINE o == cur[s]
    <3> SUFFICES ASSUME pc'[s] \in {"enable", "openTrace"}, Sole(o), o \in Admin
                 PROVE  /\ registrationHandle_'[o] \in Sessions
                        /\ session'[Name[o]] \in {NoSession, registrationHandle_'[o]}
                        /\ pc'[s] = "openTrace" => registrationHandle_'[o] \in enabledIn'
      BY <2>1 DEF EnabledOK
    <3>1. o \in Traces /\ OwnName(o) /\ EnabledOK(s)
      BY <2>1 DEF Sole, OwnInv
    <3>2. CASE s # t
      <4>1. pc[s] \in {"enable", "openTrace"} /\ pc'[s] = pc[s]
        BY <2>1, <3>2
      <4>2. ~(pc[t] \in OpenPCs /\ cur[t] = o)
        BY <1>0, <3>2, <4>1, OneOpener DEF Sole, OpenPCs
      <4>3. registrationHandle_'[o] = registrationHandle_[o]
        BY <1>0, <1>2, <2>2, <3>1, <4>2, OwnRegistration DEF OpenPCs
      <4>4. session'[Name[o]] \in {session[Name[o]], NoSession}
        BY <1>0, <1>2, <3>1, <4>2, OwnSessionStep
      <4>5. QED
        BY <2>1, <3>1, <4>1, <4>3, <4>4 DEF EnabledOK
    <3>3. CASE s = t /\ pc'[t] = "enable"
      <4>1. Register(t) /\ StartTraceSucceeds(o, NewSession)
        BY <1>0, <1>2, <3>3, EnableStep, ThreadStep DEF CallInv, CallOK
      <4>2. Name[o] \in Names
        BY <3>1, ClientAssumption
      <4>3. QED
        BY <1>0, <3>1, <3>3, <4>1, <4>2 DEF StartTraceSucceeds, TypeOK, TracesOK, EtwOK
    <3>4. CASE s = t /\ pc'[t] = "openTrace"
      <4>1. /\ pc[t] = "enable" /\ UNCHANGED <<registrationHandle_, session>>
            /\ \/ registrationHandle_[o] = INVALID
               \/ {registrationHandle_[o]} \cap Sessions \subseteq enabledIn'
        BY <1>0, <1>2, <3>4, EnableStep
      <4>2. registrationHandle_[o] \in Sessions /\ session[Name[o]] \in {NoSession, registrationHandle_[o]}
        BY <3>1, <3>4, <4>1 DEF EnabledOK
      <4>3. QED
        BY <4>1, <4>2, SessionAssumption
    <3>5. QED
      BY <3>2, <3>3, <3>4
  <2>4. ASSUME NEW o \in Traces PROVE OwnHandleOK(o)'
    <3> SUFFICES ASSUME Sole(o), o \in Admin \ FileTraces, sessionHandle_'[o] # INVALID
                 PROVE  \/ hsess'[sessionHandle_'[o]] = NoSession
                        \/ /\ hsess'[sessionHandle_'[o]] = registrationHandle_'[o]
                           /\ hsess'[sessionHandle_'[o]] \in enabledIn'
      BY DEF OwnHandleOK
    <3>1. CASE OpenTrace(t) /\ OpenTraceOK(cur[t]) /\ cur[t] = o
      <4>1. pc[t] = "openTrace"
        BY <1>0, <3>1 DEF OpenTrace, CallInv, CallOK, ClosePCs, OpenPCs, StopOps
      <4>2. /\ registrationHandle_[o] \in enabledIn
            /\ session[Name[o]] \in {NoSession, registrationHandle_[o]}
        BY <3>1, <4>1 DEF OwnInv, EnabledOK
      <4>3. hsess'[sessionHandle_'[o]] = session[Name[o]] /\ registrationHandle_' = registrationHandle_
        BY <1>0, <3>1, OpenTraceEffect DEF OpenTrace
      <4>4. QED
        BY <2>1, <4>2, <4>3
    <3>2. CASE ~(OpenTrace(t) /\ OpenTraceOK(cur[t]) /\ cur[t] = o)
      <4>1. sessionHandle_'[o] = sessionHandle_[o]
        BY <1>0, <1>2, <2>1, <3>2, SessionHandleStep, OpenTraceEffect DEF TypeOK, TracesOK
      <4> DEFINE h == sessionHandle_[o]
      <4>2. h \in Handles /\ hstate[h] # "unused"
        BY <1>0, <4>1 DEF IInv, HandleInv, HandleOK, TypeOK, TracesOK
      <4>3. hsess'[h] = hsess[h]
        BY <1>0, <1>2, <4>2, HandleStep, OpenTraceEffect
      <4>4. ~(Register(t) /\ cur[t] = o)
        BY <2>2, <4>1 DEF IInv, HandleInv, OpeningOK, OpenPCs, Sole
      <4>5. registrationHandle_'[o] = registrationHandle_[o]
        BY <1>0, <1>2, <4>4, OwnRegistration
      <4>6. QED
        BY <2>1, <4>1, <4>3, <4>5 DEF OwnInv, OwnHandleOK
    <3>3. QED
      BY <3>1, <3>2
  <2>5. ConsumesOwnSession'
    <3> SUFFICES ASSUME NEW s \in Threads, pc'[s] = "processing", Sole(cur[s]),
                        cur[s] \notin FileTraces
                 PROVE  /\ hsess'[proc'[s]] = registrationHandle_'[cur[s]]
                        /\ hsess'[proc'[s]] \in enabledIn'
      BY <2>1 DEF ConsumesOwnSession, At, Sole
    <3> DEFINE o == cur[s]
    <3>1. o \in Traces /\ OwnName(o) /\ op[s] \notin StopOps /\ s \in Runners[o]
      <4>1. CallInv'
        BY <1>0, NextCallInv
      <4>2. QED
        BY <2>1, <4>1 DEF Sole, CallInv, CallOK, StopOps, ClosePCs
    <3>2. CASE proc' = proc /\ pc[s] = "processing"
      <4>1. /\ hsess[proc[s]] = registrationHandle_[o] /\ hsess[proc[s]] \in enabledIn
            /\ proc[s] \in Handles /\ hctx[proc[s]] = o /\ hstate[proc[s]] # "unused"
        BY <3>1, <3>2 DEF OwnInv, ConsumesOwnSession, ConsumerInv, ProcOK, At, Sole
      <4>2. hsess'[proc[s]] = hsess[proc[s]]
        BY <1>0, <1>2, <4>1, HandleStep, OpenTraceEffect
      <4>3. o \in Admin
        BY <1>0, <3>1, <4>1, SessionAssumption DEF OrphanInv, Confined, TypeOK, TracesOK,
           EtwOK
      <4>4. ~(Register(t) /\ cur[t] = o)
        <5>1. SUFFICES ASSUME Register(t), cur[t] = o PROVE FALSE
          OBVIOUS
        <5>2. t \in Runners[o] /\ pc[t] # "processing"
          BY <1>0, <2>2, <5>1, RegisterOpens DEF OpenPCs
        <5>3. QED
          BY <3>1, <3>2, <5>2 DEF Sole, Disciplined, OneThread
      <4>5. registrationHandle_'[o] = registrationHandle_[o]
        BY <1>0, <1>2, <3>1, <4>3, <4>4, OwnRegistration
      <4>6. QED
        BY <2>1, <3>2, <4>1, <4>2, <4>5
    <3>3. CASE /\ pc[t] = "processTrace" /\ UNCHANGED etwVars /\ s = t
               /\ proc' = [proc EXCEPT ![t] = sessionHandle_[cur[t]]]
               /\ CanProcess(sessionHandle_[cur[t]])
      <4>1. /\ proc'[t] = sessionHandle_[o] /\ sessionHandle_[o] # INVALID
            /\ hsess' = hsess /\ enabledIn' = enabledIn /\ hctx' = hctx
        BY <1>0, <3>3, SessionAssumption DEF etwVars, CanProcess, TypeOK, ThreadsOK
      <4>2. hctx[sessionHandle_[o]] = o /\ sessionHandle_[o] \in Handles
        BY <3>1, <3>3, <4>1 DEF IInv, HandleInv, HandleOK, CanProcess
      <4>3. hsess[sessionHandle_[o]] # NoSession
        BY <3>3, <4>2 DEF CanProcess
      <4>4. o \in Admin
        BY <3>1, <4>2, <4>3 DEF OrphanInv, Confined
      <4>5. registrationHandle_'[o] = registrationHandle_[o]
        BY <1>0, <1>2, <2>2, <3>1, <3>3, <4>4, OwnRegistration
      <4>6. QED
        BY <3>1, <3>3, <4>1, <4>3, <4>4, <4>5 DEF OwnInv, OwnHandleOK
    <3>4. CASE pc[t] = "processTrace" /\ UNCHANGED etwVars /\ s # t
      <4>1. /\ pc[s] = "processing" /\ proc'[s] = proc[s] /\ hsess' = hsess /\ ~Register(t)
        BY <2>1, <2>2, <3>4 DEF etwVars
      <4>2. hsess[proc[s]] = registrationHandle_[o] /\ hsess[proc[s]] \in enabledIn
            /\ proc[s] \in Handles /\ hctx[proc[s]] = o
        BY <3>1, <4>1 DEF OwnInv, ConsumesOwnSession, ConsumerInv, ProcOK, At, Sole
      <4>3. o \in Admin
        BY <1>0, <3>1, <4>2, SessionAssumption DEF OrphanInv, Confined, TypeOK, TracesOK,
           EtwOK
      <4>4. registrationHandle_'[o] = registrationHandle_[o]
        BY <1>0, <1>2, <3>1, <4>1, <4>3, OwnRegistration
      <4>5. QED
        BY <2>1, <4>1, <4>2, <4>4
    <3>5. QED
      <4>1. CASE proc' = proc /\ (pc'[t] = "processing" => pc[t] = "processing")
        BY <2>1, <3>2, <4>1
      <4>2. QED
        BY <1>0, <1>2, <3>3, <3>4, <4>1, ProcStep
  <2>6. QED
    BY <2>3, <2>4, <2>5 DEF OwnInv
<1>3. CASE /\ UNCHANGED <<threadVars, traceVars, hsess, enabledIn>>
           /\ \A n \in Names : session'[n] \in {session[n], NoSession}
  <2>1. UNCHANGED <<pc, cur, proc, sessionHandle_, registrationHandle_, hsess, enabledIn>>
    BY <1>3 DEF threadVars, traceVars
  <2>2. \A s \in Threads : Name[cur[s]] \in Names
    BY <1>0, ClientAssumption DEF TypeOK, ThreadsOK
  <2>3. QED
    BY <1>3, <2>1, <2>2 DEF OwnInv, EnabledOK, OwnHandleOK, ConsumesOwnSession, At
<1>4. ASSUME NEW n \in Names, OutsideStop(n)
      PROVE  /\ UNCHANGED <<threadVars, traceVars, hsess, enabledIn>>
             /\ \A m \in Names : session'[m] \in {session[m], NoSession}
  BY <1>0, <1>4 DEF OutsideStop, TypeOK, EtwOK
<1>5. CASE UNCHANGED vars
  BY <1>3, <1>5 DEF vars, etwVars
<1>6. QED
  BY <1>1, <1>2, <1>3, <1>4, <1>5 DEF Next, Inside

\* A real-time trace of an administrator delivers events of the session it has
\* registered and enabled its providers in, and of no other, even if another
\* thread or another program stops that session between any two of its steps.
THEOREM OwnSessionIsConsumed == Spec => []ConsumesOwnSession
<1>1. Init => OwnInv
  BY InitOwnInv
<1>2. IInv /\ ConsumerInv /\ ConsumerInv' /\ OrphanInv /\ OwnInv /\ [Next]_vars => OwnInv'
  BY NextOwnInv
<1>3. OwnInv => ConsumesOwnSession
  BY DEF OwnInv
<1>4. QED
  BY <1>1, <1>2, <1>3, Invariance, ConsumersInvariant, OrphansInvariant, PTL DEF Spec

-----------------------------------------------------------------------------
(* Consuming a session that somebody else has started.                     *)

\* A real-time user trace of a process that controls no session.
Plain(o) == o \notin Admin \cup KernelTraces \cup FileTraces /\ Disciplined(o)

\* The session of that name that ran at the start runs still.
Still(o) == session[Name[o]] \in Sessions /\ session[Name[o]] = InitialSession[Name[o]]

InitialUsed == \A n \in Names : InitialSession[n] \in Sessions => InitialSession[n] \in usedSessions

\* Where a thread of o may be, while the session runs: the probe succeeds to close
\* what it has opened, it leaves no registrationHandle_ to enable the providers of,
\* and what is processed is attached to the session.
FallbackOK(t) ==
  LET o == cur[t] IN
  Plain(o) =>
    /\ pc[t] = "registerAgain" => ~Still(o)
    /\ pc[t] = "closeClear" => status[t]
    /\ pc[t] \in {"enable", "openTrace"} => registrationHandle_[o] = INVALID
    /\ pc[t] \in {"rundown", "processTrace"} => sessionHandle_[o] # INVALID
    /\ pc[t] = "processing" =>
         hstate[proc[t]] = "open" /\ (Still(o) => hsess[proc[t]] = session[Name[o]])
    /\ pc[t] = "idle" /\ op[t] = "start" /\ Still(o) =>
         result[t] \in {"open_trace_failure", "callback_exception"}

FallbackHandleOK(o) ==
  Plain(o) /\ sessionHandle_[o] # INVALID =>
    /\ Still(o) => hsess[sessionHandle_[o]] = session[Name[o]]
    /\ \/ registrationHandle_[o] = INVALID
       \/ \E t \in Threads : cur[t] = o /\ op[t] \notin StopOps /\ pc[t] \in ClosePCs

FallbackInv ==
  /\ InitialUsed
  /\ \A t \in Threads : FallbackOK(t)
  /\ \A o \in Traces : FallbackHandleOK(o)

LEMMA InitFallbackInv == Init => FallbackInv
<1> SUFFICES ASSUME Init PROVE FallbackInv
  OBVIOUS
<1>1. /\ \A t \in Threads : pc[t] = "idle" /\ op[t] = "stop"
      /\ \A o \in Traces : sessionHandle_[o] = INVALID
  BY DEF Init
<1>2. InitialUsed
  BY SessionAssumption DEF Init, InitialUsed
<1>3. QED
  BY <1>1, <1>2 DEF FallbackInv, FallbackOK, FallbackHandleOK

\* Once that session has stopped it does not run again: StartTrace starts another.
LEMMA StillStep ==
  ASSUME TypeOK, InitialUsed, NEW t \in Threads, Inside(t), NEW o \in Traces, Still(o)'
  PROVE  Still(o) /\ session'[Name[o]] = session[Name[o]]
<1>1. /\ session \in [Names -> Sessions \cup {NoSession}]
      /\ Name[o] \in Names /\ Name[cur[t]] \in Names
      /\ session'[Name[o]] \in Sessions /\ session'[Name[o]] = InitialSession[Name[o]]
  BY ClientAssumption DEF TypeOK, ThreadsOK, EtwOK, Still
<1>2. CASE session' = session
  BY <1>1, <1>2 DEF Still
<1>3. CASE session' = [session EXCEPT ![Name[cur[t]]] = NoSession]
  BY <1>1, <1>3, SessionAssumption DEF Still
<1>4. CASE StartTraceSucceeds(cur[t], NewSession)
  BY <1>1, <1>4 DEF Still, StartTraceSucceeds, InitialUsed
<1>5. QED
  BY <1>2, <1>3, <1>4, SessionStep

\* A trace that is not an administrator's is in the hands of one thread.
LEMMA PlainThread ==
  ASSUME TypeOK, CallInv, NEW s \in Threads, NEW t \in Threads, Plain(cur[s]),
         cur[s] = cur[t], pc[s] # "idle", pc[t] # "idle"
  PROVE  s = t
  BY DEF Plain, Disciplined, OneThread, CallInv, CallOK

\* The end of the probe: it goes on to enable the providers when the handle is gone.
LEMMA ProbeStep ==
  ASSUME TypeOK, CallInv, HandleInv, NEW t \in Threads, Inside(t),
         pc[t] \in ClosePCs, op[t] \notin StopOps
  PROVE  /\ pc'[t] \in ClosePCs \/ sessionHandle_'[cur[t]] = INVALID
         /\ pc'[t] = "idle" => pc[t] = "closeClear" /\ ~status[t]
<1> USE DEF At, Goto, Finish, ClosePCs, StopOps, TypeOK, ThreadsOK
<1>1. CheckClose(t) \/ CloseTrace(t) \/ ClearHandle(t)
  BY DEF Inside, Advance, Register, StopOld, Enable, OpenTrace, CheckHandle, Rundown,
         ProcessTrace, ProcessTraceReturns, StopTrace, Deliver, CallbackThrows, OnEvent
<1>2. CASE CheckClose(t)
  BY <1>2 DEF CheckClose, AfterClose
<1>3. CASE CloseTrace(t)
  BY <1>3 DEF CloseTrace
<1>4. CASE ClearHandle(t)
  BY <1>4 DEF ClearHandle, AfterClose, TracesOK
<1>5. QED
  BY <1>1, <1>2, <1>3, <1>4

\* CloseTrace on an open handle succeeds.
LEMMA CloseStep ==
  ASSUME TypeOK, NEW t \in Threads, Inside(t), pc'[t] = "closeClear"
  PROVE  /\ pc[t] = "closeTrace"
         /\ sessionHandle_[cur[t]] \in Handles /\ hstate[sessionHandle_[cur[t]]] = "open"
            => status'[t]
<1> USE DEF At, Goto, Finish, TypeOK, ThreadsOK
<1>1. CASE Register(t)
  <2>1. Goto(t, "enable") \/ Goto(t, "stopOld") \/ \E e \in Exceptions : Finish(t, e)
    BY <1>1 DEF Register, Exceptions
  <2>2. QED
    BY <2>1
<1>2. CASE StopOld(t) \/ Enable(t) \/ OpenTrace(t)
  BY <1>2 DEF StopOld, Enable, OpenTrace
<1>3. CASE CheckHandle(t) \/ Rundown(t) \/ ProcessTrace(t)
  BY <1>3 DEF CheckHandle, Rundown, ProcessTrace
<1>4. CASE ProcessTraceReturns(t) \/ Deliver(t) \/ CallbackThrows(t)
  BY <1>4 DEF ProcessTraceReturns, Deliver, CallbackThrows, OnEvent
<1>5. CASE StopTrace(t) \/ CheckClose(t) \/ ClearHandle(t)
  BY <1>5 DEF StopTrace, CheckClose, ClearHandle, AfterClose
<1>6. CASE CloseTrace(t)
  BY <1>6 DEF CloseTrace
<1>7. QED
  BY <1>1, <1>2, <1>3, <1>4, <1>5, <1>6 DEF Inside, Advance

\* StartTrace is tried again only after the old session has been stopped.
LEMMA AgainStep ==
  ASSUME TypeOK, NEW t \in Threads, Inside(t), pc'[t] = "registerAgain"
  PROVE  pc[t] = "stopOld"
<1> USE DEF At, Goto, Finish, TypeOK, ThreadsOK
<1>1. CASE Register(t)
  <2>1. Goto(t, "enable") \/ Goto(t, "stopOld") \/ \E e \in Exceptions : Finish(t, e)
    BY <1>1 DEF Register, Exceptions
  <2>2. QED
    BY <2>1 DEF Exceptions
<1>2. CASE StopOld(t) \/ Enable(t) \/ OpenTrace(t)
  BY <1>2 DEF StopOld, Enable, OpenTrace
<1>3. CASE CheckHandle(t) \/ Rundown(t) \/ ProcessTrace(t)
  BY <1>3 DEF CheckHandle, Rundown, ProcessTrace
<1>4. CASE ProcessTraceReturns(t) \/ Deliver(t) \/ CallbackThrows(t)
  BY <1>4 DEF ProcessTraceReturns, Deliver, CallbackThrows, OnEvent
<1>5. CASE StopTrace(t) \/ CheckClose(t) \/ CloseTrace(t) \/ ClearHandle(t)
  BY <1>5 DEF StopTrace, CheckClose, CloseTrace, ClearHandle, AfterClose
<1>6. QED
  BY <1>1, <1>2, <1>3, <1>4, <1>5 DEF Inside, Advance

\* How a start() of a plain trace ends while the session runs.
LEMMA StartEnds ==
  ASSUME IInv, ConsumerInv, FallbackInv, NEW t \in Threads, Inside(t),
         Plain(cur[t]), Still(cur[t]), op[t] = "start", pc'[t] = "idle"
  PROVE  result'[t] \in {"open_trace_failure", "callback_exception"}
<1> DEFINE o == cur[t]
<1>1. /\ o \in Traces /\ o \notin Admin /\ o \notin KernelTraces /\ o \notin FileTraces
      /\ session[Name[o]] \in Sessions /\ session[Name[o]] # NoSession /\ Name[o] \in Names
      /\ FallbackOK(t) /\ FallbackHandleOK(o) /\ CallOK(t) /\ LifeOK(t) /\ pc[t] # "idle"
      /\ TypeOK /\ CallInv /\ HandleInv
  BY SessionAssumption, ClientAssumption, ThreadStep
  DEF FallbackInv, Plain, Still, IInv, CallInv, TypeOK, ThreadsOK
<1>2. \A s \in Threads : cur[s] = o /\ pc[s] # "idle" => s = t
  BY <1>1, PlainThread
<1> USE DEF At, Goto, Finish
<1>3. CASE Register(t)
  <2>1. StartTraceFails(o) /\ \E e \in Exceptions \cup {"exists"} :
          /\ StartTraceError(o, e)
          /\ IF e # "exists" THEN Finish(t, e)
             ELSE IF At(t, "register") THEN Goto(t, "stopOld")
             ELSE Finish(t, "trace_already_registered")
    BY <1>1, <1>3 DEF Register, StartTraceSucceeds
  <2>2. pc[t] # "registerAgain"
    BY <1>1 DEF FallbackOK
  <2>3. pc[t] = "register"
    BY <1>3, <2>2 DEF Register
  <2>4. Goto(t, "stopOld")
    BY <1>1, <2>1, <2>3 DEF StartTraceError
  <2>5. QED
    BY <1>1, <2>4 DEF TypeOK, ThreadsOK
<1>4. CASE StopOld(t)
  BY <1>1, <1>4 DEF StopOld, TypeOK, ThreadsOK
<1>5. CASE Enable(t)
  <2>1. registrationHandle_[o] = INVALID
    BY <1>1, <1>5 DEF Enable, FallbackOK
  <2>2. Goto(t, "openTrace")
    BY <1>1, <1>5, <2>1 DEF Enable
  <2>3. QED
    BY <1>1, <2>2 DEF TypeOK, ThreadsOK
<1>6. CASE OpenTrace(t)
  BY <1>1, <1>6 DEF OpenTrace, TypeOK, ThreadsOK
<1>7. CASE CheckHandle(t)
  BY <1>1, <1>7 DEF CheckHandle, TypeOK, ThreadsOK
<1>8. CASE Rundown(t)
  <2>1. pc[t] = "rundown" /\ sessionHandle_[o] # INVALID
    BY <1>1, <1>8 DEF Rundown, FallbackOK
  <2>2. registrationHandle_[o] = INVALID
    BY <1>1, <1>2, <2>1 DEF FallbackHandleOK, ClosePCs
  <2>3. Goto(t, "processTrace")
    BY <1>1, <1>8, <2>2 DEF Rundown
  <2>4. QED
    BY <1>1, <2>3 DEF TypeOK, ThreadsOK
<1>9. CASE ProcessTrace(t)
  <2> DEFINE h == sessionHandle_[o]
  <2>1. pc[t] = "processTrace" /\ h # INVALID
    BY <1>1, <1>9 DEF ProcessTrace, FallbackOK
  <2>2. h \in Handles /\ hctx[h] = o /\ hsess[h] = session[Name[o]]
    BY <1>1, <2>1 DEF HandleInv, HandleOK, FallbackHandleOK, TypeOK, TracesOK
  <2>3. hstate[h] = "open"
    <3>1. \A s \in Threads : ~(pc[s] = "closeClear" /\ cur[s] = o)
      BY <1>2, <2>1
    <3>2. Disciplined(o) /\ life[o] = "alive"
      BY <1>1 DEF Plain, LifeOK
    <3>3. QED
      BY <1>1, <2>1, <3>1, <3>2 DEF HandleInv, OpenOK
  <2>4. ~Busy(h)
    BY <1>2, <2>1, <2>2 DEF Busy, ConsumerInv, ProcOK
  <2>5. CanProcess(h)
    BY <1>1, <2>2, <2>3, <2>4 DEF CanProcess
  <2>6. Goto(t, "processing")
    BY <1>9, <2>5 DEF ProcessTrace
  <2>7. QED
    BY <1>1, <2>6 DEF TypeOK, ThreadsOK
<1>10. CASE ProcessTraceReturns(t)
  <2>1. pc[t] = "processing"
    BY <1>10 DEF ProcessTraceReturns
  <2>2. hctx[proc[t]] = o
    BY <2>1 DEF ConsumerInv, ProcOK
  <2>3. hstate[proc[t]] = "open" /\ hsess[proc[t]] = session[Name[o]]
    BY <1>1, <2>1 DEF FallbackOK
  <2>4. Running(hsess[proc[t]])
    BY <1>1, <2>3 DEF Running
  <2>5. QED
    BY <1>1, <1>10, <2>2, <2>3, <2>4 DEF ProcessTraceReturns
<1>11. CASE Deliver(t)
  BY <1>1, <1>11 DEF Deliver
<1>12. CASE CallbackThrows(t)
  BY <1>1, <1>12 DEF CallbackThrows, TypeOK, ThreadsOK
<1>13. CASE StopTrace(t)
  BY <1>1, <1>13 DEF StopTrace, CallOK, StopOps
<1>14. CASE CheckClose(t) \/ CloseTrace(t) \/ ClearHandle(t)
  <2>1. pc[t] \in ClosePCs /\ op[t] \notin StopOps
    BY <1>14 DEF CheckClose, CloseTrace, ClearHandle, ClosePCs, StopOps
  <2>2. pc[t] = "closeClear" /\ ~status[t]
    BY <1>1, <2>1, ProbeStep
  <2>3. QED
    BY <1>1, <2>2 DEF FallbackOK
<1>15. QED
  BY <1>3, <1>4, <1>5, <1>6, <1>7, <1>8, <1>9, <1>10, <1>11, <1>12, <1>13, <1>14
  DEF Inside, Advance

\* What a step of a thread does to the facts about its own trace.
LEMMA FallbackOwnStep ==
  ASSUME IInv, ConsumerInv, FallbackInv, NEW t \in Threads, Inside(t), Plain(cur[t])
  PROVE  FallbackOK(t)'
<1> DEFINE o == cur[t]
<1>1. /\ o \in Traces /\ o \notin Admin /\ cur' = cur /\ op' = op /\ pc[t] # "idle"
      /\ FallbackOK(t) /\ FallbackHandleOK(o) /\ CallOK(t) /\ InitialUsed
      /\ TypeOK /\ CallInv /\ HandleInv
  BY ThreadStep DEF FallbackInv, Plain, IInv, CallInv, TypeOK, ThreadsOK
<1>2. ASSUME pc'[t] = "registerAgain" PROVE ~Still(o)'
  <2>1. pc[t] = "stopOld"
    BY <1>1, <1>2, AgainStep
  <2>2. Register(t) => FALSE
    BY <2>1 DEF Register
  <2>3. session[Name[o]] = NoSession
    BY <1>1, <1>2, <2>1, <2>2, SessionStep
  <2>4. QED
    BY <1>1, <2>3, StillStep, SessionAssumption DEF Still
<1>3. ASSUME pc'[t] = "closeClear" PROVE status'[t]
  <2>1. pc[t] = "closeTrace"
    BY <1>1, <1>3, CloseStep
  <2>2. sessionHandle_[o] \in Handles /\ hstate[sessionHandle_[o]] = "open"
    BY <1>1, <2>1 DEF HandleInv, NoStaleClose, At, Plain
  <2>3. QED
    BY <1>1, <1>3, <2>2, CloseStep
<1>4. ASSUME pc'[t] \in {"enable", "openTrace"} PROVE registrationHandle_'[o] = INVALID
  <2>1. CASE pc'[t] = "openTrace"
    BY <1>1, <2>1, EnableStep DEF FallbackOK
  <2>2. CASE pc'[t] = "enable"
    <3>1. pc[t] \in ClosePCs /\ op[t] \notin StopOps
      BY <1>1, <2>2, EnableStep DEF StartTraceSucceeds
    <3>2. registrationHandle_' = [registrationHandle_ EXCEPT ![o] = INVALID]
      BY <1>1, <2>2, <3>1, RegistrationStep DEF Register, ClosePCs
    <3>3. QED
      BY <1>1, <3>2 DEF TypeOK, TracesOK
  <2>3. QED
    BY <1>4, <2>1, <2>2
<1>5. ASSUME pc'[t] \in {"rundown", "processTrace"} PROVE sessionHandle_'[o] # INVALID
  <2>1. CASE pc[t] \in LatePCs
    <3>1. pc[t] \in {"rundown", "processTrace"}
      BY <1>1, <1>5, <2>1, CounterStep DEF LatePCs
    <3>2. sessionHandle_[o] # INVALID
      BY <1>1, <3>1 DEF FallbackOK
    <3>3. sessionHandle_' = sessionHandle_
      BY <1>1, <3>1, SessionHandleStep DEF OpenTrace, ClearHandle, At
    <3>4. QED
      BY <3>2, <3>3
  <2>2. QED
    BY <1>1, <1>5, <2>1, LateStep DEF LatePCs
<1>6. ASSUME pc'[t] = "processing"
      PROVE  hstate'[proc'[t]] = "open" /\ (Still(o)' => hsess'[proc'[t]] = session'[Name[o]])
  <2>1. CASE proc' = proc /\ pc[t] = "processing"
    <3>1. /\ hstate[proc[t]] = "open" /\ (Still(o) => hsess[proc[t]] = session[Name[o]])
          /\ proc[t] \in Handles
      BY <1>1, <2>1 DEF FallbackOK, ConsumerInv, ProcOK
    <3>2. hstate' = hstate
      BY <1>1, <1>6, <2>1, HandleStateStep DEF OpenTrace, CloseTrace, At
    <3>3. hsess' = hsess
      BY <1>1, <2>1, HandleStep DEF OpenTrace
    <3>4. QED
      BY <1>1, <2>1, <3>1, <3>2, <3>3, StillStep
  <2>2. CASE /\ pc[t] = "processTrace" /\ UNCHANGED etwVars
             /\ proc' = [proc EXCEPT ![t] = sessionHandle_[o]]
             /\ CanProcess(sessionHandle_[o])
    <3>1. proc'[t] = sessionHandle_[o] /\ hstate' = hstate /\ hsess' = hsess /\ session' = session
      BY <1>1, <2>2 DEF etwVars, TypeOK, ThreadsOK
    <3>2. hstate[sessionHandle_[o]] = "open" /\ sessionHandle_[o] # INVALID
      BY <2>2, SessionAssumption DEF CanProcess
    <3>3. Still(o) => hsess[sessionHandle_[o]] = session[Name[o]]
      BY <1>1, <3>2 DEF FallbackHandleOK
    <3>4. QED
      BY <1>1, <3>1, <3>2, <3>3, StillStep
  <2>3. QED
    BY <1>1, <1>6, <2>1, <2>2, ProcStep
<1>7. ASSUME pc'[t] = "idle", op[t] = "start", Still(o)'
      PROVE  result'[t] \in {"open_trace_failure", "callback_exception"}
  BY <1>1, <1>7, StillStep, StartEnds
<1>8. QED
  BY <1>1, <1>2, <1>3, <1>4, <1>5, <1>6, <1>7 DEF FallbackOK

\* A step of a thread does nothing to the trace of another, but may stop its session.
LEMMA FallbackOtherStep ==
  ASSUME IInv, ConsumerInv, FallbackInv, NEW t \in Threads, Inside(t),
         NEW s \in Threads, s # t, Plain(cur[s])
  PROVE  FallbackOK(s)'
<1> DEFINE o == cur[s]
<1>1. /\ o \in Traces /\ cur' = cur /\ op' = op /\ pc[t] # "idle" /\ pc'[s] = pc[s]
      /\ result'[s] = result[s] /\ status'[s] = status[s] /\ proc'[s] = proc[s]
      /\ cur[t] \in Traces /\ FallbackOK(s) /\ InitialUsed /\ TypeOK /\ CallInv /\ HandleInv
      /\ sessionHandle_ \in [Traces -> Handles \cup {INVALID}]
      /\ registrationHandle_ \in [Traces -> Sessions \cup {INVALID, ZERO}]
      /\ hstate \in [Handles -> {"unused", "open", "closing", "closed"}]
  BY ThreadStep, ThreadFrame DEF FallbackInv, IInv, TypeOK, ThreadsOK, TracesOK, EtwOK
<1>2. Still(o)' => Still(o) /\ session'[Name[o]] = session[Name[o]]
  BY <1>1, StillStep
<1>3. CASE pc[s] = "idle"
  BY <1>1, <1>2, <1>3 DEF FallbackOK
<1>4. CASE pc[s] # "idle"
  <2>1. cur[t] # o
    BY <1>1, <1>4, PlainThread
  <2>2. registrationHandle_'[o] = registrationHandle_[o]
    BY <1>1, <2>1, RegistrationStep DEF StartTraceSucceeds, StartTraceFails
  <2>3. sessionHandle_'[o] = sessionHandle_[o]
    BY <1>1, <2>1, SessionHandleStep, OpenTraceEffect
  <2>4. ASSUME pc[s] = "processing"
        PROVE  hstate'[proc[s]] = hstate[proc[s]] /\ hsess'[proc[s]] = hsess[proc[s]]
    <3>1. /\ proc[s] \in Handles /\ hctx[proc[s]] = o /\ hstate[proc[s]] = "open"
          /\ pc[t] = "processing" => proc[t] # proc[s]
      BY <1>1, <2>4 DEF ConsumerInv, ProcOK, FallbackOK
    <3>2. sessionHandle_[cur[t]] # proc[s]
      BY <1>1, <2>1, <3>1, SessionAssumption DEF HandleInv, HandleOK
    <3>3. hsess'[proc[s]] = hsess[proc[s]]
      BY <1>1, <3>1, HandleStep, OpenTraceEffect
    <3>4. Terminated(cur[t]) => hstate'[proc[s]] = hstate[proc[s]]
      BY <1>1, <2>1, <3>1 DEF Terminated
    <3>5. pc[t] = "processing" /\ Release(t) => hstate'[proc[s]] = hstate[proc[s]]
      BY <1>1, <3>1 DEF Release
    <3>6. OpenTrace(t) /\ OpenTraceOK(cur[t]) => hstate'[proc[s]] = hstate[proc[s]]
      BY <1>1, <3>1, OpenTraceEffect
    <3>7. hstate'[proc[s]] = hstate[proc[s]]
      BY <1>1, <3>1, <3>2, <3>4, <3>5, <3>6, HandleStateStep
    <3>8. QED
      BY <3>3, <3>7
  <2>5. QED
    BY <1>1, <1>2, <1>4, <2>2, <2>3, <2>4 DEF FallbackOK
<1>5. QED
  BY <1>3, <1>4

LEMMA FallbackHandleStep ==
  ASSUME IInv, FallbackInv, NEW t \in Threads, Inside(t), NEW o \in Traces
  PROVE  FallbackHandleOK(o)'
<1> SUFFICES ASSUME Plain(o), sessionHandle_'[o] # INVALID
             PROVE  /\ Still(o)' => hsess'[sessionHandle_'[o]] = session'[Name[o]]
                    /\ \/ registrationHandle_'[o] = INVALID
                       \/ \E s \in Threads :
                            cur'[s] = o /\ op'[s] \notin StopOps /\ pc'[s] \in ClosePCs
  BY DEF FallbackHandleOK
<1>1. /\ cur' = cur /\ op' = op /\ \A s \in Threads \ {t} : pc'[s] = pc[s]
      /\ cur[t] \in Traces /\ InitialUsed /\ TypeOK /\ CallInv /\ HandleInv
      /\ sessionHandle_ \in [Traces -> Handles \cup {INVALID}]
      /\ registrationHandle_ \in [Traces -> Sessions \cup {INVALID, ZERO}]
  BY ThreadStep, ThreadFrame DEF FallbackInv, IInv, TypeOK, ThreadsOK, TracesOK
<1>2. Still(o)' => Still(o) /\ session'[Name[o]] = session[Name[o]]
  BY <1>1, StillStep
<1>3. CASE OpenTrace(t) /\ OpenTraceOK(cur[t]) /\ cur[t] = o
  <2>1. hsess'[sessionHandle_'[o]] = session[Name[o]]
    BY <1>1, <1>3, OpenTraceEffect DEF Plain
  <2>2. registrationHandle_' = registrationHandle_
    BY <1>3 DEF OpenTrace
  <2>3. pc[t] = "openTrace" => registrationHandle_[o] = INVALID
    BY <1>3 DEF FallbackInv, FallbackOK
  <2>4. pc[t] = "probeOpen" => op[t] \notin StopOps /\ pc'[t] \in ClosePCs
    BY <1>1, <1>3, OpenTraceEffect, RegisterOpens DEF OpenPCs, ClosePCs
  <2>5. QED
    BY <1>1, <1>2, <1>3, <2>1, <2>2, <2>3, <2>4, OpenTraceEffect
<1>4. CASE ~(OpenTrace(t) /\ OpenTraceOK(cur[t]) /\ cur[t] = o)
  <2> DEFINE h == sessionHandle_[o]
  <2>1. sessionHandle_'[o] = h
    BY <1>1, <1>4, SessionHandleStep, OpenTraceEffect
  <2>2. h \in Handles /\ hstate[h] # "unused" /\ FallbackHandleOK(o)
    BY <1>1, <2>1 DEF HandleInv, HandleOK, FallbackInv
  <2>3. hsess'[h] = hsess[h]
    BY <1>1, <2>2, HandleStep, OpenTraceEffect
  <2>4. ~(Register(t) /\ cur[t] = o)
    BY <1>1, <2>1 DEF Register, HandleInv, OpeningOK, OpenPCs, Plain
  <2>5. CASE registrationHandle_[o] = INVALID
    <3>1. registrationHandle_'[o] = INVALID
      BY <1>1, <2>4, <2>5, RegistrationStep DEF StartTraceSucceeds, StartTraceFails
    <3>2. QED
      BY <1>2, <2>1, <2>2, <2>3, <3>1 DEF FallbackHandleOK
  <2>6. CASE registrationHandle_[o] # INVALID
    <3>1. PICK s \in Threads : cur[s] = o /\ op[s] \notin StopOps /\ pc[s] \in ClosePCs
      BY <2>1, <2>2, <2>6 DEF FallbackHandleOK
    <3>2. pc'[s] \in ClosePCs
      BY <1>1, <2>1, <3>1, ProbeStep
    <3>3. QED
      BY <1>1, <1>2, <2>1, <2>2, <2>3, <3>1, <3>2 DEF FallbackHandleOK
  <2>7. QED
    BY <2>5, <2>6
<1>5. QED
  BY <1>3, <1>4

LEMMA NextFallbackInv == IInv /\ ConsumerInv /\ FallbackInv /\ [Next]_vars => FallbackInv'
<1> SUFFICES ASSUME IInv, ConsumerInv, FallbackInv, [Next]_vars PROVE FallbackInv'
  OBVIOUS
<1>0. TypeOK /\ CallInv /\ InitialUsed
  BY DEF IInv, FallbackInv
<1>1. ASSUME NEW t \in Threads, NEW u \in Traces, ClientCall(t, u) PROVE FallbackInv'
  <2>1. /\ UNCHANGED <<result, status, proc, registrationHandle_, sessionHandle_, session,
                       usedSessions, hstate, hsess>>
        /\ pc[t] = "idle" /\ pc'[t] \in {"register", "process", "stopTrace"}
        /\ \A s \in Threads \ {t} : pc'[s] = pc[s] /\ op'[s] = op[s] /\ cur'[s] = cur[s]
    BY <1>0, <1>1, CallFrame, CallStep DEF etwVars
  <2>2. ASSUME NEW s \in Threads PROVE FallbackOK(s)'
    <3>1. CASE s = t
      BY <2>1, <3>1 DEF FallbackOK
    <3>2. CASE s # t
      <4>1. FallbackOK(s)
        BY DEF FallbackInv
      <4>2. QED
        BY <2>1, <3>2, <4>1 DEF FallbackOK, Still
    <3>3. QED
      BY <3>1, <3>2
  <2>3. ASSUME NEW o \in Traces PROVE FallbackHandleOK(o)'
    <3>1. FallbackHandleOK(o)
      BY DEF FallbackInv
    <3>2. \A s \in Threads : pc[s] \in ClosePCs => s # t
      BY <2>1 DEF ClosePCs
    <3>3. QED
      BY <2>1, <3>1, <3>2 DEF FallbackHandleOK, Still
  <2>4. QED
    BY <1>0, <2>1, <2>2, <2>3 DEF FallbackInv, InitialUsed
<1>2. ASSUME NEW t \in Threads, Inside(t) PROVE FallbackInv'
  <2>1. cur' = cur /\ usedSessions \subseteq usedSessions'
    BY <1>0, <1>2, ThreadStep, SessionStep DEF StartTraceSucceeds
  <2>2. InitialUsed'
    BY <1>0, <2>1 DEF InitialUsed
  <2>3. ASSUME NEW s \in Threads PROVE FallbackOK(s)'
    <3>1. CASE ~Plain(cur[s])
      BY <2>1, <3>1 DEF FallbackOK
    <3>2. CASE Plain(cur[s])
      BY <1>2, <3>2, FallbackOwnStep, FallbackOtherStep
    <3>3. QED
      BY <3>1, <3>2
  <2>4. ASSUME NEW o \in Traces PROVE FallbackHandleOK(o)'
    BY <1>2, FallbackHandleStep
  <2>5. QED
    BY <2>2, <2>3, <2>4 DEF FallbackInv
<1>3. CASE /\ UNCHANGED <<threadVars, traceVars, usedSessions, hstate, hsess>>
           /\ \A n \in Names : session'[n] \in {session[n], NoSession}
  <2>1. UNCHANGED <<pc, op, cur, result, status, proc, sessionHandle_, registrationHandle_,
                    usedSessions, hstate, hsess>>
    BY <1>3 DEF threadVars, traceVars
  <2>2. \A o \in Traces :
          /\ Name[o] \in Names
          /\ Still(o)' => Still(o) /\ session'[Name[o]] = session[Name[o]]
    BY <1>3, ClientAssumption, SessionAssumption DEF Still
  <2>3. \A s \in Threads : FallbackOK(s)'
    BY <1>0, <2>1, <2>2 DEF FallbackInv, FallbackOK, TypeOK, ThreadsOK
  <2>4. \A o \in Traces : FallbackHandleOK(o)'
    BY <2>1, <2>2 DEF FallbackInv, FallbackHandleOK
  <2>5. QED
    BY <1>0, <2>1, <2>3, <2>4 DEF FallbackInv, InitialUsed
<1>4. ASSUME NEW n \in Names, OutsideStop(n)
      PROVE  /\ UNCHANGED <<threadVars, traceVars, usedSessions, hstate, hsess>>
             /\ \A m \in Names : session'[m] \in {session[m], NoSession}
  BY <1>0, <1>4 DEF OutsideStop, TypeOK, EtwOK
<1>5. CASE /\ UNCHANGED vars
           /\ \A m \in Names : session'[m] \in {session[m], NoSession}
  BY <1>3, <1>5 DEF vars, etwVars
<1>6. QED
  BY <1>1, <1>2, <1>3, <1>4, <1>5 DEF Next, Inside, vars, etwVars

\* A process that may not control sessions, and whose traces are used by one thread
\* each, consumes a session that runs: as long as nobody stops it, start() of such
\* a user trace ends by a refused OpenTrace or by an exception of a callback.
THEOREM FallbacksConsume == Spec => []FallbackConsumes
<1>1. Init => FallbackInv
  BY InitFallbackInv
<1>2. IInv /\ ConsumerInv /\ FallbackInv /\ [Next]_vars => FallbackInv'
  BY NextFallbackInv
<1>3. FallbackInv => FallbackConsumes
  BY DEF FallbackInv, FallbackOK, FallbackConsumes, Plain, Still, At
<1>4. QED
  BY <1>1, <1>2, <1>3, Invariance, ConsumersInvariant, PTL DEF Spec

-----------------------------------------------------------------------------
(* TraceSession implements TraceLifecycle.                                 *)

\* A disciplined trace has at most one handle that is open or closing.
LEMMA OneLive ==
  ASSUME IInv, ConsumerInv, NEW o \in Traces, Disciplined(o),
         NEW h \in LiveHandles(o), NEW k \in LiveHandles(o)
  PROVE  h = k
<1>1. /\ h \in Handles /\ hctx[h] = o /\ hstate[h] \in {"open", "closing"}
      /\ k \in Handles /\ hctx[k] = o /\ hstate[k] \in {"open", "closing"}
  BY DEF LiveHandles
<1>2. \A g \in {h, k} : hstate[g] = "open" => sessionHandle_[o] = g
  BY <1>1 DEF IInv, HandleInv, NoHandleLeak
<1>3. \A g \in {h, k} : hstate[g] = "closing" => Busy(g) /\ sessionHandle_[o] \in {g, INVALID}
  BY <1>1 DEF ConsumerInv, ClosingOK
<1>4. CASE hstate[h] = "closing" /\ hstate[k] = "closing"
  <2>1. PICK s \in Threads : pc[s] = "processing" /\ proc[s] = h
    BY <1>3, <1>4 DEF Busy, At
  <2>2. PICK t \in Threads : pc[t] = "processing" /\ proc[t] = k
    BY <1>3, <1>4 DEF Busy, At
  <2>3. cur[s] = o /\ cur[t] = o
    BY <1>1, <2>1, <2>2 DEF ConsumerInv, ProcOK
  <2>4. s \in Runners[o] /\ t \in Runners[o]
    BY <2>1, <2>2, <2>3 DEF IInv, CallInv, CallOK, StopOps, ClosePCs
  <2>5. QED
    BY <2>1, <2>2, <2>4 DEF Disciplined, OneThread
<1>5. CASE hstate[h] = "open" \/ hstate[k] = "open"
  BY <1>1, <1>2, <1>3, <1>5, SessionAssumption
<1>6. QED
  BY <1>1, <1>4, <1>5

\* The phase of a disciplined trace is that of its one handle.
LEMMA PhaseOfLive ==
  ASSUME IInv, ConsumerInv, NEW o \in Traces, Disciplined(o), NEW h \in LiveHandles(o)
  PROVE  PhaseOf(o) = IF hstate[h] = "closing" THEN "draining"
                      ELSE IF Busy(h) THEN "processing" ELSE "open"
<1>1. \A k \in LiveHandles(o) : k = h
  BY OneLive
<1>2. QED
  BY <1>1 DEF PhaseOf

LEMMA PhaseOfNone ==
  ASSUME NEW o \in Traces, \A h \in Handles : hctx[h] = o => hstate[h] \notin {"open", "closing"}
  PROVE  PhaseOf(o) = "closed"
  BY DEF PhaseOf, LiveHandles

\* The phase depends on the handles of the trace and on who processes them.
LEMMA PhaseFrame ==
  ASSUME NEW o \in Traces,
         \A h \in Handles : (hctx'[h] = o) <=> (hctx[h] = o),
         \A h \in Handles : hctx[h] = o => hstate'[h] = hstate[h] /\ (Busy(h)' <=> Busy(h))
  PROVE  PhaseOf(o)' = PhaseOf(o)
<1>1. LiveHandles(o)' = LiveHandles(o)
  BY DEF LiveHandles
<1>2. \A h \in LiveHandles(o) : hstate'[h] = hstate[h] /\ (Busy(h)' <=> Busy(h))
  BY DEF LiveHandles
<1>3. QED
  BY <1>1, <1>2 DEF PhaseOf

\* The handles another thread processes stay processed, and no others.
LEMMA BusyFrame ==
  ASSUME TypeOK, NEW t \in Threads, Inside(t), NEW h \in Handles,
         pc[t] = "processing" => proc[t] # h,
         pc'[t] = "processing" => proc'[t] # h
  PROVE  Busy(h)' <=> Busy(h)
  BY ThreadFrame DEF Busy, At

\* A step of a thread inside a call on one trace is none for the other traces.
LEMMA OtherPhase ==
  ASSUME IInv, ConsumerInv, ConsumerInv', NEW t \in Threads, Inside(t),
         NEW o \in Traces, cur[t] # o
  PROVE  PhaseOf(o)' = PhaseOf(o)
<1>1. /\ TypeOK /\ cur' = cur /\ cur[t] \in Traces
      /\ hstate \in [Handles -> {"unused", "open", "closing", "closed"}]
      /\ sessionHandle_ \in [Traces -> Handles \cup {INVALID}] /\ HandleOK(cur[t])
      /\ ProcOK(t) /\ ProcOK(t)'
  BY ThreadStep DEF IInv, HandleInv, ConsumerInv, TypeOK, ThreadsOK, TracesOK, EtwOK
<1>2. CASE OpenTrace(t) /\ OpenTraceOK(cur[t])
  <2>1. PICK k \in Handles :
          /\ hstate[k] = "unused" /\ hstate'[k] = "open" /\ hctx'[k] = cur[t]
          /\ \A g \in Handles \ {k} : hstate'[g] = hstate[g] /\ hctx'[g] = hctx[g]
    BY <1>1, <1>2, OpenTraceEffect
  <2>2. LiveHandles(o)' = LiveHandles(o) /\ \A h \in LiveHandles(o) : hstate'[h] = hstate[h]
    <3>1. ASSUME NEW h \in Handles PROVE h \in LiveHandles(o)' <=> h \in LiveHandles(o)
      BY <2>1 DEF LiveHandles
    <3>2. ASSUME NEW h \in LiveHandles(o) PROVE hstate'[h] = hstate[h]
      BY <2>1 DEF LiveHandles
    <3>3. QED
      BY <3>1, <3>2 DEF LiveHandles
  <2>3. \A h \in LiveHandles(o) : Busy(h)' <=> Busy(h)
    BY <1>1, <2>1, BusyFrame DEF ProcOK, LiveHandles
  <2>4. QED
    BY <2>2, <2>3 DEF PhaseOf
<1>3. CASE hctx' = hctx
  <2>1. ASSUME NEW h \in Handles, hctx[h] = o PROVE Busy(h)' <=> Busy(h)
    BY <1>1, <1>3, <2>1, BusyFrame DEF ProcOK
  <2>2. ASSUME NEW h \in Handles, hctx[h] = o PROVE hstate'[h] = hstate[h]
    <3>1. h # sessionHandle_[cur[t]]
      BY <1>1, <2>2, SessionAssumption DEF HandleOK
    <3>2. pc[t] = "processing" => proc[t] # h
      BY <1>1, <2>2 DEF ProcOK
    <3>3. Terminated(cur[t]) => hstate'[h] = hstate[h]
      BY <2>2 DEF Terminated
    <3>4. pc[t] = "processing" /\ Release(t) => hstate'[h] = hstate[h]
      BY <1>1, <3>2 DEF Release
    <3>5. OpenTrace(t) /\ OpenTraceOK(cur[t]) => hstate'[h] = hstate[h]
      BY <1>1, <1>3, <2>2, OpenTraceEffect
    <3>6. QED
      BY <1>1, <3>1, <3>3, <3>4, <3>5, HandleStateStep
  <2>3. QED
    BY <1>3, <2>1, <2>2, PhaseFrame
<1>4. QED
  BY <1>1, <1>2, <1>3, HandleStep

\* The steps of TraceLifecycle.
Moves == {<<"closed", "open">>, <<"open", "processing">>, <<"processing", "open">>,
          <<"open", "closed">>, <<"processing", "draining">>, <<"draining", "closed">>}

PhaseMoves(o) == PhaseOf(o)' = PhaseOf(o) \/ <<PhaseOf(o), PhaseOf(o)'>> \in Moves

LEMMA PhaseOpened ==
  ASSUME IInv, ConsumerInv, NEW t \in Threads, Inside(t),
         NEW o \in Traces, cur[t] = o, Disciplined(o), OpenTrace(t), OpenTraceOK(o)
  PROVE  PhaseMoves(o)
<1>1. TypeOK /\ pc[t] \in OpenPCs /\ t \in Runners[o]
  <2>1. pc[t] \in OpenPCs
    BY DEF OpenTrace, OpenPCs
  <2>2. QED
    BY <2>1, RegisterOpens DEF IInv
<1>2. PICK k \in Handles :
        /\ hstate[k] = "unused" /\ hstate'[k] = "open" /\ hctx'[k] = o
        /\ \A g \in Handles \ {k} : hstate'[g] = hstate[g] /\ hctx'[g] = hctx[g]
  BY <1>1, OpenTraceEffect
<1>3. sessionHandle_[o] = INVALID
  BY <1>1 DEF IInv, HandleInv, OpeningOK
<1>4. ASSUME NEW h \in Handles, hctx[h] = o, hstate[h] \in {"open", "closing"} PROVE FALSE
  <2>1. hstate[h] # "open"
    BY <1>3, <1>4, SessionAssumption DEF IInv, HandleInv, NoHandleLeak
  <2>2. PICK s \in Threads : pc[s] = "processing" /\ proc[s] = h
    BY <1>4, <2>1 DEF ConsumerInv, ClosingOK, Busy, At
  <2>3. s \in Runners[o]
    BY <1>4, <2>2 DEF ConsumerInv, ProcOK, IInv, CallInv, CallOK, StopOps, ClosePCs
  <2>4. QED
    BY <1>1, <2>2, <2>3 DEF Disciplined, OneThread, OpenPCs
<1>5. PhaseOf(o) = "closed"
  BY <1>1, <1>4, PhaseOfNone
<1>6. PhaseOf(o)' = "open"
  <2>1. k \in LiveHandles(o)'
    BY <1>2 DEF LiveHandles
  <2>2. ~(Busy(k)')
    <3>1. ~Busy(k)
      BY <1>2 DEF Busy, At, ConsumerInv, ProcOK
    <3>2. Busy(k)' <=> Busy(k)
      BY <1>1, <1>2, OpenTraceEffect, BusyFrame DEF OpenPCs
    <3>3. QED
      BY <3>1, <3>2
  <2>3. \A h \in LiveHandles(o)' : h = k
    BY <1>2, <1>4 DEF LiveHandles
  <2>4. QED
    BY <1>2, <2>1, <2>2, <2>3 DEF PhaseOf
<1>7. QED
  BY <1>5, <1>6 DEF PhaseMoves, Moves

\* ProcessTrace leaves: the handle is open again, or gone if its close was pending.
LEMMA PhaseReleased ==
  ASSUME IInv, IInv', ConsumerInv, ConsumerInv', NEW t \in Threads, Inside(t),
         NEW o \in Traces, cur[t] = o, Disciplined(o),
         pc[t] = "processing", pc'[t] = "idle", Release(t)
  PROVE  PhaseMoves(o)
<1> DEFINE h == proc[t]
<1>1. /\ h \in Handles /\ hctx[h] = o /\ hstate[h] \in {"open", "closing"} /\ Busy(h)
      /\ \A s \in Threads : pc[s] = "processing" /\ proc[s] = h => s = t
      /\ TypeOK /\ hctx' = hctx
  BY HandleStep DEF ConsumerInv, ProcOK, Busy, At, IInv, OpenTrace
<1>2. h \in LiveHandles(o)
  BY <1>1 DEF LiveHandles
<1>3. \A g \in Handles : g # h => hstate'[g] = hstate[g]
  BY <1>1 DEF Release, TypeOK, EtwOK
<1>4. \A s \in Threads : pc'[s] = "processing" => s # t /\ pc[s] = "processing" /\ proc'[s] = proc[s]
  BY <1>1, ThreadFrame
<1>5. CASE hstate[h] = "open"
  <2>1. hstate'[h] = "open"
    BY <1>1, <1>5 DEF Release, TypeOK, EtwOK
  <2>2. ~(\E s \in Threads : pc'[s] = "processing" /\ proc'[s] = h)
    BY <1>1, <1>4
  <2>3. PhaseOf(o) = "processing"
    BY <1>1, <1>2, <1>5, PhaseOfLive
  <2>4. PhaseOf(o)' = "open"
    <3> HIDE DEF h
    <3>1. h \in LiveHandles(o)'
      BY <1>1, <2>1 DEF LiveHandles
    <3>2. \A g \in LiveHandles(o)' : g \in LiveHandles(o)
      BY <1>1, <1>3, <2>1 DEF LiveHandles
    <3>3. \A g \in LiveHandles(o)' : g = h
      BY <1>2, <3>2, OneLive
    <3>4. QED
      BY <2>1, <2>2, <3>1, <3>3 DEF PhaseOf, Busy, At
  <2>5. QED
    BY <2>3, <2>4 DEF PhaseMoves, Moves
<1>6. CASE hstate[h] = "closing"
  <2>1. hstate'[h] = "closed"
    BY <1>1, <1>6 DEF Release, TypeOK, EtwOK
  <2>2. PhaseOf(o) = "draining"
    BY <1>2, <1>6, PhaseOfLive
  <2>3. ASSUME NEW g \in Handles, hctx[g] = o, hstate'[g] \in {"open", "closing"} PROVE FALSE
    <3>1. g # h /\ hstate[g] \in {"open", "closing"}
      BY <1>3, <2>1, <2>3
    <3>2. g \in LiveHandles(o)
      BY <2>3, <3>1 DEF LiveHandles
    <3>3. QED
      BY <1>2, <3>1, <3>2, OneLive
  <2>4. PhaseOf(o)' = "closed"
    <3>1. LiveHandles(o)' = {}
      BY <1>1, <2>3 DEF LiveHandles
    <3>2. QED
      BY <3>1 DEF PhaseOf
  <2>5. QED
    BY <2>2, <2>4 DEF PhaseMoves, Moves
<1>7. QED
  BY <1>1, <1>5, <1>6

\* CloseTrace: the handle is closed, or its close is pending while it is processed.
LEMMA PhaseClosed ==
  ASSUME IInv, ConsumerInv, NEW t \in Threads, Inside(t),
         NEW o \in Traces, cur[t] = o, Disciplined(o), CloseTrace(t),
         NEW h \in Handles, h = sessionHandle_[o], hstate[h] = "open",
         hstate' = [hstate EXCEPT ![h] = IF Busy(h) THEN "closing" ELSE "closed"]
  PROVE  PhaseMoves(o)
<1>1. /\ hctx[h] = o /\ hctx' = hctx /\ pc[t] = "closeTrace" /\ TypeOK
      /\ hstate'[h] = IF Busy(h) THEN "closing" ELSE "closed"
      /\ \A g \in Handles : g # h => hstate'[g] = hstate[g]
  BY SessionAssumption DEF IInv, HandleInv, HandleOK, CloseTrace, At, TypeOK, EtwOK
<1>2. h \in LiveHandles(o)
  BY <1>1 DEF LiveHandles
<1>3. \A g \in Handles : hctx[g] = o /\ hstate'[g] \in {"open", "closing"} => g = h
  <2> SUFFICES ASSUME NEW g \in Handles, hctx[g] = o, hstate'[g] \in {"open", "closing"}, g # h
               PROVE  FALSE
    OBVIOUS
  <2>1. g \in LiveHandles(o)
    BY <1>1 DEF LiveHandles
  <2>2. QED
    BY <1>2, <2>1, OneLive
<1>4. CASE Busy(h)
  <2>1. PhaseOf(o) = "processing"
    BY <1>2, <1>4, PhaseOfLive
  <2>2. LiveHandles(o)' = {h}
    BY <1>1, <1>3, <1>4 DEF LiveHandles
  <2>3. PhaseOf(o)' = "draining"
    BY <1>1, <1>4, <2>2 DEF PhaseOf
  <2>4. QED
    BY <2>1, <2>3 DEF PhaseMoves, Moves
<1>5. CASE ~Busy(h)
  <2>1. PhaseOf(o) = "open"
    BY <1>2, <1>5, PhaseOfLive
  <2>2. LiveHandles(o)' = {}
    BY <1>1, <1>3, <1>5 DEF LiveHandles
  <2>3. PhaseOf(o)' = "closed"
    BY <2>2 DEF PhaseOf
  <2>4. QED
    BY <2>1, <2>3 DEF PhaseMoves, Moves
<1>6. QED
  BY <1>4, <1>5

\* The end of the process: nobody is processing, and every handle is closed.
LEMMA PhaseTerminated ==
  ASSUME IInv, ConsumerInv, NEW t \in Threads, Inside(t),
         NEW o \in Traces, cur[t] = o, Disciplined(o),
         op[t] = "destroy", pc[t] # "processing", Terminated(o), hctx' = hctx
  PROVE  PhaseMoves(o)
<1>1. pc[t] # "idle" /\ LifeOK(t)
  BY ThreadStep DEF IInv, CallInv
<1>2. \A h \in Handles : hctx[h] = o => ~Busy(h)
  BY <1>1 DEF Busy, At, ConsumerInv, ProcOK, LifeOK
<1>3. PhaseOf(o) \in {"closed", "open"}
  <2>1. CASE LiveHandles(o) = {}
    BY <2>1 DEF PhaseOf
  <2>2. CASE LiveHandles(o) # {}
    <3>1. PICK h \in LiveHandles(o) : TRUE
      BY <2>2
    <3>2. h \in Handles /\ hctx[h] = o /\ ~Busy(h)
      BY <1>2, <3>1 DEF LiveHandles
    <3>3. hstate[h] # "closing"
      BY <3>2 DEF ConsumerInv, ClosingOK
    <3>4. QED
      BY <3>1, <3>2, <3>3, PhaseOfLive
  <2>3. QED
    BY <2>1, <2>2
<1>4. LiveHandles(o)' = {}
  BY DEF LiveHandles, Terminated
<1>5. PhaseOf(o)' = "closed"
  BY <1>4 DEF PhaseOf
<1>6. QED
  BY <1>3, <1>5 DEF PhaseMoves, Moves

\* The other steps: at most, ProcessTrace begins.
LEMMA PhaseBegun ==
  ASSUME IInv, ConsumerInv, NEW t \in Threads, Inside(t),
         NEW o \in Traces, cur[t] = o, Disciplined(o),
         hstate' = hstate, hctx' = hctx, pc[t] = "processing" => pc'[t] = "processing"
  PROVE  PhaseMoves(o)
<1>1. /\ TypeOK /\ LiveHandles(o)' = LiveHandles(o)
      /\ \A s \in Threads \ {t} : pc'[s] = pc[s] /\ proc'[s] = proc[s]
  BY ThreadFrame DEF LiveHandles, IInv
<1>2. CASE pc[t] = "processTrace" /\ CanProcess(sessionHandle_[o]) /\ pc'[t] = "processing"
           /\ proc' = [proc EXCEPT ![t] = sessionHandle_[o]]
  <2>0. PICK h \in Handles : h = sessionHandle_[o]
    BY <1>2 DEF CanProcess
  <2>1. /\ hstate[h] = "open" /\ ~Busy(h) /\ hctx[h] = o
        /\ proc'[t] = h
    BY <1>1, <1>2, <2>0, SessionAssumption
    DEF CanProcess, IInv, HandleInv, HandleOK, TypeOK, ThreadsOK
  <2>2. h \in LiveHandles(o)
    BY <2>1 DEF LiveHandles
  <2>3. PhaseOf(o) = "open"
    BY <2>1, <2>2, PhaseOfLive
  <2>4. PhaseOf(o)' = "processing"
    <3>1. \A g \in LiveHandles(o)' : g = h
      BY <1>1, <2>2, OneLive
    <3>2. Busy(h)'
      BY <1>2, <2>1 DEF Busy, At
    <3>3. QED
      BY <1>1, <2>1, <2>2, <3>1, <3>2 DEF PhaseOf
  <2>5. QED
    BY <2>3, <2>4 DEF PhaseMoves, Moves
<1>3. CASE (pc[t] = "processing" <=> pc'[t] = "processing") /\ (pc[t] = "processing" => proc'[t] = proc[t])
  <2>1. \A h \in Handles : Busy(h)' <=> Busy(h)
    BY <1>1, <1>3 DEF Busy, At
  <2>2. \A h \in LiveHandles(o) : Busy(h)' <=> Busy(h)
    BY <2>1 DEF LiveHandles
  <2>3. PhaseOf(o)' = PhaseOf(o)
    BY <1>1, <2>2 DEF PhaseOf
  <2>4. QED
    BY <2>3 DEF PhaseMoves
<1>4. QED
  BY <1>1, <1>2, <1>3, ProcStep

LEMMA PhaseStep ==
  ASSUME IInv, IInv', ConsumerInv, ConsumerInv', NEW t \in Threads, Inside(t),
         NEW o \in Traces, cur[t] = o, Disciplined(o)
  PROVE  PhaseMoves(o)
<1>1. TypeOK
  BY DEF IInv
<1>2. CASE OpenTrace(t) /\ OpenTraceOK(o)
  BY <1>2, PhaseOpened
<1>3. CASE hctx' = hctx
  <2>1. CASE hstate' = hstate /\ (pc[t] = "processing" => pc'[t] = "processing")
    BY <1>3, <2>1, PhaseBegun
  <2>2. CASE pc[t] = "processing" /\ pc'[t] = "idle" /\ Release(t)
    BY <2>2, PhaseReleased
  <2>3. CASE LET h == sessionHandle_[o] IN
               /\ CloseTrace(t) /\ h \in Handles /\ hstate[h] = "open"
               /\ hstate' = [hstate EXCEPT ![h] = IF Busy(h) THEN "closing" ELSE "closed"]
    BY <2>3, PhaseClosed
  <2>4. CASE op[t] = "destroy" /\ pc[t] # "processing" /\ Terminated(o)
    BY <1>3, <2>4, PhaseTerminated
  <2>5. QED
    BY <1>1, <1>2, <2>1, <2>2, <2>3, <2>4, HandleStateStep
<1>4. QED
  BY <1>1, <1>2, <1>3, HandleStep

\* A call that begins, or a session stopped elsewhere, changes no phase.
LEMMA PhaseKept ==
  ASSUME UNCHANGED <<hstate, hctx>>, \A h \in Handles : Busy(h)' <=> Busy(h), NEW o \in Traces
  PROVE  PhaseOf(o)' = PhaseOf(o)
  BY PhaseFrame

\* Every step of TraceSession is a step of TraceLifecycle for one trace at most.
LEMMA PhaseNext ==
  ASSUME IInv, IInv', ConsumerInv, ConsumerInv', [Next]_vars
  PROVE  \/ \A o \in Traces : Disciplined(o) => PhaseOf(o)' = PhaseOf(o)
         \/ \E u \in Traces :
              /\ Disciplined(u) /\ <<PhaseOf(u), PhaseOf(u)'>> \in Moves
              /\ \A o \in Traces : o # u => PhaseOf(o)' = PhaseOf(o)
<1>1. ASSUME NEW t \in Threads, NEW u \in Traces, ClientCall(t, u)
      PROVE  \A o \in Traces : PhaseOf(o)' = PhaseOf(o)
  <2>1. /\ UNCHANGED <<hstate, hctx, proc>>
        /\ pc[t] = "idle" /\ pc'[t] \in {"register", "process", "stopTrace"}
        /\ \A s \in Threads \ {t} : pc'[s] = pc[s]
    BY <1>1, CallFrame, CallStep DEF IInv, etwVars
  <2>2. \A h \in Handles : Busy(h)' <=> Busy(h)
    BY <2>1 DEF Busy, At
  <2>3. QED
    BY <2>1, <2>2, PhaseKept
<1>2. ASSUME NEW t \in Threads, Inside(t)
      PROVE  \/ \A o \in Traces : Disciplined(o) => PhaseOf(o)' = PhaseOf(o)
             \/ \E u \in Traces :
                  /\ Disciplined(u) /\ <<PhaseOf(u), PhaseOf(u)'>> \in Moves
                  /\ \A o \in Traces : o # u => PhaseOf(o)' = PhaseOf(o)
  <2>1. cur[t] \in Traces
    BY DEF IInv, TypeOK, ThreadsOK
  <2>2. PICK u \in Traces : u = cur[t]
    BY <2>1
  <2>3. \A o \in Traces : o # u => PhaseOf(o)' = PhaseOf(o)
    BY <1>2, <2>2, OtherPhase
  <2>4. Disciplined(u) => PhaseMoves(u)
    BY <1>2, <2>2, PhaseStep
  <2>5. QED
    BY <2>3, <2>4 DEF PhaseMoves
<1>3. ASSUME UNCHANGED <<pc, proc, hstate, hctx>>
      PROVE  \A o \in Traces : PhaseOf(o)' = PhaseOf(o)
  BY <1>3, PhaseKept DEF Busy, At
<1>4. ASSUME NEW n \in Names, OutsideStop(n) PROVE UNCHANGED <<pc, proc, hstate, hctx>>
  BY <1>4 DEF OutsideStop, threadVars
<1>5. UNCHANGED vars => UNCHANGED <<pc, proc, hstate, hctx>>
  BY DEF vars, threadVars, etwVars
<1>6. QED
  BY <1>1, <1>2, <1>3, <1>4, <1>5 DEF Next, Inside

\* The consumers of the disciplined traces go through the phases of TraceLifecycle,
\* in its order and by its steps, whatever the threads of all traces and ETW do.
THEOREM LifecycleIsImplemented == Spec => ImplementsLifecycle
<1>1. Init => Lifecycle!Init
  <2> SUFFICES ASSUME Init PROVE Lifecycle!Init
    OBVIOUS
  <2>1. \A o \in {u \in Traces : Disciplined(u)} : PhaseOf(o) = "closed"
    BY PhaseOfNone DEF Init
  <2>2. QED
    BY <2>1 DEF Lifecycle!Init
<1>2. IInv /\ IInv' /\ ConsumerInv /\ ConsumerInv' /\ [Next]_vars => 
        [Lifecycle!Next]_[o \in {u \in Traces : Disciplined(u)} |-> PhaseOf(o)]
  <2> DEFINE D == {u \in Traces : Disciplined(u)}
             Phase == [o \in D |-> PhaseOf(o)]
  <2> SUFFICES ASSUME IInv, IInv', ConsumerInv, ConsumerInv', [Next]_vars
               PROVE  Lifecycle!Next \/ Phase' = Phase
    OBVIOUS
  <2>1. CASE \A o \in Traces : Disciplined(o) => PhaseOf(o)' = PhaseOf(o)
    <3>1. Phase' = Phase
      BY <2>1
    <3>2. QED
      BY <3>1
  <2>2. ASSUME NEW u \in Traces, Disciplined(u), <<PhaseOf(u), PhaseOf(u)'>> \in Moves,
               \A o \in Traces : o # u => PhaseOf(o)' = PhaseOf(o)
        PROVE  Lifecycle!Next
    <3>1. u \in D /\ Phase[u] = PhaseOf(u)
      BY <2>2
    <3>2. Phase' = [Phase EXCEPT ![u] = PhaseOf(u)']
      BY <2>2
    <3>3. QED
      BY <2>2, <3>1, <3>2
      DEF Moves, Lifecycle!Next, Lifecycle!Open, Lifecycle!Begin, Lifecycle!End,
          Lifecycle!Close, Lifecycle!CloseBusy, Lifecycle!Drained, Lifecycle!Move
  <2>3. QED
    BY <2>1, <2>2, PhaseNext
<1>3. QED
  BY <1>1, <1>2, Invariance, ConsumersInvariant, PTL
  DEF Spec, ImplementsLifecycle, Lifecycle!Spec

=============================================================================
