--------------------------- MODULE MCTraceSession ---------------------------
(***************************************************************************)
(* Instances of TraceSession for TLC.                                      *)
(***************************************************************************)
EXTENDS TraceSession

CONSTANTS o1, o2, n1, n2, r1, r2, s1, e1, e2

\* One trace: r1 runs it, s1 stops it.
OneTrace == {o1}
OneName == [o \in {o1} |-> n1]
OneRunner == [o \in {o1} |-> {r1}]
OneStopper == [o \in {o1} |-> {s1}]
NoneRunning == [n \in {n1} |-> NoSession]

\* A session of the name is already running.
AnotherRunning == [n \in {n1} |-> e1]

\* o1 consumes a session that already runs; o2, a kernel trace, reads a file.
\* Each belongs to a thread of its own, in a process that may control nothing.
TwoTraces == {o1, o2}
TwoNames == [o \in {o1, o2} |-> IF o = o1 THEN n1 ELSE n2]
TwoThreads == [o \in {o1, o2} |-> IF o = o1 THEN {r1} ELSE {r2}]
BothRunning == [n \in {n1, n2} |-> IF n = n1 THEN e1 ELSE e2]
=============================================================================
