------------------------------ MODULE MCClient ------------------------------
(***************************************************************************)
(* Instances of Parser, Records, ManagedTrace and CallbackBridge for TLC:  *)
(* a behaviour is that of one of them, by `part'; the others stay as they *)
(* are initially.                                                          *)
(***************************************************************************)
EXTENDS MCParser, MCRecords, ManagedTrace, CallbackBridge

CONSTANTS p1, f1, t1, t2, h1, h2, r1, e1, e2

VARIABLE part

\* What does not run is in the first of its initial states.
Rest ==
  /\ \/ part = "parser"
     \/ /\ part # "parser"
        /\ event = CHOOSE l \in Layouts : l.count = MaxCount
        /\ asked = CHOOSE n \in Names : TRUE
  /\ \/ part = "records"
     \/ /\ part # "records"
        /\ trim = TRUE
        /\ schema = CHOOSE s \in Schemas : TRUE
  /\ \/ part = "trace"
     \/ part # "trace" /\ careful = TRUE

Init ==
  /\ part \in {"parser", "records", "trace", "bridge"}
  /\ Rest
  /\ ParserInit /\ BuilderInit /\ ManagedInit /\ BridgeInit

Next ==
  /\ UNCHANGED part
  /\ \/ part = "parser" /\ ParserNext /\ UNCHANGED <<rvars, mvars, bvars>>
     \/ part = "records" /\ RecordsNext /\ UNCHANGED <<pvars, mvars, bvars>>
     \/ part = "trace" /\ ManagedNext /\ UNCHANGED <<pvars, rvars, bvars>>
     \/ part = "bridge" /\ BridgeNext /\ UNCHANGED <<pvars, rvars, mvars>>

\* No definition tells apart the threads, the handlers or the events.
Symmetric ==
  Permutations(Threads) \cup Permutations(Handlers)
    \cup Permutations(Records)

Spec == Init /\ [][Next]_<<part, pvars, rvars, mvars, bvars>>
=============================================================================
