----------------------------- MODULE MCSettings -----------------------------
(***************************************************************************)
(* Instances of ProviderSettings and KernelSettings for TLC: a behaviour   *)
(* is that of a user trace or of a kernel trace, by the choice of `side'.  *)
(***************************************************************************)
EXTENDS ProviderSettings, KernelSettings

Tools == INSTANCE TLC

CONSTANTS p1, p2, k1, k2, f1

VARIABLE side

\* Levels a client gives: all, 2 (error), and 256, of which UCHAR keeps nothing.
SomeLevels == {{}, {1}, {8}}

\* Events of the GUID that several providers share, and one of the other GUID.
SomeEvents ==
  [guid : {1}, level : {0, 2, 5, 7}, keywords : SUBSET Keywords, id : EventIds]
    \cup [guid : {2}, level : {5}, keywords : {Keywords}, id : EventIds]

\* Every row of the tables.
AllKinds == DOMAIN NativeTable

\* PERF_OB_HANDLE | PERF_OB_OBJECT, PERF_POOLTRACE, PERF_SYSCFG_NETWORK, PERF_CLUSTER_OFF
SomeMasks == {{31, 6, 7}, {29, 6, 0}, {31, 30, 3}, {31, 30, 29, 0}}

Init == side \in {"user", "kernel"} /\ SettingsInit /\ KernelInit

Next ==
  /\ UNCHANGED side
  /\ \/ side = "user" /\ SettingsNext /\ UNCHANGED kvars
     \/ side = "kernel" /\ KernelNext /\ UNCHANGED svars

\* No definition tells apart the providers or the keywords.
Symmetric == Tools!Permutations(Providers) \cup Tools!Permutations(Keywords)

Spec == Init /\ [][Next]_<<side, svars, kvars>>
=============================================================================
