--------------------------- MODULE KernelSettings ---------------------------
(***************************************************************************)
(* What kernel providers ask of ETW: the flags of StartTrace and the       *)
(* group masks set afterwards (kt.hpp, perfinfo_groupmask.hpp), with the   *)
(* providers the library names (kernel_providers.hpp) and their managed    *)
(* counterparts.  A ULONG is the set of its bits.  What the kernel logs is *)
(* a set of pairs <<index of the mask, bit>>.                              *)
(***************************************************************************)
EXTENDS Integers, Sequences

CONSTANTS
  KProviders,   \* kernel_provider objects
  Kinds,        \* names of the providers that the client constructs
  Managed,      \* they are those of the .NET library
  RawMasks,     \* group masks given to kernel_provider(guid, mask), as sets of bits
  Unmade,       \* not yet constructed
  MaxKernelCalls

Ulong == SUBSET (0..31)
Classes == {"alpc", "thread", "debug", "file_io", "disk_io", "perf_info", "image_load",
            "page_fault", "tcp_ip", "udp_ip", "process", "registry", "split_io", "ob_trace",
            "system_trace", "raw"}
KSettings == [flags : Ulong, mask : Ulong, id : Classes, bits : Ulong, rundown : BOOLEAN]

VARIABLES
  os,           \* "win7" or "win8": IsWindows8OrGreater()
  kprov,        \* kernel_provider: p_, id_, gm_, r_, rundown_enabled_
  klist,        \* trace::providers_
  kphase,
  logged,       \* what the session's group masks have set
  rundown,      \* flags given for the rundown GUID, or NoRundown
  kseen,        \* history: the providers in the list when the trace was opened
  kcalls

kvars == <<os, kprov, klist, kphase, logged, rundown, kseen, kcalls>>

NoRundown == {-1}
Listing == {klist[i] : i \in DOMAIN klist}
KCall == kcalls < MaxKernelCalls /\ kcalls' = kcalls + 1

Flag(bit, guid) == [flags |-> {bit}, mask |-> {}, id |-> guid, bits |-> {}, rundown |-> FALSE]
Mask(guid, gm) == [flags |-> {}, mask |-> gm, id |-> guid, bits |-> {}, rundown |-> FALSE]

\* kernel_providers.hpp, with the bits of the EVENT_TRACE_FLAG constants
NativeTable ==
  [alpc |-> Flag(20, "alpc"),               context_switch |-> Flag(4, "thread"),
   debug_print |-> Flag(18, "debug"),       disk_file_io |-> Flag(9, "file_io"),
   disk_io |-> Flag(8, "disk_io"),          disk_init_io |-> Flag(10, "disk_io"),
   file_io |-> Flag(25, "file_io"),         file_init_io |-> Flag(26, "file_io"),
   thread_dispatch |-> Flag(11, "thread"),  dpc |-> Flag(5, "perf_info"),
   driver |-> Flag(23, "disk_io"),          image_load |-> Flag(2, "image_load"),
   interrupt |-> Flag(6, "perf_info"),      memory_hard_fault |-> Flag(13, "page_fault"),
   memory_page_fault |-> Flag(12, "page_fault"), network_tcpip |-> Flag(16, "tcp_ip"),
   process |-> Flag(0, "process"),          process_counter |-> Flag(3, "process"),
   profile |-> Flag(24, "perf_info"),       registry |-> Flag(17, "registry"),
   split_io |-> Flag(21, "split_io"),       system_call |-> Flag(7, "perf_info"),
   thread |-> Flag(1, "thread"),            vamap |-> Flag(15, "file_io"),
   virtual_alloc |-> Flag(14, "page_fault"),
   object_manager |-> Mask("ob_trace", {31, 6})]

\* Kernel/KernelProviders.hpp repeats the table but for one GUID
ManagedTable == [NativeTable EXCEPT !.system_call = Flag(7, "system_trace")]

\* Mutant of Table: an entry is taken from the other table.
TableMixed == [NativeTable EXCEPT !.profile = Flag(24, "system_trace")]

Table == IF Managed THEN ManagedTable ELSE NativeTable

ASSUME KernelAssumption ==
  /\ Kinds \subseteq DOMAIN NativeTable /\ Managed \in BOOLEAN /\ RawMasks \subseteq Ulong
  /\ Unmade \notin KSettings
  /\ MaxKernelCalls \in Nat

\* External: the class GUIDs that the events of a flag, or of a bit of a mask, carry.  One
\* flag has the kernel log two classes: that of network events.
ClassesOf(index, bit) ==
  CASE index = 0 /\ bit \in {1, 4, 11}         -> {"thread"}
    [] index = 0 /\ bit \in {8, 10, 23}        -> {"disk_io"}
    [] index = 0 /\ bit \in {9, 15, 25, 26}    -> {"file_io"}
    [] index = 0 /\ bit \in {5, 6, 7, 24}      -> {"perf_info"}
    [] index = 0 /\ bit \in {12, 13, 14}       -> {"page_fault"}
    [] index = 0 /\ bit \in {0, 3}             -> {"process"}
    [] index = 4 /\ bit \in {6, 7}             -> {"ob_trace"}
    [] index = 0 /\ bit = 2  -> {"image_load"} [] index = 0 /\ bit = 16 -> {"tcp_ip", "udp_ip"}
    [] index = 0 /\ bit = 17 -> {"registry"}   [] index = 0 /\ bit = 18 -> {"debug"}
    [] index = 0 /\ bit = 20 -> {"alpc"}       [] index = 0 /\ bit = 21 -> {"split_io"}
    [] OTHER -> {"other"}
-----------------------------------------------------------------------------
\* Mutant of MaskIndex: the sign bit is lost in the shift.
MaskIndexSigned(gm) == (IF 29 \in gm THEN 1 ELSE 0) + (IF 30 \in gm THEN 2 ELSE 0)

\* PERF_GET_MASK_INDEX: the three bits on top
MaskIndex(gm) ==
  (IF 29 \in gm THEN 1 ELSE 0) + (IF 30 \in gm THEN 2 ELSE 0) + (IF 31 \in gm THEN 4 ELSE 0)

\* PERF_GET_MASK_GROUP
MaskGroup(gm) == gm \ {29, 30, 31}

\* PERFINFO_OR_GROUP_WITH_GROUPMASK for each provider
OrGroups(masks, ps) ==
  masks \cup UNION {{MaskIndex(kprov[p].mask)} \X MaskGroup(kprov[p].mask) : p \in ps}

\* construct_enable_flags
EnableFlags == UNION {kprov[p].flags : p \in Listing}

\* External: StartTrace begins with the masks that EnableFlags stand for
Started(flags) == {0} \X flags

\* enforce_name_policy, get_trace_guid and augment_file_mode, by version of the system
NamePolicy(hint) == IF os = "win8" THEN hint ELSE "KERNEL_LOGGER_NAME"
TraceGuid == IF os = "win8" THEN "random" ELSE "SystemTraceControlGuid"
FileMode == IF os = "win8" THEN "SYSTEM_LOGGER_MODE" ELSE "none"

\* External: a session with EnableFlags is the NT Kernel Logger or, since Windows 8, a
\* system logger
KernelSession(name, guid, mode) ==
  \/ os = "win8" /\ mode = "SYSTEM_LOGGER_MODE"
  \/ name = "KERNEL_LOGGER_NAME" /\ guid = "SystemTraceControlGuid" /\ mode = "none"
-----------------------------------------------------------------------------
KernelInit ==
  /\ os \in {"win7", "win8"}
  /\ kprov = [p \in KProviders |-> Unmade]
  /\ klist = <<>> /\ kphase = "closed" /\ logged = {} /\ rundown = NoRundown
  /\ kseen = {} /\ kcalls = 0

KernelConstruct(p, provider) ==
  /\ KCall /\ kprov[p] = Unmade
  /\ kprov' = [kprov EXCEPT ![p] = provider]
  /\ UNCHANGED <<os, klist, kphase, logged, rundown, kseen>>

SetRundownFlags(p, bits) ==
  /\ KCall /\ kprov[p] # Unmade
  /\ kprov' = [kprov EXCEPT ![p].bits = bits, ![p].rundown = TRUE]
  /\ UNCHANGED <<os, klist, kphase, logged, rundown, kseen>>

KernelEnable(p) ==
  /\ KCall /\ kprov[p] # Unmade
  /\ klist' = Append(klist, p)
  /\ UNCHANGED <<os, kprov, kphase, logged, rundown, kseen>>

\* Mutant of GroupMaskSet: the masks are set in any case.
GroupMaskSetAlways == TRUE

GroupMaskSet == \E p \in Listing : kprov[p].mask # {}

\* Mutant of SetMasks: the masks are not asked for first.
SetMasksBlind == OrGroups({}, Listing)

\* enable_providers: ask for the masks, add the groups, and set them if there are any
SetMasks == OrGroups(Started(EnableFlags), Listing)

\* StartTrace, then NtSetSystemInformation if needed, which Windows 7 does not know
KernelOpen ==
  /\ KCall
  /\ IF GroupMaskSet
     THEN IF os = "win8"
          THEN kphase' = "open" /\ logged' = SetMasks
          ELSE kphase' = "failed" /\ logged' = Started(EnableFlags)
     ELSE kphase' = "open" /\ logged' = Started(EnableFlags)
  /\ kseen' = Listing /\ rundown' = NoRundown
  /\ UNCHANGED <<os, kprov, klist>>

\* The request of enable_rundown fails: process() throws, the trace stays open
KernelRundownFails ==
  /\ KCall /\ kphase = "open"
  /\ \E p \in Listing : kprov[p].rundown
  /\ UNCHANGED <<os, kprov, klist, kphase, logged, rundown, kseen>>

\* enable_rundown: one request for all providers
KernelProcess ==
  /\ KCall /\ kphase = "open"
  /\ kphase' = "processing"
  /\ rundown' = IF \E p \in Listing : kprov[p].rundown
                THEN UNION {kprov[p].bits : p \in Listing} ELSE NoRundown
  /\ UNCHANGED <<os, kprov, klist, logged, kseen>>

KernelStop ==
  /\ KCall /\ kphase # "closed"
  /\ kphase' = "closed" /\ logged' = {} /\ rundown' = NoRundown /\ kseen' = {}
  /\ UNCHANGED <<os, kprov, klist>>

KernelNext ==
  \/ \E p \in KProviders :
       \/ \E k \in Kinds : KernelConstruct(p, Table[k])
       \/ \E gm \in RawMasks : KernelConstruct(p, Mask("raw", gm))
       \/ SetRundownFlags(p, {0})
       \/ KernelEnable(p)
  \/ KernelOpen
  \/ KernelProcess
  \/ KernelRundownFails
  \/ KernelStop

KernelSpec == KernelInit /\ [][KernelNext]_kvars
-----------------------------------------------------------------------------
(* Properties *)

\* What one provider asks to have logged.
Asks(p) == ({0} \X kprov[p].flags) \cup ({MaskIndex(kprov[p].mask)} \X MaskGroup(kprov[p].mask))

\* The bits of PERFINFO_GROUPMASK
GroupBits == (0..7) \X (0..28)

\* An open session logs exactly what the providers it was opened with ask for: setting the
\* group masks keeps what the flags of StartTrace turned on, and each group goes to the
\* mask its three top bits name, those above 0x7FFFFFFF too (kt.hpp:122-147).
MasksExact ==
  kphase \in {"open", "processing"} =>
    logged = (UNION {{0} \X kprov[p].flags : p \in kseen})
             \cup (UNION {{a \in GroupBits :
                             /\ a[2] \in kprov[p].mask
                             /\ 29 \in kprov[p].mask <=> a[1] % 2 = 1
                             /\ 30 \in kprov[p].mask <=> (a[1] \div 2) % 2 = 1
                             /\ 31 \in kprov[p].mask <=> a[1] \div 4 = 1} : p \in kseen})

\* A class that the network flag has the kernel log, and that no provider of the tables is
\* known by: its events go to the default callback only (kt.hpp:173-186).
Unserved == {"udp_ip"}

\* For each of the library's providers, what it has the kernel log is forwarded to it or to
\* another provider of the list, never only to the default callback (kt.hpp:173-186); all
\* of its classes are, but for UDP events.
KernelEventsHeard ==
  kphase \in {"open", "processing"} =>
    \A p \in kseen : kprov[p].id # "raw" =>
      \A a \in logged \cap Asks(p) : \A c \in ClassesOf(a[1], a[2]) \ Unserved :
        \E q \in Listing : kprov[q].id = c

\* Opening fails on Windows 7 only for a provider that asks for a group mask, and the
\* session then is one that this version of Windows accepts, whatever the client's name
\* (kt.hpp:101-109, 141-145, 188-204).
OldSystemsServed ==
  /\ kphase = "failed" => \E p \in kseen : kprov[p].mask # {}
  /\ \A hint \in {"unnamed", "KERNEL_LOGGER_NAME"} :
       KernelSession(NamePolicy(hint), TraceGuid, FileMode)
=============================================================================
