---------------------------- MODULE SchemaLocator ----------------------------
(***************************************************************************)
(* krabs::schema_locator (krabs/schema_locator.hpp): the cache of event    *)
(* schemas a trace keeps between its callbacks and TDH, the decoder of the *)
(* system.  TDH answers from manifests other programs install and remove   *)
(* while the trace runs.                                                   *)
(*                                                                         *)
(* A schema_key stands for the provider, name, id, version, opcode, level  *)
(* and keyword of a record.  EventDispatch composes this module with the   *)
(* delivery of events.                                                     *)
(***************************************************************************)
EXTENDS Naturals

CONSTANTS
  Keys,          \* schema_key values of the records a trace receives
  Schemas,       \* TRACE_EVENT_INFO buffers
  Absent,        \* not in the cache
  InitialTdh,    \* [Keys -> Schemas \cup {"not_found"}]
  MaxChanges,    \* bound: manifests installed or removed
  MaxFailures    \* bound: lookups TDH fails for another reason

\* TDHSTATUS: "not_found" is ERROR_NOT_FOUND, "failed" any other error, such as
\* memory, or a manifest that was replaced between the two calls.
Errors == {"not_found", "failed"}

ASSUME SchemaAssumption ==
  /\ Absent \notin Schemas \cup Errors
  /\ Schemas \cap Errors = {}
  /\ InitialTdh \in [Keys -> Schemas \cup {"not_found"}]
  /\ MaxChanges \in Nat /\ MaxFailures \in Nat

VARIABLES
  cache_,        \* schema_locator::cache_
  tdh,           \* what TDH knows of each key
  changes, failures

locatorVars == <<cache_, tdh, changes, failures>>

LocatorInit ==
  /\ cache_ = [k \in Keys |-> Absent]
  /\ tdh = InitialTdh
  /\ changes = 0
  /\ failures = 0

\* get_event_schema_from_tdh_no_throw(): the size, then the schema.
FromTdh(k, v) ==
  \/ v = tdh[k] /\ UNCHANGED failures
  \/ v = "failed" /\ failures < MaxFailures /\ failures' = failures + 1

\* Mutant of Lookup: only schemas are cached, and not the errors.
LookupCachesSchemas(k, v) ==
  /\ IF cache_[k] # Absent
     THEN v = cache_[k] /\ UNCHANGED <<cache_, failures>>
     ELSE /\ FromTdh(k, v)
          /\ cache_' = IF v \in Schemas THEN [cache_ EXCEPT ![k] = v] ELSE cache_
  /\ UNCHANGED <<tdh, changes>>

\* get_event_schema_no_throw(): v is the schema or the status it gives.  What
\* TDH answered first stays in the cache, an error too.
Lookup(k, v) ==
  /\ IF cache_[k] # Absent
     THEN v = cache_[k] /\ UNCHANGED <<cache_, failures>>
     ELSE FromTdh(k, v) /\ cache_' = [cache_ EXCEPT ![k] = v]
  /\ UNCHANGED <<tdh, changes>>

\* Some installer registers, replaces or removes the manifest of k.
Install(k) ==
  /\ changes < MaxChanges
  /\ changes' = changes + 1
  /\ \E v \in Schemas \cup {"not_found"} :
       v # tdh[k] /\ tdh' = [tdh EXCEPT ![k] = v]
  /\ UNCHANGED <<cache_, failures>>

\* The types of the locator's variables.
LocatorOK ==
  /\ cache_ \in [Keys -> Schemas \cup Errors \cup {Absent}]
  /\ tdh \in [Keys -> Schemas \cup {"not_found"}]
  /\ changes \in 0..MaxChanges
  /\ failures \in 0..MaxFailures
=============================================================================
