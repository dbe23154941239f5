--------------------------- MODULE MCEventDispatch ---------------------------
(***************************************************************************)
(* Instances of EventDispatch for TLC.                                     *)
(***************************************************************************)
EXTENDS EventDispatch

CONSTANTS g1, g2, p1, p2, f1, f2, c1, c2, x1, x2, m1, w1, k1, k2, s1, s2

\* Two providers of different GUIDs; c1 decodes events.
TwoGuids == [p \in Providers |-> IF p = p1 THEN g1 ELSE g2]
OneGuid == [p \in Providers |-> g1]

\* f1 decodes the event in its predicate, f2 has none; neither names an event id.
Predicates == [f \in Filters |-> IF f = f1 THEN "decodes" ELSE "none"]
NoIds == [f \in Filters |-> {}]

\* Events of manifests (x1, x2), of MOF (m1) and of WPP (w1).  The header of m1
\* has the GUID of p1, and its schema, s2, that of p2.
ProviderIds == [r \in Records |-> IF r = w1 THEN g2 ELSE g1]
Types == [r \in Records |->
            IF r = m1 THEN "mof" ELSE IF r = w1 THEN "wpp" ELSE "xml"]
SchemaKeys == [r \in Records |-> IF r = m1 THEN k2 ELSE k1]
Ids == [r \in Records |-> IF r = x1 THEN 1 ELSE 2]
SchemaGuids == [s \in Schemas |-> IF s = s1 THEN g1 ELSE g2]
Tdh == [k \in Keys |-> IF k = k1 THEN "not_found" ELSE s2]
=============================================================================
