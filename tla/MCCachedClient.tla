-------------------------- MODULE MCCachedClient ---------------------------
(* Instance of CachedClient for TLC. *)
EXTENDS CachedClient

\* Flag "f" moves from one variation to the other with every edit, for the first
\* context only; the second context does not see it in version 1.
MCEval(c, v, f) == IF c = "anna" THEN v % 2 ELSE IF v = 1 THEN Absent ELSE 1

\* Variation 0 serves null, variation 1 true.
MCValue(f, n) == IF n = 0 THEN [type |-> "object", is |-> "null"]
                 ELSE [type |-> "boolean", is |-> "true"]
=============================================================================
