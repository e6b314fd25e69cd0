----------------------------- MODULE MCRegistry -----------------------------
(* Small instance of Registry: two log-type names, two valid LogTypes     *)
(* named "A" (so a second Register of "A" is a duplicate), one named "B"  *)
(* and one named "B" that fails Check() (no description or a bad schema). *)
EXTENDS RegistryRefinement

a1 == [id |-> 1, name |-> "A", check |-> TRUE]
a2 == [id |-> 2, name |-> "A", check |-> TRUE]
b1 == [id |-> 3, name |-> "B", check |-> TRUE]
bad == [id |-> 4, name |-> "B", check |-> FALSE]

MCNames == {"A", "B"}
MCLogTypes == {a1, a2, b1, bad}
MCBatches == {<<a1>>, <<a2, b1>>, <<bad, b1>>}

\* For liveness: one name registered twice, by three goroutines, so that
\* two readers can overlap while a writer waits.
LiveNames == {"A"}
LiveLogTypes == {a1}
LiveBatches == {<<a1>>}

=============================================================================
