--------------------------- MODULE MCRunLifecycle ---------------------------
(***************************************************************************)
(* A run of two phases in a chain, as the built-in workflow is one: b      *)
(* publishes what a computed.                                              *)
(***************************************************************************)
EXTENDS RunLifecycle

CONSTANTS a, b, r, report, scan

Phases == {a, b}

Chain == [p \in Phases |-> IF p = b THEN {a} ELSE {}]

Types == [p \in Phases |-> IF p = b THEN report ELSE scan]

Topological == <<a, b>>

Runs == {r}

=============================================================================
