--------------------------- MODULE MCRuntimeState ---------------------------
(***************************************************************************)
(* Small instances of RuntimeState for TLC.                                *)
(***************************************************************************)
EXTENDS RuntimeContract, TLC

CONSTANTS scan, publish   \* the phases
CONSTANTS c1, c2          \* the claims

\* A workflow of two phases, the second depending on the first.
ChainPhase == {scan, publish}
ChainDeps == [p \in ChainPhase |-> IF p = publish THEN {scan} ELSE {}]
ChainType == [p \in ChainPhase |-> p]

Claims == {c1, c2}

Symmetry == Permutations(Claim) \cup Permutations(Session)
              \cup Permutations(Input) \cup Permutations(Output)

\* Runs and targets may be exchanged too when no agent is tied to a run.
ReuseSymmetry == Permutations(Run) \cup Permutations(Target)
                   \cup Permutations(Input) \cup Permutations(Output)

=============================================================================
