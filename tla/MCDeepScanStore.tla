--------------------------- MODULE MCDeepScanStore ---------------------------
(* Small instances of DeepScanStore. *)
EXTENDS DeepScanStore, TLC

CONSTANTS d1, d2, r1, r2, c1, c2, x, y

MCDiscoveries == {d1, d2}
MCReducers == {r1, r2}
MCCoordinators == {c1, c2}
\* the second discovery reports more than the first, so that it makes a difference
\* which of them is merged first
MCFound == (d1 :> {x}) @@ (d2 :> {x, y})
\* processes are interchangeable; workers are not, since they find different things
MCSymmetry == Permutations(MCReducers) \cup Permutations(MCCoordinators)

=============================================================================
