---------------------------- MODULE MCScanHandoff ----------------------------
(* A small instance of ScanHandoff. *)
EXTENDS ScanHandoff, TLC

CONSTANTS w1, s1, s2, h1, h2, k1, k2, p1, p2, whole, part

\* what is shown relates the scans of one workspace
MCWorkspaces == {w1}
MCScans == {s1, s2}
MCThreads == {h1, h2}
MCTokens == {k1, k2}
MCRecovery == {k2}
MCModes == {"standard", "deep"}
MCScopes == {whole, part}
MCCallers == {p1, p2}
MCSymmetry == Permutations(MCScans) \cup Permutations(MCScopes)
              \cup Permutations(MCThreads) \cup Permutations(MCCallers)

=============================================================================
