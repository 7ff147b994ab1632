---------------------------- MODULE MCScanResults ----------------------------
(***************************************************************************)
(* Two drafts that share no finding, one worker, and processes that die.   *)
(***************************************************************************)
EXTENDS ScanResults

CONSTANTS f1, f2, w1

MCDrafts == {{f1}, {f2}}
MCWorkers == {w1}
=============================================================================
