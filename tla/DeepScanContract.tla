-------------------------- MODULE DeepScanContract --------------------------
(***************************************************************************)
(* What the store of a Deep Scan promises: discovery results are accepted  *)
(* one at a time, merged in batches, each at most once, and nothing is     *)
(* accepted or merged once the scan has ended.                             *)
(***************************************************************************)
EXTENDS FiniteSets

CONSTANT Results  \* the discovery results there may be

VARIABLES
  accepted,  \* results that were accepted
  merged,    \* results that a reducer merged into the scan
  ended      \* "running", or how the scan ended

cvars == <<accepted, merged, ended>>

Init == accepted = {} /\ merged = {} /\ ended = "running"

\* one more result is accepted
Accept ==
  /\ ended = "running"
  /\ \E d \in Results \ accepted : accepted' = accepted \cup {d}
  /\ UNCHANGED <<merged, ended>>

\* accepted results are merged together
Merge ==
  /\ ended = "running"
  /\ \E batch \in SUBSET (accepted \ merged) : batch # {} /\ merged' = merged \cup batch
  /\ UNCHANGED <<accepted, ended>>

\* a success needs something merged, or that there was nothing to merge
End ==
  /\ \/ ended = "running"
        /\ ended' \in {"succeeded", "failed", "interrupted", "canceled"}
        /\ ended' = "succeeded" => (merged # {} \/ accepted = {})
     \/ ended = "succeeded" /\ ended' = "canceled"
  /\ UNCHANGED <<accepted, merged>>

Next == Accept \/ Merge \/ End

Spec == Init /\ [][Next]_cvars

=============================================================================
