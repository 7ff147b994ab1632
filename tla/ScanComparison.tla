---------------------------- MODULE ScanComparison ----------------------------
(***************************************************************************)
(* Comparing a completed scan with a later one of the same repository      *)
(* (scripts/workbench_scan_history.py 311-803).  Which findings of the one *)
(* are which of the other is decided by an agent and saved; the comparison *)
(* is computed from what was saved, from what triage says of the findings  *)
(* at that time, and from what the later scan covered.  A finding here is  *)
(* an occurrence, of which a scan has one for each finding.                *)
(***************************************************************************)
EXTENDS Naturals, FiniteSets, FiniteSetsExt

CONSTANTS
  Before, After,  \* the findings of the earlier and of the later scan
  TriageStatus    \* "open", "fixed" (closed as already fixed) or "closed"

ASSUME ComparisonAssumption ==
  Before \cap After = {} /\ {"open", "fixed"} \subseteq TriageStatus

VARIABLES
  saved,     \* scan_comparisons: the matches and the uncertain pairs, or {}
  triage,    \* what finding_triage says of each finding
  complete,  \* whether the later scan's coverage is complete
  covered    \* the earlier findings whose path the later scan included

comparisonVars == <<saved, triage, complete, covered>>

ComparisonInit ==
  /\ saved = {}
  /\ triage = [o \in Before \cup After |-> "open"]
  /\ complete \in BOOLEAN
  /\ covered \in SUBSET Before

\* Mutant: only the earlier findings are looked up in other matches.
DistinctBefore(matches) ==
  /\ \A m \in matches : m.before # {} /\ m.after # {}
  /\ \A m, n \in matches : m # n => m.before \cap n.before = {}

\* The checks of save_scan_comparison on the matches.
Distinct(matches) ==
  /\ \A m \in matches : m.before # {} /\ m.after # {}
  /\ \A m, n \in matches :
       m # n => m.before \cap n.before = {} /\ m.after \cap n.after = {}

Matched(matches, side) == UNION {m[side] : m \in matches}

\* save_scan_comparison: replaces what was saved, or refuses.
SaveComparison(matches, uncertain) ==
  /\ Distinct(matches)
  /\ \A pair \in uncertain : /\ pair[1] \notin Matched(matches, "before")
                             /\ pair[2] \notin Matched(matches, "after")
  /\ saved' = {[matches |-> matches, uncertain |-> uncertain]}
  /\ UNCHANGED <<triage, complete, covered>>

\* Triage goes on, of either scan.
SetTriage(o, status) ==
  /\ triage' = [triage EXCEPT ![o] = status]
  /\ UNCHANGED <<saved, complete, covered>>

Payloads ==
  LET groups == [before : SUBSET Before \ {{}}, after : SUBSET After \ {{}}]
  IN {{}} \cup kSubset(1, groups) \cup kSubset(2, groups)

ComparisonNext ==
  \/ \E matches \in Payloads, uncertain \in SUBSET (Before \X After) :
       SaveComparison(matches, uncertain)
  \/ \E o \in Before \cup After, status \in TriageStatus : SetTriage(o, status)

-----------------------------------------------------------------------------
(* compare_scans *)

\* _finding_groups: the matches, and every other finding by itself.
Groups(s) ==
  s.matches
    \cup {[before |-> {o}, after |-> {}] : o \in Before \ Matched(s.matches, "before")}
    \cup {[before |-> {}, after |-> {o}] : o \in After \ Matched(s.matches, "after")}

IsUncertain(s, o) == \E pair \in s.uncertain : o \in {pair[1], pair[2]}

\* scan_covers_path
Covers(o) == complete /\ o \in covered

Status(s, g) ==
  IF g.before = {}
  THEN IF \E o \in g.after : IsUncertain(s, o) THEN "unknown" ELSE "new"
  ELSE IF g.after # {}
  THEN IF (\E o \in g.before : triage[o] = "fixed") /\ (\E o \in g.after : triage[o] = "open")
       THEN "reopened" ELSE "persisting"
  ELSE IF \E o \in g.before : IsUncertain(s, o) \/ ~Covers(o) THEN "unknown"
  ELSE "resolved"

Items(s) == {[group |-> g, status |-> Status(s, g)] : g \in Groups(s)}

\* Every finding of the two scans is accounted for by exactly one item of a
\* comparison, and one is only called resolved if the later scan covered its
\* path and nothing the agent saw there may be it; a finding that persists or
\* is back is on both sides, and one that is back was triaged as fixed and is
\* open again (compare_scans, save_scan_comparison, _finding_groups,
\* scan_covers_path).
EveryFindingAccounted ==
  \A s \in saved :
    /\ \A o \in Before \cup After :
         Cardinality({i \in Items(s) : o \in i.group.before \cup i.group.after}) = 1
    /\ \A i \in Items(s) :
         /\ i.status = "resolved" =>
              complete /\ i.group.before \subseteq covered /\ i.group.after = {}
         /\ i.status \in {"persisting", "reopened"} =>
              i.group.before # {} /\ i.group.after # {}
         /\ i.status = "reopened" =>
              /\ \E o \in i.group.before : triage[o] = "fixed"
              /\ \E o \in i.group.after : triage[o] = "open"
         /\ \A pair \in s.uncertain :
              i.group.before \cup i.group.after \subseteq {pair[1], pair[2]} =>
                i.status = "unknown"

=============================================================================
