----------------------------- MODULE BudgetDraft -----------------------------
(***************************************************************************)
(* The draft of a Deep Scan that reached its cost limit after its discovery*)
(* was done (scripts/workbench_db.py 1261-1540): every candidate of the    *)
(* canonical ledger that the draft does not deal with is written into its  *)
(* coverage, deferred or settled.  findings.json, coverage.json and        *)
(* scan-manifest.json are written one after another by a helper that may   *)
(* die between them; the completion that follows may be refused, and the   *)
(* command given again.  What is sealed then is the matter of ScanResults. *)
(***************************************************************************)
EXTENDS Naturals, Sequences, FiniteSets, SequencesExt

CONSTANTS
  Ledgers,  \* candidate ledgers: sequences of [id, validation, attack, inScope]
  Saved,    \* drafts an agent may have left: [findings, coverage]
  Missing

ASSUME BudgetAssumption ==
  /\ \A rows \in Ledgers : rows \in Seq(ToSet(rows))
  /\ \A d \in Saved :
       /\ d = [findings |-> d.findings, coverage |-> d.coverage]
       /\ d.coverage = [surfaces |-> d.coverage.surfaces, deferred |-> d.coverage.deferred]
       /\ d.coverage.deferred \in Seq(ToSet(d.coverage.deferred))

VARIABLES
  ledger,   \* the canonical candidate ledger
  draft,    \* findings, coverage and manifest, each Missing or written
  writing,  \* the stage of the helper at work, "idle", or "written"
  intended   \* what it writes

budgetVars == <<ledger, draft, writing, intended>>

Documents == DOMAIN draft
NoDraft == [findings |-> {}, coverage |-> [deferred |-> <<>>, surfaces |-> <<>>]]

BudgetInit ==
  /\ ledger \in Ledgers
  /\ draft \in {[findings |-> Missing, coverage |-> Missing, manifest |-> Missing]}
       \cup {[findings |-> d.findings, coverage |-> d.coverage, manifest |-> "draft"] : d \in Saved}
  /\ writing = "idle" /\ intended = NoDraft

\* budget_exhausted_candidates: no identifier twice, every candidate touches the
\* inventory.
ValidLedger ==
  /\ \A i, j \in DOMAIN ledger : ledger[i].id = ledger[j].id => i = j
  /\ \A i \in DOMAIN ledger : ledger[i].inScope

Disposition(row) ==
  IF row.validation = "deferred" \/ row.attack = "deferred" THEN "needs_follow_up"
  ELSE IF row.validation = "not_applicable" THEN "not_applicable"
  ELSE IF row.validation = "suppressed" \/ row.attack = "ignore" THEN "rejected"
  ELSE "needs_follow_up"

DeferredIds(coverage) == {item.id : item \in ToSet(coverage.deferred)}

\* A surface that is there keeps its disposition.
Surfaced(surfaces, row) ==
  [id \in DOMAIN surfaces \cup {row.id} |->
     IF id \in DOMAIN surfaces THEN surfaces[id] ELSE Disposition(row)]

\* Mutant: a candidate that has a surface is taken to be dealt with.
AccountUnlessSurfaced(dealtWith, coverage, row) ==
  IF row.id \in dealtWith \cup DOMAIN coverage.surfaces THEN coverage
  ELSE [surfaces |-> Surfaced(coverage.surfaces, row),
        deferred |-> IF Disposition(row) = "needs_follow_up"
                     THEN Append(coverage.deferred, [id |-> row.id, cost |-> TRUE])
                     ELSE coverage.deferred]

\* One candidate.
Account(dealtWith, coverage, row) ==
  IF row.id \in dealtWith THEN coverage
  ELSE [surfaces |-> Surfaced(coverage.surfaces, row),
        deferred |-> IF Disposition(row) = "needs_follow_up"
                     THEN Append(coverage.deferred, [id |-> row.id, cost |-> TRUE])
                     ELSE coverage.deferred]

SaysWhy(coverage) == \E item \in ToSet(coverage.deferred) : item.cost

\* the coverage that budget_exhausted_draft makes of a draft
Accounted(d) ==
  LET dealtWith == d.findings \cup DeferredIds(d.coverage)
      after[n \in 0..Len(ledger)] ==
        IF n = 0 THEN d.coverage ELSE Account(dealtWith, after[n - 1], ledger[n])
      all == after[Len(ledger)]
  IN IF SaysWhy(all) THEN all
     ELSE [all EXCEPT !.deferred = Append(@, [id |-> "scan-cost-limit", cost |-> TRUE])]

\* complete-budget-exhausted-scan: a draft is there whole or not at all.
BeginDraft ==
  /\ writing \in {"idle", "written"}
  /\ ValidLedger
  /\ \/ \A name \in Documents : draft[name] = Missing
     \/ \A name \in Documents : draft[name] # Missing
  /\ LET d == IF draft.findings = Missing THEN NoDraft
              ELSE [findings |-> draft.findings, coverage |-> draft.coverage]
     IN intended' = [d EXCEPT !.coverage = Accounted(d)]
  /\ writing' = "findings"
  /\ UNCHANGED <<ledger, draft>>

WriteDocument ==
  /\ writing \in Documents
  /\ \/ /\ writing = "findings" /\ draft' = [draft EXCEPT !.findings = intended.findings]
        /\ writing' = "coverage"
     \/ /\ writing = "coverage" /\ draft' = [draft EXCEPT !.coverage = intended.coverage]
        /\ writing' = "manifest"
     \/ /\ writing = "manifest" /\ draft' = [draft EXCEPT !.manifest = "draft"]
        /\ writing' = "written"
  /\ UNCHANGED <<ledger, intended>>

\* A write fails, or the helper dies.
WriterStops ==
  /\ writing \in Documents
  /\ writing' = "idle"
  /\ UNCHANGED <<ledger, draft, intended>>

BudgetNext == BeginDraft \/ WriteDocument \/ WriterStops

-----------------------------------------------------------------------------

\* However often the command is cut and given again, over whatever draft an
\* agent left: a written draft accounts for every candidate of the ledger - a
\* finding, one deferred item, or a surface that settles a candidate which needs
\* no follow-up - and says that the cost limit is why
\* (budget_exhausted_candidates, budget_exhausted_draft).
NoCandidateIsLost ==
  writing = "written" =>
    /\ \A i \in DOMAIN ledger :
         LET id == ledger[i].id
         IN \/ id \in draft.findings
            \/ Cardinality({n \in DOMAIN draft.coverage.deferred :
                              draft.coverage.deferred[n].id = id}) = 1
            \/ id \in DOMAIN draft.coverage.surfaces /\ Disposition(ledger[i]) # "needs_follow_up"
    /\ SaysWhy(draft.coverage)

=============================================================================
