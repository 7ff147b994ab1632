--------------------------- MODULE FindingWorkflow ---------------------------
(***************************************************************************)
(* The durable record of one local findings workflow                       *)
(* (scripts/workbench_finding_workflows.py): its bindings, its stages scan,*)
(* publish and dedupe, the write that dedupe has prepared and not yet seen *)
(* acknowledged, and the reviews it has checkpointed.  Every call is one   *)
(* immediate transaction and may come from any process at any time: late,  *)
(* twice, or from a run that was given up.  A refused call is no step.     *)
(***************************************************************************)
EXTENDS Naturals, FiniteSets

CONSTANTS
  Stages,     \* stages that are told apart, "scan" and "dedupe" among them
  Scans,      \* scans that may be registered
  Values,     \* what a call may bring: digests, results, pending writes
  Nothing

ASSUME StageAssumption ==
  {"scan", "dedupe"} \subseteq Stages /\ Nothing \notin Scans \cup Values

VARIABLES
  exists,      \* whether finding_workflows has a row
  bound,       \* scanId, and artifactDigest for the other bindings
  stage,       \* status, error and result of each stage
  pending,     \* dedupePendingWrite
  review,      \* the row of finding_workflow_reviews for one key
  scanStatus   \* the status of each scan, "none" while it has no row

flowVars == <<exists, bound, stage, pending, review, scanStatus>>

Fresh == [status |-> "pending", error |-> FALSE, result |-> Nothing]

FlowInit ==
  /\ exists = FALSE
  /\ bound = [scan |-> Nothing, artifact |-> Nothing]
  /\ stage = [s \in Stages |-> Fresh]
  /\ pending = Nothing /\ review = Nothing
  /\ scanStatus = [s \in Scans |-> "none"]

Finished(s) == stage[s].status = "completed"

-----------------------------------------------------------------------------

\* bind_workflow: what is bound is only ever bound again.  Every call below but
\* the reviews may bring bindings, is refused with them, and makes the row.
Bindings == [scan : Scans \cup {Nothing}, artifact : Values \cup {Nothing}]

Bind(binding) ==
  /\ \A f \in DOMAIN binding :
       binding[f] # Nothing => bound[f] \in {Nothing, binding[f]}
  /\ bound' = [f \in DOMAIN bound |-> IF binding[f] = Nothing THEN bound[f] ELSE binding[f]]
  /\ exists' = TRUE
  /\ UNCHANGED <<review, scanStatus>>

\* An action on a stage changes nothing once the stage is completed;
\* save_workflow stores the prepared write of dedupe alone.
Update(s, record, write) ==
  /\ stage' = IF Finished(s) THEN stage ELSE [stage EXCEPT ![s] = record]
  /\ pending' = IF Finished(s) \/ s # "dedupe" THEN pending ELSE write

Begin(s) == Update(s, [stage[s] EXCEPT !.status = "running"], pending)

Complete(s, result) ==
  Update(s, [status |-> "completed", error |-> FALSE, result |-> result], Nothing)

\* Mutant: a failed stage starts over.
FailAfresh(s) == Update(s, [Fresh EXCEPT !.status = "failed", !.error = TRUE], Nothing)

\* A failure keeps what the stage has prepared.
Fail(s) == Update(s, [stage[s] EXCEPT !.status = "failed", !.error = TRUE], pending)

Prepare(s, result, write) == Update(s, [stage[s] EXCEPT !.result = result], write)

\* register_workflow_scan, in the transaction that inserts the scan.
RegisterScan(scan) ==
  /\ exists /\ ~Finished("scan")
  /\ scanStatus[scan] = "none"
  /\ bound.scan \in Scans => scanStatus[bound.scan] # "complete"
  /\ bound' = [bound EXCEPT !.scan = scan]
  /\ scanStatus' = [scanStatus EXCEPT ![scan] = "running"]
  /\ UNCHANGED <<exists, stage, pending, review>>

\* save-review: the first review stored under a key stays.
SaveReview(result) ==
  /\ exists
  /\ review' = IF review = Nothing THEN result ELSE review
  /\ UNCHANGED <<exists, bound, stage, pending, scanStatus>>

\* The scans go on by themselves.
ScanEnds(scan, status) ==
  /\ scanStatus[scan] = "running"
  /\ scanStatus' = [scanStatus EXCEPT ![scan] = status]
  /\ UNCHANGED <<exists, bound, stage, pending, review>>

FlowNext ==
  \/ \E binding \in Bindings :
       /\ Bind(binding)
       /\ \/ UNCHANGED <<stage, pending>>
          \/ \E s \in Stages : Begin(s) \/ Fail(s)
          \/ \E s \in Stages, v \in Values : Complete(s, v)
          \/ \E s \in Stages, v, w \in Values : Prepare(s, v, w)
  \/ \E scan \in Scans : RegisterScan(scan)
  \/ \E v \in Values : SaveReview(v)
  \/ \E scan \in Scans, status \in {"complete", "failed"} : ScanEnds(scan, status)

-----------------------------------------------------------------------------

\* Work that is done is never lost to a late, repeated or failing call: a
\* completed stage and a stored review stay as they are, a prepared write and
\* its result stay until dedupe completes or is prepared anew, and the scan of
\* a workflow is given up only while it is not complete
\* (finding_workflow, bind_workflow, register_workflow_scan).
WorkIsKept ==
  [][/\ \A s \in Stages : Finished(s) => stage'[s] = stage[s]
     /\ review # Nothing => review' = review
     /\ pending # Nothing => pending' # Nothing \/ stage'["dedupe"].status = "completed"
     /\ pending' # Nothing => stage'["dedupe"].result # Nothing
     /\ bound.artifact # Nothing => bound'.artifact = bound.artifact
     /\ bound'.scan # bound.scan /\ bound.scan \in Scans =>
          scanStatus[bound.scan] # "complete" /\ ~Finished("scan")]_flowVars

=============================================================================
