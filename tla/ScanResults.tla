----------------------------- MODULE ScanResults -----------------------------
(***************************************************************************)
(* How the results of one scan reach the disk and the database: drafts and *)
(* checkpoints while it runs, its completion, and the publication of what  *)
(* was saved when it failed or was canceled (workbench_saved_results.py,   *)
(* complete_scan in workbench_db.py, finalize_scan_contract.py).  All of   *)
(* these hold the completion lock of the scan, so one is at work at a time;*)
(* each replaces several files one by one, and its process may die between *)
(* two of them.  Workers of a Deep Scan write their results at any time.   *)
(* A document is the set of its findings, findings.json stands also for    *)
(* coverage.json, which is written next to it, and a digest is the content *)
(* it is taken from.                                                       *)
(***************************************************************************)
EXTENDS Naturals, FiniteSets

CONSTANTS
  Drafts,     \* what an agent or a worker may submit: sets of findings
  Workers,    \* discovery workers of a Deep Scan
  MaxDeaths,  \* bound: processes that die while they hold the lock
  None

ASSUME DraftsAssumption == "saved" \notin Workers
ASSUME DeathsAssumption == MaxDeaths \in Nat

\* Documents are sets of submitted findings; a source is a checkpoint or the
\* result of a worker, with its content.
Documents == SUBSET UNION Drafts
Source == (Workers \cup {"saved"}) \X Documents

Manifest ==
  [sealed : {FALSE}, complete : BOOLEAN, status : {"none"}, sources : {{}}, artifact : {None}]
    \cup [sealed : {TRUE}, complete : {TRUE}, status : {"completed", "failed", "canceled"},
          sources : SUBSET Source, artifact : Documents]

Operation ==
  [name : {"draft", "budget", "complete", "prepare", "stop", "preserve", "recover"},
   stage : {"prepare", "preserve", "docs", "manifest", "commit", "record", "clear"},
   docs : {None} \cup Documents, manifest : {None} \cup Manifest,
   sources : {None} \cup SUBSET Source, parentToo : BOOLEAN,
   oldDocs : {None} \cup Documents, oldManifest : {None} \cup Manifest]

ASSUME NoneAssumption ==
  /\ \A d \in Documents : d # None
  /\ \A sources \in SUBSET Source : sources # None
  /\ None \notin Manifest /\ None \notin Operation

VARIABLES
  row,          \* the scan: status, canceled, seal, frozen sources, index, warnings
  docs,         \* findings.json, None when there is none
  manifest,     \* scan-manifest.json, a draft or sealed
  checkpoints,  \* contents of the checkpoint files, which are named by content
  result,       \* the result file of each worker
  op,           \* the operation that holds the completion lock
  kind,         \* whether the scan is deep, whether the command line started it
  deaths,
  torn,         \* history: a process died while it rewrote a sealed scan
  atStop        \* history: what was saved when the scan stopped

files == <<docs, manifest>>
evidence == <<checkpoints, result>>
history == <<deaths, torn, atStop>>
vars == <<row, files, evidence, op, kind, history>>

Outcome == IF row.canceled THEN "canceled" ELSE "failed"

Draft(complete) ==
  [sealed |-> FALSE, complete |-> complete, status |-> "none", sources |-> {}, artifact |-> None]
Sealed(status, sources, content) ==
  [sealed |-> TRUE, complete |-> TRUE, status |-> status, sources |-> sources, artifact |-> content]

\* the saved sources with their contents; checkpoints never change, results may
Sources ==
  {<<"saved", c>> : c \in checkpoints}
    \cup {<<w, result[w]>> : w \in {x \in Workers : result[x] # None}}
FindingsOf(sources) == UNION {s[2] : s \in sources}
Results == UNION {result[w] : w \in {x \in Workers : result[x] # None}}

HasParent == docs # None /\ manifest # None
SealHolds == manifest.artifact = docs
IsSealed == manifest # None /\ manifest.sealed

Unlocked == op = None
At(stage) == op # None /\ op.stage = stage
Begin(name, stage) ==
  [name |-> name, stage |-> stage, docs |-> None, manifest |-> None, sources |-> None,
   parentToo |-> FALSE, oldDocs |-> None, oldManifest |-> None]

-----------------------------------------------------------------------------
(* Evidence *)

\* A worker keeps a checkpoint of what it submits and adds it to its result.
WorkerWrites(w, F) ==
  /\ kind.deep
  /\ checkpoints' = checkpoints \cup {F}
  /\ result' = [result EXCEPT ![w] = IF @ = None THEN F ELSE @ \cup F]
  /\ evidence' # evidence
  /\ UNCHANGED <<row, files, op, kind, history>>

\* write-scan-draft: the checkpoint is kept in any case; the draft, which
\* contains the findings it replaces, is written only over the draft its author
\* has seen.
WriteDraft(F, complete, seen) ==
  /\ Unlocked /\ row.status = "running" /\ row.seal = None
  /\ checkpoints' = checkpoints \cup {F}
  /\ op' = IF seen
           THEN [Begin("draft", "docs") EXCEPT !.docs = IF docs = None THEN F ELSE F \cup docs,
                                               !.manifest = Draft(complete)]
           ELSE None
  /\ seen \/ F \notin checkpoints
  /\ UNCHANGED <<row, files, result, kind, history>>

-----------------------------------------------------------------------------
(* Completion *)

\* index_findings inserts and replaces occurrences, and removes none.
Indexed(kept, content) == kept \cup content

\* complete-scan, prepare-scan-completion
BeginCompletion(name) ==
  /\ Unlocked /\ row.status = "running"
  /\ op' = Begin(name, "prepare")
  /\ UNCHANGED <<row, files, evidence, kind, history>>

\* complete-budget-exhausted-scan first writes a draft that says so
BeginBudgetExhausted ==
  /\ Unlocked /\ row.status = "running" /\ kind.deep /\ kind.cli
  /\ HasParent \/ (docs = None /\ manifest = None)
  /\ ~IsSealed
  /\ op' = [Begin("budget", "docs") EXCEPT
              !.docs = IF docs = None THEN {} ELSE docs,
              !.manifest = IF manifest = None THEN Draft(TRUE) ELSE manifest]
  /\ UNCHANGED <<row, files, evidence, kind, history>>

\* A draft must be there and must not say that it is incomplete; a sealed one
\* must be intact, and only a scan of the command line takes over its time.
Publishable ==
  /\ HasParent
  /\ IF manifest.sealed THEN SealHolds /\ kind.cli ELSE manifest.complete
Incomplete == manifest # None /\ ~manifest.sealed /\ ~manifest.complete

\* The draft, which becomes a checkpoint, with what the workers found.  A
\* complete draft supersedes the checkpoints before it.
Prepare ==
  /\ At("prepare") /\ op.name \in {"complete", "prepare"}
  /\ Publishable
  /\ IF manifest.sealed
     THEN /\ op' = [op EXCEPT !.stage = "commit", !.docs = docs, !.manifest = manifest]
          /\ UNCHANGED checkpoints
     ELSE LET content == docs \cup Results
          IN /\ checkpoints' = checkpoints \cup {docs}
             /\ op' = [op EXCEPT !.stage = "docs", !.docs = content,
                                 !.manifest = Sealed("completed", Sources \cup {<<"saved", docs>>}, content)]
  /\ UNCHANGED <<row, files, result, kind, history>>

StoppedRow(canceled) == [row EXCEPT !.status = "failed", !.canceled = canceled]
SavedNow == Sources \cup (IF HasParent THEN {<<"saved", docs>>} ELSE {})

\* fail_scan_locked: the row first, then what was saved
FailHere ==
  /\ row' = StoppedRow(FALSE)
  /\ atStop' = SavedNow
  /\ op' = Begin("stop", "preserve")

\* An incomplete draft is refused.  Anything else that is wrong with the
\* documents also fails a Deep Scan, unless it is worth another try.
PrepareFails ==
  /\ At("prepare") /\ op.name \in {"complete", "prepare"}
  /\ \/ /\ op' = None
        /\ ~Publishable => (Incomplete \/ ~kind.deep \/ (kind.cli /\ ~HasParent))
        /\ UNCHANGED <<row, atStop>>
     \/ /\ kind.deep /\ ~Incomplete /\ (kind.cli => HasParent)
        /\ FailHere
  /\ UNCHANGED <<files, evidence, kind, deaths, torn>>

\* The second transaction completes the scan, unless another continuation has
\* taken it over; a preparation leaves the sealed files to it.
CommitCompletion ==
  /\ At("commit")
  /\ op' = None
  /\ \/ /\ op.name = "complete"
        /\ row' = [row EXCEPT !.status = "complete", !.seal = manifest,
                             !.index = Indexed({}, docs)]
     \/ row' = row
  /\ UNCHANGED <<files, evidence, kind, history>>

-----------------------------------------------------------------------------
(* The end of a scan that does not complete *)

\* fail-scan, cancel-scan
StopScan(canceled) ==
  /\ Unlocked /\ row.status = "running"
  /\ row' = StoppedRow(canceled)
  /\ atStop' = SavedNow
  /\ op' = Begin("stop", "preserve")
  /\ UNCHANGED <<files, evidence, kind, deaths, torn>>

\* preserve-scan-results
PreserveResults ==
  /\ Unlocked /\ row.status = "failed"
  /\ op' = Begin("preserve", "preserve")
  /\ UNCHANGED <<row, files, evidence, kind, history>>

Published == IF IsSealed THEN manifest.sources ELSE {}

\* recover-scan-results: what was frozen must be as it was, and all that has
\* been saved since comes on top
RecoverResults ==
  /\ Unlocked /\ row.status = "failed" /\ ~row.canceled
  /\ Published # {} => row.frozen \in {None, Published}
  /\ LET frozen == IF Published # {} THEN Published
                   ELSE IF row.frozen # None THEN row.frozen ELSE {}
     IN /\ frozen \subseteq Sources
        /\ op' = [Begin("recover", "preserve") EXCEPT
                    !.sources = Sources,
                    !.parentToo = IF IsSealed THEN Published = {} ELSE row.frozen = None]
  /\ UNCHANGED <<row, files, evidence, kind, history>>

\* what the publication must contain: the frozen sources, or all there are
FrozenSources == IF op.sources # None THEN op.sources ELSE row.frozen

\* The seal of an earlier publication must be intact before anything is done.
SealIntact == (row.seal # None \/ IsSealed) => /\ manifest # None /\ SealHolds
                                               /\ row.seal # None => manifest = row.seal
AlreadyPublished ==
  /\ IsSealed /\ manifest.status = Outcome
  /\ FrozenSources # None => manifest.sources = FrozenSources
ChangedSince ==
  /\ IsSealed /\ manifest.status = Outcome
  /\ FrozenSources # None /\ manifest.sources # FrozenSources /\ op.sources = None

ReadsParent == (FrozenSources = None \/ op.parentToo) /\ HasParent
KeepsParent == ReadsParent /\ (~manifest.sealed \/ op.parentToo)
ParentCopy == IF KeepsParent THEN {<<"saved", docs>>} ELSE {}

MergedSources ==
  ParentCopy \cup (IF FrozenSources = None THEN Sources ELSE FrozenSources)
MergedBelowParent ==    \* MUTANT: the draft supersedes what was saved, as in a completion
  IF ReadsParent THEN docs ELSE FindingsOf(MergedSources)
MergedFindings == FindingsOf(MergedSources) \cup (IF ReadsParent THEN docs ELSE {})
Mergeable == FrozenSources # None => FrozenSources \subseteq Sources \cup ParentCopy

\* what was published before is recorded, again where that may be missing
RecordExisting ==
  /\ At("preserve") /\ SealIntact /\ AlreadyPublished
  /\ op' = IF row.frozen # None /\ row.seal # None /\ ~row.followUp
           THEN [op EXCEPT !.stage = "clear"]
           ELSE [op EXCEPT !.stage = "record", !.docs = docs, !.manifest = manifest,
                           !.oldDocs = docs, !.oldManifest = manifest]
  /\ UNCHANGED <<row, files, evidence, kind, history>>

\* merge_saved_results and the commit that freezes its sources
MergeSaved ==
  /\ At("preserve") /\ SealIntact /\ ~AlreadyPublished /\ ~ChangedSince
  /\ Mergeable
  /\ checkpoints' = checkpoints \cup (IF KeepsParent THEN {docs} ELSE {})
  /\ IF ReadsParent \/ MergedSources # {}
     THEN /\ row' = [row EXCEPT !.frozen = IF FrozenSources = None THEN MergedSources ELSE @]
          /\ op' = [op EXCEPT !.stage = "docs", !.docs = MergedFindings,
                              !.manifest = Sealed(Outcome, MergedSources, MergedFindings),
                              !.oldDocs = docs, !.oldManifest = manifest]
     ELSE op' = None /\ row' = row
  /\ UNCHANGED <<files, result, kind, history>>

\* Only the end of a scan notes that its publication failed.
NoteFailure == row' = [row EXCEPT !.followUp = @ \/ op.name = "stop"] /\ op' = None

MergeFails ==
  /\ At("preserve")
  /\ NoteFailure
  /\ UNCHANGED <<files, evidence, kind, history>>

RecordSealOnly ==            \* MUTANT: the occurrences stay as they were
  /\ At("record")
  /\ row' = [row EXCEPT !.seal = manifest, !.frozen = manifest.sources, !.followUp = FALSE]
  /\ op' = [op EXCEPT !.stage = "clear"]
  /\ UNCHANGED <<files, evidence, kind, history>>

\* record_publication; what vanished is removed, the rest keeps its triage.
RecordPublication ==
  /\ At("record")
  /\ row' = [row EXCEPT !.seal = manifest, !.frozen = manifest.sources,
                        !.index = Indexed(@ \cap docs, docs), !.followUp = FALSE]
  /\ op' = [op EXCEPT !.stage = "clear"]
  /\ UNCHANGED <<files, evidence, kind, history>>

\* record-deep-scan-publication-failure, by a coordinator whose call failed
NotePublicationFailure ==
  /\ Unlocked /\ row.status = "failed" /\ kind.deep /\ row.seal = None /\ ~row.error
  /\ row' = [row EXCEPT !.error = TRUE]
  /\ UNCHANGED <<files, evidence, op, kind, history>>

ClearPublicationFailure ==
  /\ At("clear")
  /\ row' = [row EXCEPT !.error = FALSE]
  /\ op' = None
  /\ UNCHANGED <<files, evidence, kind, history>>

-----------------------------------------------------------------------------
(* The files *)

Publishes == op.name \in {"stop", "preserve", "recover"}

WriteDocs ==
  /\ At("docs")
  /\ docs' = op.docs
  /\ op' = [op EXCEPT !.stage = "manifest"]
  /\ UNCHANGED <<row, manifest, evidence, kind, history>>

WriteManifest ==
  /\ At("manifest")
  /\ manifest' = op.manifest
  /\ op' = CASE op.name = "draft" -> None
             [] op.name = "budget" -> Begin("complete", "prepare")
             [] op.name \in {"complete", "prepare"} -> [op EXCEPT !.stage = "commit"]
             [] OTHER -> [op EXCEPT !.stage = "record"]
  /\ UNCHANGED <<row, docs, evidence, kind, history>>

\* An error: a publication puts the old files back, a completion that has begun
\* to write fails the scan, a draft is left as it is.
WriteFails ==
  /\ At("docs") \/ At("manifest") \/ At("record")
  /\ \/ /\ Publishes
        /\ docs' = op.oldDocs /\ manifest' = op.oldManifest
        /\ NoteFailure /\ UNCHANGED atStop
     \/ /\ op.name \in {"complete", "prepare"}
        /\ FailHere /\ UNCHANGED files
     \/ /\ op.name \in {"draft", "budget"}
        /\ op' = None /\ UNCHANGED <<row, files, atStop>>
  /\ UNCHANGED <<evidence, kind, deaths, torn>>

HelperDies ==
  /\ ~Unlocked /\ deaths < MaxDeaths
  /\ op' = None /\ deaths' = deaths + 1
  /\ torn' = (torn \/ (row.seal # None /\ op.stage \in {"manifest", "record"}))
  /\ UNCHANGED <<row, files, evidence, kind, atStop>>

-----------------------------------------------------------------------------
(* What a panel is told *)

SealedResultsChanged ==    \* MUTANT: without a manifest there is nothing to recover
  manifest # None /\ (row.seal = None \/ ~(Sources \subseteq manifest.sources))

\* _saved_results_changed
SavedResultsChanged ==
  CASE manifest = None -> IF row.frozen # None THEN row.frozen # {} ELSE Sources # {}
    [] manifest # None /\ row.seal = None -> HasParent \/ Sources # {}
    [] OTHER -> ~(Sources \subseteq manifest.sources)

\* scan_results_recovery_needed
RecoveryNeeded ==
  /\ row.status = "failed" /\ ~row.canceled
  /\ row.followUp \/ row.error \/ SavedResultsChanged

-----------------------------------------------------------------------------
Init ==
  /\ row = [status |-> "running", canceled |-> FALSE, seal |-> None, frozen |-> None,
            index |-> {}, followUp |-> FALSE, error |-> FALSE]
  /\ docs = None /\ manifest = None
  /\ checkpoints = {} /\ result = [w \in Workers |-> None]
  /\ op = None
  /\ kind \in [deep : BOOLEAN, cli : BOOLEAN]
  /\ deaths = 0 /\ torn = FALSE /\ atStop = {}

Saving ==
  \E F \in Drafts :
    \/ \E w \in Workers : WorkerWrites(w, F)
    \/ \E complete, seen \in BOOLEAN : WriteDraft(F, complete, seen)

Completing ==
  \/ \E name \in {"complete", "prepare"} : BeginCompletion(name)
  \/ BeginBudgetExhausted \/ Prepare \/ PrepareFails \/ CommitCompletion

Stopping ==
  \/ \E canceled \in BOOLEAN : StopScan(canceled)
  \/ PreserveResults \/ RecoverResults
  \/ RecordExisting \/ MergeSaved \/ MergeFails \/ RecordPublication
  \/ NotePublicationFailure \/ ClearPublicationFailure

Writing == WriteDocs \/ WriteManifest \/ WriteFails \/ HelperDies

Next == Saving \/ Completing \/ Stopping \/ Writing

Spec == Init /\ [][Next]_vars

-----------------------------------------------------------------------------
(* Properties *)

\* Whatever was prepared, cut, restored or recovered on the way: the digest in
\* the row is that of the manifest on disk, which seals the findings on disk,
\* which are the ones the database indexes, under the outcome of the scan.  For
\* a stopped scan this leaves out a death in the middle of a re-publication.
SealIsHonest ==
  row.seal # None /\ (row.status = "complete" \/ (Unlocked /\ ~torn)) =>
    /\ manifest = row.seal /\ SealHolds /\ row.index = docs
    /\ manifest.status = (IF row.status = "complete" THEN "completed" ELSE Outcome)

\* What was saved when the scan stopped is among the findings it publishes,
\* however often the publication was cut, repeated or extended.
StoppedResultsArePublished ==
  row.status = "failed" /\ row.seal # None /\ Unlocked => FindingsOf(atStop) \subseteq docs

\* A stopped scan whose results are saved and not published is offered for
\* recovery, whatever interrupted the publication, as long as no rewriting of a
\* sealed scan was cut.
RecoveryIsOffered ==
  row.status = "failed" /\ ~row.canceled /\ Unlocked /\ ~torn =>
    (SavedNow # {} /\ (row.seal = None \/ ~(Sources \subseteq row.seal.sources)) => RecoveryNeeded)

\* "After cancellation, the owning continuation may retry publication only from
\* the source set frozen at cancellation through `preserve-scan-results`; it
\* cannot admit later checkpoints." (references/scan-contract.md:48)
CanceledAdmitsNothingLater ==
  [][ row.canceled /\ ~Unlocked /\ op.name = "preserve" /\ row'.frozen # row.frozen
        => row'.frozen \subseteq atStop ]_vars

=============================================================================
