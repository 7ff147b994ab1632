-------------------------- MODULE ScanResultsProofs --------------------------
(***************************************************************************)
(* Proofs about the results of a scan, for any drafts, workers and number  *)
(* of processes that die: what is sealed is what was saved, what was saved *)
(* at the stop is published, and what is not published is offered.         *)
(***************************************************************************)
EXTENDS ScanResults, TLAPS

\* What an operation has at hand, or on disk, at its stages.
StageOK ==
  /\ op # None /\ op.stage \in {"docs", "manifest"} => op.docs # None /\ op.manifest # None
  /\ op # None /\ op.stage = "manifest" => docs # None
  /\ op # None /\ op.stage \in {"commit", "record"} => HasParent

TypeOK ==
  /\ row \in [status : {"running", "failed", "complete"}, canceled : BOOLEAN,
              seal : {None} \cup Manifest, frozen : {None} \cup SUBSET Source,
              index : SUBSET UNION Drafts, followUp : BOOLEAN, error : BOOLEAN]
  /\ docs \in {None} \cup Documents /\ manifest \in {None} \cup Manifest
  /\ checkpoints \in SUBSET Documents /\ result \in [Workers -> {None} \cup Documents]
  /\ op \in {None} \cup Operation
  /\ kind \in [deep : BOOLEAN, cli : BOOLEAN]
  /\ torn \in BOOLEAN
  /\ atStop \in SUBSET Source
  /\ StageOK

\* The findings of everything that is saved, in checkpoints or results.
Saved == FindingsOf(Sources)
Kept == FindingsOf(atStop)

Filing == op # None /\ op.stage \in {"docs", "manifest", "record"}
Publishing == op # None /\ Publishes

-----------------------------------------------------------------------------
(* The inductive invariant *)

\* Which operation is at work in which state of the scan, and at which stage.
OperationFits ==
  /\ row.status = "running" => row.seal = None /\ row.frozen = None
  /\ op # None =>
       IF Publishes
       THEN row.status = "failed" /\ op.stage \in {"preserve", "docs", "manifest", "record", "clear"}
       ELSE /\ row.status = "running"
            /\ op.name \in {"draft", "budget"} => op.stage \in {"docs", "manifest"}
            /\ op.name \in {"complete", "prepare"} => op.stage \in {"prepare", "docs", "manifest", "commit"}
  /\ Publishing => (op.sources # None <=> op.name = "recover")

\* A document that is sealed as completed is the sealed one of its scan.
SealedAs(m, d) == m # None /\ m.sealed /\ m.artifact = d

\* The outcome that a seal may tell.
SealFits(m) ==
  m # None /\ m.sealed =>
    m.status \in (IF row.status = "failed" THEN {"completed", Outcome} ELSE {"completed"})

\* Whatever is being rewritten, the row and the files it will be restored to
\* agree, as long as no rewriting of a sealed scan was cut.
Honest(d, m) ==
  row.seal # None /\ ~torn =>
    /\ m = row.seal /\ m.artifact = d /\ row.index = d
    /\ row.status = "failed" => m.status = Outcome
    /\ row.status = "complete" => m.status = "completed"

FilesHonest ==
  /\ row.seal # None => row.status # "running"
  /\ row.status = "complete" => op = None /\ row.seal # None /\ SealedAs(manifest, docs)
                                 /\ manifest = row.seal /\ row.index = docs /\ manifest.status = "completed"
  /\ SealFits(manifest)
  /\ (op # None /\ op.stage \in {"docs", "manifest"}) => SealFits(op.manifest)
  /\ Filing /\ Publishes => SealFits(op.oldManifest)
  /\ ~(Filing /\ Publishes) => Honest(docs, manifest)
  /\ Filing /\ Publishes => Honest(op.oldDocs, op.oldManifest)
  /\ Publishing /\ op.stage = "docs" => docs = op.oldDocs /\ manifest = op.oldManifest
  /\ Publishing /\ op.stage = "manifest" => docs = op.docs /\ manifest = op.oldManifest
  /\ Publishing /\ op.stage = "record" => docs = op.docs /\ manifest = op.manifest
  /\ Filing /\ Publishes =>
       SealedAs(op.manifest, op.docs) /\ op.manifest.status = Outcome /\ op.docs # None
  /\ (op # None /\ op.name \in {"complete", "prepare"} /\ op.stage \in {"docs", "manifest", "commit"}) =>
       SealedAs(op.manifest, op.docs) /\ op.manifest.status = "completed"
  /\ (op # None /\ ~Publishes /\ op.stage = "manifest") => docs = op.docs
  /\ At("commit") => docs = op.docs /\ manifest = op.manifest

\* A sealed document contains nothing that is not saved elsewhere, and one that
\* was published has everything that was saved at the stop.
SealSaved(d, m) == m # None /\ m.sealed /\ d # None => d \subseteq Saved
Whole(m) ==
  m # None /\ m.sealed /\ m.status # "completed" /\ m.artifact # None =>
    Kept \subseteq FindingsOf(m.sources) /\ FindingsOf(m.sources) \subseteq m.artifact

Recoverable(d, m) ==
  /\ row.frozen = None => \A f \in Kept : f \in Saved \/ (d # None /\ m # None /\ f \in d)
  /\ row.frozen = {} => m # None
  /\ row.seal # None => d # None /\ Kept \subseteq d

SavedIsSafe ==
  /\ SealSaved(docs, manifest)
  /\ (op # None /\ op.stage = "docs") => SealSaved(op.docs, manifest)
  /\ (op # None /\ op.stage \in {"docs", "manifest"}) => SealSaved(op.docs, op.manifest)
  /\ Filing /\ Publishes => SealSaved(op.oldDocs, op.oldManifest)
  /\ Whole(manifest)
  /\ Filing => Whole(op.manifest)
  /\ Filing /\ Publishes => Whole(op.oldManifest)
  /\ row.status = "failed" =>
       /\ row.frozen # None => Kept \subseteq FindingsOf(row.frozen)
       /\ Recoverable(docs, manifest)
       /\ Filing => Recoverable(op.oldDocs, op.oldManifest)
       /\ Filing => Kept \subseteq op.docs /\ Kept \subseteq FindingsOf(op.manifest.sources)
  /\ Publishing /\ op.stage = "preserve" /\ op.name = "recover" =>
       \A f \in Kept : f \in FindingsOf(op.sources) \/ (KeepsParent /\ f \in docs)

ResultsInv == TypeOK /\ OperationFits /\ FilesHonest /\ SavedIsSafe

-----------------------------------------------------------------------------
(* Documents and sources *)

LEMMA DocumentsClosed ==
  /\ {} \in Documents
  /\ \A D \in Drafts : D \in Documents
  /\ \A D, E \in Documents : D \cup E \in Documents
  /\ None \notin Documents
  BY NoneAssumption DEF Documents

LEMMA NoneIsNothing ==
  None \notin Documents /\ None \notin SUBSET Source /\ None \notin Manifest /\ None \notin Operation
  BY NoneAssumption

\* What the findings of a set of sources are.
LEMMA FindingsOfSources ==
  /\ \A S : \A f : f \in FindingsOf(S) <=> \E s \in S : f \in s[2]
  /\ \A S, T : S \subseteq T => FindingsOf(S) \subseteq FindingsOf(T)
  /\ \A S, T : FindingsOf(S \cup T) = FindingsOf(S) \cup FindingsOf(T)
  /\ FindingsOf({}) = {}
<1>1. \A S : \A f : f \in FindingsOf(S) <=> \E s \in S : f \in s[2]
  BY DEF FindingsOf
<1>2. ASSUME NEW S, NEW T PROVE FindingsOf(S \cup T) = FindingsOf(S) \cup FindingsOf(T)
  BY DEF FindingsOf
<1>4. FindingsOf({}) = {}
  BY DEF FindingsOf
<1> QED BY <1>1, <1>2, <1>4

LEMMA FindingsOfOne ==
  ASSUME NEW a, NEW D
  PROVE  FindingsOf({<<a, D>>}) = D
  BY DEF FindingsOf

LEMMA FindingsAreDocuments ==
  ASSUME NEW S, S \subseteq Source
  PROVE  FindingsOf(S) \in Documents
<1>1. \A s \in S : s[2] \in Documents
  BY DEF Source
<1> QED BY <1>1, FindingsOfSources DEF Documents

\* What is saved: the checkpoints and the results.
LEMMA WhatIsSaved ==
  ASSUME TypeOK
  PROVE  /\ Sources \subseteq Source
         /\ Saved \in Documents /\ Results \in Documents /\ Results \subseteq Saved
         /\ \A f : f \in Saved <=> \/ \E c \in checkpoints : f \in c
                                 \/ \E w \in Workers : result[w] # None /\ f \in result[w]
<1>1. Sources \subseteq Source
  BY DEF TypeOK, Sources, Source
<1>2. Saved \in Documents
  BY <1>1, FindingsAreDocuments DEF Saved
<1>3. ASSUME NEW f
      PROVE  f \in Saved <=> \/ \E c \in checkpoints : f \in c
                             \/ \E w \in Workers : result[w] # None /\ f \in result[w]
  <2>1. f \in Saved <=> \E s \in Sources : f \in s[2]
    BY FindingsOfSources DEF Saved
  <2>2. \A c \in checkpoints : <<"saved", c>> \in Sources /\ <<"saved", c>>[2] = c
    BY DEF Sources
  <2>3. \A w \in Workers : result[w] # None =>
          <<w, result[w]>> \in Sources /\ <<w, result[w]>>[2] = result[w]
    BY DEF Sources
  <2>4. \A s \in Sources : \/ \E c \in checkpoints : s[2] = c
                           \/ \E w \in Workers : result[w] # None /\ s[2] = result[w]
    BY DEF Sources
  <2>5. (\E s \in Sources : f \in s[2]) => \/ \E c \in checkpoints : f \in c
                                         \/ \E w \in Workers : result[w] # None /\ f \in result[w]
    BY <2>4
  <2>6. (\E c \in checkpoints : f \in c) => \E s \in Sources : f \in s[2]
    BY <2>2
  <2>7. (\E w \in Workers : result[w] # None /\ f \in result[w]) => \E s \in Sources : f \in s[2]
    BY <2>3
  <2> QED BY <2>1, <2>5, <2>6, <2>7
<1>4. \A f : f \in Results <=> \E w \in Workers : result[w] # None /\ f \in result[w]
  BY DEF Results
<1>5. Results \subseteq Saved
  BY <1>3, <1>4
<1>6. Results \in Documents
  BY <1>2, <1>5 DEF Documents
<1> QED BY <1>1, <1>2, <1>3, <1>5, <1>6

LEMMA BeginIsOperation ==
  ASSUME NEW name \in {"draft", "budget", "complete", "prepare", "stop", "preserve", "recover"},
         NEW stage \in {"prepare", "preserve", "docs"}
  PROVE  Begin(name, stage) \in Operation /\ Begin(name, stage) # None
         /\ Begin(name, stage).stage = stage /\ Begin(name, stage).name = name
<1>1. Begin(name, stage) \in Operation
  BY DEF Begin, Operation
<1> QED BY <1>1, NoneIsNothing DEF Begin

LEMMA SealedIsManifest ==
  ASSUME NEW status \in {"completed", "failed", "canceled"}, NEW S, S \subseteq Source,
         NEW D \in Documents
  PROVE  Sealed(status, S, D) \in Manifest
  BY DEF Sealed, Manifest

LEMMA ManifestFields ==
  ASSUME NEW m \in Manifest
  PROVE  /\ m.sealed \in BOOLEAN /\ m.complete \in BOOLEAN
         /\ m.sources \in SUBSET Source
         /\ m.sealed => m.artifact \in Documents /\ m.status \in {"completed", "failed", "canceled"}
         /\ ~m.sealed => m.artifact = None /\ m.status = "none"
  BY DEF Manifest

LEMMA DraftIsManifest ==
  \A complete \in BOOLEAN : Draft(complete) \in Manifest /\ ~Draft(complete).sealed
  BY DEF Draft, Manifest

-----------------------------------------------------------------------------
(* Types *)

Row ==
  [status : {"running", "failed", "complete"}, canceled : BOOLEAN,
   seal : {None} \cup Manifest, frozen : {None} \cup SUBSET Source,
   index : SUBSET UNION Drafts, followUp : BOOLEAN, error : BOOLEAN]

\* What a source of what is saved, or the copy of a draft, adds.
LEMMA SourceAdded ==
  ASSUME TypeOK
  PROVE  /\ docs # None => {<<"saved", docs>>} \subseteq Source
         /\ SavedNow \subseteq Source /\ ParentCopy \subseteq Source
         /\ op # None => MergedSources \subseteq Source \/ FrozenSources = None \/ FrozenSources \in SUBSET Source
<1>1. docs # None => {<<"saved", docs>>} \subseteq Source
  BY DEF TypeOK, Source
<1>2. SavedNow \subseteq Source
  BY <1>1, WhatIsSaved DEF SavedNow, HasParent
<1>3. ParentCopy \subseteq Source
  BY <1>1 DEF ParentCopy, KeepsParent, ReadsParent, HasParent
<1>4. op # None => FrozenSources = None \/ FrozenSources \in SUBSET Source
  BY DEF TypeOK, FrozenSources, Operation
<1> QED BY <1>1, <1>2, <1>3, <1>4

LEMMA MergedType ==
  ASSUME TypeOK, op # None
  PROVE  MergedSources \subseteq Source /\ MergedFindings \in Documents
<1>1. FrozenSources = None \/ FrozenSources \in SUBSET Source
  BY DEF TypeOK, FrozenSources, Operation
<1>2. MergedSources \subseteq Source
  BY <1>1, SourceAdded, WhatIsSaved DEF MergedSources
<1>3. FindingsOf(MergedSources) \in Documents
  BY <1>2, FindingsAreDocuments
<1>4. MergedFindings \in Documents
  BY <1>3, DocumentsClosed DEF MergedFindings, ReadsParent, HasParent, TypeOK
<1> QED BY <1>2, <1>4

LEMMA StopType ==
  ASSUME TypeOK, NEW canceled \in BOOLEAN
  PROVE  StoppedRow(canceled) \in Row
  BY DEF TypeOK, StoppedRow, Row

LEMMA SavingTypes ==
  ASSUME TypeOK, Saving
  PROVE  TypeOK'
<1>1. PICK F \in Drafts : \/ \E w \in Workers : WorkerWrites(w, F)
                        \/ \E complete, seen \in BOOLEAN : WriteDraft(F, complete, seen)
  BY DEF Saving
<1>2. F \in Documents
  BY DocumentsClosed
<1>3. CASE \E w \in Workers : WorkerWrites(w, F)
  <2>1. PICK w \in Workers : WorkerWrites(w, F)
    BY <1>3
  <2>2. result' \in [Workers -> {None} \cup Documents] /\ checkpoints' \in SUBSET Documents
    BY <2>1, <1>2, DocumentsClosed DEF WorkerWrites, TypeOK
  <2> QED BY <2>1, <2>2 DEF WorkerWrites, TypeOK, StageOK, HasParent, files, history
<1>4. CASE \E complete, seen \in BOOLEAN : WriteDraft(F, complete, seen)
  <2>1. PICK complete \in BOOLEAN, seen \in BOOLEAN : WriteDraft(F, complete, seen)
    BY <1>4
  <2>2. checkpoints' \in SUBSET Documents
    BY <2>1, <1>2 DEF WriteDraft, TypeOK
  <2> DEFINE d == IF docs = None THEN F ELSE F \cup docs
             new == [Begin("draft", "docs") EXCEPT !.docs = d, !.manifest = Draft(complete)]
  <2>3. d \in Documents
    BY <1>2, DocumentsClosed DEF TypeOK
  <2>4. Begin("draft", "docs") \in Operation /\ Draft(complete) \in Manifest
    BY BeginIsOperation, DraftIsManifest
  <2> HIDE DEF d
  <2>5. new \in Operation
    BY <2>3, <2>4 DEF Operation
  <2>6. op' \in {None} \cup Operation
    <3>1. op' = IF seen THEN new ELSE None
      BY <2>1 DEF WriteDraft, d
    <3> QED BY <2>5, <3>1
  <2>7. StageOK'
    <3>1. CASE seen
      <4>1. op' = new /\ new.stage = "docs" /\ new.docs \in Documents /\ new.manifest \in Manifest
        BY <2>1, <2>3, <2>4, <3>1 DEF WriteDraft, d, Begin, Operation
      <4> QED BY <4>1, NoneIsNothing DEF StageOK
    <3>2. CASE ~seen
      BY <2>1, <3>2 DEF WriteDraft, StageOK
    <3> QED BY <3>1, <3>2
  <2> QED BY <2>1, <2>2, <2>6, <2>7 DEF WriteDraft, TypeOK, files, history
<1> QED BY <1>1, <1>3, <1>4

LEMMA FailTypes ==
  ASSUME TypeOK, FailHere
  PROVE  row' \in Row /\ atStop' \in SUBSET Source /\ op' \in Operation /\ StageOK'
<1>1. row' \in Row /\ atStop' \in SUBSET Source
  BY StopType, SourceAdded DEF FailHere
<1>2. op' \in Operation /\ op'.stage = "preserve"
  BY BeginIsOperation DEF FailHere
<1> QED BY <1>1, <1>2 DEF StageOK

LEMMA CompletingTypes ==
  ASSUME TypeOK, Completing
  PROVE  TypeOK'
<1>1. ASSUME NEW name \in {"complete", "prepare"}, BeginCompletion(name)
      PROVE  TypeOK'
  <2>1. op' \in Operation /\ op'.stage = "prepare"
    BY <1>1, BeginIsOperation DEF BeginCompletion
  <2>2. StageOK'
    BY <2>1 DEF StageOK
  <2> QED BY <1>1, <2>1, <2>2 DEF BeginCompletion, TypeOK, files, evidence, history
<1>2. CASE BeginBudgetExhausted
  <2> DEFINE d == IF docs = None THEN {} ELSE docs
             x == IF manifest = None THEN Draft(TRUE) ELSE manifest
             new == [Begin("budget", "docs") EXCEPT !.docs = d, !.manifest = x]
  <2>1. d \in Documents /\ x \in Manifest /\ Begin("budget", "docs") \in Operation
    BY BeginIsOperation, DraftIsManifest, DocumentsClosed DEF TypeOK
  <2> HIDE DEF d, x
  <2>2. new \in Operation
    BY <2>1 DEF Operation
  <2>3. op' = new
    BY <1>2 DEF BeginBudgetExhausted, d, x
  <2>4. new.stage = "docs" /\ new.docs = d /\ new.manifest = x
    BY <2>1 DEF Begin
  <2> HIDE DEF new
  <2>5. StageOK'
    BY <2>1, <2>3, <2>4, NoneIsNothing DEF StageOK
  <2> QED BY <1>2, <2>2, <2>3, <2>5 DEF BeginBudgetExhausted, TypeOK, files, evidence, history
<1>3. CASE Prepare
  <2>1. op \in Operation /\ HasParent
    BY <1>3 DEF Prepare, Publishable, At, TypeOK
  <2>2. docs \in Documents /\ manifest \in Manifest
    BY <2>1 DEF HasParent, TypeOK
  <2>3. CASE manifest.sealed
    <3>1. op' = [op EXCEPT !.stage = "commit", !.docs = docs, !.manifest = manifest] /\ UNCHANGED checkpoints
      BY <1>3, <2>3 DEF Prepare
    <3>2. op' \in Operation
      BY <2>1, <2>2, <3>1 DEF Operation
    <3>3. op'.stage = "commit" /\ UNCHANGED files
      BY <1>3, <2>1, <3>1 DEF Prepare, Operation
    <3>4. StageOK'
      BY <2>1, <3>3 DEF StageOK, HasParent, files
    <3> QED BY <1>3, <3>1, <3>2, <3>4 DEF Prepare, TypeOK, files, history
  <2>4. CASE ~manifest.sealed
    <3> DEFINE content == docs \cup Results
               m == Sealed("completed", Sources \cup {<<"saved", docs>>}, content)
    <3>1. content \in Documents
      BY <2>2, WhatIsSaved, DocumentsClosed
    <3>2. Sources \cup {<<"saved", docs>>} \subseteq Source
      BY <2>2, WhatIsSaved, SourceAdded, NoneIsNothing
    <3>3. m \in Manifest
      BY <3>1, <3>2, SealedIsManifest
    <3>4. /\ op' = [op EXCEPT !.stage = "docs", !.docs = content, !.manifest = m]
          /\ checkpoints' = checkpoints \cup {docs}
      BY <1>3, <2>4 DEF Prepare
    <3> HIDE DEF content, m
    <3>5. op' \in Operation
      BY <2>1, <3>1, <3>3, <3>4 DEF Operation
    <3>6. checkpoints' \in SUBSET Documents
      BY <2>2, <3>4 DEF TypeOK
    <3>7. op'.stage = "docs" /\ op'.docs = content /\ op'.manifest = m
      BY <2>1, <3>4 DEF Operation
    <3>8. StageOK'
      BY <3>1, <3>3, <3>7, NoneIsNothing DEF StageOK
    <3> QED BY <1>3, <3>5, <3>6, <3>8 DEF Prepare, TypeOK, files, history
  <2> QED BY <2>3, <2>4
<1>4. CASE PrepareFails
  <2>1. /\ row' \in Row /\ atStop' \in SUBSET Source /\ op' \in {None} \cup Operation
        /\ UNCHANGED <<files, evidence, kind, deaths, torn>>
    BY <1>4, FailTypes DEF PrepareFails, TypeOK, Row
  <2>2. StageOK'
    <3>1. CASE op' = None
      BY <3>1 DEF StageOK
    <3>2. CASE op' # None
      BY <1>4, <3>2, FailTypes DEF PrepareFails
    <3> QED BY <3>1, <3>2
  <2> QED BY <2>1, <2>2 DEF TypeOK, Row, files, evidence
<1>5. CASE CommitCompletion
  <2>1. HasParent
    BY <1>5 DEF CommitCompletion, At, TypeOK, StageOK
  <2>2. docs \in Documents /\ manifest \in Manifest
    BY <2>1 DEF HasParent, TypeOK
  <2> DEFINE new == [row EXCEPT !.status = "complete", !.seal = manifest, !.index = Indexed({}, docs)]
  <2>3. row' = new \/ row' = row
    BY <1>5 DEF CommitCompletion
  <2>4. Indexed({}, docs) \in SUBSET UNION Drafts
    BY <2>2 DEF Indexed, Documents
  <2>5. new \in Row
    BY <2>2, <2>4 DEF TypeOK, Row
  <2>6. row' \in Row
    BY <2>3, <2>5 DEF TypeOK, Row
  <2>7. op' = None /\ UNCHANGED <<files, evidence, kind, history>>
    BY <1>5 DEF CommitCompletion
  <2> QED BY <2>6, <2>7 DEF TypeOK, Row, StageOK, files, evidence, history
<1> QED BY <1>1, <1>2, <1>3, <1>4, <1>5 DEF Completing

\* An operation that goes to a stage at which it needs nothing new.
LEMMA StageChanged ==
  ASSUME TypeOK, op # None, NEW stage \in {"clear", "commit", "manifest", "record", "docs"},
         op' = [op EXCEPT !.stage = stage]
  PROVE  /\ op' \in Operation /\ op' # None /\ op'.stage = stage
         /\ op'.name = op.name /\ op'.docs = op.docs /\ op'.manifest = op.manifest
         /\ op'.sources = op.sources /\ op'.parentToo = op.parentToo
         /\ op'.oldDocs = op.oldDocs /\ op'.oldManifest = op.oldManifest
<1>1. op' \in Operation
  BY DEF TypeOK, Operation
<1>2. op' # None
  BY <1>1, NoneIsNothing
<1> QED BY <1>1, <1>2 DEF TypeOK, Operation

\* What recording an existing publication makes of the operation.
LEMMA ExistingRecorded ==
  ASSUME TypeOK, RecordExisting
  PROVE  /\ HasParent /\ docs \in Documents /\ manifest \in Manifest /\ manifest.sealed
         /\ op' \in Operation /\ op' # None /\ op'.name = op.name /\ op'.sources = op.sources
         /\ \/ /\ op'.stage = "clear" /\ row.seal # None
            \/ /\ op'.stage = "record" /\ op'.docs = docs /\ op'.manifest = manifest
               /\ op'.oldDocs = docs /\ op'.oldManifest = manifest
<1>1. op \in Operation /\ op # None
  BY DEF RecordExisting, At, TypeOK
<1>2. manifest \in Manifest /\ manifest.sealed /\ manifest.artifact = docs
  BY DEF RecordExisting, AlreadyPublished, SealIntact, SealHolds, IsSealed, TypeOK
<1>3. docs \in Documents /\ HasParent
  BY <1>2, ManifestFields, NoneIsNothing DEF HasParent
<1> DEFINE new == [op EXCEPT !.stage = "record", !.docs = docs, !.manifest = manifest,
                             !.oldDocs = docs, !.oldManifest = manifest]
           cleared == [op EXCEPT !.stage = "clear"]
<1>4. new \in Operation /\ cleared \in Operation
  BY <1>1, <1>2, <1>3 DEF Operation
<1>5. /\ new.stage = "record" /\ new.docs = docs /\ new.manifest = manifest
      /\ new.oldDocs = docs /\ new.oldManifest = manifest /\ new.name = op.name
      /\ new.sources = op.sources
      /\ cleared.stage = "clear" /\ cleared.name = op.name /\ cleared.sources = op.sources
  BY <1>1 DEF Operation
<1>6. op' = (IF row.frozen # None /\ row.seal # None /\ ~row.followUp THEN cleared ELSE new)
  BY DEF RecordExisting
<1> HIDE DEF new, cleared
<1> QED BY <1>2, <1>3, <1>4, <1>5, <1>6, NoneIsNothing

\* What a merge makes of the operation.
LEMMA MergeSavedEffect ==
  ASSUME TypeOK, MergeSaved, op' # None
  PROVE  /\ op \in Operation /\ op # None /\ op.stage = "preserve"
         /\ op' \in Operation /\ op'.stage = "docs" /\ op'.name = op.name /\ op'.sources = op.sources
         /\ op'.docs = MergedFindings /\ op'.manifest = Sealed(Outcome, MergedSources, MergedFindings)
         /\ op'.oldDocs = docs /\ op'.oldManifest = manifest
         /\ op'.docs \in Documents /\ op'.manifest \in Manifest
         /\ row' = [row EXCEPT !.frozen = IF FrozenSources = None THEN MergedSources ELSE row.frozen]
<1>1. op \in Operation /\ op # None /\ op.stage = "preserve"
  BY DEF MergeSaved, At, TypeOK
<1> DEFINE D == MergedFindings
           m == Sealed(Outcome, MergedSources, MergedFindings)
           new == [op EXCEPT !.stage = "docs", !.docs = D, !.manifest = m,
                             !.oldDocs = docs, !.oldManifest = manifest]
<1>2. D \in Documents /\ MergedSources \subseteq Source
  BY <1>1, MergedType
<1>3. m \in Manifest
  BY <1>2, SealedIsManifest DEF Outcome
<1>4. op' = new /\ row' = [row EXCEPT !.frozen = IF FrozenSources = None THEN MergedSources ELSE row.frozen]
  BY DEF MergeSaved
<1> HIDE DEF D, m
<1>5. docs \in {None} \cup Documents /\ manifest \in {None} \cup Manifest
  BY DEF TypeOK
<1>6. new \in Operation
  BY <1>1, <1>2, <1>3, <1>5 DEF Operation
<1>7. /\ new.stage = "docs" /\ new.docs = D /\ new.manifest = m /\ new.sources = op.sources
      /\ new.oldDocs = docs /\ new.oldManifest = manifest /\ new.name = op.name
  BY <1>1 DEF Operation
<1> HIDE DEF new
<1> QED BY <1>1, <1>2, <1>3, <1>4, <1>6, <1>7 DEF D, m

LEMMA StoppingTypes ==
  ASSUME TypeOK, Stopping
  PROVE  TypeOK'
<1>1. ASSUME NEW canceled \in BOOLEAN, StopScan(canceled)
      PROVE  TypeOK'
  <2>1. row' \in Row /\ atStop' \in SUBSET Source
    BY <1>1, StopType, SourceAdded DEF StopScan
  <2>2. op' \in Operation /\ op'.stage = "preserve"
    BY <1>1, BeginIsOperation DEF StopScan
  <2>3. StageOK'
    BY <2>2 DEF StageOK
  <2> QED BY <1>1, <2>1, <2>2, <2>3 DEF StopScan, TypeOK, Row, files, evidence
<1>2. CASE PreserveResults
  <2>1. op' \in Operation /\ op'.stage = "preserve"
    BY <1>2, BeginIsOperation DEF PreserveResults
  <2>2. StageOK'
    BY <2>1 DEF StageOK
  <2> QED BY <1>2, <2>1, <2>2 DEF PreserveResults, TypeOK, files, evidence, history
<1>3. CASE RecoverResults
  <2> DEFINE new == [Begin("recover", "preserve") EXCEPT
                       !.sources = Sources,
                       !.parentToo = IF IsSealed THEN Published = {} ELSE row.frozen = None]
  <2>1. Begin("recover", "preserve") \in Operation /\ Sources \in SUBSET Source
    BY BeginIsOperation, WhatIsSaved
  <2>2. new \in Operation /\ new.stage = "preserve"
    BY <2>1 DEF Operation, Begin
  <2>3. op' = new
    BY <1>3 DEF RecoverResults
  <2> HIDE DEF new
  <2>4. StageOK'
    BY <2>2, <2>3 DEF StageOK
  <2> QED BY <1>3, <2>2, <2>3, <2>4 DEF RecoverResults, TypeOK, files, evidence, history
<1>4. CASE RecordExisting
  <2>1. UNCHANGED <<row, files, evidence, kind, history>>
    BY <1>4 DEF RecordExisting
  <2>2. StageOK'
    BY <1>4, <2>1, ExistingRecorded DEF StageOK, HasParent, files
  <2> QED BY <1>4, <2>1, <2>2, ExistingRecorded DEF TypeOK, files, evidence, history
<1>5. CASE MergeSaved
  <2>1. /\ checkpoints' = checkpoints \cup (IF KeepsParent THEN {docs} ELSE {})
        /\ UNCHANGED <<files, result, kind, history>>
    BY <1>5 DEF MergeSaved
  <2>2. checkpoints' \in SUBSET Documents
    BY <2>1, SourceAdded DEF KeepsParent, ReadsParent, HasParent, TypeOK
  <2>3. CASE op' = None
    <3>1. row' = row
      <4>1. op \in Operation
        BY <1>5 DEF MergeSaved, At, TypeOK
      <4>2. CASE ReadsParent \/ MergedSources # {}
        <5> DEFINE new == [op EXCEPT !.stage = "docs", !.docs = MergedFindings,
                              !.manifest = Sealed(Outcome, MergedSources, MergedFindings),
                              !.oldDocs = docs, !.oldManifest = manifest]
        <5>1. op' = new
          BY <1>5, <4>2 DEF MergeSaved
        <5>2. new \in Operation
          <6> DEFINE D == MergedFindings
                     m == Sealed(Outcome, MergedSources, MergedFindings)
          <6>1. op # None
            BY <1>5 DEF MergeSaved, At
          <6>2. D \in Documents /\ m \in Manifest
            BY <6>1, MergedType, SealedIsManifest DEF Outcome
          <6>3. docs \in {None} \cup Documents /\ manifest \in {None} \cup Manifest
            BY DEF TypeOK
          <6> HIDE DEF D, m
          <6>4. [op EXCEPT !.stage = "docs", !.docs = D, !.manifest = m,
                           !.oldDocs = docs, !.oldManifest = manifest] \in Operation
            BY <4>1, <6>2, <6>3 DEF Operation
          <6> QED BY <6>4 DEF D, m
        <5> QED BY <2>3, <5>1, <5>2, NoneIsNothing
      <4> QED BY <1>5, <4>2 DEF MergeSaved
    <3> QED BY <2>1, <2>2, <2>3, <3>1 DEF TypeOK, StageOK, files, history
  <2>4. CASE op' # None
    <3>1. row' \in Row
      <4>1. FrozenSources = None => MergedSources \subseteq Source
        BY <1>5, <2>4, MergeSavedEffect, MergedType
      <4> QED BY <1>5, <2>4, <4>1, MergeSavedEffect DEF TypeOK, Row
    <3>2. op' \in Operation /\ StageOK'
      BY <1>5, <2>4, MergeSavedEffect, NoneIsNothing DEF StageOK
    <3> QED BY <2>1, <2>2, <3>1, <3>2 DEF TypeOK, Row, files, history
  <2> QED BY <2>3, <2>4
<1>6. CASE MergeFails
  BY <1>6 DEF MergeFails, NoteFailure, TypeOK, StageOK, files, evidence, history
<1>7. CASE RecordPublication
  <2>1. op # None /\ HasParent
    BY <1>7 DEF RecordPublication, At, TypeOK, StageOK
  <2>2. docs \in Documents /\ manifest \in Manifest /\ manifest.sources \in SUBSET Source
    BY <2>1, ManifestFields DEF HasParent, TypeOK
  <2>3. op' \in Operation /\ op'.stage = "clear"
    BY <1>7, <2>1, StageChanged DEF RecordPublication
  <2>4. Indexed(row.index \cap docs, docs) \in SUBSET UNION Drafts
    BY <2>2 DEF Indexed, Documents
  <2>5. row' \in Row
    BY <1>7, <2>2, <2>4 DEF RecordPublication, TypeOK, Row
  <2>6. StageOK'
    BY <2>3 DEF StageOK
  <2> QED BY <1>7, <2>3, <2>5, <2>6 DEF RecordPublication, TypeOK, Row, files, evidence, history
<1>8. CASE NotePublicationFailure
  BY <1>8 DEF NotePublicationFailure, TypeOK, StageOK, HasParent, files, evidence, history
<1>9. CASE ClearPublicationFailure
  BY <1>9 DEF ClearPublicationFailure, TypeOK, StageOK, files, evidence, history
<1> QED BY <1>1, <1>2, <1>3, <1>4, <1>5, <1>6, <1>7, <1>8, <1>9 DEF Stopping

LEMMA WritingTypes ==
  ASSUME TypeOK, Writing
  PROVE  TypeOK'
<1>1. CASE WriteDocs
  <2>1. op \in Operation /\ op # None /\ op.docs \in Documents /\ op.manifest # None
    BY <1>1 DEF WriteDocs, At, TypeOK, StageOK, Operation
  <2>2. op' \in Operation /\ op'.stage = "manifest" /\ op'.docs = op.docs /\ op'.manifest = op.manifest
    BY <1>1, <2>1, StageChanged DEF WriteDocs
  <2>3. StageOK'
    BY <1>1, <2>1, <2>2, NoneIsNothing DEF StageOK, WriteDocs
  <2> QED BY <1>1, <2>1, <2>2, <2>3 DEF WriteDocs, TypeOK, evidence, history
<1>2. CASE WriteManifest
  <2>1. op \in Operation /\ op # None /\ op.stage = "manifest" /\ op.manifest \in Manifest /\ docs # None
    BY <1>2 DEF WriteManifest, At, TypeOK, StageOK, Operation
  <2>2. \/ op' = None
        \/ op' = Begin("complete", "prepare")
        \/ op' = [op EXCEPT !.stage = "commit"]
        \/ op' = [op EXCEPT !.stage = "record"]
    BY <1>2, <2>1 DEF WriteManifest
  <2>3. op' = None \/ (op' \in Operation /\ op'.stage \in {"prepare", "commit", "record"})
    <3>1. CASE op' = [op EXCEPT !.stage = "commit"] \/ op' = [op EXCEPT !.stage = "record"]
      BY <2>1, <3>1, StageChanged
    <3> QED BY <2>2, <3>1, BeginIsOperation
  <2>4. manifest' \in Manifest /\ docs' = docs
    BY <1>2, <2>1 DEF WriteManifest
  <2>5. HasParent'
    BY <2>1, <2>4, NoneIsNothing DEF HasParent
  <2>6. StageOK'
    BY <2>3, <2>5 DEF StageOK
  <2> QED BY <1>2, <2>3, <2>4, <2>6 DEF WriteManifest, TypeOK, evidence, history
<1>3. CASE WriteFails
  <2>1. op \in Operation /\ op # None
    BY <1>3 DEF WriteFails, At, TypeOK
  <2>2. CASE docs' = op.oldDocs /\ manifest' = op.oldManifest /\ NoteFailure /\ UNCHANGED atStop
    BY <1>3, <2>1, <2>2 DEF WriteFails, NoteFailure, TypeOK, StageOK, Operation, evidence
  <2>3. CASE FailHere /\ UNCHANGED files
    BY <1>3, <2>3, FailTypes DEF WriteFails, TypeOK, Row, files, evidence
  <2>4. CASE op' = None /\ UNCHANGED <<row, files, atStop>>
    BY <1>3, <2>4 DEF WriteFails, TypeOK, StageOK, files, evidence
  <2> QED BY <1>3, <2>2, <2>3, <2>4 DEF WriteFails
<1>4. CASE HelperDies
  BY <1>4 DEF HelperDies, TypeOK, StageOK, files, evidence
<1> QED BY <1>1, <1>2, <1>3, <1>4 DEF Writing

LEMMA TypeStep ==
  ASSUME TypeOK, [Next]_vars
  PROVE  TypeOK'
<1>1. CASE UNCHANGED vars
  BY <1>1 DEF vars, files, evidence, history, TypeOK, StageOK, HasParent
<1> QED BY <1>1, SavingTypes, CompletingTypes, StoppingTypes, WritingTypes DEF Next

-----------------------------------------------------------------------------
(* The seal *)

HonestInv == OperationFits /\ FilesHonest

LEMMA HonestWhereUnchanged ==
  ASSUME HonestInv, UNCHANGED <<files, op, torn>>,
         row'.status = row.status, row'.canceled = row.canceled, row'.seal = row.seal,
         row'.frozen = row.frozen, row'.index = row.index
  PROVE  HonestInv'
  BY DEF HonestInv, OperationFits, FilesHonest, Filing, Publishing, Publishes, SealFits,
         Honest, SealedAs, Outcome, At, files

LEMMA HonestSaving ==
  ASSUME TypeOK, HonestInv, Saving
  PROVE  HonestInv'
<1>1. PICK F \in Drafts : \/ \E w \in Workers : WorkerWrites(w, F)
                        \/ \E complete, seen \in BOOLEAN : WriteDraft(F, complete, seen)
  BY DEF Saving
<1>2. CASE \E w \in Workers : WorkerWrites(w, F)
  BY <1>2, HonestWhereUnchanged DEF WorkerWrites, history
<1>3. CASE \E complete, seen \in BOOLEAN : WriteDraft(F, complete, seen)
  <2>1. PICK complete \in BOOLEAN, seen \in BOOLEAN : WriteDraft(F, complete, seen)
    BY <1>3
  <2>2. UNCHANGED <<row, files, torn>> /\ op = None /\ row.status = "running" /\ row.seal = None
    BY <2>1 DEF WriteDraft, Unlocked, history
  <2>3. op' # None => /\ op'.name = "draft" /\ op'.stage = "docs" /\ op'.manifest = Draft(complete)
                      /\ op'.sources = None
    BY <2>1 DEF WriteDraft, Begin
  <2>4. ~Draft(complete).sealed
    BY DraftIsManifest
  <2> QED BY <2>2, <2>3, <2>4 DEF HonestInv, OperationFits, FilesHonest, Filing, Publishing, Publishes,
             SealFits, Honest, SealedAs, Outcome, At, files
<1> QED BY <1>1, <1>2, <1>3

\* An operation begins: all that it has is its name and its stage.
LEMMA HonestBegin ==
  ASSUME TypeOK, HonestInv, ~(Filing /\ Publishes), row.status # "complete", UNCHANGED <<files, torn>>,
         row' = row \/ (row.status = "running" /\ \E canceled \in BOOLEAN : row' = StoppedRow(canceled)),
         op' # None, op'.stage \in {"prepare", "preserve"},
         IF op'.stage = "prepare" THEN op'.name \in {"complete", "prepare"} /\ row'.status = "running"
         ELSE op'.name \in {"stop", "preserve", "recover"} /\ row'.status = "failed",
         op'.sources # None <=> op'.name = "recover"
  PROVE  HonestInv'
<1>1. /\ row'.seal = row.seal /\ row'.frozen = row.frozen /\ row'.index = row.index
      /\ \/ row'.status = row.status /\ row'.canceled = row.canceled
         \/ row.status = "running" /\ row'.status = "failed"
  BY DEF StoppedRow, TypeOK
<1>2. row.status = "running" => row.seal = None /\ row.frozen = None
  BY DEF HonestInv, OperationFits
<1>3. SealFits(manifest)'
  BY <1>1 DEF HonestInv, FilesHonest, SealFits, Outcome, files
<1>4. row.seal # None => row'.status = row.status /\ row'.canceled = row.canceled
  BY <1>1, <1>2
<1>5. Honest(docs, manifest)'
  BY <1>1, <1>4 DEF HonestInv, FilesHonest, Honest, Filing, Outcome, files
<1> QED BY <1>1, <1>2, <1>3, <1>5 DEF HonestInv, OperationFits, FilesHonest, Filing, Publishing,
           Publishes, At

LEMMA FailHereHonest ==
  ASSUME TypeOK, HonestInv, ~(Filing /\ Publishes), row.status = "running", FailHere,
         UNCHANGED <<files, torn>>
  PROVE  HonestInv'
<1>1. row' = StoppedRow(FALSE) /\ row'.status = "failed"
  BY DEF FailHere, StoppedRow, TypeOK
<1>2. op' = Begin("stop", "preserve")
  BY DEF FailHere
<1>3. op' # None /\ op'.name = "stop" /\ op'.stage = "preserve" /\ op'.sources = None
  BY <1>2, BeginIsOperation DEF Begin
<1> QED BY <1>1, <1>3, HonestBegin

LEMMA HonestCompleting ==
  ASSUME TypeOK, HonestInv, Completing
  PROVE  HonestInv'
<1>1. ASSUME NEW name \in {"complete", "prepare"}, BeginCompletion(name)
      PROVE  HonestInv'
  <2>1. op' # None /\ op'.name = name /\ op'.stage = "prepare" /\ op'.sources = None
    BY <1>1, BeginIsOperation DEF BeginCompletion, Begin
  <2>2. op = None /\ row.status = "running" /\ UNCHANGED <<row, files, torn>>
    BY <1>1 DEF BeginCompletion, Unlocked, history
  <2>3. ~(Filing /\ Publishes) /\ row'.status = "running"
    BY <2>2 DEF Filing
  <2> QED BY <2>1, <2>2, <2>3, HonestBegin
<1>2. CASE BeginBudgetExhausted
  <2>1. /\ op = None /\ row.status = "running" /\ UNCHANGED <<row, files, torn>> /\ ~IsSealed
        /\ op'.name = "budget" /\ op'.stage = "docs" /\ op'.sources = None
        /\ op'.manifest = (IF manifest = None THEN Draft(TRUE) ELSE manifest)
    BY <1>2 DEF BeginBudgetExhausted, Unlocked, Begin, history
  <2>2. op'.manifest # None /\ ~op'.manifest.sealed
    BY <2>1, DraftIsManifest, NoneIsNothing DEF IsSealed
  <2> QED BY <2>1, <2>2 DEF HonestInv, OperationFits, FilesHonest, Filing, Publishing, Publishes,
             SealFits, Honest, SealedAs, Outcome, At, files
<1>3. CASE Prepare
  <2>1. /\ op \in Operation /\ op # None /\ op.stage = "prepare" /\ op.name \in {"complete", "prepare"}
        /\ UNCHANGED <<row, files, torn>> /\ HasParent
    BY <1>3 DEF Prepare, Publishable, At, TypeOK, history
  <2>2. row.status = "running" /\ row.seal = None
    BY <2>1 DEF HonestInv, OperationFits, Publishing, Publishes
  <2>3. \E D \in Documents, m \in Manifest, stage \in {"docs", "commit"} :
          /\ op' = [op EXCEPT !.stage = stage, !.docs = D, !.manifest = m]
          /\ m.sealed /\ m.artifact = D /\ m.status = "completed"
          /\ stage = "commit" => D = docs /\ m = manifest
    <3>1. docs \in Documents /\ manifest \in Manifest
      BY <2>1 DEF HasParent, TypeOK
    <3>2. CASE manifest.sealed
      <4>1. op' = [op EXCEPT !.stage = "commit", !.docs = docs, !.manifest = manifest]
        BY <1>3, <3>2 DEF Prepare
      <4>2. SealHolds
        BY <1>3, <3>2 DEF Prepare, Publishable
      <4>3. manifest.status = "completed"
        BY <2>1, <2>2, <3>2 DEF HonestInv, FilesHonest, SealFits, HasParent
      <4> QED BY <3>1, <3>2, <4>1, <4>2, <4>3 DEF SealHolds
    <3>3. CASE ~manifest.sealed
      <4> DEFINE D == docs \cup Results
                 m == Sealed("completed", Sources \cup {<<"saved", docs>>}, D)
      <4>1. op' = [op EXCEPT !.stage = "docs", !.docs = D, !.manifest = m]
        BY <1>3, <3>3 DEF Prepare
      <4>2. D \in Documents
        BY <3>1, WhatIsSaved, DocumentsClosed
      <4>3. Sources \cup {<<"saved", docs>>} \subseteq Source
        BY <3>1, WhatIsSaved, SourceAdded, NoneIsNothing
      <4>4. m \in Manifest
        BY <4>2, <4>3, SealedIsManifest
      <4>5. m.sealed /\ m.artifact = D /\ m.status = "completed"
        BY DEF Sealed
      <4> QED BY <4>1, <4>2, <4>4, <4>5
    <3> QED BY <3>2, <3>3
  <2>4. PICK D \in Documents, m \in Manifest, stage \in {"docs", "commit"} :
          /\ op' = [op EXCEPT !.stage = stage, !.docs = D, !.manifest = m]
          /\ m.sealed /\ m.artifact = D /\ m.status = "completed"
          /\ stage = "commit" => D = docs /\ m = manifest
    BY <2>3
  <2>5. op'.stage = stage /\ op'.docs = D /\ op'.manifest = m /\ op'.name = op.name
    BY <2>1, <2>2, <2>4 DEF Operation
  <2>6. m # None
    BY NoneIsNothing
  <2> HIDE <2>3
  <2> QED BY <2>1, <2>2, <2>4, <2>5, <2>6 DEF HonestInv, OperationFits, FilesHonest, Filing,
             Publishing, Publishes, SealFits, Honest, SealedAs, Outcome, At, files
<1>4. CASE PrepareFails
  <2>1. op # None /\ op.name \in {"complete", "prepare"} /\ UNCHANGED <<files, torn>>
    BY <1>4 DEF PrepareFails, At
  <2>2. row.status = "running" /\ ~(Filing /\ Publishes)
    BY <2>1 DEF HonestInv, OperationFits, Publishes
  <2>3. CASE FailHere
    BY <2>1, <2>2, <2>3, FailHereHonest
  <2>4. CASE op' = None /\ UNCHANGED row
    BY <2>1, <2>2, <2>4 DEF HonestInv, OperationFits, FilesHonest, Filing, Publishing, Publishes,
       SealFits, Honest, SealedAs, Outcome, At, files
  <2> QED BY <1>4, <2>3, <2>4 DEF PrepareFails
<1>5. CASE CommitCompletion
  <2>1. /\ op # None /\ op.stage = "commit" /\ op' = None /\ UNCHANGED <<files, torn>>
    BY <1>5 DEF CommitCompletion, At, history
  <2>2. /\ row.status = "running" /\ op.name \in {"complete", "prepare"}
        /\ SealedAs(manifest, docs) /\ manifest.status = "completed"
    BY <2>1 DEF HonestInv, OperationFits, FilesHonest, Publishes, At, TypeOK, Operation
  <2>3. CASE row' = row
    BY <2>1, <2>2, <2>3 DEF HonestInv, OperationFits, FilesHonest, Filing, Publishing, Publishes,
       SealFits, Honest, SealedAs, Outcome, At, files
  <2>4. CASE row' = [row EXCEPT !.status = "complete", !.seal = manifest, !.index = Indexed({}, docs)]
    <3>1. row'.status = "complete" /\ row'.seal = manifest /\ row'.index = docs
      BY <2>4 DEF TypeOK, Indexed
    <3> QED BY <2>1, <2>2, <3>1 DEF HonestInv, OperationFits, FilesHonest, Filing, Publishing,
               Publishes, SealFits, Honest, SealedAs, Outcome, At, files
  <2> QED BY <1>5, <2>3, <2>4 DEF CommitCompletion
<1> QED BY <1>1, <1>2, <1>3, <1>4, <1>5 DEF Completing

LEMMA HonestStopping ==
  ASSUME TypeOK, HonestInv, Stopping
  PROVE  HonestInv'
<1>1. ASSUME NEW canceled \in BOOLEAN, StopScan(canceled)
      PROVE  HonestInv'
  <2>1. op' # None /\ op'.name = "stop" /\ op'.stage = "preserve" /\ op'.sources = None
    BY <1>1, BeginIsOperation DEF StopScan, Begin
  <2>2. /\ op = None /\ row.status = "running" /\ row' = StoppedRow(canceled)
        /\ row'.status = "failed" /\ UNCHANGED <<files, torn>>
    BY <1>1 DEF StopScan, Unlocked, StoppedRow, TypeOK
  <2>3. ~(Filing /\ Publishes)
    BY <2>2 DEF Filing
  <2> QED BY <2>1, <2>2, <2>3, HonestBegin
<1>2. CASE PreserveResults \/ RecoverResults
  <2>1. /\ op = None /\ row.status = "failed" /\ UNCHANGED <<row, files, torn>>
    BY <1>2 DEF PreserveResults, RecoverResults, Unlocked, history
  <2>2. /\ op' # None /\ op'.stage = "preserve" /\ op'.name \in {"preserve", "recover"}
        /\ op'.sources # None <=> op'.name = "recover"
    <3>1. CASE PreserveResults
      BY <3>1, BeginIsOperation DEF PreserveResults, Begin
    <3>2. CASE RecoverResults
      <4> DEFINE tail == IF IsSealed THEN Published = {} ELSE row.frozen = None
                 new == [Begin("recover", "preserve") EXCEPT !.sources = Sources, !.parentToo = tail]
      <4>1. op' = new
        BY <3>2 DEF RecoverResults
      <4>2. Begin("recover", "preserve") \in Operation /\ Sources \in SUBSET Source
        BY BeginIsOperation, WhatIsSaved
      <4>3. new \in Operation /\ new.stage = "preserve" /\ new.sources = Sources /\ new.name = "recover"
        BY <4>2 DEF Operation, Begin
      <4> HIDE DEF new
      <4> QED BY <4>1, <4>2, <4>3, NoneIsNothing
    <3> QED BY <1>2, <3>1, <3>2
  <2>3. ~(Filing /\ Publishes)
    BY <2>1 DEF Filing
  <2> QED BY <2>1, <2>2, <2>3, HonestBegin
<1>3. CASE RecordExisting
  <2>1. /\ op # None /\ op.stage = "preserve" /\ UNCHANGED <<row, files, torn>>
        /\ SealIntact /\ AlreadyPublished
    BY <1>3 DEF RecordExisting, At, history
  <2>2. Publishes /\ row.status = "failed" /\ (op.sources # None <=> op.name = "recover")
    BY <2>1 DEF HonestInv, OperationFits, Publishing, TypeOK, Operation, Publishes
  <2>3. SealHolds /\ manifest.status = Outcome /\ (row.seal # None => manifest = row.seal)
    BY <2>1 DEF SealIntact, AlreadyPublished, IsSealed
  <2>4. /\ docs # None /\ manifest # None /\ manifest.sealed
        /\ op' # None /\ op'.name = op.name /\ op'.sources = op.sources
        /\ \/ /\ op'.stage = "clear" /\ row.seal # None
           \/ /\ op'.stage = "record" /\ op'.docs = docs /\ op'.manifest = manifest
              /\ op'.oldDocs = docs /\ op'.oldManifest = manifest
    BY <1>3, ExistingRecorded, NoneIsNothing
  <2> QED BY <2>1, <2>2, <2>3, <2>4 DEF HonestInv, OperationFits, FilesHonest, Filing,
             Publishing, Publishes, SealFits, Honest, SealedAs, SealHolds, Outcome, At, files
<1>4. CASE MergeSaved
  <2>1. op # None /\ op.stage = "preserve" /\ UNCHANGED <<files, torn>>
    BY <1>4 DEF MergeSaved, At, history
  <2>2. Publishes /\ row.status = "failed" /\ (op.sources # None <=> op.name = "recover")
    BY <2>1 DEF HonestInv, OperationFits, Publishing, TypeOK, Operation, Publishes
  <2>3. CASE op' = None
    <3>1. /\ row'.status = row.status /\ row'.canceled = row.canceled /\ row'.seal = row.seal
          /\ row'.index = row.index
      BY <1>4 DEF MergeSaved, TypeOK
    <3> QED BY <2>1, <2>2, <2>3, <3>1 DEF HonestInv, OperationFits, FilesHonest, Filing, Publishing,
               Publishes, SealFits, Honest, SealedAs, Outcome, At, files
  <2>4. CASE op' # None
    <3>1. /\ row'.status = row.status /\ row'.canceled = row.canceled /\ row'.seal = row.seal
          /\ row'.index = row.index
      BY <1>4 DEF MergeSaved, TypeOK
    <3>2. /\ op'.stage = "docs" /\ op'.name = op.name /\ op'.sources = op.sources
          /\ op'.docs = MergedFindings /\ op'.manifest = Sealed(Outcome, MergedSources, MergedFindings)
          /\ op'.oldDocs = docs /\ op'.oldManifest = manifest
          /\ op'.docs # None /\ op'.manifest # None
      BY <1>4, <2>4, MergeSavedEffect, NoneIsNothing
    <3>3. /\ op'.manifest.sealed /\ op'.manifest.artifact = op'.docs /\ op'.manifest.status = Outcome
      BY <3>2 DEF Sealed
    <3> QED BY <2>1, <2>2, <2>4, <3>1, <3>2, <3>3 DEF HonestInv, OperationFits, FilesHonest, Filing,
               Publishing, Publishes, SealFits, Honest, SealedAs, Outcome, At, files
  <2> QED BY <2>3, <2>4
<1>5. CASE MergeFails
  <2>1. /\ op # None /\ op.stage = "preserve" /\ op' = None /\ UNCHANGED <<files, torn>>
        /\ row'.status = row.status /\ row'.canceled = row.canceled /\ row'.seal = row.seal
        /\ row'.frozen = row.frozen /\ row'.index = row.index
    BY <1>5 DEF MergeFails, NoteFailure, At, history, TypeOK
  <2> QED BY <2>1 DEF HonestInv, OperationFits, FilesHonest, Filing, Publishing,
             Publishes, SealFits, Honest, SealedAs, Outcome, At, files
<1>6. CASE RecordPublication
  <2>1. /\ op # None /\ op.stage = "record" /\ op' = [op EXCEPT !.stage = "clear"]
        /\ UNCHANGED <<files, torn>>
    BY <1>6 DEF RecordPublication, At, history
  <2>2. op' # None /\ op'.stage = "clear" /\ op'.name = op.name /\ op'.sources = op.sources
    BY <2>1, StageChanged
  <2>3. /\ row'.status = row.status /\ row'.canceled = row.canceled /\ row'.seal = manifest
        /\ row'.index = docs
    BY <1>6 DEF RecordPublication, TypeOK, Indexed
  <2>4. Publishes /\ row.status = "failed" /\ (op.sources # None <=> op.name = "recover")
    BY <2>1 DEF HonestInv, OperationFits, Publishing, TypeOK, Operation, Publishes
  <2>5. SealedAs(manifest, docs) /\ manifest.status = Outcome /\ SealFits(manifest)
    BY <2>1, <2>4 DEF HonestInv, FilesHonest, Publishing, Filing
  <2> QED BY <2>1, <2>2, <2>3, <2>4, <2>5 DEF HonestInv, OperationFits, FilesHonest, Filing,
             Publishing, Publishes, SealFits, Honest, SealedAs, Outcome, At, files
<1>7. CASE NotePublicationFailure
  BY <1>7, HonestWhereUnchanged DEF NotePublicationFailure, TypeOK, history
<1>8. CASE ClearPublicationFailure
  <2>1. /\ op # None /\ op.stage = "clear" /\ op' = None /\ UNCHANGED <<files, torn>>
        /\ row'.status = row.status /\ row'.canceled = row.canceled /\ row'.seal = row.seal
        /\ row'.frozen = row.frozen /\ row'.index = row.index
    BY <1>8 DEF ClearPublicationFailure, At, history, TypeOK
  <2> QED BY <2>1 DEF HonestInv, OperationFits, FilesHonest, Filing, Publishing,
             Publishes, SealFits, Honest, SealedAs, Outcome, At, files
<1> QED BY <1>1, <1>2, <1>3, <1>4, <1>5, <1>6, <1>7, <1>8 DEF Stopping

LEMMA HonestWriting ==
  ASSUME TypeOK, HonestInv, Writing
  PROVE  HonestInv'
<1>1. CASE WriteDocs
  <2>1. /\ op # None /\ op.stage = "docs" /\ docs' = op.docs /\ UNCHANGED <<row, manifest, torn>>
        /\ op.docs # None
    BY <1>1 DEF WriteDocs, At, history, TypeOK, StageOK
  <2>2. /\ op' # None /\ op'.stage = "manifest" /\ op'.name = op.name /\ op'.docs = op.docs
        /\ op'.manifest = op.manifest /\ op'.sources = op.sources
        /\ op'.oldDocs = op.oldDocs /\ op'.oldManifest = op.oldManifest
    BY <1>1, <2>1, StageChanged DEF WriteDocs
  <2> QED BY <2>1, <2>2 DEF HonestInv, OperationFits, FilesHonest, Filing, Publishing,
             Publishes, SealFits, Honest, SealedAs, Outcome, At
<1>2. CASE WriteManifest
  <2>1. /\ op \in Operation /\ op # None /\ op.stage = "manifest" /\ manifest' = op.manifest
        /\ UNCHANGED <<row, docs, torn>>
    BY <1>2 DEF WriteManifest, At, TypeOK, history
  <2>2. CASE op.name = "draft" \/ op.name = "budget"
    <3>1. \/ op' = None
          \/ op' # None /\ op'.name = "complete" /\ op'.stage = "prepare" /\ op'.sources = None
      BY <1>2, <2>2, BeginIsOperation DEF WriteManifest, Begin
    <3> QED BY <2>1, <2>2, <3>1 DEF HonestInv, OperationFits, FilesHonest, Filing, Publishing,
               Publishes, SealFits, Honest, SealedAs, Outcome, At
  <2>3. CASE op.name \in {"complete", "prepare"}
    <3>1. op' = [op EXCEPT !.stage = "commit"]
      BY <1>2, <2>3 DEF WriteManifest
    <3>2. /\ op' # None /\ op'.stage = "commit" /\ op'.name = op.name /\ op'.docs = op.docs
          /\ op'.manifest = op.manifest
      BY <2>1, <3>1, StageChanged
    <3> QED BY <2>1, <2>3, <3>2 DEF HonestInv, OperationFits, FilesHonest, Filing, Publishing,
               Publishes, SealFits, Honest, SealedAs, Outcome, At
  <2>4. CASE Publishes
    <3>1. op' = [op EXCEPT !.stage = "record"]
      BY <1>2, <2>4 DEF WriteManifest, Publishes
    <3>2. /\ op' # None /\ op'.stage = "record" /\ op'.name = op.name /\ op'.docs = op.docs
          /\ op'.manifest = op.manifest /\ op'.sources = op.sources
          /\ op'.oldDocs = op.oldDocs /\ op'.oldManifest = op.oldManifest
      BY <2>1, <3>1, StageChanged
    <3> QED BY <2>1, <2>4, <3>2 DEF HonestInv, OperationFits, FilesHonest, Filing, Publishing,
               Publishes, SealFits, Honest, SealedAs, Outcome, At
  <2> QED BY <2>1, <2>2, <2>3, <2>4 DEF Operation, Publishes
<1>3. CASE WriteFails
  <2>1. /\ op # None /\ op.stage \in {"docs", "manifest", "record"} /\ UNCHANGED torn
    BY <1>3 DEF WriteFails, At
  <2>2. CASE Publishes /\ docs' = op.oldDocs /\ manifest' = op.oldManifest /\ NoteFailure
    <3>1. /\ op' = None
          /\ row'.status = row.status /\ row'.canceled = row.canceled /\ row'.seal = row.seal
          /\ row'.frozen = row.frozen /\ row'.index = row.index
      BY <2>2 DEF NoteFailure, TypeOK
    <3> QED BY <2>1, <2>2, <3>1 DEF HonestInv, OperationFits, FilesHonest, Filing, Publishing,
               Publishes, SealFits, Honest, SealedAs, Outcome, At
  <2>3. CASE op.name \in {"complete", "prepare"} /\ FailHere /\ UNCHANGED files
    <3>1. row.status = "running" /\ ~(Filing /\ Publishes)
      BY <2>1, <2>3 DEF HonestInv, OperationFits, Publishes
    <3> QED BY <2>1, <2>3, <3>1, FailHereHonest
  <2>4. CASE op.name \in {"draft", "budget"} /\ op' = None /\ UNCHANGED <<row, files>>
    BY <2>1, <2>4 DEF HonestInv, OperationFits, FilesHonest, Filing, Publishing,
       Publishes, SealFits, Honest, SealedAs, Outcome, At, files
  <2> QED BY <1>3, <2>2, <2>3, <2>4 DEF WriteFails
<1>4. CASE HelperDies
  <2>1. /\ op # None /\ op' = None /\ UNCHANGED <<row, files>>
        /\ torn' = (torn \/ (row.seal # None /\ op.stage \in {"manifest", "record"}))
    BY <1>4 DEF HelperDies, Unlocked
  <2> QED BY <2>1 DEF HonestInv, OperationFits, FilesHonest, Filing, Publishing,
             Publishes, SealFits, Honest, SealedAs, Outcome, At, files
<1> QED BY <1>1, <1>2, <1>3, <1>4 DEF Writing

LEMMA HonestStep ==
  ASSUME TypeOK, HonestInv, [Next]_vars
  PROVE  HonestInv'
<1>1. CASE UNCHANGED vars
  BY <1>1, HonestWhereUnchanged DEF vars, history
<1> QED BY <1>1, HonestSaving, HonestCompleting, HonestStopping, HonestWriting DEF Next

-----------------------------------------------------------------------------
(* What was saved *)

LEMMA SavedGrows ==
  ASSUME TypeOK, TypeOK', checkpoints \subseteq checkpoints',
         \A w \in Workers : result[w] # None => result'[w] # None /\ result[w] \subseteq result'[w]
  PROVE  Saved \subseteq Saved'
<1> SUFFICES ASSUME NEW f \in Saved PROVE f \in Saved'
  OBVIOUS
<1>1. \/ \E c \in checkpoints : f \in c
      \/ \E w \in Workers : result[w] # None /\ f \in result[w]
  BY WhatIsSaved
<1>2. Saved' = FindingsOf(Sources')
  BY DEF Saved
<1>3. CASE \E c \in checkpoints : f \in c
  <2>1. PICK c \in checkpoints : f \in c
    BY <1>3
  <2>2. <<"saved", c>> \in Sources' /\ <<"saved", c>>[2] = c
    BY DEF Sources
  <2> QED BY <1>2, <2>1, <2>2, FindingsOfSources
<1>4. CASE \E w \in Workers : result[w] # None /\ f \in result[w]
  <2>1. PICK w \in Workers : result[w] # None /\ f \in result[w]
    BY <1>4
  <2>2. <<w, result'[w]>> \in Sources' /\ <<w, result'[w]>>[2] = result'[w]
    BY <2>1 DEF Sources
  <2> QED BY <1>2, <2>1, <2>2, FindingsOfSources
<1> QED BY <1>1, <1>3, <1>4

\* A checkpoint is saved.
LEMMA CheckpointSaved ==
  ASSUME NEW D, D \in checkpoints'
  PROVE  D \subseteq Saved'
<1>1. <<"saved", D>> \in Sources' /\ <<"saved", D>>[2] = D
  BY DEF Sources
<1> QED BY <1>1, FindingsOfSources DEF Saved

\* Steps that change no file, freeze nothing and file nothing.
LEMMA SafeWhereQuiet ==
  ASSUME SavedIsSafe, UNCHANGED <<files, atStop>>, Saved \subseteq Saved',
         \/ op' = op
         \/ op' = None
         \/ op' # None /\ op'.stage \in {"prepare", "clear", "commit"}
         \/ op' # None /\ op'.stage = "preserve" /\ op'.name # "recover",
         \/ row'.status = row.status /\ row'.frozen = row.frozen /\ row'.seal = row.seal
         \/ row'.status # "failed" /\ op' = None
  PROVE  SavedIsSafe'
<1>1. /\ SealSaved(docs, manifest)' /\ Whole(manifest)'
  BY DEF SavedIsSafe, SealSaved, Whole, Kept, files
<1>2. CASE ~Filing' /\ ~(Publishing /\ op.stage = "preserve" /\ op.name = "recover")'
  BY <1>1, <1>2 DEF SavedIsSafe, Recoverable, Filing, Kept, files
<1>3. CASE op' = op
  <2>1. row'.frozen = row.frozen => (KeepsParent' <=> KeepsParent)
    BY <1>3 DEF KeepsParent, ReadsParent, HasParent, FrozenSources, files
  <2> QED BY <1>1, <1>3, <2>1 DEF SavedIsSafe, SealSaved, Whole, Recoverable, Filing, Publishing,
             Publishes, Kept, files
<1> QED BY <1>2, <1>3 DEF Filing, Publishing

LEMMA SafeSaving ==
  ASSUME TypeOK, TypeOK', HonestInv, SavedIsSafe, Saving
  PROVE  SavedIsSafe'
<1>1. PICK F \in Drafts : \/ \E w \in Workers : WorkerWrites(w, F)
                        \/ \E complete, seen \in BOOLEAN : WriteDraft(F, complete, seen)
  BY DEF Saving
<1>2. CASE \E w \in Workers : WorkerWrites(w, F)
  <2>1. PICK w \in Workers : WorkerWrites(w, F)
    BY <1>2
  <2>2. \A x \in Workers : result[x] # None => result'[x] # None /\ result[x] \subseteq result'[x]
    <3>1. result' = [result EXCEPT ![w] = IF result[w] = None THEN F ELSE result[w] \cup F]
      BY <2>1 DEF WorkerWrites
    <3>2. result[w] # None => result[w] \cup F \in Documents
      BY DocumentsClosed DEF TypeOK
    <3> QED BY <3>1, <3>2, NoneIsNothing DEF TypeOK
  <2>3. Saved \subseteq Saved'
    BY <2>1, <2>2, SavedGrows DEF WorkerWrites
  <2> QED BY <2>1, <2>3, SafeWhereQuiet DEF WorkerWrites, history
<1>3. CASE \E complete, seen \in BOOLEAN : WriteDraft(F, complete, seen)
  <2>1. PICK complete \in BOOLEAN, seen \in BOOLEAN : WriteDraft(F, complete, seen)
    BY <1>3
  <2>2. /\ UNCHANGED <<row, files, atStop>> /\ row.status = "running"
        /\ checkpoints' = checkpoints \cup {F} /\ result' = result
    BY <2>1 DEF WriteDraft, history
  <2>3. Saved \subseteq Saved' /\ F \subseteq Saved'
    BY <2>2, SavedGrows, CheckpointSaved
  <2>4. CASE ~seen
    BY <2>1, <2>2, <2>3, <2>4, SafeWhereQuiet DEF WriteDraft
  <2>5. CASE seen
    <3>1. /\ op'.name = "draft" /\ op'.stage = "docs" /\ op'.manifest = Draft(complete)
          /\ op'.docs = IF docs = None THEN F ELSE F \cup docs
      BY <2>1, <2>5 DEF WriteDraft, Begin
    <3>2. ~Draft(complete).sealed
      BY DraftIsManifest
    <3>3. SealSaved(docs, manifest)' /\ Whole(manifest)' /\ SealSaved(op.docs, manifest)'
      BY <2>2, <2>3, <3>1 DEF SavedIsSafe, SealSaved, Whole, Kept, files
    <3> QED BY <2>2, <3>1, <3>2, <3>3 DEF SavedIsSafe, SealSaved, Whole, Filing, Publishing,
               Publishes, Kept, files
  <2> QED BY <2>4, <2>5
<1> QED BY <1>1, <1>2, <1>3

\* The scan stops: what is saved is written down.
LEMMA SafeStop ==
  ASSUME TypeOK, TypeOK', HonestInv, SavedIsSafe, row.status = "running",
         row'.status = "failed", row'.frozen = row.frozen, row'.seal = row.seal,
         atStop' = SavedNow, UNCHANGED <<files, evidence>>,
         op' # None, op'.stage = "preserve", op'.name = "stop"
  PROVE  SavedIsSafe'
<1>1. row.seal = None /\ row.frozen = None
  BY DEF HonestInv, OperationFits
<1>2. Saved' = Saved
  BY DEF Saved, Sources, evidence
<1>3. \A f \in Kept' : f \in Saved \/ (docs # None /\ manifest # None /\ f \in docs)
  <2>1. Kept' = FindingsOf(Sources) \cup FindingsOf(IF HasParent THEN {<<"saved", docs>>} ELSE {})
    BY FindingsOfSources DEF Kept, SavedNow
  <2>2. FindingsOf({<<"saved", docs>>}) = docs
    BY FindingsOfOne
  <2>3. FindingsOf({}) = {}
    BY FindingsOfSources
  <2> QED BY <2>1, <2>2, <2>3 DEF Saved, HasParent
<1>4. Whole(manifest)'
  BY DEF HonestInv, FilesHonest, SealFits, Whole, files
<1>5. SealSaved(docs, manifest)'
  BY <1>2 DEF SavedIsSafe, SealSaved, files
<1>6. Recoverable(docs, manifest)' /\ row'.frozen = None
  BY <1>1, <1>2, <1>3, NoneIsNothing DEF Recoverable, files
<1> QED BY <1>4, <1>5, <1>6 DEF SavedIsSafe, Filing, Publishing

LEMMA SafeFailHere ==
  ASSUME TypeOK, TypeOK', HonestInv, SavedIsSafe, row.status = "running", FailHere,
         UNCHANGED <<files, evidence>>
  PROVE  SavedIsSafe'
<1>1. row'.status = "failed" /\ row'.frozen = row.frozen /\ row'.seal = row.seal /\ atStop' = SavedNow
  BY DEF FailHere, StoppedRow, TypeOK
<1>2. op' # None /\ op'.name = "stop" /\ op'.stage = "preserve"
  BY BeginIsOperation DEF FailHere
<1> QED BY <1>1, <1>2, SafeStop

LEMMA SafeCompleting ==
  ASSUME TypeOK, TypeOK', HonestInv, SavedIsSafe, Completing
  PROVE  SavedIsSafe'
<1>0. UNCHANGED evidence => Saved' = Saved
  BY DEF Saved, Sources, evidence
<1>1. ASSUME NEW name \in {"complete", "prepare"}, BeginCompletion(name)
      PROVE  SavedIsSafe'
  <2>1. op' # None /\ op'.stage = "prepare"
    BY <1>1, BeginIsOperation DEF BeginCompletion
  <2> QED BY <1>0, <1>1, <2>1, SafeWhereQuiet DEF BeginCompletion, history
<1>2. CASE BeginBudgetExhausted
  <2>1. /\ row.status = "running" /\ UNCHANGED <<row, files, evidence, atStop>> /\ ~IsSealed
        /\ op'.name = "budget" /\ op'.stage = "docs"
        /\ op'.manifest = (IF manifest = None THEN Draft(TRUE) ELSE manifest)
    BY <1>2 DEF BeginBudgetExhausted, Begin, history
  <2>2. op'.manifest # None /\ ~op'.manifest.sealed
    BY <2>1, DraftIsManifest, NoneIsNothing DEF IsSealed
  <2> QED BY <1>0, <2>1, <2>2 DEF SavedIsSafe, SealSaved, Whole, Filing, Publishing, Publishes,
             IsSealed, files
<1>3. CASE Prepare
  <2>1. /\ op \in Operation /\ op # None /\ op.name \in {"complete", "prepare"} /\ HasParent
        /\ UNCHANGED <<row, files, result, atStop>>
    BY <1>3 DEF Prepare, Publishable, At, TypeOK, history
  <2>2. row.status = "running"
    BY <2>1 DEF HonestInv, OperationFits, Publishes
  <2>3. docs \in Documents /\ manifest \in Manifest
    BY <2>1 DEF HasParent, TypeOK
  <2>4. CASE manifest.sealed
    <3>1. /\ op' = [op EXCEPT !.stage = "commit", !.docs = docs, !.manifest = manifest]
          /\ UNCHANGED checkpoints
      BY <1>3, <2>4 DEF Prepare
    <3>2. op'.stage = "commit" /\ op' \in Operation
      BY <2>1, <2>3, <3>1 DEF Operation
    <3>3. Saved' = Saved
      BY <2>1, <3>1 DEF Saved, Sources
    <3> QED BY <2>1, <3>2, <3>3, NoneIsNothing, SafeWhereQuiet
  <2>5. CASE ~manifest.sealed
    <3> DEFINE D == docs \cup Results
               m == Sealed("completed", Sources \cup {<<"saved", docs>>}, D)
    <3>1. /\ op' = [op EXCEPT !.stage = "docs", !.docs = D, !.manifest = m]
          /\ checkpoints' = checkpoints \cup {docs}
      BY <1>3, <2>5 DEF Prepare
    <3>2. Saved \subseteq Saved' /\ docs \subseteq Saved'
      BY <2>1, <3>1, SavedGrows, CheckpointSaved
    <3>3. D \subseteq Saved'
      BY <3>2, WhatIsSaved
    <3>4. m.status = "completed"
      BY DEF Sealed
    <3> HIDE DEF D, m
    <3>5. op'.stage = "docs" /\ op'.docs = D /\ op'.manifest = m /\ op'.name = op.name
      BY <2>1, <3>1 DEF Operation
    <3> QED BY <2>1, <2>2, <3>2, <3>3, <3>4, <3>5 DEF SavedIsSafe, SealSaved, Whole, Filing,
               Publishing, Publishes, Kept, files
  <2> QED BY <2>4, <2>5
<1>4. CASE PrepareFails
  <2>1. op # None /\ op.name \in {"complete", "prepare"} /\ UNCHANGED <<files, evidence>>
    BY <1>4 DEF PrepareFails, At
  <2>2. row.status = "running"
    BY <2>1 DEF HonestInv, OperationFits, Publishes
  <2>3. CASE FailHere
    BY <2>1, <2>2, <2>3, SafeFailHere
  <2>4. CASE op' = None /\ UNCHANGED <<row, atStop>>
    BY <1>0, <2>1, <2>4, SafeWhereQuiet
  <2> QED BY <1>4, <2>3, <2>4 DEF PrepareFails
<1>5. CASE CommitCompletion
  <2>1. op' = None /\ UNCHANGED <<files, evidence, atStop>>
    BY <1>5 DEF CommitCompletion, history
  <2>2. row' = row \/ row'.status = "complete"
    BY <1>5 DEF CommitCompletion, TypeOK
  <2> QED BY <1>0, <2>1, <2>2, SafeWhereQuiet
<1> QED BY <1>1, <1>2, <1>3, <1>4, <1>5 DEF Completing

\* What a merge takes together contains all that was saved at the stop, and
\* nothing that is not saved.
LEMMA MergeIsWhole ==
  ASSUME TypeOK, TypeOK', HonestInv, SavedIsSafe, MergeSaved, Saved \subseteq Saved'
  PROVE  /\ Kept \subseteq FindingsOf(MergedSources)
         /\ FindingsOf(MergedSources) \subseteq MergedFindings
         /\ MergedFindings \subseteq Saved'
<1>1. /\ op \in Operation /\ op # None /\ op.stage = "preserve" /\ Mergeable
      /\ checkpoints' = checkpoints \cup (IF KeepsParent THEN {docs} ELSE {})
  BY DEF MergeSaved, At, TypeOK
<1>2. Publishes /\ row.status = "failed" /\ (op.sources # None <=> op.name = "recover")
  BY <1>1 DEF HonestInv, OperationFits, Publishing, Operation, Publishes
<1> DEFINE M == IF FrozenSources = None THEN Sources ELSE FrozenSources
<1>3. FindingsOf(MergedSources) = FindingsOf(ParentCopy) \cup FindingsOf(M)
  BY FindingsOfSources DEF MergedSources
<1>4. FindingsOf(ParentCopy) = (IF KeepsParent THEN docs ELSE {})
  BY FindingsOfOne, FindingsOfSources DEF ParentCopy
<1>5. ReadsParent => HasParent /\ (KeepsParent \/ docs \subseteq Saved)
  BY <1>1 DEF ReadsParent, KeepsParent, HasParent, SavedIsSafe, SealSaved
<1>6. KeepsParent => docs \subseteq Saved'
  BY <1>1, CheckpointSaved
<1>7. Kept \subseteq FindingsOf(MergedSources)
  <2> SUFFICES ASSUME NEW f \in Kept
               PROVE  f \in FindingsOf(M) \/ (KeepsParent /\ f \in docs)
    BY <1>3, <1>4
  <2>1. CASE op.sources # None
    BY <1>1, <1>2, <2>1 DEF SavedIsSafe, Publishing, FrozenSources
  <2>2. CASE op.sources = None /\ row.frozen # None
    BY <1>2, <2>2 DEF SavedIsSafe, FrozenSources
  <2>3. CASE op.sources = None /\ row.frozen = None
    <3>1. FrozenSources = None /\ FindingsOf(M) = Saved
      BY <2>3 DEF FrozenSources, Saved
    <3>2. f \in Saved \/ (HasParent /\ f \in docs)
      BY <1>2, <2>3 DEF SavedIsSafe, Recoverable, HasParent
    <3>3. HasParent => ReadsParent
      BY <3>1 DEF ReadsParent
    <3> QED BY <1>5, <3>1, <3>2, <3>3
  <2> QED BY <2>1, <2>2, <2>3
<1>8. MergedFindings \subseteq Saved'
  <2>1. FindingsOf(M) \subseteq Saved \cup FindingsOf(ParentCopy)
    <3>1. M \subseteq Sources \cup ParentCopy
      BY <1>1 DEF Mergeable
    <3>2. FindingsOf(M) \subseteq FindingsOf(Sources \cup ParentCopy)
      BY <3>1, FindingsOfSources
    <3> QED BY <3>2, FindingsOfSources DEF Saved
  <2> HIDE DEF M
  <2> QED BY <1>3, <1>4, <1>5, <1>6, <2>1 DEF MergedFindings
<1> QED BY <1>7, <1>8 DEF MergedFindings

LEMMA MergeNothing ==
  ASSUME TypeOK, MergeSaved, op' = None
  PROVE  row' = row
<1>1. op \in Operation /\ op # None
  BY DEF MergeSaved, At, TypeOK
<1>2. CASE ReadsParent \/ MergedSources # {}
  <2> DEFINE D == MergedFindings
             m == Sealed(Outcome, MergedSources, MergedFindings)
             new == [op EXCEPT !.stage = "docs", !.docs = D, !.manifest = m,
                               !.oldDocs = docs, !.oldManifest = manifest]
  <2>1. op' = new
    BY <1>2 DEF MergeSaved
  <2>2. D \in Documents /\ m \in Manifest
    BY <1>1, MergedType, SealedIsManifest DEF Outcome
  <2>3. docs \in {None} \cup Documents /\ manifest \in {None} \cup Manifest
    BY DEF TypeOK
  <2> HIDE DEF D, m
  <2>4. new \in Operation
    BY <1>1, <2>2, <2>3 DEF Operation
  <2> QED BY <2>1, <2>4, NoneIsNothing
<1> QED BY <1>2 DEF MergeSaved

LEMMA SafeStopping ==
  ASSUME TypeOK, TypeOK', HonestInv, SavedIsSafe, Stopping
  PROVE  SavedIsSafe'
<1>0. UNCHANGED evidence => Saved' = Saved
  BY DEF Saved, Sources, evidence
<1>1. ASSUME NEW canceled \in BOOLEAN, StopScan(canceled)
      PROVE  SavedIsSafe'
  <2>1. op' # None /\ op'.name = "stop" /\ op'.stage = "preserve"
    BY <1>1, BeginIsOperation DEF StopScan
  <2>2. /\ row'.status = "failed" /\ row'.frozen = row.frozen /\ row'.seal = row.seal
    BY <1>1 DEF StopScan, StoppedRow, TypeOK
  <2> QED BY <1>1, <2>1, <2>2, SafeStop DEF StopScan
<1>2. CASE PreserveResults
  <2>1. op' # None /\ op'.stage = "preserve" /\ op'.name = "preserve"
    BY <1>2, BeginIsOperation DEF PreserveResults
  <2> QED BY <1>0, <1>2, <2>1, SafeWhereQuiet DEF PreserveResults, history
<1>3. CASE RecoverResults
  <2> DEFINE tail == IF IsSealed THEN Published = {} ELSE row.frozen = None
             new == [Begin("recover", "preserve") EXCEPT !.sources = Sources, !.parentToo = tail]
             before == IF Published # {} THEN Published
                       ELSE IF row.frozen # None THEN row.frozen ELSE {}
  <2>1. /\ op' = new /\ UNCHANGED <<row, files, evidence, history>> /\ row.status = "failed"
        /\ (Published # {} => row.frozen \in {None, Published})
        /\ before \subseteq Sources
    BY <1>3 DEF RecoverResults
  <2>2. Begin("recover", "preserve") \in Operation /\ Sources \in SUBSET Source
    BY BeginIsOperation, WhatIsSaved
  <2>3. /\ new.stage = "preserve" /\ new.sources = Sources /\ new.name = "recover"
        /\ new.parentToo = tail
    BY <2>2 DEF Operation, Begin
  <2>4. row.frozen # None => row.frozen \subseteq Sources
    BY <2>1
  <2> HIDE DEF new, before
  <2>5. ASSUME NEW f \in Kept
        PROVE  f \in FindingsOf(Sources) \/ (KeepsParent' /\ f \in docs)
    <3>1. CASE row.frozen # None
      <4>1. f \in FindingsOf(row.frozen)
        BY <2>1, <3>1 DEF SavedIsSafe
      <4> QED BY <2>4, <3>1, <4>1, FindingsOfSources
    <3>2. CASE row.frozen = None
      <4>1. f \in Saved \/ (HasParent /\ f \in docs)
        BY <2>1, <3>2 DEF SavedIsSafe, Recoverable, HasParent
      <4>2. CASE IsSealed
        BY <4>1, <4>2 DEF SavedIsSafe, SealSaved, IsSealed, HasParent, Saved
      <4>3. CASE ~IsSealed /\ HasParent
        <5>1. op'.parentToo
          BY <2>1, <2>3, <3>2, <4>3
        <5>2. KeepsParent'
          BY <2>1, <4>3, <5>1 DEF KeepsParent, ReadsParent, HasParent, files
        <5> QED BY <4>1, <5>2 DEF Saved
      <4> QED BY <4>1, <4>2, <4>3 DEF Saved
    <3> QED BY <3>1, <3>2
  <2>6. Saved' = Saved /\ UNCHANGED <<row, docs, manifest, atStop>>
    BY <1>0, <2>1 DEF files, history
  <2>7. op'.stage = "preserve" /\ op'.sources = Sources
    BY <2>1, <2>3
  <2> QED BY <2>5, <2>6, <2>7 DEF SavedIsSafe, SealSaved, Whole, Recoverable, Filing, Publishing, Kept
<1>4. CASE RecordExisting
  <2>1. /\ op # None /\ op.stage = "preserve" /\ UNCHANGED <<row, docs, manifest, evidence, atStop>>
        /\ SealIntact /\ AlreadyPublished
    BY <1>4 DEF RecordExisting, At, history, files
  <2>2. Publishes /\ row.status = "failed"
    BY <2>1 DEF HonestInv, OperationFits, TypeOK, Operation, Publishes
  <2>3. SealHolds /\ manifest.status = Outcome
    BY <2>1 DEF SealIntact, AlreadyPublished, IsSealed
  <2>4. /\ docs # None /\ manifest # None /\ manifest.sealed
        /\ op' # None /\ op'.name = op.name
        /\ \/ /\ op'.stage = "clear"
           \/ /\ op'.stage = "record" /\ op'.docs = docs /\ op'.manifest = manifest
              /\ op'.oldDocs = docs /\ op'.oldManifest = manifest
    BY <1>4, ExistingRecorded, NoneIsNothing
  <2>5. Kept \subseteq FindingsOf(manifest.sources) /\ Kept \subseteq docs
    BY <2>3, <2>4 DEF SavedIsSafe, Whole, SealHolds, Outcome
  <2> QED BY <1>0, <2>1, <2>2, <2>4, <2>5 DEF SavedIsSafe, SealSaved, Whole, Recoverable, Filing,
             Publishing, Publishes, Kept
<1>5. CASE MergeSaved
  <2>1. /\ op # None /\ op.stage = "preserve" /\ UNCHANGED <<docs, manifest, atStop>>
        /\ checkpoints \subseteq checkpoints' /\ result' = result
    BY <1>5 DEF MergeSaved, At, history, files
  <2>2. Saved \subseteq Saved'
    BY <2>1, SavedGrows
  <2>3. CASE op' = None
    BY <1>5, <2>1, <2>2, <2>3, MergeNothing, SafeWhereQuiet DEF files
  <2>4. CASE op' # None
    <3>1. /\ op \in Operation /\ op'.stage = "docs" /\ op'.name = op.name
          /\ op'.docs = MergedFindings /\ op'.manifest = Sealed(Outcome, MergedSources, MergedFindings)
          /\ op'.oldDocs = docs /\ op'.oldManifest = manifest
      BY <1>5, <2>4, MergeSavedEffect
    <3>2. /\ row'.status = row.status /\ row'.seal = row.seal
          /\ row'.frozen = IF FrozenSources = None THEN MergedSources ELSE row.frozen
      BY <1>5, <2>4, MergeSavedEffect DEF TypeOK
    <3>3. Publishes /\ row.status = "failed"
      BY <2>1, <3>1 DEF HonestInv, OperationFits, Operation, Publishes
    <3>4. /\ Kept \subseteq FindingsOf(MergedSources)
          /\ FindingsOf(MergedSources) \subseteq MergedFindings
          /\ MergedFindings \subseteq Saved'
      BY <1>5, <2>2, MergeIsWhole
    <3>5. MergedSources # None
      BY <2>1, MergedType, NoneIsNothing
    <3>6. FrozenSources = None => row.frozen = None
      BY NoneIsNothing DEF FrozenSources
    <3>7. FrozenSources = None /\ MergedSources = {} => manifest # None
      <4>1. ReadsParent \/ MergedSources # {}
        BY <1>5, <2>4 DEF MergeSaved
      <4> QED BY <4>1 DEF ReadsParent, HasParent
    <3>8. /\ op'.manifest.sources = MergedSources /\ op'.manifest.artifact = op'.docs
      BY <3>1 DEF Sealed
    <3>9. /\ SealSaved(docs, manifest)' /\ Whole(manifest)'
      BY <2>1, <2>2 DEF SavedIsSafe, SealSaved, Whole, Kept
    <3>10. /\ SealSaved(op.docs, manifest)' /\ SealSaved(op.docs, op.manifest)'
           /\ SealSaved(op.oldDocs, op.oldManifest)'
      BY <2>1, <3>1, <3>4, <3>9 DEF SealSaved
    <3>11. Whole(op.manifest)' /\ Whole(op.oldManifest)'
      BY <2>1, <3>1, <3>4, <3>8, <3>9 DEF Whole, Kept
    <3>12. Recoverable(docs, manifest)' /\ Recoverable(op.oldDocs, op.oldManifest)'
      <4>1. Recoverable(docs, manifest)
        BY <3>3 DEF SavedIsSafe
      <4>2. Recoverable(docs, manifest)'
        BY <2>1, <2>2, <3>2, <3>5, <3>6, <3>7, <4>1 DEF Recoverable, Kept
      <4> QED BY <2>1, <3>1, <4>2 DEF Recoverable
    <3>13. row'.frozen # None => Kept \subseteq FindingsOf(row'.frozen)
      BY <3>2, <3>3, <3>4 DEF SavedIsSafe
    <3>14. Kept' = Kept
      BY <2>1 DEF Kept
    <3> QED BY <2>1, <2>4, <3>1, <3>2, <3>3, <3>4, <3>8, <3>9, <3>10, <3>11, <3>12, <3>13, <3>14
            DEF SavedIsSafe, Filing, Publishing, Publishes
  <2> QED BY <2>3, <2>4
<1>6. CASE MergeFails
  <2>1. row'.status = row.status /\ row'.frozen = row.frozen /\ row'.seal = row.seal /\ op' = None
    BY <1>6 DEF MergeFails, NoteFailure, TypeOK
  <2> QED BY <1>0, <1>6, <2>1, SafeWhereQuiet DEF MergeFails, history
<1>7. CASE RecordPublication
  <2>1. /\ op # None /\ op.stage = "record" /\ op' = [op EXCEPT !.stage = "clear"]
        /\ UNCHANGED <<docs, manifest, evidence, atStop>> /\ HasParent
    BY <1>7 DEF RecordPublication, At, history, files, TypeOK, StageOK
  <2>2. op' # None /\ op'.stage = "clear"
    BY <2>1, StageChanged
  <2>3. row'.status = row.status /\ row'.seal = manifest /\ row'.frozen = manifest.sources
    BY <1>7 DEF RecordPublication, TypeOK
  <2>4. Publishing /\ row.status = "failed"
    BY <2>1 DEF HonestInv, OperationFits, Publishing, TypeOK, Operation, Publishes
  <2>5. docs = op.docs /\ manifest = op.manifest
    BY <2>1, <2>4 DEF HonestInv, FilesHonest
  <2>6. Kept \subseteq docs /\ Kept \subseteq FindingsOf(manifest.sources)
    BY <2>1, <2>4, <2>5 DEF SavedIsSafe, Filing
  <2>7. manifest.sources # None
    BY <2>1, ManifestFields, NoneIsNothing DEF TypeOK, HasParent
  <2>8. Recoverable(docs, manifest)'
    BY <2>1, <2>3, <2>6, <2>7 DEF Recoverable, HasParent, Kept
  <2>9. SealSaved(docs, manifest)' /\ Whole(manifest)' /\ Kept' = Kept
    BY <1>0, <2>1 DEF SavedIsSafe, SealSaved, Whole, Kept
  <2> QED BY <2>2, <2>3, <2>6, <2>8, <2>9 DEF SavedIsSafe, Filing, Publishing
<1>8. CASE NotePublicationFailure \/ ClearPublicationFailure
  <2>1. row'.status = row.status /\ row'.frozen = row.frozen /\ row'.seal = row.seal
    BY <1>8 DEF NotePublicationFailure, ClearPublicationFailure, TypeOK
  <2>2. (op' = op \/ op' = None) /\ UNCHANGED <<files, evidence, atStop>>
    BY <1>8 DEF NotePublicationFailure, ClearPublicationFailure, history
  <2> QED BY <1>0, <2>1, <2>2, SafeWhereQuiet
<1> QED BY <1>1, <1>2, <1>3, <1>4, <1>5, <1>6, <1>7, <1>8 DEF Stopping

LEMMA SafeWriting ==
  ASSUME TypeOK, TypeOK', HonestInv, SavedIsSafe, Writing
  PROVE  SavedIsSafe'
<1>0. UNCHANGED evidence => Saved' = Saved
  BY DEF Saved, Sources, evidence
<1>1. CASE WriteDocs
  <2>1. /\ op # None /\ op.stage = "docs" /\ docs' = op.docs /\ op.docs # None
        /\ UNCHANGED <<row, manifest, evidence, atStop>>
    BY <1>1 DEF WriteDocs, At, history, TypeOK, StageOK
  <2>2. /\ op' # None /\ op'.stage = "manifest" /\ op'.name = op.name /\ op'.docs = op.docs
        /\ op'.manifest = op.manifest /\ op'.sources = op.sources
        /\ op'.oldDocs = op.oldDocs /\ op'.oldManifest = op.oldManifest
    BY <1>1, <2>1, StageChanged DEF WriteDocs
  <2>3. ASSUME row.status = "failed"
        PROVE  Recoverable(docs, manifest)'
    <3>1. Recoverable(docs, manifest) /\ Kept \subseteq op.docs
      BY <2>1, <2>3 DEF SavedIsSafe, Filing
    <3> QED BY <1>0, <2>1, <3>1 DEF Recoverable, Kept
  <2> QED BY <1>0, <2>1, <2>2, <2>3 DEF SavedIsSafe, SealSaved, Whole, Recoverable, Filing,
             Publishing, Publishes, Kept
<1>2. CASE WriteManifest
  <2>1. /\ op \in Operation /\ op # None /\ op.stage = "manifest" /\ manifest' = op.manifest
        /\ op.manifest # None /\ docs # None /\ UNCHANGED <<row, docs, evidence, atStop>>
    BY <1>2 DEF WriteManifest, At, TypeOK, StageOK, history
  <2>2. docs = op.docs
    BY <2>1 DEF HonestInv, FilesHonest, Publishing
  <2>3. SealSaved(docs, manifest)'
    BY <1>0, <2>1, <2>2 DEF SavedIsSafe, SealSaved
  <2>4. CASE Publishes
    <3>1. op' = [op EXCEPT !.stage = "record"]
      BY <1>2, <2>4 DEF WriteManifest, Publishes
    <3>2. /\ op' # None /\ op'.stage = "record" /\ op'.name = op.name /\ op'.docs = op.docs
          /\ op'.manifest = op.manifest
          /\ op'.oldDocs = op.oldDocs /\ op'.oldManifest = op.oldManifest
      BY <2>1, <3>1, StageChanged
    <3>3. Filing /\ row.status = "failed" /\ Whole(op.manifest) /\ Kept \subseteq op.docs
      BY <2>1, <2>4 DEF HonestInv, OperationFits, SavedIsSafe, Filing
    <3>4. Recoverable(docs, manifest)'
      BY <2>1, <2>2, <3>3 DEF SavedIsSafe, Recoverable, Kept
    <3> QED BY <1>0, <2>1, <2>3, <2>4, <3>2, <3>3, <3>4 DEF SavedIsSafe, SealSaved, Whole,
               Recoverable, Filing, Publishing, Publishes, Kept
  <2>5. CASE ~Publishes
    <3>1. row.status = "running"
      BY <2>1, <2>5 DEF HonestInv, OperationFits
    <3>2. \/ op' = None
          \/ op' = Begin("complete", "prepare")
          \/ op' = [op EXCEPT !.stage = "commit"]
      BY <1>2, <2>1, <2>5 DEF WriteManifest, Publishes, Operation
    <3>3. op' = None \/ (op' # None /\ op'.stage \in {"prepare", "commit"})
      <4>1. CASE op' = [op EXCEPT !.stage = "commit"]
        BY <2>1, <4>1, StageChanged
      <4> QED BY <3>2, <4>1, BeginIsOperation
    <3>4. Whole(manifest)'
      BY <2>1 DEF SavedIsSafe, Whole, Filing, Kept
    <3> QED BY <2>1, <2>3, <3>1, <3>3, <3>4 DEF SavedIsSafe, Filing, Publishing
  <2> QED BY <2>4, <2>5
<1>3. CASE WriteFails
  <2>1. /\ op # None /\ op.stage \in {"docs", "manifest", "record"} /\ UNCHANGED evidence
    BY <1>3 DEF WriteFails, At
  <2>2. CASE /\ Publishes /\ docs' = op.oldDocs /\ manifest' = op.oldManifest /\ NoteFailure
             /\ UNCHANGED atStop
    <3>1. /\ op' = None
          /\ row'.status = row.status /\ row'.seal = row.seal /\ row'.frozen = row.frozen
      BY <2>2 DEF NoteFailure, TypeOK
    <3> QED BY <1>0, <2>1, <2>2, <3>1 DEF SavedIsSafe, SealSaved, Whole, Recoverable, Filing,
               Publishing, Kept
  <2>3. CASE op.name \in {"complete", "prepare"} /\ FailHere /\ UNCHANGED files
    <3>1. row.status = "running"
      BY <2>1, <2>3 DEF HonestInv, OperationFits, Publishes
    <3> QED BY <2>1, <2>3, <3>1, SafeFailHere
  <2>4. CASE op' = None /\ UNCHANGED <<row, files, atStop>>
    BY <1>0, <2>1, <2>4, SafeWhereQuiet
  <2> QED BY <1>3, <2>2, <2>3, <2>4 DEF WriteFails
<1>4. CASE HelperDies
  BY <1>0, <1>4, SafeWhereQuiet DEF HelperDies
<1> QED BY <1>1, <1>2, <1>3, <1>4 DEF Writing

LEMMA SafeStep ==
  ASSUME TypeOK, TypeOK', HonestInv, SavedIsSafe, [Next]_vars
  PROVE  SavedIsSafe'
<1>1. CASE UNCHANGED vars
  <2>1. Saved' = Saved
    BY <1>1 DEF vars, Saved, Sources, evidence
  <2> QED BY <1>1, <2>1, SafeWhereQuiet DEF vars, history
<1> QED BY <1>1, SafeSaving, SafeCompleting, SafeStopping, SafeWriting DEF Next

-----------------------------------------------------------------------------
(* What follows *)

LEMMA ResultsStart == Init => ResultsInv
<1> SUFFICES ASSUME Init PROVE ResultsInv
  OBVIOUS
<1>1. /\ row.status = "running" /\ row.seal = None /\ row.frozen = None /\ docs = None
      /\ manifest = None /\ op = None /\ atStop = {} /\ torn = FALSE
      /\ checkpoints = {} /\ result \in [Workers -> {None} \cup Documents]
      /\ kind \in [deep : BOOLEAN, cli : BOOLEAN]
  BY DEF Init
<1>2. row \in Row
  BY DEF Init, Row
<1>3. TypeOK
  BY <1>1, <1>2 DEF TypeOK, StageOK, Row
<1>4. HonestInv
  BY <1>1 DEF HonestInv, OperationFits, FilesHonest, Filing, Publishing, SealFits, Honest, At
<1>5. SavedIsSafe
  BY <1>1 DEF SavedIsSafe, SealSaved, Whole, Filing, Publishing
<1> QED BY <1>3, <1>4, <1>5 DEF ResultsInv, HonestInv

LEMMA ResultsHold == Spec => []ResultsInv
<1>1. ResultsInv /\ [Next]_vars => ResultsInv'
  <2> SUFFICES ASSUME ResultsInv, [Next]_vars PROVE ResultsInv'
    OBVIOUS
  <2>1. TypeOK /\ HonestInv /\ SavedIsSafe
    BY DEF ResultsInv, HonestInv
  <2>2. TypeOK'
    BY <2>1, TypeStep
  <2>3. HonestInv'
    BY <2>1, HonestStep
  <2>4. SavedIsSafe'
    BY <2>1, <2>2, SafeStep
  <2> QED BY <2>2, <2>3, <2>4 DEF ResultsInv, HonestInv
<1> QED BY <1>1, ResultsStart, PTL DEF Spec

\* Whatever was prepared, cut, restored or recovered on the way, the digest in
\* the row is that of the manifest on disk, which seals the findings on disk,
\* which are the ones the database indexes, under the outcome of the scan
\* (record_publication and complete_scan_locked).
THEOREM SealsAreHonest == Spec => []SealIsHonest
<1>1. ResultsInv => SealIsHonest
  <2>1. TypeOK => row.status \in {"running", "failed", "complete"}
    BY DEF TypeOK
  <2> QED BY <2>1 DEF ResultsInv, FilesHonest, SealIsHonest, Honest, Unlocked, Filing, SealHolds,
             SealedAs
<1> QED BY <1>1, ResultsHold, PTL

\* What was saved when a scan stopped is among the findings it publishes,
\* however often the publication was cut, repeated or extended
\* (merge_saved_results and preserve_scan_results_locked).
THEOREM NothingSavedIsLost == Spec => []StoppedResultsArePublished
<1>1. ResultsInv => StoppedResultsArePublished
  BY DEF ResultsInv, SavedIsSafe, Recoverable, StoppedResultsArePublished, Kept
<1> QED BY <1>1, ResultsHold, PTL

\* A stopped scan whose results are saved and not published is offered for
\* recovery, whatever interrupted the publication, as long as no rewriting of a
\* sealed scan was cut (scan_results_recovery_needed).
THEOREM SavedIsOffered == Spec => []RecoveryIsOffered
<1>1. ASSUME ResultsInv PROVE RecoveryIsOffered
  <2> SUFFICES ASSUME row.status = "failed", ~row.canceled, Unlocked, ~torn, SavedNow # {},
                      row.seal = None \/ ~(Sources \subseteq row.seal.sources)
               PROVE  SavedResultsChanged
    BY DEF RecoveryIsOffered, RecoveryNeeded
  <2>1. Recoverable(docs, manifest) /\ Honest(docs, manifest)
    BY <1>1 DEF ResultsInv, SavedIsSafe, FilesHonest, Unlocked, Filing
  <2>2. CASE manifest = None
    <3>1. Sources # {}
      BY <2>2 DEF SavedNow, HasParent
    <3>2. row.frozen # None => row.frozen # {}
      BY <2>1, <2>2 DEF Recoverable
    <3> QED BY <2>2, <3>1, <3>2 DEF SavedResultsChanged
  <2>3. CASE manifest # None /\ row.seal = None
    BY <2>3 DEF SavedResultsChanged, SavedNow
  <2>4. CASE manifest # None /\ row.seal # None
    BY <2>1, <2>4 DEF SavedResultsChanged, Honest
  <2> QED BY <2>2, <2>3, <2>4
<1> QED BY <1>1, ResultsHold, PTL

=============================================================================
