---------------------------- MODULE DeepScanStore ----------------------------
(***************************************************************************)
(* The durable state of one Deep Scan: the run with its coordinator lease, *)
(* its discovery workers and reducers, and the candidate ledger it         *)
(* publishes (scripts/deep_scan_workbench.py).  Every operation is one     *)
(* BEGIN IMMEDIATE transaction and one action, except the publication of a *)
(* ledger, whose file operations and commit may be cut by the death of the *)
(* helper process.  Coordinators hold a generation in memory and call in   *)
(* any order, late and repeatedly; a call that is refused is no step.      *)
(***************************************************************************)
EXTENDS Naturals, Sequences, FiniteSets, SequencesExt

CONSTANTS
  Discoveries,     \* identifiers of discovery workers
  Reducers,        \* identifiers of dedup workers
  Setups,          \* identifiers of setup workers
  Coordinators,    \* processes that may coordinate the scan
  Found,           \* the candidates each discovery reports
  StopAfterNoNew,  \* stop_after_no_new of the configuration
  MaxDiscoveries,  \* max_discovery_runs of the configuration
  MaxGeneration,   \* bound: no coordinator is replaced beyond this generation
  MaxDeaths,       \* bound: helper processes that die in a publication
  None

Worker == Discoveries \cup Reducers \cup Setups
Candidate == UNION {Found[d] : d \in Discoveries}

ASSUME KindsAssumption ==
  /\ Discoveries \cap Reducers = {}
  /\ Setups \cap (Discoveries \cup Reducers) = {}
ASSUME BudgetAssumption ==
  {StopAfterNoNew, MaxDiscoveries, MaxDeaths} \subseteq Nat /\ MaxGeneration \in Nat \ {0}
ASSUME FoundAssumption == DOMAIN Found = Discoveries /\ IsFiniteSet(Discoveries)

VARIABLES
  run,       \* the row of deep_scan_runs
  worker,    \* the rows of deep_scan_workers
  inputs,    \* deep_scan_dedup_inputs, in input order
  scan,      \* the status of the parent row in scans
  fresh,     \* whether the run or a heartbeat is younger than the lease time
  deadline,  \* whether max_time_hours have passed
  lease,     \* the generation each coordinator believes to hold, 0 for none
  ledger,    \* the published candidate ledger, None when there is no file
  backups,   \* the backups beside it, the youngest first
  snapshot,  \* the ledger in each reducer's own directory
  helper,    \* the commit that is publishing a ledger
  deaths,    \* helpers that died in a publication so far
  publishes  \* whether the clients of this scan pass a ledger to publish

rows == <<run, worker, inputs, scan>>
files == <<ledger, backups, snapshot>>
world == <<fresh, deadline, lease>>
vars == <<rows, files, world, helper, deaths, publishes>>

ActiveStatus == {"queued", "running"}
SettledStatus == {"succeeded", "failed", "canceled"}
RunEnd == {"succeeded", "failed", "interrupted", "canceled"}

RunRow ==
  [gen : 1..MaxGeneration, status : {"running"} \cup RunEnd,
   phase : {"setup", "discovery", "reducing", "terminal"},
   dispatched : Nat, sequence : Nat, noNew : Nat,
   reason : {None, "saturated", "capped"}]

\* error tells apart what recovery looks at: no message, a message, a message
\* that begins with "coordinator_shutdown:", one left by a recovery.
WorkerRow ==
  [status : ActiveStatus \cup SettledStatus, seq : Nat,
   merge : {None, "buffered", "merging", "merged"},
   error : {"none", "message", "shutdown", "recovered"}]

\* what a ledger or a copy of one may hold, and the publication of a reducer
Copy == {None} \cup SUBSET Candidate
HelperRow == [reducer : Reducers, stage : {"moved", "promoted", "committed"}, old : Copy]

ASSUME RowsAssumption ==
  /\ None \notin WorkerRow \cup HelperRow \cup {"buffered", "merging", "merged"}
  /\ \A f \in SUBSET Candidate : f # None

Exists(w) == worker[w] # None
HasStatus(w, S) == Exists(w) /\ worker[w].status \in S
InMerge(d, m) == Exists(d) /\ worker[d].merge = m
Succeeded(W) == {w \in W : HasStatus(w, {"succeeded"})}
InputsOf(r) == ToSet(inputs[r])
Content(W) == UNION {Found[d] : d \in W}
Merged == {d \in Discoveries : InMerge(d, "merged")}

\* discovery results waiting for a reducer
Buffered == {d \in Discoveries : HasStatus(d, {"succeeded"}) /\ InMerge(d, "buffered")}

\* taken holds the first of them, in the order they were accepted
FirstBuffered(taken) ==
  /\ \A i, j \in DOMAIN taken : i < j => worker[taken[i]].seq < worker[taken[j]].seq
  /\ \A d \in Buffered \ ToSet(taken), i \in DOMAIN taken : worker[taken[i]].seq < worker[d].seq

-----------------------------------------------------------------------------
(* Who may write *)

\* The helper that publishes holds the write transaction until it commits and
\* the completion lock until it is done.
CanWrite == helper # None => helper.stage = "committed"
CanLock == helper = None

RunningParent == scan = "running"     \* MUTANT: a finished run still takes calls

Running == run.status = "running" /\ scan = "running"

\* Before the first claim nobody holds a lease and nobody may show one.
CurrentCoordinator(c) == lease[c] = (IF run.gen = 1 THEN 0 ELSE run.gen)

LeaseIsLive ==
  /\ fresh
  /\ run.gen = 1 => \E w \in Worker : HasStatus(w, ActiveStatus)

Touch == fresh' = TRUE

-----------------------------------------------------------------------------
(* Workers *)

\* What both forms of upsert-deep-scan-worker ask for.  A late call for a run that
\* has ended finds its worker settled and changes nothing.
MayUpsert(c) == CanWrite /\ Running /\ CurrentCoordinator(c)

\* upsert-deep-scan-worker for a worker that is not there yet
CreateWorker(c, w, status) ==
  /\ MayUpsert(c)
  /\ ~Exists(w) /\ w \notin Reducers /\ status \in ActiveStatus
  /\ w \in Setups => \A s \in Setups : ~Exists(s)
  /\ w \in Discoveries => run.dispatched < MaxDiscoveries
  /\ worker' = [worker EXCEPT ![w] =
                  [status |-> status, seq |-> 0, merge |-> None, error |-> "none"]]
  /\ IF w \in Discoveries
     THEN /\ run' = [run EXCEPT !.dispatched = @ + 1, !.phase = "discovery"]
          /\ Touch
     ELSE UNCHANGED <<run, fresh>>
  /\ UNCHANGED <<inputs, scan, deadline, lease, files, helper, deaths, publishes>>

WorkerMoves(from, to) ==
  \/ from = "queued" /\ to \in {"running", "failed", "canceled"}
  \/ from = "running" /\ to \in {"running"} \cup SettledStatus

GiveBackAll(rs) ==          \* MUTANT: also what another reducer has merged since
  [w \in Worker |-> IF w \in UNION {InputsOf(r) : r \in rs}
                    THEN [worker[w] EXCEPT !.merge = "buffered"] ELSE worker[w]]

\* A reducer that fails while it runs gives its inputs back.
GiveBack(rs) ==
  [w \in Worker |-> IF w \in UNION {InputsOf(r) : r \in rs} /\ InMerge(w, "merging")
                    THEN [worker[w] EXCEPT !.merge = "buffered"] ELSE worker[w]]

AcceptsDiscovery(w, status) == w \in Discoveries /\ status = "succeeded"
ReducerFails(w, status) ==
  w \in Reducers /\ status = "failed" /\ worker[w].status = "running"

\* A replaceable failure of a discovery counts an error on the run, which
\* renews the lease as every update of the run does.
CountsError(w, status, error) ==
  w \in Discoveries /\ status = "canceled" /\ error = "message" /\ worker[w].status = "running"

\* upsert-deep-scan-worker for a worker that exists.  Only the messages of
\* canceled workers are ever looked at; what repeats a settled status changes
\* nothing.
UpdateWorker(c, w, status, error) ==
  /\ MayUpsert(c)
  /\ Exists(w) /\ WorkerMoves(worker[w].status, status)
  /\ ~(w \in Reducers /\ status = "succeeded")
  /\ LET accepted == AcceptsDiscovery(w, status)
         others == IF ReducerFails(w, status) THEN GiveBack({w}) ELSE worker
     IN /\ worker' = [others EXCEPT ![w] =
                       [status |-> status,
                        seq |-> IF accepted THEN run.sequence + 1 ELSE worker[w].seq,
                        merge |-> IF accepted THEN "buffered" ELSE worker[w].merge,
                        error |-> error]]
        /\ IF accepted
           THEN run' = [run EXCEPT !.sequence = @ + 1, !.phase = "discovery"]
           ELSE IF ReducerFails(w, status)
           THEN run' = [run EXCEPT !.phase = "discovery"]
           ELSE run' = run
        /\ fresh' = (fresh \/ accepted \/ ReducerFails(w, status) \/ CountsError(w, status, error))
  /\ UNCHANGED <<inputs, scan, deadline, lease, files, helper, deaths, publishes>>

\* the reducer's own copy of the ledger, which covers what was merged before it
WriteSnapshot(r) ==
  /\ publishes /\ HasStatus(r, {"running"})
  /\ snapshot' = [snapshot EXCEPT ![r] = Content(Merged \cup InputsOf(r))]
  /\ snapshot' # snapshot
  /\ UNCHANGED <<rows, world, ledger, backups, helper, deaths, publishes>>

-----------------------------------------------------------------------------
(* Reducers *)

NoReducer == \A r \in Reducers : ~HasStatus(r, ActiveStatus)

\* The first reduction waits for two results unless no second one can come.
CappedSingleton(n) ==
  /\ n = 1
  /\ run.dispatched >= MaxDiscoveries \/ deadline
  /\ \A d \in Discoveries : ~HasStatus(d, ActiveStatus)

MinimumInputs(n) == IF Succeeded(Reducers) # {} \/ CappedSingleton(n) THEN 1 ELSE 2

\* claim-deep-scan-dedup
ClaimDedup(c, r, n) ==
  /\ CanWrite /\ Running /\ CurrentCoordinator(c)
  /\ ~Exists(r) /\ NoReducer
  /\ n >= MinimumInputs(n)
  /\ \E taken \in [1..n -> Buffered] :
       /\ FirstBuffered(taken)
       /\ worker' = [w \in Worker |->
                       IF w = r THEN [status |-> "queued", seq |-> 0, merge |-> None,
                                      error |-> "none"]
                       ELSE IF w \in ToSet(taken) THEN [worker[w] EXCEPT !.merge = "merging"]
                       ELSE worker[w]]
       /\ inputs' = [inputs EXCEPT ![r] = taken]
  /\ run' = [run EXCEPT !.phase = "reducing"]
  /\ Touch
  /\ UNCHANGED <<scan, deadline, lease, files, helper, deaths, publishes>>

CanCommit(c, r) ==
  /\ Running /\ CurrentCoordinator(c)
  /\ HasStatus(r, ActiveStatus)
  /\ inputs[r] # <<>> /\ \A d \in InputsOf(r) : InMerge(d, "merging")

MergeInputsKeepingStreak(r) ==   \* MUTANT: something new does not end the streak
  /\ worker' = [w \in Worker |->
                  IF w \in InputsOf(r) THEN [worker[w] EXCEPT !.merge = "merged"]
                  ELSE IF w = r THEN [worker[w] EXCEPT !.status = "succeeded", !.error = "none"]
                  ELSE worker[w]]
  /\ run' = [run EXCEPT !.phase = "discovery", !.noNew = @ + Len(inputs[r])]
  /\ Touch
  /\ UNCHANGED <<inputs, scan>>

\* The rows of commit-deep-scan-dedup; the client reports whether the reducer
\* found anything that was not known.
MergeInputs(r) ==
  /\ worker' = [w \in Worker |->
                  IF w \in InputsOf(r) THEN [worker[w] EXCEPT !.merge = "merged"]
                  ELSE IF w = r THEN [worker[w] EXCEPT !.status = "succeeded", !.error = "none"]
                  ELSE worker[w]]
  /\ run' = [run EXCEPT !.phase = "discovery",
                        !.noNew = IF Content(InputsOf(r)) \subseteq Content(Merged)
                                  THEN @ + Len(inputs[r]) ELSE 0]
  /\ Touch
  /\ UNCHANGED <<inputs, scan>>

\* commit-deep-scan-dedup without a ledger
CommitDedup(c, r) ==
  /\ CanLock /\ ~publishes /\ CanCommit(c, r)
  /\ MergeInputs(r)
  /\ UNCHANGED <<deadline, lease, files, helper, deaths, publishes>>

(* commit-deep-scan-dedup with a ledger: the old file is moved aside, the   *)
(* copy is moved in its place, the transaction commits, the backup goes.    *)
BeginPublication(c, r) ==
  /\ CanLock /\ publishes /\ CanCommit(c, r) /\ snapshot[r] # None
  /\ helper' = [reducer |-> r, stage |-> "moved", old |-> ledger]
  /\ ledger' = None
  /\ backups' = IF ledger = None THEN backups ELSE <<ledger>> \o backups
  /\ UNCHANGED <<rows, world, snapshot, deaths, publishes>>

PromoteLedger ==
  /\ helper # None /\ helper.stage = "moved"
  /\ ledger' = snapshot[helper.reducer]
  /\ helper' = [helper EXCEPT !.stage = "promoted"]
  /\ UNCHANGED <<rows, world, backups, snapshot, deaths, publishes>>

CommitPublication ==
  /\ helper # None /\ helper.stage = "promoted"
  /\ MergeInputs(helper.reducer)
  /\ helper' = [helper EXCEPT !.stage = "committed"]
  /\ UNCHANGED <<deadline, lease, files, deaths, publishes>>

FinishStaged ==
  /\ helper # None /\ helper.stage = "committed"
  /\ backups' = IF helper.old = None THEN backups ELSE Tail(backups)
  /\ helper' = None
  /\ UNCHANGED <<rows, world, ledger, snapshot, deaths, publishes>>

\* an error before the commit puts the old file back
RollbackPublication ==
  /\ helper # None /\ helper.stage # "committed"
  /\ ledger' = helper.old
  /\ backups' = IF helper.old = None THEN backups ELSE Tail(backups)
  /\ helper' = None
  /\ UNCHANGED <<rows, world, snapshot, deaths, publishes>>

HelperDies ==
  /\ helper # None /\ deaths < MaxDeaths
  /\ helper' = None /\ deaths' = deaths + 1
  /\ UNCHANGED <<rows, world, files, publishes>>

-----------------------------------------------------------------------------
(* The coordinator lease *)

ShutDownOnce(w) ==          \* MUTANT: what a recovery marked is refunded again
  HasStatus(w, {"canceled"}) /\ worker[w].error \in {"shutdown", "recovered"}

\* canceled by the coordinator's own shutdown; before the first claim a
\* cancellation without a message counts as one
ShutDown(w) ==
  /\ HasStatus(w, {"canceled"})
  /\ worker[w].error = "shutdown" \/ (run.gen = 1 /\ worker[w].error = "none")

Interrupted(w) == HasStatus(w, ActiveStatus) \/ ShutDown(w)

RecoverLedgerForgetfully ==      \* MUTANT: the backup is not put back
  LET looksPublished(r) == snapshot[r] # None /\ ledger = snapshot[r]
      lostOld(r) == snapshot[r] # None /\ ledger = None /\ backups # <<>>
      cut == {r \in Reducers : HasStatus(r, ActiveStatus) /\ (looksPublished(r) \/ lostOld(r))}
  IN /\ ledger' = IF cut # {} THEN None ELSE ledger
     /\ backups' = IF cut # {} \/ \E r \in Succeeded(Reducers) : looksPublished(r)
                   THEN <<>> ELSE backups

\* A half-published ledger is taken back.  The reducer whose publication was
\* cut is recognised by its snapshot; there is at most one active reducer, and
\* it was updated after every reducer that succeeded.
RecoverLedger ==
  LET looksPublished(r) == snapshot[r] # None /\ ledger = snapshot[r]
      lostOld(r) == snapshot[r] # None /\ ledger = None /\ backups # <<>>
      cut == {r \in Reducers : HasStatus(r, ActiveStatus) /\ (looksPublished(r) \/ lostOld(r))}
  IN IF cut # {}
     THEN /\ ledger' = IF backups # <<>> THEN Head(backups) ELSE None
          /\ backups' = <<>>
     ELSE /\ ledger' = ledger
          /\ backups' = IF \E r \in Succeeded(Reducers) : looksPublished(r)
                        THEN <<>> ELSE backups

\* recover_expired_coordinator: inputs of reducers that will not finish are
\* buffered again, active workers are canceled, interrupted discoveries are
\* refunded to the budget, and what a shutdown canceled is marked as recovered.
RecoverRows ==
  LET abandoned == {r \in Reducers : Interrupted(r) \/ HasStatus(r, {"failed"})}
      back == GiveBack(abandoned)
      settled(w) == IF HasStatus(w, ActiveStatus)
                    THEN [back[w] EXCEPT !.status = "canceled"] ELSE back[w]
      shutdown(row) == /\ row # None /\ row.status = "canceled"
                       /\ row.error = "shutdown" \/ (run.gen = 1 /\ row.error = "none")
      refund == Cardinality({d \in Discoveries : Interrupted(d)})
  IN /\ worker' = [w \in Worker |-> IF shutdown(settled(w))
                                    THEN [settled(w) EXCEPT !.error = "recovered"]
                                    ELSE settled(w)]
     /\ run' = [run EXCEPT !.gen = @ + 1, !.dispatched = @ - refund,
                           !.phase = IF @ = "setup" THEN "setup" ELSE "discovery"]

Adopts == run.gen > 1 \/ run.phase # "setup"

\* claim-deep-scan-coordinator by a process without a lease, when the lease in
\* the store is not live.  The answer may be lost after the commit.
ClaimCoordinator(c, told) ==
  /\ CanLock /\ Running
  /\ lease[c] = 0 /\ ~LeaseIsLive /\ run.gen < MaxGeneration
  /\ IF Adopts
     THEN RecoverRows /\ RecoverLedger
     ELSE run' = [run EXCEPT !.gen = @ + 1] /\ UNCHANGED <<worker, ledger, backups>>
  /\ lease' = IF told THEN [lease EXCEPT ![c] = run.gen + 1] ELSE lease
  /\ Touch
  /\ UNCHANGED <<inputs, scan, deadline, snapshot, helper, deaths, publishes>>

\* A claim that dies after the files and before the commit.
ClaimDies(c) ==
  /\ CanLock /\ Running /\ deaths < MaxDeaths
  /\ lease[c] = 0 /\ ~LeaseIsLive /\ run.gen < MaxGeneration /\ Adopts
  /\ RecoverLedger
  /\ deaths' = deaths + 1
  /\ UNCHANGED <<rows, world, snapshot, helper, publishes>>

\* A holder that claims again, or writes its heartbeat, renews the lease; the
\* heartbeat of a replaced holder goes to a file nobody reads.
Renew(c) ==
  /\ Running /\ lease[c] = run.gen /\ ~fresh
  /\ Touch
  /\ UNCHANGED <<rows, files, deadline, lease, helper, deaths, publishes>>

\* A refused call or a read tells a holder that it was replaced, or its
\* process ends.
LoseLease(c) ==
  /\ lease[c] # 0
  /\ lease' = [lease EXCEPT ![c] = 0]
  /\ UNCHANGED <<rows, files, fresh, deadline, helper, deaths, publishes>>

LeaseExpires ==
  /\ fresh /\ Running
  /\ fresh' = FALSE
  /\ UNCHANGED <<rows, files, deadline, lease, helper, deaths, publishes>>

DeadlinePasses ==
  /\ ~deadline /\ Running
  /\ deadline' = TRUE
  /\ UNCHANGED <<rows, files, fresh, lease, helper, deaths, publishes>>

-----------------------------------------------------------------------------
(* The end *)

CancelActive(rows0) ==
  [w \in Worker |-> IF HasStatus(w, ActiveStatus)
                    THEN [rows0[w] EXCEPT !.status = "canceled"] ELSE rows0[w]]

\* A failed reducer is made good when every input of it was merged by another.
MadeGood(w) ==
  /\ w \in Reducers /\ inputs[w] # <<>>
  /\ \A d \in InputsOf(w) : \E r \in Succeeded(Reducers) : d \in InputsOf(r)

\* A scan that failed for good may still be closed as capped, on what was reduced:
\* the parent's own documents (standard) say that it stopped before completion
\* (partial).  What unsuccessful reducers held is then left out like the rest.
FailureCapped(reason, standard, partial) ==
  standard /\ partial /\ reason = "capped" /\ Succeeded(Reducers) # {}

RowsAtEnd(failureCapped) ==
  IF failureCapped
  THEN GiveBack({r \in Reducers : HasStatus(r, {"failed", "canceled"})})
  ELSE worker

MayEnd(reason, standard, failureCapped) ==
  /\ reason = "saturated" => run.noNew >= StopAfterNoNew
  /\ reason = "capped" => run.dispatched >= MaxDiscoveries \/ deadline \/ failureCapped
  /\ standard \/ ledger # None
  /\ \/ Succeeded(Reducers) # {}
     \/ /\ reason = "capped" /\ deadline /\ run.sequence = 0
        /\ standard \/ ledger = {}

\* Nothing is at work or half merged; the client declares exactly the buffered
\* results as omitted where some may be.
NothingLeft(reason, after, failureCapped) ==
  LET inState(m) == {d \in Discoveries : after[d] # None /\ after[d].merge = m}
  IN /\ failureCapped \/ \A w \in Worker : HasStatus(w, {"failed"}) => MadeGood(w)
     /\ \A w \in Worker : ~HasStatus(w, ActiveStatus)
     /\ inState("merging") = {}
     /\ reason = "saturated" \/ failureCapped \/ inState("buffered") = {}

\* finish-deep-scan
FinishDeepScan(c, reason, standard, partial) ==
  LET failureCapped == FailureCapped(reason, standard, partial)
      after == RowsAtEnd(failureCapped)
  IN /\ CanLock /\ Running /\ CurrentCoordinator(c)
     /\ MayEnd(reason, standard, failureCapped)
     /\ NothingLeft(reason, after, failureCapped)
     /\ worker' = after
     /\ run' = [run EXCEPT !.status = "succeeded", !.phase = "terminal", !.reason = reason]
     /\ Touch
     /\ UNCHANGED <<inputs, scan, deadline, lease, files, helper, deaths, publishes>>

\* fail-deep-scan
FailDeepScan(c, status) ==
  /\ CanLock /\ Running /\ CurrentCoordinator(c)
  /\ status \in {"failed", "interrupted"}
  /\ run' = [run EXCEPT !.status = status, !.phase = "terminal"]
  /\ worker' = CancelActive(worker)
  /\ scan' = "failed"
  /\ Touch
  /\ UNCHANGED <<inputs, deadline, lease, files, helper, deaths, publishes>>

\* The parent scan is failed or canceled by somebody else, and takes the run
\* along: a failure only a run that goes on, a cancellation also a finished one.
ParentStops(status) ==
  /\ CanLock /\ scan = "running"
  /\ scan' = status
  /\ run' = IF run.status \in {"running"} \cup (IF status = "canceled" THEN {"succeeded"} ELSE {})
            THEN [run EXCEPT !.status = status, !.phase = "terminal"] ELSE run
  /\ worker' = CancelActive(worker)
  /\ Touch
  /\ UNCHANGED <<inputs, deadline, lease, files, helper, deaths, publishes>>

\* The parent is completed only after the discovery is.
ParentCompletes ==
  /\ CanLock /\ scan = "running" /\ run.status = "succeeded"
  /\ scan' = "complete"
  /\ UNCHANGED <<run, worker, inputs, files, world, helper, deaths, publishes>>

-----------------------------------------------------------------------------
Init ==
  /\ run = [gen |-> 1, status |-> "running", phase |-> "setup", dispatched |-> 0,
            sequence |-> 0, noNew |-> 0, reason |-> None]
  /\ worker = [w \in Worker |-> None]
  /\ inputs = [r \in Reducers |-> <<>>]
  /\ scan = "running"
  /\ fresh = TRUE /\ deadline = FALSE
  /\ lease = [c \in Coordinators |-> 0]
  /\ ledger = None /\ backups = <<>>
  /\ snapshot = [r \in Reducers |-> None]
  /\ helper = None /\ deaths = 0
  /\ publishes \in BOOLEAN

Lease(c) ==
  \/ \E told \in BOOLEAN : ClaimCoordinator(c, told)
  \/ ClaimDies(c)
  \/ Renew(c)
  \/ LoseLease(c)

Coordinator(c) ==
  \/ \E w \in Discoveries \cup Setups, s \in ActiveStatus : CreateWorker(c, w, s)
  \/ \E w \in Worker, s \in {"running"} \cup SettledStatus, e \in {"none", "message", "shutdown"} :
       /\ e # "none" => s = "canceled"
       /\ e = "message" => w \in Discoveries
       /\ UpdateWorker(c, w, s, e)
  \/ \E r \in Reducers, n \in 1..Cardinality(Discoveries) : ClaimDedup(c, r, n)
  \/ \E r \in Reducers : CommitDedup(c, r) \/ BeginPublication(c, r)
  \/ \E reason \in {"saturated", "capped"}, standard, partial \in BOOLEAN :
       FinishDeepScan(c, reason, standard, partial)
  \/ \E s \in {"failed", "interrupted"} : FailDeepScan(c, s)

Publication ==
  \/ PromoteLedger \/ CommitPublication \/ FinishStaged \/ RollbackPublication
  \/ HelperDies
  \/ \E r \in Reducers : WriteSnapshot(r)

Outside ==
  \/ LeaseExpires \/ DeadlinePasses
  \/ \E s \in {"failed", "canceled"} : ParentStops(s)
  \/ ParentCompletes

Next == (\E c \in Coordinators : Lease(c) \/ Coordinator(c)) \/ Publication \/ Outside

Spec == Init /\ [][Next]_vars

-----------------------------------------------------------------------------
(* Properties *)

\* The rows and files have their types.
TypeOK ==
  /\ run \in RunRow
  /\ worker \in [Worker -> {None} \cup WorkerRow]
  /\ inputs \in [Reducers -> Seq(Discoveries)]
  /\ ledger \in Copy /\ snapshot \in [Reducers -> Copy]
  /\ backups \in Seq(SUBSET Candidate)
  /\ helper \in {None} \cup HelperRow

\* However often coordinators are replaced and refund what was interrupted, the
\* count of dispatched discoveries covers those that are at work or accepted,
\* and keeps within the configured maximum.
BudgetCoversWork ==
  /\ Cardinality({d \in Discoveries : HasStatus(d, ActiveStatus \cup {"succeeded"})})
       <= run.dispatched
  /\ run.dispatched <= MaxDiscoveries

\* A discovery result that counts as merged was merged by exactly one reducer
\* that succeeded, and no other result was, whatever was given back and claimed
\* again in between.
MergedExactlyOnce ==
  \A d \in Discoveries :
    Cardinality({r \in Succeeded(Reducers) : d \in InputsOf(r)})
      = IF InMerge(d, "merged") THEN 1 ELSE 0

\* The streak that lets a scan end as saturated is earned: that many merged
\* results brought no candidate the others had not brought.
StreakIsEarned ==
  \E S \in SUBSET Merged :
    /\ Cardinality(S) = run.noNew
    /\ Content(Merged \ S) = Content(Merged)

\* Wherever a publication or a take-over is cut, the ledger or a backup of it
\* holds everything merged so far ...
Covers(f) == f # None /\ Content(Merged) \subseteq f
MergedOnDisk ==
  Merged # {} => \E f \in (IF CanWrite THEN {ledger} ELSE {}) \cup ToSet(backups) : Covers(f)

\* ... and it is where the next recovery, commit or rollback will look for it:
\* the ledger holds everything, or is missing and has a backup; the youngest
\* backup holds everything unless the ledger is just what was merged; and the one
\* below it does when the publication moved a ledger that was more than that.
OnDisk ==
  Merged # {} =>
    /\ IF CanWrite /\ ledger # None THEN Covers(ledger) ELSE backups # <<>>
    /\ backups # <<>> /\ ~(CanWrite /\ ledger = Content(Merged)) => Covers(Head(backups))
    /\ ~CanWrite /\ helper.old \notin {None, Content(Merged)} /\ Tail(backups) # <<>> =>
         Covers(Head(Tail(backups)))

\* This lasts as long as no take-over meets a reducer at work whose copy cannot be
\* told from the published ledger, because it found nothing new, or whose ledger
\* was the first: recovery takes its publication for an unfinished one.
Recovering == helper = None /\ (run'.gen # run.gen \/ deaths' # deaths)
ToldApart ==
  \A r \in Reducers : HasStatus(r, ActiveStatus) =>
    /\ snapshot[r] # Content(Merged)
    /\ ledger = snapshot[r] => backups # <<>>
LedgerKeepsMerged ==
  [][publishes /\ OnDisk /\ (Recovering => ToldApart) => OnDisk' /\ MergedOnDisk']_vars

\* What the rows promise a reader who knows neither leases nor files: results are
\* accepted and merged once and never while the scan has ended, and an end is
\* final but for a cancellation.
Contract == INSTANCE DeepScanContract WITH
  accepted <- Succeeded(Discoveries),
  merged <- Merged,
  ended <- run.status,
  Results <- Discoveries
ImplementsDeepContract == Contract!Spec

=============================================================================
