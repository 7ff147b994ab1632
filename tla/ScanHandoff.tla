----------------------------- MODULE ScanHandoff -----------------------------
(***************************************************************************)
(* How a scan is started and handed to the host session that carries it    *)
(* out: the setup of a workspace, the start of a scan from a panel, from a *)
(* prompt, from the command line or for a Deep Scan, the claim of the      *)
(* handoff, its take-over, its delivery, and what the holder may record    *)
(* (scripts/workbench_db.py, scripts/workbench/handoff.py,                 *)
(* scripts/workbench_progress.py, the beginning of deep_scan_workbench.py).*)
(* Starting from a panel inspects the target before its transaction and is *)
(* a read and a commit; every other operation is one transaction.  A call  *)
(* that is refused, or that joins what is there, is no step.               *)
(***************************************************************************)
EXTENDS Naturals, FiniteSets

CONSTANTS
  Workspaces, Scans, Threads,
  Tokens,      \* claim tokens of handoffs
  Recovery,    \* those of them that begin with "recovery_"
  Modes, Scopes,
  Callers,     \* helper processes that start a scan from a panel
  Phases,      \* bound: the phases that progress is recorded for, 0 the first
  None

ASSUME TokensAssumption == Recovery \subseteq Tokens /\ None \notin Tokens \cup Threads
ASSUME ModesAssumption == "deep" \in Modes
ASSUME PhasesAssumption == Phases \subseteq Nat /\ 0 \in Phases

VARIABLES
  workspace,  \* rows of workspaces
  scan,       \* rows of scans with their scan_progress
  call        \* what a start from a panel has inspected

vars == <<workspace, scan, call>>

WorkspaceRow ==
  [thread : Threads \cup {None}, mode : Modes, scope : Scopes, submitted : BOOLEAN,
   active : Scans \cup {None}]

\* claimedBy is not in the code: it remembers the token with which the
\* continuation was attached.
ScanRow ==
  [workspace : Workspaces, mode : Modes, scope : Scopes, recipe : BOOLEAN,
   running : BOOLEAN, handoff : {"pending", "delivered"},
   token : Tokens \cup {None}, stale : BOOLEAN,
   continuation : Threads \cup {None}, claimedBy : Tokens \cup {None},
   owner : Threads \cup {None}, deep : {"none", "running", "succeeded"},
   phase : Phases]

\* moved is not in the code either: it says that updated_at has changed since
\* the workspace was looked at.
CallRow == [workspace : Workspaces, scope : Scopes, moved : BOOLEAN]

ASSUME RowsAssumption == None \notin WorkspaceRow \cup ScanRow \cup CallRow

HasRow(f, x) == f[x] # None
RunningIn(w) == {s \in Scans : HasRow(scan, s) /\ scan[s].workspace = w /\ scan[s].running}
ThreadOf(s) == workspace[scan[s].workspace].thread
Owner(s) == IF scan[s].owner # None THEN scan[s].owner ELSE ThreadOf(s)

\* require_current_continuation: the holder shows its token; a scan that was
\* never handed over belongs to whoever shows none.
Continues(s, k) ==
  \/ k = None /\ scan[s].handoff = "delivered" /\ scan[s].token = None
  \/ k # None /\ scan[s].token = k

\* existing_deep_scan_for_target
DeepScansOf(h, scope) ==
  {s \in Scans : /\ HasRow(scan, s) /\ scan[s].running /\ scan[s].mode = "deep"
                 /\ scan[s].scope = scope /\ ThreadOf(s) = h /\ Owner(s) = h}

\* terminal_deep_scan_for_target_snapshot
FinishedDeepScansForOthers(h, scope) ==
  {s \in Scans : /\ HasRow(scan, s) /\ scan[s].running /\ scan[s].mode = "deep"
                 /\ scan[s].scope = scope /\ Owner(s) # None /\ Owner(s) # h
                 /\ scan[s].handoff = "delivered" /\ scan[s].token = None
                 /\ workspace[scan[s].workspace].active = s
                 /\ scan[s].deep = "succeeded"}

NewWorkspace(thread, mode, scope, submitted, active) ==
  [thread |-> thread, mode |-> mode, scope |-> scope, submitted |-> submitted, active |-> active]

\* insert_running_scan
NewScan(w, thread, mode, scope, handoff) ==
  [workspace |-> w, mode |-> mode, scope |-> scope, recipe |-> FALSE,
   running |-> TRUE, handoff |-> handoff, token |-> None, stale |-> FALSE,
   continuation |-> None, claimedBy |-> None,
   owner |-> IF mode = "deep" THEN thread ELSE None, deep |-> "none",
   phase |-> 0]

\* Every update of a workspace gives it a new updated_at, by which the starts
\* that have looked at it see that it changed.
Moved(w) ==
  [p \in Callers |-> IF call[p] # None /\ call[p].workspace = w
                     THEN [call[p] EXCEPT !.moved = TRUE] ELSE call[p]]
Touch(w) == call' = Moved(w)

-----------------------------------------------------------------------------
(* The setup *)

CreateWorkspace(w, h, mode, scope) ==
  /\ ~HasRow(workspace, w)
  /\ workspace' = [workspace EXCEPT ![w] = NewWorkspace(h, mode, scope, FALSE, None)]
  /\ UNCHANGED <<scan, call>>

SaveWorkspace(w, mode, scope) ==
  /\ HasRow(workspace, w) /\ workspace[w].active = None
  /\ workspace' = [workspace EXCEPT ![w].mode = mode, ![w].scope = scope, ![w].submitted = TRUE]
  /\ Touch(w) /\ UNCHANGED scan

-----------------------------------------------------------------------------
(* start-scan.  The scope comes from the first look at the workspace, the   *)
(* mode from the second; the caller may bind both to the setup it checked.  *)

ReadStart(p, w) ==
  /\ call[p] = None /\ HasRow(workspace, w)
  /\ RunningIn(w) = {} /\ workspace[w].submitted
  /\ call' = [call EXCEPT ![p] =
                [workspace |-> w, scope |-> workspace[w].scope, moved |-> FALSE]]
  /\ UNCHANGED <<workspace, scan>>

CommitStartTorn(p, s) ==          \* MUTANT: a changed setup is not noticed
  /\ call[p] # None /\ ~HasRow(scan, s)
  /\ LET w == call[p].workspace
     IN /\ RunningIn(w) = {}
        /\ workspace[w].mode = "deep" /\ workspace[w].thread # None
             => DeepScansOf(workspace[w].thread, call[p].scope) = {}
        /\ scan' = [scan EXCEPT ![s] = NewScan(w, workspace[w].thread, workspace[w].mode,
                                               call[p].scope, "pending")]
        /\ workspace' = [workspace EXCEPT ![w].active = s]
        /\ call' = [Moved(w) EXCEPT ![p] = None]

CommitStartTwice(p, s) ==         \* MUTANT: neither look in the transaction
  /\ call[p] # None /\ ~HasRow(scan, s)
  /\ LET w == call[p].workspace
     IN /\ scan' = [scan EXCEPT ![s] = NewScan(w, workspace[w].thread, workspace[w].mode,
                                               call[p].scope, "pending")]
        /\ workspace' = [workspace EXCEPT ![w].active = s]
        /\ call' = [Moved(w) EXCEPT ![p] = None]

CommitStart(p, s) ==
  /\ call[p] # None /\ ~HasRow(scan, s)
  /\ LET w == call[p].workspace
     IN /\ RunningIn(w) = {} /\ ~call[p].moved
        /\ workspace[w].mode = "deep" /\ workspace[w].thread # None
             => DeepScansOf(workspace[w].thread, call[p].scope) = {}
        /\ scan' = [scan EXCEPT ![s] = NewScan(w, workspace[w].thread, workspace[w].mode,
                                               call[p].scope, "pending")]
        /\ workspace' = [workspace EXCEPT ![w].active = s]
        /\ call' = [Moved(w) EXCEPT ![p] = None]

\* refused, joined to a scan that runs by now, or its process died
GiveUp(p) == call[p] # None /\ call' = [call EXCEPT ![p] = None] /\ UNCHANGED <<workspace, scan>>

-----------------------------------------------------------------------------
(* The other ways to start *)

\* what a prompt-driven start joins instead of starting
Joinable(h, mode, scope, headless) ==
  {s \in Scans :
     /\ HasRow(scan, s) /\ scan[s].running /\ scan[s].handoff = "delivered"
     /\ LET w == workspace[scan[s].workspace]
        IN w.active = s /\ w.thread = h /\ w.mode = mode /\ w.scope = scope /\ w.submitted
     /\ IF headless THEN scan[s].token # None /\ scan[s].continuation = h
                    ELSE scan[s].token = None}

\* start-prompt-only-scan, start-headless-standard-scan: the latter claims the
\* scan for its own thread, with a token nobody else is told
StartPrompt(w, s, h, mode, scope, headless, k) ==
  /\ ~HasRow(workspace, w) /\ ~HasRow(scan, s) /\ mode # "deep"
  /\ Joinable(h, mode, scope, headless) = {}
  /\ workspace' = [workspace EXCEPT ![w] = NewWorkspace(h, mode, scope, TRUE, s)]
  /\ LET new == NewScan(w, h, mode, scope, "delivered")
     IN scan' = [scan EXCEPT ![s] =
                   IF headless THEN [new EXCEPT !.token = k, !.continuation = h, !.claimedBy = k]
                   ELSE new]
  /\ UNCHANGED call

\* register-cli-scan: no thread owns it yet
RegisterCliScan(w, s, mode, scope) ==
  /\ ~HasRow(workspace, w) /\ ~HasRow(scan, s)
  /\ workspace' = [workspace EXCEPT ![w] = NewWorkspace(None, mode, scope, TRUE, s)]
  /\ scan' = [scan EXCEPT ![s] = [NewScan(w, None, mode, scope, "delivered") EXCEPT !.recipe = TRUE]]
  /\ UNCHANGED call

\* begin-deep-scan for a target creates a scan unless the thread has one or may
\* use what another has finished
BeginForTarget(w, s, h, scope) ==
  /\ ~HasRow(workspace, w) /\ ~HasRow(scan, s)
  /\ DeepScansOf(h, scope) = {} /\ FinishedDeepScansForOthers(h, scope) = {}
  /\ workspace' = [workspace EXCEPT ![w] = NewWorkspace(h, "deep", scope, TRUE, s)]
  /\ scan' = [scan EXCEPT ![s] = [NewScan(w, h, "deep", scope, "delivered") EXCEPT !.deep = "running"]]
  /\ UNCHANGED call

\* begin-deep-scan for a scan of the command line: the first thread takes it
ClaimUnowned(s, h, k) ==
  /\ HasRow(scan, s) /\ scan[s].mode = "deep" /\ scan[s].running /\ scan[s].recipe
  /\ scan[s].handoff = "delivered" /\ scan[s].owner = None /\ ThreadOf(s) = None
  /\ Continues(s, k)
  /\ workspace' = [workspace EXCEPT ![scan[s].workspace].thread = h]
  /\ scan' = [scan EXCEPT ![s].owner = h]
  /\ Touch(scan[s].workspace)

\* begin-deep-scan for a scan: its owner opens the run, or rejoins it
BeginForScan(s, h, k) ==
  /\ HasRow(scan, s) /\ scan[s].mode = "deep" /\ scan[s].running
  /\ Owner(s) = h /\ Continues(s, k) /\ scan[s].deep = "none"
  /\ scan' = [scan EXCEPT ![s].deep = "running"]
  /\ UNCHANGED <<workspace, call>>

\* finish-deep-scan, as DeepScanStore has it
FinishDeep(s) ==
  /\ HasRow(scan, s) /\ scan[s].running /\ scan[s].deep = "running"
  /\ scan' = [scan EXCEPT ![s].deep = "succeeded"]
  /\ UNCHANGED <<workspace, call>>

-----------------------------------------------------------------------------
(* The handoff *)

\* A stale claim falls to who asks to take it over; the thread goes with the
\* claim it came with.
ClaimHandoffKeepingThread(s, k) ==      \* MUTANT
  /\ HasRow(scan, s) /\ scan[s].handoff = "pending" /\ scan[s].token # k
  /\ scan[s].token = None \/ scan[s].stale
  /\ scan' = [scan EXCEPT ![s].token = k, ![s].stale = FALSE]
  /\ UNCHANGED <<workspace, call>>

ClaimHandoff(s, k) ==
  /\ HasRow(scan, s) /\ scan[s].handoff = "pending" /\ scan[s].token # k
  /\ scan[s].token = None \/ scan[s].stale
  /\ scan' = [scan EXCEPT ![s] =
                IF scan[s].token = None THEN [scan[s] EXCEPT !.token = k, !.stale = FALSE]
                ELSE [scan[s] EXCEPT !.token = k, !.stale = FALSE, !.continuation = None,
                                     !.claimedBy = None, !.owner = None]]
  /\ UNCHANGED <<workspace, call>>

ClaimExpires(s) ==
  /\ HasRow(scan, s) /\ scan[s].handoff = "pending" /\ scan[s].token # None /\ ~scan[s].stale
  /\ scan' = [scan EXCEPT ![s].stale = TRUE]
  /\ UNCHANGED <<workspace, call>>

ReleaseHandoff(s, k) ==
  /\ HasRow(scan, s) /\ scan[s].handoff = "pending" /\ scan[s].token = k
  /\ scan' = [scan EXCEPT ![s].token = None, ![s].stale = FALSE, ![s].continuation = None,
                          ![s].claimedBy = None, ![s].owner = None]
  /\ UNCHANGED <<workspace, call>>

AttachThread(s, k, h) ==
  /\ HasRow(scan, s) /\ scan[s].token = k /\ scan[s].continuation = None
  /\ scan' = [scan EXCEPT ![s].continuation = h, ![s].claimedBy = k,
                          ![s].owner = IF scan[s].mode = "deep" THEN h ELSE scan[s].owner]
  /\ UNCHANGED <<workspace, call>>

\* thread None: the panel itself reports.  A recovery token needs no thread.
MarkDelivered(s, k, h) ==
  /\ HasRow(scan, s) /\ scan[s].handoff = "pending" /\ scan[s].token = k
  /\ h # None => \/ k \in Recovery
                 \/ h = (IF scan[s].continuation # None THEN scan[s].continuation ELSE ThreadOf(s))
  /\ scan' = [scan EXCEPT ![s].handoff = "delivered", ![s].stale = FALSE]
  /\ UNCHANGED <<workspace, call>>

-----------------------------------------------------------------------------
(* Progress and the end *)

\* update-scan-progress by the continuation: the phase never goes back.  The
\* counts of its items are left out.  (A Deep Scan whose coordinator runs also
\* needs its generation, which DeepScanStore models.)
UpdateProgress(s, k, phase) ==
  /\ HasRow(scan, s) /\ scan[s].running /\ Continues(s, k)
  /\ phase > scan[s].phase
  /\ scan' = [scan EXCEPT ![s].phase = phase]
  /\ UNCHANGED <<workspace, call>>

\* update-scan-context: from the panel, or by the continuation in its thread;
\* the text goes into both rows
UpdateContext(s, h, k) ==
  /\ HasRow(scan, s) /\ scan[s].running
  /\ h = None => k = None
  /\ h # None => /\ h = IF scan[s].continuation # None THEN scan[s].continuation ELSE ThreadOf(s)
                 /\ Continues(s, k)
  /\ Touch(scan[s].workspace)
  /\ UNCHANGED <<workspace, scan>>

ScanEnds(s) ==
  /\ HasRow(scan, s) /\ scan[s].running
  /\ scan' = [scan EXCEPT ![s].running = FALSE]
  /\ UNCHANGED <<workspace, call>>

-----------------------------------------------------------------------------
Init ==
  /\ workspace = [w \in Workspaces |-> None]
  /\ scan = [s \in Scans |-> None]
  /\ call = [p \in Callers |-> None]

Setup ==
  \E w \in Workspaces, mode \in Modes, scope \in Scopes :
    \/ \E h \in Threads : CreateWorkspace(w, h, mode, scope)
    \/ SaveWorkspace(w, mode, scope)

Starting ==
  \/ \E p \in Callers : GiveUp(p) \/ (\E w \in Workspaces : ReadStart(p, w))
                                  \/ (\E s \in Scans : CommitStart(p, s))
  \/ \E w \in Workspaces, s \in Scans, scope \in Scopes :
       \/ \E h \in Threads, mode \in Modes, headless \in BOOLEAN, k \in Tokens \ Recovery :
            StartPrompt(w, s, h, mode, scope, headless, k)
       \/ \E mode \in Modes : RegisterCliScan(w, s, mode, scope)
       \/ \E h \in Threads : BeginForTarget(w, s, h, scope)

Beginning ==
  \E s \in Scans :
    \/ \E h \in Threads, k \in Tokens \cup {None} : ClaimUnowned(s, h, k) \/ BeginForScan(s, h, k)
    \/ FinishDeep(s)

HandingOver ==
  \E s \in Scans :
    \/ ClaimExpires(s)
    \/ \E k \in Tokens :
         \/ ClaimHandoff(s, k) \/ ReleaseHandoff(s, k)
         \/ \E h \in Threads : AttachThread(s, k, h)
         \/ \E h \in Threads \cup {None} : MarkDelivered(s, k, h)

Working ==
  \E s \in Scans :
    \/ \E k \in Tokens \cup {None} :
         \/ \E phase \in Phases : UpdateProgress(s, k, phase)
         \/ \E h \in Threads \cup {None} : UpdateContext(s, h, k)
    \/ ScanEnds(s)

Next == Setup \/ Starting \/ Beginning \/ HandingOver \/ Working

Spec == Init /\ [][Next]_vars

-----------------------------------------------------------------------------
(* Properties *)

\* The rows have their types.
TypeOK ==
  /\ workspace \in [Workspaces -> WorkspaceRow \cup {None}]
  /\ scan \in [Scans -> ScanRow \cup {None}]
  /\ call \in [Callers -> CallRow \cup {None}]

\* However many panels start at once, a workspace has one running scan, and it
\* is the one the workspace points to.
OneScanRuns ==
  \A w \in Workspaces : \A s \in RunningIn(w) : RunningIn(w) = {s} /\ workspace[w].active = s

\* A scan runs the setup its workspace shows, whole: no start mixes the setup it
\* inspected with one saved in between, and none is saved under a scan.
ScanMatchesSetup ==
  \A w \in Workspaces : HasRow(workspace, w) /\ workspace[w].active # None =>
    LET s == scan[workspace[w].active]
    IN s.mode = workspace[w].mode /\ s.scope = workspace[w].scope

\* The thread that continues a scan came with the claim that holds: after a
\* release or a take-over no thread of an earlier claim is left in charge.
ThreadFollowsClaim ==
  \A s \in Scans : HasRow(scan, s) =>
    /\ scan[s].continuation # None => scan[s].claimedBy = scan[s].token /\ scan[s].token # None
    /\ scan[s].continuation # None /\ scan[s].mode = "deep" => scan[s].owner = scan[s].continuation

=============================================================================
