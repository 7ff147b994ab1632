-------------------------- MODULE ScanHandoffProofs --------------------------
(***************************************************************************)
(* The start and the handoff of scans, for any number of workspaces, scans,*)
(* threads, claim tokens and panels that start at once.                    *)
(***************************************************************************)
EXTENDS ScanHandoff, TLAPS

\* A scan belongs to a workspace that is there.
ScansHaveWorkspaces ==
  \A s \in Scans : HasRow(scan, s) => HasRow(workspace, scan[s].workspace)

\* A workspace points to a scan of its own.
ActiveScansAreOwn ==
  \A w \in Workspaces : HasRow(workspace, w) /\ workspace[w].active # None =>
    /\ workspace[w].active \in Scans
    /\ HasRow(scan, workspace[w].active)
    /\ scan[workspace[w].active].workspace = w

\* What a start has looked at and did not see move is what the workspace shows.
CallsSeeTheSetup ==
  \A p \in Callers : call[p] # None =>
    /\ HasRow(workspace, call[p].workspace)
    /\ ~call[p].moved => call[p].scope = workspace[call[p].workspace].scope

\* The inductive invariant.
HandoffInv ==
  /\ TypeOK
  /\ OneScanRuns
  /\ ScanMatchesSetup
  /\ ThreadFollowsClaim
  /\ ScansHaveWorkspaces
  /\ ActiveScansAreOwn
  /\ CallsSeeTheSetup

\* What ThreadFollowsClaim says of one row.
HoldsClaim(r) ==
  /\ r.continuation # None => r.claimedBy = r.token /\ r.token # None
  /\ r.continuation # None /\ r.mode = "deep" => r.owner = r.continuation

LEMMA InitHandoff == Init => HandoffInv
BY DEF Init, HandoffInv, TypeOK, OneScanRuns, ScanMatchesSetup, ThreadFollowsClaim,
       ScansHaveWorkspaces, ActiveScansAreOwn, CallsSeeTheSetup, HasRow, RunningIn

\* A step that changes what a scan's row says of its handoff, its progress or
\* its end.
LEMMA RowStep ==
  ASSUME HandoffInv, NEW s \in Scans, HasRow(scan, s), NEW r \in ScanRow,
         r.workspace = scan[s].workspace, r.mode = scan[s].mode, r.scope = scan[s].scope,
         r.running => scan[s].running, HoldsClaim(r),
         scan' = [scan EXCEPT ![s] = r], UNCHANGED <<workspace, call>>
  PROVE  HandoffInv'
<1>1. TypeOK'
  BY DEF HandoffInv, TypeOK
<1>2. r # None
  BY RowsAssumption
<1>3. \A t \in Scans : /\ HasRow(scan', t) <=> HasRow(scan, t)
                       /\ HasRow(scan, t) => /\ scan'[t].workspace = scan[t].workspace
                                             /\ scan'[t].mode = scan[t].mode
                                             /\ scan'[t].scope = scan[t].scope
                                             /\ scan'[t].running => scan[t].running
  BY <1>2 DEF HandoffInv, TypeOK, HasRow
<1>4. \A w \in Workspaces : RunningIn(w)' \subseteq RunningIn(w)
  BY <1>3 DEF RunningIn
<1>5. OneScanRuns'
  <2> SUFFICES ASSUME NEW w \in Workspaces, NEW t \in RunningIn(w)'
               PROVE RunningIn(w)' = {t} /\ workspace'[w].active = t
    BY DEF OneScanRuns
  <2>1. t \in RunningIn(w) /\ RunningIn(w) = {t} /\ workspace[w].active = t
    BY <1>4 DEF HandoffInv, OneScanRuns
  <2> QED BY <2>1, <1>4
<1>6. ScanMatchesSetup'
  BY <1>3 DEF HandoffInv, ScanMatchesSetup, ActiveScansAreOwn
<1>7. ThreadFollowsClaim'
  BY <1>3 DEF HandoffInv, TypeOK, ThreadFollowsClaim, HoldsClaim, HasRow
<1>8. ScansHaveWorkspaces' /\ ActiveScansAreOwn'
  BY <1>3 DEF HandoffInv, TypeOK, WorkspaceRow, ScansHaveWorkspaces, ActiveScansAreOwn, HasRow
<1>9. CallsSeeTheSetup'
  BY DEF HandoffInv, CallsSeeTheSetup
<1> QED BY <1>1, <1>5, <1>6, <1>7, <1>8, <1>9 DEF HandoffInv

\* A step that inserts a scan and makes its workspace show it, which has none
\* running.
LEMMA NewRow ==
  ASSUME HandoffInv, NEW s \in Scans, ~HasRow(scan, s), NEW r \in ScanRow,
         NEW w \in Workspaces, NEW x \in WorkspaceRow, RunningIn(w) = {},
         r.workspace = w, x.active = s, x.mode = r.mode, x.scope = r.scope, HoldsClaim(r),
         scan' = [scan EXCEPT ![s] = r], workspace' = [workspace EXCEPT ![w] = x],
         call' \in [Callers -> CallRow \cup {None}], CallsSeeTheSetup'
  PROVE  HandoffInv'
<1>1. TypeOK'
  BY DEF HandoffInv, TypeOK
<1>2. r # None /\ x # None
  BY RowsAssumption
<1>3. scan'[s] = r /\ \A t \in Scans \ {s} : scan'[t] = scan[t]
  BY DEF HandoffInv, TypeOK
<1>4. workspace'[w] = x /\ \A v \in Workspaces \ {w} : workspace'[v] = workspace[v]
  BY DEF HandoffInv, TypeOK
<1>5. RunningIn(w)' \subseteq {s} /\ \A v \in Workspaces \ {w} : RunningIn(v)' = RunningIn(v)
  BY <1>2, <1>3 DEF RunningIn, HasRow
<1>6. OneScanRuns'
  BY <1>4, <1>5 DEF HandoffInv, OneScanRuns
<1>7. \A v \in Workspaces \ {w} : HasRow(workspace, v) /\ workspace[v].active # None
         => workspace[v].active \in Scans \ {s}
  BY DEF HandoffInv, ActiveScansAreOwn
<1>8. ScanMatchesSetup'
  BY <1>2, <1>3, <1>4, <1>7 DEF HandoffInv, ScanMatchesSetup, HasRow
<1>9. ThreadFollowsClaim'
  BY <1>2, <1>3 DEF HandoffInv, ThreadFollowsClaim, HoldsClaim, HasRow
<1>10. ScansHaveWorkspaces'
  BY <1>2, <1>3, <1>4 DEF HandoffInv, TypeOK, ScansHaveWorkspaces, HasRow, ScanRow
<1>11. ActiveScansAreOwn'
  BY <1>2, <1>3, <1>4, <1>7 DEF HandoffInv, ActiveScansAreOwn, HasRow
<1> QED BY <1>1, <1>6, <1>8, <1>9, <1>10, <1>11 DEF HandoffInv

\* Whoever has looked at a workspace learns that it has changed.
LEMMA MovedCalls ==
  ASSUME HandoffInv, NEW w \in Workspaces,
         HasRow(workspace, w) => HasRow(workspace', w),
         \A v \in Workspaces \ {w} : workspace'[v] = workspace[v]
  PROVE  /\ Moved(w) \in [Callers -> CallRow \cup {None}]
         /\ \A p \in Callers : Moved(w)[p] # None =>
              /\ HasRow(workspace', Moved(w)[p].workspace)
              /\ ~Moved(w)[p].moved =>
                   Moved(w)[p].scope = workspace'[Moved(w)[p].workspace].scope
<1>1. \A p \in Callers : call[p] # None => call[p] \in CallRow
  BY DEF HandoffInv, TypeOK
<1>2. \A p \in Callers :
        /\ Moved(w)[p] = IF call[p] # None /\ call[p].workspace = w
                         THEN [call[p] EXCEPT !.moved = TRUE] ELSE call[p]
        /\ Moved(w)[p] \in CallRow \cup {None}
  BY <1>1 DEF Moved, CallRow
<1>3. Moved(w) \in [Callers -> CallRow \cup {None}]
  BY <1>2 DEF Moved
<1> SUFFICES ASSUME NEW p \in Callers, Moved(w)[p] # None
             PROVE  /\ HasRow(workspace', Moved(w)[p].workspace)
                    /\ ~Moved(w)[p].moved =>
                         Moved(w)[p].scope = workspace'[Moved(w)[p].workspace].scope
  BY <1>3
<1>4. call[p] # None /\ call[p] \in CallRow
  BY <1>1, <1>2
<1>5. /\ HasRow(workspace, call[p].workspace)
      /\ ~call[p].moved => call[p].scope = workspace[call[p].workspace].scope
  BY <1>4 DEF HandoffInv, CallsSeeTheSetup
<1>6. CASE call[p].workspace = w
  <2>1. Moved(w)[p] = [call[p] EXCEPT !.moved = TRUE]
    BY <1>2, <1>4, <1>6
  <2>2. Moved(w)[p].moved /\ Moved(w)[p].workspace = w
    BY <2>1, <1>4, <1>6 DEF CallRow
  <2> QED BY <2>2, <1>5, <1>6
<1>7. CASE call[p].workspace # w
  <2>1. Moved(w)[p] = call[p]
    BY <1>2, <1>7
  <2>2. workspace'[call[p].workspace] = workspace[call[p].workspace]
    BY <1>4, <1>7 DEF CallRow
  <2> QED BY <2>1, <2>2, <1>5 DEF HasRow
<1> QED BY <1>6, <1>7

\* A step in which the calls move on over the same rows.
LEMMA CallStep ==
  ASSUME HandoffInv, UNCHANGED <<workspace, scan>>,
         call' \in [Callers -> CallRow \cup {None}], CallsSeeTheSetup'
  PROVE  HandoffInv'
BY DEF HandoffInv, TypeOK, OneScanRuns, ScanMatchesSetup, ThreadFollowsClaim,
       ScansHaveWorkspaces, ActiveScansAreOwn, RunningIn, HasRow

\* A new setup: its workspace shows no scan, before or after.
LEMMA SetupStep ==
  ASSUME HandoffInv, NEW w \in Workspaces, NEW x \in WorkspaceRow, x.active = None,
         HasRow(workspace, w) => workspace[w].active = None,
         workspace' = [workspace EXCEPT ![w] = x], UNCHANGED scan,
         call' \in [Callers -> CallRow \cup {None}], CallsSeeTheSetup'
  PROVE  HandoffInv'
<1>1. TypeOK' /\ x # None
  BY RowsAssumption DEF HandoffInv, TypeOK
<1>2. workspace'[w] = x /\ \A v \in Workspaces \ {w} : workspace'[v] = workspace[v]
  BY DEF HandoffInv, TypeOK
<1>3. \A v \in Workspaces : RunningIn(v)' = RunningIn(v)
  BY DEF RunningIn, HasRow
<1>4. HasRow(workspace, w) \/ RunningIn(w) = {}
  BY DEF HandoffInv, ScansHaveWorkspaces, RunningIn
<1>5. OneScanRuns'
  BY <1>2, <1>3, <1>4 DEF HandoffInv, OneScanRuns
<1>6. ScanMatchesSetup' /\ ThreadFollowsClaim' /\ ActiveScansAreOwn'
  BY <1>2 DEF HandoffInv, ScanMatchesSetup, ThreadFollowsClaim, ActiveScansAreOwn, HasRow
<1>7. ScansHaveWorkspaces'
  BY <1>1, <1>2 DEF HandoffInv, TypeOK, ScanRow, ScansHaveWorkspaces, HasRow
<1> QED BY <1>1, <1>5, <1>6, <1>7 DEF HandoffInv

LEMMA CreateWorkspaceKeeps ==
  ASSUME HandoffInv, NEW w \in Workspaces, NEW h \in Threads, NEW mode \in Modes,
         NEW scope \in Scopes, CreateWorkspace(w, h, mode, scope)
  PROVE  HandoffInv'
<1> DEFINE x == NewWorkspace(h, mode, scope, FALSE, None)
<1>1. x \in WorkspaceRow /\ x.active = None
  BY DEF NewWorkspace, WorkspaceRow
<1>2. workspace' = [workspace EXCEPT ![w] = x] /\ UNCHANGED <<scan, call>> /\ ~HasRow(workspace, w)
  BY DEF CreateWorkspace
<1>3. \A v \in Workspaces : HasRow(workspace, v) => workspace'[v] = workspace[v]
  BY <1>2 DEF HandoffInv, TypeOK, HasRow
<1>4. \A p \in Callers : call[p] # None => call[p].workspace \in Workspaces
  BY DEF HandoffInv, TypeOK, CallRow
<1>5. CallsSeeTheSetup' /\ call' \in [Callers -> CallRow \cup {None}]
  BY <1>2, <1>3, <1>4 DEF HandoffInv, TypeOK, CallsSeeTheSetup, HasRow
<1> QED BY <1>1, <1>2, <1>5, SetupStep

LEMMA SaveWorkspaceKeeps ==
  ASSUME HandoffInv, NEW w \in Workspaces, NEW mode \in Modes, NEW scope \in Scopes,
         SaveWorkspace(w, mode, scope)
  PROVE  HandoffInv'
<1> DEFINE x == [workspace[w] EXCEPT !.mode = mode, !.scope = scope, !.submitted = TRUE]
<1>1. workspace[w] \in WorkspaceRow /\ workspace[w].active = None
  BY DEF HandoffInv, TypeOK, SaveWorkspace, HasRow
<1>2. x \in WorkspaceRow /\ x.active = None /\ x # None
  BY <1>1, RowsAssumption DEF WorkspaceRow
<1>3. workspace' = [workspace EXCEPT ![w] = x] /\ UNCHANGED scan /\ call' = Moved(w)
  BY <1>1 DEF SaveWorkspace, Touch, HandoffInv, TypeOK
<1>4. workspace'[w] = x /\ \A v \in Workspaces \ {w} : workspace'[v] = workspace[v]
  BY <1>3 DEF HandoffInv, TypeOK
<1>5. HasRow(workspace', w)
  BY <1>2, <1>4 DEF HasRow
<1>6. CallsSeeTheSetup' /\ call' \in [Callers -> CallRow \cup {None}]
  BY <1>3, <1>4, <1>5, MovedCalls DEF CallsSeeTheSetup, HasRow
<1> QED BY <1>1, <1>2, <1>3, <1>6, SetupStep

\* A new scan holds no claim, and is of the kind its workspace shows.
LEMMA NewScanRow ==
  ASSUME NEW w \in Workspaces, NEW thread \in Threads \cup {None}, NEW mode \in Modes,
         NEW scope \in Scopes, NEW handoff \in {"pending", "delivered"}
  PROVE  LET r == NewScan(w, thread, mode, scope, handoff)
         IN /\ r \in ScanRow /\ r.workspace = w /\ r.mode = mode /\ r.scope = scope
            /\ r.continuation = None
BY PhasesAssumption DEF NewScan, ScanRow

LEMMA ReadStartKeeps ==
  ASSUME HandoffInv, NEW p \in Callers, NEW w \in Workspaces, ReadStart(p, w)
  PROVE  HandoffInv'
<1> DEFINE c == [workspace |-> w, scope |-> workspace[w].scope, moved |-> FALSE]
<1>1. workspace[w] \in WorkspaceRow
  BY DEF HandoffInv, TypeOK, ReadStart, HasRow
<1>2. c \in CallRow
  BY <1>1 DEF WorkspaceRow, CallRow
<1>3. call' = [call EXCEPT ![p] = c] /\ UNCHANGED <<workspace, scan>> /\ HasRow(workspace, w)
  BY DEF ReadStart
<1>4. call' \in [Callers -> CallRow \cup {None}] /\ CallsSeeTheSetup'
  BY <1>2, <1>3 DEF HandoffInv, TypeOK, CallsSeeTheSetup, HasRow
<1> QED BY <1>3, <1>4, CallStep

LEMMA GiveUpKeeps ==
  ASSUME HandoffInv, NEW p \in Callers, GiveUp(p)
  PROVE  HandoffInv'
<1>1. call' \in [Callers -> CallRow \cup {None}] /\ CallsSeeTheSetup'
  BY DEF GiveUp, HandoffInv, TypeOK, CallsSeeTheSetup, HasRow
<1> QED BY <1>1, CallStep DEF GiveUp

LEMMA CommitStartKeeps ==
  ASSUME HandoffInv, NEW p \in Callers, NEW s \in Scans, CommitStart(p, s)
  PROVE  HandoffInv'
<1> DEFINE w == call[p].workspace
           r == NewScan(w, workspace[w].thread, workspace[w].mode, call[p].scope, "pending")
           x == [workspace[w] EXCEPT !.active = s]
<1>1. call[p] \in CallRow /\ w \in Workspaces /\ call[p].scope \in Scopes
  BY DEF CommitStart, HandoffInv, TypeOK, CallRow
<1>2. ~HasRow(scan, s) /\ RunningIn(w) = {} /\ ~call[p].moved /\ call[p] # None
  BY DEF CommitStart
<1>3. HasRow(workspace, w) /\ call[p].scope = workspace[w].scope
  BY <1>2 DEF HandoffInv, CallsSeeTheSetup
<1>4. workspace[w] \in WorkspaceRow
  BY <1>1, <1>3 DEF HandoffInv, TypeOK, HasRow
<1>5. workspace[w].thread \in Threads \cup {None} /\ workspace[w].mode \in Modes
  BY <1>4 DEF WorkspaceRow
<1>6. /\ r \in ScanRow /\ r.workspace = w /\ r.mode = workspace[w].mode
      /\ r.scope = workspace[w].scope /\ r.continuation = None
  BY <1>1, <1>3, <1>5, PhasesAssumption DEF NewScan, ScanRow
<1>7. x \in WorkspaceRow /\ x.active = s /\ x.mode = r.mode /\ x.scope = r.scope
  BY <1>4, <1>6 DEF WorkspaceRow
<1>8. /\ scan' = [scan EXCEPT ![s] = r] /\ workspace' = [workspace EXCEPT ![w] = x]
      /\ call' = [Moved(w) EXCEPT ![p] = None]
  BY DEF CommitStart
<1>9. x # None
  BY <1>7, RowsAssumption
<1>10. workspace'[w] = x /\ \A v \in Workspaces \ {w} : workspace'[v] = workspace[v]
  BY <1>1, <1>8 DEF HandoffInv, TypeOK
<1>11. HasRow(workspace', w)
  BY <1>9, <1>10 DEF HasRow
<1>12. CallsSeeTheSetup' /\ call' \in [Callers -> CallRow \cup {None}]
  <2> DEFINE m == Moved(w)
  <2>1. /\ m \in [Callers -> CallRow \cup {None}]
        /\ \A q \in Callers : m[q] # None =>
             /\ HasRow(workspace', m[q].workspace)
             /\ ~m[q].moved => m[q].scope = workspace'[m[q].workspace].scope
    BY <1>1, <1>10, <1>11, MovedCalls
  <2>2. call' = [m EXCEPT ![p] = None]
    BY <1>8
  <2> HIDE DEF m
  <2> QED BY <2>1, <2>2 DEF CallsSeeTheSetup, HasRow
<1>13. HoldsClaim(r)
  BY <1>6 DEF HoldsClaim
<1> HIDE DEF w, r, x
<1> QED BY <1>1, <1>2, <1>6, <1>7, <1>8, <1>12, <1>13, NewRow

\* The starts that bring their own workspace along.
LEMMA OwnWorkspace ==
  ASSUME HandoffInv, NEW w \in Workspaces, NEW s \in Scans, ~HasRow(workspace, w),
         ~HasRow(scan, s), NEW x \in WorkspaceRow, NEW r \in ScanRow,
         r.workspace = w, x.active = s, x.mode = r.mode, x.scope = r.scope, HoldsClaim(r),
         workspace' = [workspace EXCEPT ![w] = x], scan' = [scan EXCEPT ![s] = r],
         UNCHANGED call
  PROVE  HandoffInv'
<1>1. RunningIn(w) = {}
  BY DEF HandoffInv, ScansHaveWorkspaces, RunningIn
<1>2. \A v \in Workspaces : HasRow(workspace, v) => workspace'[v] = workspace[v]
  BY DEF HandoffInv, TypeOK, HasRow
<1>3. \A p \in Callers : call[p] # None => call[p].workspace \in Workspaces
  BY DEF HandoffInv, TypeOK, CallRow
<1>4. CallsSeeTheSetup' /\ call' \in [Callers -> CallRow \cup {None}]
  BY <1>2, <1>3 DEF HandoffInv, TypeOK, CallsSeeTheSetup, HasRow
<1> QED BY <1>1, <1>4, NewRow

LEMMA StartPromptKeeps ==
  ASSUME HandoffInv, NEW w \in Workspaces, NEW s \in Scans, NEW h \in Threads,
         NEW mode \in Modes, NEW scope \in Scopes, NEW headless \in BOOLEAN,
         NEW k \in Tokens, StartPrompt(w, s, h, mode, scope, headless, k)
  PROVE  HandoffInv'
<1> DEFINE x == NewWorkspace(h, mode, scope, TRUE, s)
           new == NewScan(w, h, mode, scope, "delivered")
           r == IF headless THEN [new EXCEPT !.token = k, !.continuation = h, !.claimedBy = k]
                ELSE new
<1>1. x \in WorkspaceRow /\ x.active = s /\ x.mode = mode /\ x.scope = scope
  BY DEF NewWorkspace, WorkspaceRow
<1>2. new \in ScanRow /\ new.workspace = w /\ new.mode = mode /\ new.scope = scope
      /\ new.continuation = None
  BY NewScanRow
<1> HIDE DEF new
<1>3. r \in ScanRow /\ r.workspace = w /\ r.mode = mode /\ r.scope = scope
  BY <1>2 DEF ScanRow
<1>4. k # None /\ mode # "deep"
  BY TokensAssumption DEF StartPrompt
<1>5. HoldsClaim(r)
  BY <1>2, <1>4 DEF HoldsClaim, ScanRow
<1>6. /\ ~HasRow(workspace, w) /\ ~HasRow(scan, s) /\ UNCHANGED call
      /\ workspace' = [workspace EXCEPT ![w] = x] /\ scan' = [scan EXCEPT ![s] = r]
  BY DEF StartPrompt, new
<1> HIDE DEF x, r
<1> QED BY <1>1, <1>3, <1>5, <1>6, OwnWorkspace

LEMMA RegisterCliScanKeeps ==
  ASSUME HandoffInv, NEW w \in Workspaces, NEW s \in Scans, NEW mode \in Modes,
         NEW scope \in Scopes, RegisterCliScan(w, s, mode, scope)
  PROVE  HandoffInv'
<1> DEFINE x == NewWorkspace(None, mode, scope, TRUE, s)
           new == NewScan(w, None, mode, scope, "delivered")
           r == [new EXCEPT !.recipe = TRUE]
<1>1. x \in WorkspaceRow /\ x.active = s /\ x.mode = mode /\ x.scope = scope
  BY DEF NewWorkspace, WorkspaceRow
<1>2. new \in ScanRow /\ new.workspace = w /\ new.mode = mode /\ new.scope = scope
      /\ new.continuation = None
  BY NewScanRow
<1>3. /\ ~HasRow(workspace, w) /\ ~HasRow(scan, s) /\ UNCHANGED call
      /\ workspace' = [workspace EXCEPT ![w] = x] /\ scan' = [scan EXCEPT ![s] = r]
  BY DEF RegisterCliScan
<1> HIDE DEF x, new
<1>4. r \in ScanRow /\ r.workspace = w /\ r.mode = mode /\ r.scope = scope /\ HoldsClaim(r)
  BY <1>2 DEF ScanRow, HoldsClaim
<1> HIDE DEF r
<1> QED BY <1>1, <1>3, <1>4, OwnWorkspace

LEMMA BeginForTargetKeeps ==
  ASSUME HandoffInv, NEW w \in Workspaces, NEW s \in Scans, NEW h \in Threads,
         NEW scope \in Scopes, BeginForTarget(w, s, h, scope)
  PROVE  HandoffInv'
<1> DEFINE x == NewWorkspace(h, "deep", scope, TRUE, s)
           new == NewScan(w, h, "deep", scope, "delivered")
           r == [new EXCEPT !.deep = "running"]
<1>1. x \in WorkspaceRow /\ x.active = s /\ x.mode = "deep" /\ x.scope = scope
  BY ModesAssumption DEF NewWorkspace, WorkspaceRow
<1>2. new \in ScanRow /\ new.workspace = w /\ new.mode = "deep" /\ new.scope = scope
      /\ new.continuation = None
  BY NewScanRow, ModesAssumption
<1>3. /\ ~HasRow(workspace, w) /\ ~HasRow(scan, s) /\ UNCHANGED call
      /\ workspace' = [workspace EXCEPT ![w] = x] /\ scan' = [scan EXCEPT ![s] = r]
  BY DEF BeginForTarget
<1> HIDE DEF x, new
<1>4. r \in ScanRow /\ r.workspace = w /\ r.mode = "deep" /\ r.scope = scope /\ HoldsClaim(r)
  BY <1>2 DEF ScanRow, HoldsClaim
<1> HIDE DEF r
<1> QED BY <1>1, <1>3, <1>4, OwnWorkspace

\* A Deep Scan of the command line falls to the first thread that begins it.
LEMMA ClaimUnownedKeeps ==
  ASSUME HandoffInv, NEW s \in Scans, NEW h \in Threads, NEW k \in Tokens \cup {None},
         ClaimUnowned(s, h, k)
  PROVE  HandoffInv'
<1> DEFINE w == scan[s].workspace
           r == [scan[s] EXCEPT !.owner = h]
           x == [workspace[w] EXCEPT !.thread = h]
<1>1. scan[s] \in ScanRow /\ w \in Workspaces /\ HasRow(scan, s)
  BY DEF ClaimUnowned, HandoffInv, TypeOK, HasRow, ScanRow
<1>2. HasRow(workspace, w) /\ workspace[w] \in WorkspaceRow
  BY <1>1 DEF HandoffInv, TypeOK, HasRow, ScansHaveWorkspaces
<1>3. scan[s].continuation = None
  BY <1>1 DEF ClaimUnowned, HandoffInv, ThreadFollowsClaim
<1>4. /\ r \in ScanRow /\ r.workspace = w /\ r.mode = scan[s].mode /\ r.scope = scan[s].scope
      /\ r.running = scan[s].running /\ r.continuation = None
  BY <1>1, <1>3 DEF ScanRow
<1>5. /\ x \in WorkspaceRow /\ x.mode = workspace[w].mode /\ x.scope = workspace[w].scope
      /\ x.active = workspace[w].active
  BY <1>2 DEF WorkspaceRow
<1>6. /\ scan' = [scan EXCEPT ![s] = r] /\ workspace' = [workspace EXCEPT ![w] = x]
      /\ call' = Moved(w)
  BY DEF ClaimUnowned, Touch
<1> HIDE DEF r, x
<1>7. r # None /\ x # None
  BY <1>4, <1>5, RowsAssumption
<1>8. /\ scan'[s] = r /\ \A t \in Scans \ {s} : scan'[t] = scan[t]
      /\ workspace'[w] = x /\ \A v \in Workspaces \ {w} : workspace'[v] = workspace[v]
  BY <1>1, <1>6 DEF HandoffInv, TypeOK
<1>9. \A t \in Scans : /\ HasRow(scan', t) <=> HasRow(scan, t)
                       /\ HasRow(scan, t) => /\ scan'[t].workspace = scan[t].workspace
                                             /\ scan'[t].mode = scan[t].mode
                                             /\ scan'[t].scope = scan[t].scope
                                             /\ scan'[t].running = scan[t].running
  BY <1>1, <1>4, <1>7, <1>8 DEF HasRow
<1>10. \A v \in Workspaces :
         /\ HasRow(workspace', v) <=> HasRow(workspace, v)
         /\ workspace'[v].active = workspace[v].active
         /\ workspace'[v].mode = workspace[v].mode
         /\ workspace'[v].scope = workspace[v].scope
  BY <1>2, <1>5, <1>7, <1>8 DEF HasRow
<1>11. \A v \in Workspaces : RunningIn(v)' = RunningIn(v)
  BY <1>9 DEF RunningIn
<1>12. CallsSeeTheSetup' /\ call' \in [Callers -> CallRow \cup {None}]
  <2>1. HasRow(workspace', w)
    BY <1>1, <1>2, <1>10
  <2>2. /\ Moved(w) \in [Callers -> CallRow \cup {None}]
        /\ \A p \in Callers : Moved(w)[p] # None =>
             /\ HasRow(workspace', Moved(w)[p].workspace)
             /\ ~Moved(w)[p].moved =>
                  Moved(w)[p].scope = workspace'[Moved(w)[p].workspace].scope
    BY <1>1, <1>8, <2>1, MovedCalls
  <2> QED BY <1>6, <2>2 DEF CallsSeeTheSetup, HasRow
<1>13. TypeOK'
  BY <1>4, <1>5, <1>6, <1>12 DEF HandoffInv, TypeOK
<1>14. OneScanRuns'
  BY <1>10, <1>11 DEF HandoffInv, OneScanRuns
<1>15. ScanMatchesSetup' /\ ActiveScansAreOwn'
  BY <1>9, <1>10 DEF HandoffInv, ScanMatchesSetup, ActiveScansAreOwn
<1>16. ScansHaveWorkspaces'
  BY <1>9, <1>10 DEF HandoffInv, TypeOK, ScanRow, HasRow, ScansHaveWorkspaces
<1>17. ThreadFollowsClaim'
  BY <1>4, <1>8, <1>9 DEF HandoffInv, ThreadFollowsClaim
<1> QED BY <1>12, <1>13, <1>14, <1>15, <1>16, <1>17 DEF HandoffInv

\* The steps of the handoff, of the Deep Scan's run, of progress and of the end.
LEMMA BeginForScanKeeps ==
  ASSUME HandoffInv, NEW s \in Scans, NEW h \in Threads, NEW k \in Tokens \cup {None},
         BeginForScan(s, h, k)
  PROVE  HandoffInv'
<1> DEFINE r == [scan[s] EXCEPT !.deep = "running"]
<1>1. HasRow(scan, s) /\ scan[s] \in ScanRow /\ HoldsClaim(scan[s])
  BY DEF BeginForScan, HandoffInv, TypeOK, ThreadFollowsClaim, HasRow, HoldsClaim
<1>2. /\ r \in ScanRow /\ HoldsClaim(r) /\ r.workspace = scan[s].workspace
      /\ r.mode = scan[s].mode /\ r.scope = scan[s].scope /\ r.running = scan[s].running
  BY <1>1 DEF ScanRow, HoldsClaim
<1>3. scan' = [scan EXCEPT ![s] = r] /\ UNCHANGED <<workspace, call>>
  BY DEF BeginForScan
<1> HIDE DEF r
<1> QED BY <1>1, <1>2, <1>3, RowStep

LEMMA FinishDeepKeeps ==
  ASSUME HandoffInv, NEW s \in Scans, FinishDeep(s)
  PROVE  HandoffInv'
<1> DEFINE r == [scan[s] EXCEPT !.deep = "succeeded"]
<1>1. HasRow(scan, s) /\ scan[s] \in ScanRow /\ HoldsClaim(scan[s])
  BY DEF FinishDeep, HandoffInv, TypeOK, ThreadFollowsClaim, HasRow, HoldsClaim
<1>2. /\ r \in ScanRow /\ HoldsClaim(r) /\ r.workspace = scan[s].workspace
      /\ r.mode = scan[s].mode /\ r.scope = scan[s].scope /\ r.running = scan[s].running
  BY <1>1 DEF ScanRow, HoldsClaim
<1>3. scan' = [scan EXCEPT ![s] = r] /\ UNCHANGED <<workspace, call>>
  BY DEF FinishDeep
<1> HIDE DEF r
<1> QED BY <1>1, <1>2, <1>3, RowStep

LEMMA ClaimHandoffKeeps ==
  ASSUME HandoffInv, NEW s \in Scans, NEW k \in Tokens, ClaimHandoff(s, k)
  PROVE  HandoffInv'
<1> DEFINE r == IF scan[s].token = None THEN [scan[s] EXCEPT !.token = k, !.stale = FALSE]
                ELSE [scan[s] EXCEPT !.token = k, !.stale = FALSE, !.continuation = None,
                                     !.claimedBy = None, !.owner = None]
<1>1. HasRow(scan, s) /\ scan[s] \in ScanRow /\ HoldsClaim(scan[s])
  BY DEF ClaimHandoff, HandoffInv, TypeOK, ThreadFollowsClaim, HasRow, HoldsClaim
<1>2. /\ r \in ScanRow /\ r.workspace = scan[s].workspace
      /\ r.mode = scan[s].mode /\ r.scope = scan[s].scope /\ r.running = scan[s].running
  BY <1>1 DEF ScanRow
<1>3. scan[s].token = None => scan[s].continuation = None
  BY <1>1 DEF HoldsClaim
<1>4. r.continuation = None
  BY <1>1, <1>3 DEF ScanRow
<1>5. scan' = [scan EXCEPT ![s] = r] /\ UNCHANGED <<workspace, call>>
  BY DEF ClaimHandoff
<1> HIDE DEF r
<1>6. HoldsClaim(r)
  BY <1>4 DEF HoldsClaim
<1> QED BY <1>1, <1>2, <1>5, <1>6, RowStep

LEMMA ClaimExpiresKeeps ==
  ASSUME HandoffInv, NEW s \in Scans, ClaimExpires(s)
  PROVE  HandoffInv'
<1> DEFINE r == [scan[s] EXCEPT !.stale = TRUE]
<1>1. HasRow(scan, s) /\ scan[s] \in ScanRow /\ HoldsClaim(scan[s])
  BY DEF ClaimExpires, HandoffInv, TypeOK, ThreadFollowsClaim, HasRow, HoldsClaim
<1>2. /\ r \in ScanRow /\ HoldsClaim(r) /\ r.workspace = scan[s].workspace
      /\ r.mode = scan[s].mode /\ r.scope = scan[s].scope /\ r.running = scan[s].running
  BY <1>1 DEF ScanRow, HoldsClaim
<1>3. scan' = [scan EXCEPT ![s] = r] /\ UNCHANGED <<workspace, call>>
  BY DEF ClaimExpires
<1> HIDE DEF r
<1> QED BY <1>1, <1>2, <1>3, RowStep

LEMMA ReleaseHandoffKeeps ==
  ASSUME HandoffInv, NEW s \in Scans, NEW k \in Tokens, ReleaseHandoff(s, k)
  PROVE  HandoffInv'
<1> DEFINE r == [scan[s] EXCEPT !.token = None, !.stale = FALSE, !.continuation = None,
                                !.claimedBy = None, !.owner = None]
<1>1. HasRow(scan, s) /\ scan[s] \in ScanRow
  BY DEF ReleaseHandoff, HandoffInv, TypeOK, HasRow
<1>2. /\ r \in ScanRow /\ HoldsClaim(r) /\ r.workspace = scan[s].workspace
      /\ r.mode = scan[s].mode /\ r.scope = scan[s].scope /\ r.running = scan[s].running
  BY <1>1 DEF ScanRow, HoldsClaim
<1>3. scan' = [scan EXCEPT ![s] = r] /\ UNCHANGED <<workspace, call>>
  BY <1>1 DEF ReleaseHandoff, HandoffInv, TypeOK, ScanRow
<1> HIDE DEF r
<1> QED BY <1>1, <1>2, <1>3, RowStep

LEMMA AttachThreadKeeps ==
  ASSUME HandoffInv, NEW s \in Scans, NEW k \in Tokens, NEW h \in Threads,
         AttachThread(s, k, h)
  PROVE  HandoffInv'
<1> DEFINE o == IF scan[s].mode = "deep" THEN h ELSE scan[s].owner
           r == [scan[s] EXCEPT !.continuation = h, !.claimedBy = k, !.owner = o]
<1>1. HasRow(scan, s) /\ scan[s] \in ScanRow /\ scan[s].token = k
  BY DEF AttachThread, HandoffInv, TypeOK, HasRow
<1>2. o \in Threads \cup {None} /\ (scan[s].mode = "deep" => o = h)
  BY <1>1 DEF ScanRow
<1>3. scan' = [scan EXCEPT ![s] = r] /\ UNCHANGED <<workspace, call>>
  BY <1>1 DEF AttachThread, HandoffInv, TypeOK, ScanRow
<1> HIDE DEF o
<1>4. /\ r \in ScanRow /\ HoldsClaim(r) /\ r.workspace = scan[s].workspace
      /\ r.mode = scan[s].mode /\ r.scope = scan[s].scope /\ r.running = scan[s].running
  BY <1>1, <1>2, TokensAssumption DEF ScanRow, HoldsClaim
<1> HIDE DEF r
<1> QED BY <1>1, <1>3, <1>4, RowStep

LEMMA MarkDeliveredKeeps ==
  ASSUME HandoffInv, NEW s \in Scans, NEW k \in Tokens, NEW h \in Threads \cup {None},
         MarkDelivered(s, k, h)
  PROVE  HandoffInv'
<1> DEFINE r == [scan[s] EXCEPT !.handoff = "delivered", !.stale = FALSE]
<1>1. HasRow(scan, s) /\ scan[s] \in ScanRow /\ HoldsClaim(scan[s])
  BY DEF MarkDelivered, HandoffInv, TypeOK, ThreadFollowsClaim, HasRow, HoldsClaim
<1>2. /\ r \in ScanRow /\ HoldsClaim(r) /\ r.workspace = scan[s].workspace
      /\ r.mode = scan[s].mode /\ r.scope = scan[s].scope /\ r.running = scan[s].running
  BY <1>1 DEF ScanRow, HoldsClaim
<1>3. scan' = [scan EXCEPT ![s] = r] /\ UNCHANGED <<workspace, call>>
  BY <1>1 DEF MarkDelivered, HandoffInv, TypeOK, ScanRow
<1> HIDE DEF r
<1> QED BY <1>1, <1>2, <1>3, RowStep

LEMMA UpdateProgressKeeps ==
  ASSUME HandoffInv, NEW s \in Scans, NEW k \in Tokens \cup {None}, NEW phase \in Phases,
         UpdateProgress(s, k, phase)
  PROVE  HandoffInv'
<1> DEFINE r == [scan[s] EXCEPT !.phase = phase]
<1>1. HasRow(scan, s) /\ scan[s] \in ScanRow /\ HoldsClaim(scan[s])
  BY DEF UpdateProgress, HandoffInv, TypeOK, ThreadFollowsClaim, HasRow, HoldsClaim
<1>2. /\ r \in ScanRow /\ HoldsClaim(r) /\ r.workspace = scan[s].workspace
      /\ r.mode = scan[s].mode /\ r.scope = scan[s].scope /\ r.running = scan[s].running
  BY <1>1 DEF ScanRow, HoldsClaim
<1>3. scan' = [scan EXCEPT ![s] = r] /\ UNCHANGED <<workspace, call>>
  BY DEF UpdateProgress
<1> HIDE DEF r
<1> QED BY <1>1, <1>2, <1>3, RowStep

LEMMA UpdateContextKeeps ==
  ASSUME HandoffInv, NEW s \in Scans, NEW h \in Threads \cup {None},
         NEW k \in Tokens \cup {None}, UpdateContext(s, h, k)
  PROVE  HandoffInv'
<1> DEFINE w == scan[s].workspace
<1>1. w \in Workspaces /\ HasRow(workspace, w)
  BY DEF UpdateContext, HandoffInv, TypeOK, HasRow, ScanRow, ScansHaveWorkspaces
<1>2. call' = Moved(w) /\ UNCHANGED <<workspace, scan>>
  BY DEF UpdateContext, Touch
<1>3. CallsSeeTheSetup' /\ call' \in [Callers -> CallRow \cup {None}]
  BY <1>1, <1>2, MovedCalls DEF CallsSeeTheSetup
<1> QED BY <1>2, <1>3, CallStep

LEMMA ScanEndsKeeps ==
  ASSUME HandoffInv, NEW s \in Scans, ScanEnds(s)
  PROVE  HandoffInv'
<1> DEFINE r == [scan[s] EXCEPT !.running = FALSE]
<1>1. HasRow(scan, s) /\ scan[s] \in ScanRow /\ HoldsClaim(scan[s])
  BY DEF ScanEnds, HandoffInv, TypeOK, ThreadFollowsClaim, HasRow, HoldsClaim
<1>2. /\ r \in ScanRow /\ HoldsClaim(r) /\ r.workspace = scan[s].workspace
      /\ r.mode = scan[s].mode /\ r.scope = scan[s].scope /\ (r.running => scan[s].running)
  BY <1>1 DEF ScanRow, HoldsClaim
<1>3. scan' = [scan EXCEPT ![s] = r] /\ UNCHANGED <<workspace, call>>
  BY DEF ScanEnds
<1> HIDE DEF r
<1> QED BY <1>1, <1>2, <1>3, RowStep

LEMMA HandoffStep == HandoffInv /\ [Next]_vars => HandoffInv'
<1> SUFFICES ASSUME HandoffInv, [Next]_vars PROVE HandoffInv'
  OBVIOUS
<1>1. CASE Setup
  BY <1>1, CreateWorkspaceKeeps, SaveWorkspaceKeeps DEF Setup
<1>2. CASE Starting
  <2>1. CASE \E p \in Callers : GiveUp(p) \/ (\E w \in Workspaces : ReadStart(p, w))
                                          \/ (\E s \in Scans : CommitStart(p, s))
    BY <2>1, GiveUpKeeps, ReadStartKeeps, CommitStartKeeps
  <2>2. ASSUME NEW w \in Workspaces, NEW s \in Scans, NEW scope \in Scopes,
               NEW h \in Threads, NEW mode \in Modes, NEW headless \in BOOLEAN,
               NEW k \in Tokens \ Recovery, StartPrompt(w, s, h, mode, scope, headless, k)
        PROVE  HandoffInv'
    BY <2>2, StartPromptKeeps
  <2>3. CASE \E w \in Workspaces, s \in Scans, scope \in Scopes :
               \/ \E mode \in Modes : RegisterCliScan(w, s, mode, scope)
               \/ \E h \in Threads : BeginForTarget(w, s, h, scope)
    BY <2>3, RegisterCliScanKeeps, BeginForTargetKeeps
  <2> QED BY <1>2, <2>1, <2>2, <2>3 DEF Starting
<1>3. CASE Beginning
  <2>1. PICK s \in Scans : \/ \E h \in Threads, k \in Tokens \cup {None} :
                                ClaimUnowned(s, h, k) \/ BeginForScan(s, h, k)
                           \/ FinishDeep(s)
    BY <1>3 DEF Beginning
  <2> QED BY <2>1, ClaimUnownedKeeps, BeginForScanKeeps, FinishDeepKeeps
<1>4. CASE HandingOver
  BY <1>4, ClaimExpiresKeeps, ClaimHandoffKeeps, ReleaseHandoffKeeps, AttachThreadKeeps,
     MarkDeliveredKeeps DEF HandingOver
<1>5. CASE Working
  BY <1>5, UpdateProgressKeeps, UpdateContextKeeps, ScanEndsKeeps DEF Working
<1>6. CASE UNCHANGED vars
  BY <1>6, CallStep DEF vars, HandoffInv, TypeOK, CallsSeeTheSetup, HasRow
<1> QED BY <1>1, <1>2, <1>3, <1>4, <1>5, <1>6 DEF Next

THEOREM HandoffInvariant == Spec => []HandoffInv
BY InitHandoff, HandoffStep, PTL DEF Spec

\* The rows and the starts keep their types.
THEOREM HandoffTypes == Spec => []TypeOK
<1>1. HandoffInv => TypeOK
  BY DEF HandoffInv
<1> QED BY <1>1, HandoffInvariant, PTL

\* However many panels start at once, a workspace runs one scan at most, the one
\* it points to (start_scan's second look in its transaction).
THEOREM OneScanPerWorkspace == Spec => []OneScanRuns
<1>1. HandoffInv => OneScanRuns
  BY DEF HandoffInv
<1> QED BY <1>1, HandoffInvariant, PTL

\* No start mixes the setup it inspected with one saved in between (start_scan's
\* comparison of updated_at, save_workspace's refusal under a scan).
THEOREM ScansRunTheirSetup == Spec => []ScanMatchesSetup
<1>1. HandoffInv => ScanMatchesSetup
  BY DEF HandoffInv
<1> QED BY <1>1, HandoffInvariant, PTL

\* No thread of an earlier claim stays in charge (claim_handoff_delivery,
\* release_handoff_delivery, attach_scan_continuation_thread).
THEOREM ContinuationFollowsClaim == Spec => []ThreadFollowsClaim
<1>1. HandoffInv => ThreadFollowsClaim
  BY DEF HandoffInv
<1> QED BY <1>1, HandoffInvariant, PTL

=============================================================================
