---------------------------- MODULE RunProofs ----------------------------
(***************************************************************************)
(* Theorems about the tables of runs and about the process that executes   *)
(* one.  First RuntimeState and RuntimeContract, for every workflow, every *)
(* number of runs, controllers and agents, and every bound; then           *)
(* RunLifecycle, for every workflow, every loss of a call and every moment *)
(* of a signal, a cancellation or a crash; last, what SchedulingProofs     *)
(* shows of the loop by itself, of the loop inside that process.           *)
(***************************************************************************)
EXTENDS RuntimeContract, RunLifecycle, WellFoundedInduction, TLAPS

LEMMA AppendEventType ==
  ASSUME TypeOK, NEW r \in Run, NEW version \in Nat, NEW kind \in EventKind,
         AppendEvent(r, version, kind)
  PROVE  log' \in [Run -> LogRow]
<1>1. log[r].sequence + 1 \in Nat
  BY DEF TypeOK, LogRow
<1>2. [version |-> version, sequence |-> log[r].sequence + 1, event |-> kind]
        \in LogRow
  BY <1>1 DEF LogRow
<1>3. QED BY <1>2 DEF AppendEvent, TypeOK

LEMMA CommitType ==
  ASSUME TypeOK, NEW r \in Run, NEW kind \in EventKind, Commit(r, kind)
  PROVE  log' \in [Run -> LogRow]
<1>1. log[r].version + 1 \in Nat
  BY DEF TypeOK, LogRow
<1>2. QED BY <1>1, AppendEventType DEF Commit

LEMMA CreateRunType ==
  ASSUME TypeOK, NEW r \in Run, NEW t \in Target, CreateRun(r, t)
  PROVE  TypeOK'
<1>1. [NoRun EXCEPT !.status = "created", !.target = t] \in RunRow
  BY DEF NoRun, RunRow, RunStatus, Coverage
<1>2. run' \in [Run -> RunRow]
  BY <1>1 DEF CreateRun, TypeOK
<1>3. \A p \in Phase : NewPhase(p) \in PhaseRow
  BY DEF NewPhase, PhaseRow, PhaseState
<1>4. phase' \in [Run -> [Phase -> PhaseRow]]
  BY <1>3 DEF CreateRun, TypeOK
<1>5. log' \in [Run -> LogRow]
  BY AppendEventType DEF CreateRun, EventKind
<1>6. QED BY <1>2, <1>4, <1>5 DEF CreateRun, TypeOK

LEMMA CancelRunType ==
  ASSUME TypeOK, NEW r \in Run, CancelRun(r)
  PROVE  TypeOK'
<1>1. [run[r] EXCEPT !.coverage = "inconclusive", !.frozen = TRUE] \in RunRow
  BY DEF TypeOK, RunRow, Coverage
<1>2. run' \in [Run -> RunRow]
  BY <1>1 DEF CancelRun, TypeOK
<1>3. log' \in [Run -> LogRow]
  BY CommitType DEF CancelRun, EventKind
<1>4. QED BY <1>2, <1>3 DEF CancelRun, TypeOK

LEMMA ClaimRunType ==
  ASSUME TypeOK, NEW r \in Run, NEW version, NEW claim \in Claim,
         ClaimRun(r, version, claim)
  PROVE  TypeOK'
<1>1. [run[r] EXCEPT !.status = "running", !.controller = claim,
                     !.coverage = OutcomeCoverage("running", run[r].coverage)] \in RunRow
  BY DEF TypeOK, RunRow, Coverage, RunStatus, OutcomeCoverage
<1>2. run' \in [Run -> RunRow]
  BY <1>1 DEF ClaimRun, TypeOK
<1>3. log' \in [Run -> LogRow]
  <2>1. CASE run[r].status = "created"
    BY <2>1, CommitType DEF ClaimRun, EventKind
  <2>2. CASE run[r].status # "created"
    BY <2>2, CommitType DEF ClaimRun, EventKind
  <2>3. QED BY <2>1, <2>2
<1>4. QED BY <1>2, <1>3 DEF ClaimRun, TypeOK

LEMMA UpdatePhaseType ==
  ASSUME TypeOK, NEW r \in Run, NEW change \in PhaseChange
  PROVE  UpdatePhase(r, change) \in [Phase -> PhaseRow]
<1> DEFINE row == phase[r][change.id]
           input == IF change.input = None THEN row.input ELSE change.input
<1>1. /\ change.id \in Phase
      /\ change.state \in PhaseState
      /\ change.input \in Input \cup {None}
      /\ change.output \in Output \cup {None}
  BY DEF PhaseChange, PhaseState
<1>2. phase[r] \in [Phase -> PhaseRow]
  BY DEF TypeOK
<1>3. row \in PhaseRow
  BY <1>1, <1>2
<1>4. input \in Input \cup {None} /\ row.version + 1 \in Nat
  BY <1>1, <1>3 DEF PhaseRow
<1>5. [state |-> change.state, input |-> input, output |-> change.output,
       source |-> row.source, version |-> row.version + 1] \in PhaseRow
  <2> HIDE DEF input
  <2>1. QED BY <1>1, <1>3, <1>4 DEF PhaseRow
<1>6. QED BY <1>2, <1>5 DEF UpdatePhase

LEMMA SettlePhasesType ==
  ASSUME TypeOK, NEW r \in Run
  PROVE  SettleCanceledPhases(r) \in [Phase -> PhaseRow]
<1>1. ASSUME NEW p \in Phase
      PROVE  [phase[r][p] EXCEPT !.state = "canceled",
                                 !.version = phase[r][p].version + 1]
               \in PhaseRow
  <2>1. phase[r][p] \in PhaseRow
    BY DEF TypeOK
  <2>2. ASSUME NEW row \in PhaseRow, NEW n \in Nat
        PROVE  [row EXCEPT !.state = "canceled", !.version = n] \in PhaseRow
    BY DEF PhaseRow, PhaseState
  <2>3. phase[r][p].version + 1 \in Nat
    BY <2>1 DEF PhaseRow
  <2>4. QED BY <2>1, <2>2, <2>3
<1>2. QED BY <1>1 DEF SettleCanceledPhases, TypeOK

LEMMA SettleAgentsType ==
  ASSUME TypeOK, NEW r \in Run
  PROVE  SettleCanceledAgents(r) \in [Agent -> AgentRow]
<1>1. ASSUME NEW t \in AttemptRow
      PROVE  SettleAttempt(t) \in AttemptRow
  BY DEF SettleAttempt, AttemptRow, AttemptStatus
<1>2. ASSUME NEW a \in Agent
      PROVE  [agent[a] EXCEPT
                !.attempts = [k \in 1..Len(agent[a].attempts) |->
                                SettleAttempt(agent[a].attempts[k])],
                !.status = IF agent[a].status = "running"
                           THEN "canceled" ELSE agent[a].status]
               \in AgentRow
  <2> DEFINE ts == agent[a].attempts
             us == [k \in 1..Len(ts) |-> SettleAttempt(ts[k])]
  <2>1. ts \in Seq(AttemptRow) /\ agent[a] \in AgentRow
    BY DEF TypeOK, AgentRow
  <2>2. us \in Seq(AttemptRow)
    BY <1>1, <2>1
  <2>3. QED
    BY <2>1, <2>2 DEF AgentRow, AttemptStatus
<1>3. QED BY <1>2 DEF SettleCanceledAgents, TypeOK

LEMMA TransitionType ==
  ASSUME TypeOK, NEW r \in Run, NEW version, NEW claim \in Claim,
         NEW change \in PhaseChange \cup {None},
         NEW next \in RunStatus \cup {None},
         NEW coverage \in Coverage \cup {None},
         Transition(r, version, claim, change, next, coverage)
  PROVE  TypeOK'
<1> DEFINE status == IF next = None THEN run[r].status ELSE next
           progress == IF coverage = None THEN run[r].coverage ELSE coverage
           controller == IF Released(status) THEN None ELSE run[r].controller
           frozen == run[r].frozen \/ next = "canceled"
           outcome == OutcomeCoverage(status, progress)
           phases == IF run[r].frozen THEN SettleCanceledPhases(r)
                     ELSE IF change = None THEN phase[r]
                     ELSE UpdatePhase(r, change)
           kind == IF next = None THEN "other" ELSE next
<1>1. run[r] \in RunRow
  BY DEF TypeOK
<1>2. /\ status \in RunStatus \cup {"absent"}
      /\ controller \in Claim \cup {None}
      /\ frozen \in BOOLEAN
      /\ progress \in Coverage
  BY <1>1 DEF RunRow
<1>3. outcome \in Coverage
  BY <1>2 DEF OutcomeCoverage, Coverage
<1>4. run' = [run EXCEPT ![r] =
                [run[r] EXCEPT !.status = status, !.controller = controller,
                               !.frozen = frozen, !.coverage = outcome]]
  BY DEF Transition, TransitionAllowed, PhasesAfter, StatusAfter,
         ProgressAfter, Released
<1>5. [run[r] EXCEPT !.status = status, !.controller = controller,
                     !.frozen = frozen, !.coverage = outcome] \in RunRow
  <2> HIDE DEF status, controller, frozen, outcome
  <2>1. QED BY <1>1, <1>2, <1>3 DEF RunRow
<1>6. run' \in [Run -> RunRow]
  <2> HIDE DEF status, controller, frozen, outcome
  <2>1. QED BY <1>4, <1>5 DEF TypeOK
<1>7. phases \in [Phase -> PhaseRow]
  BY UpdatePhaseType, SettlePhasesType DEF TypeOK
<1>8. phase' = [phase EXCEPT ![r] = phases]
  BY DEF Transition, TransitionAllowed, PhasesAfter, StatusAfter,
         ProgressAfter
<1>9. phase' \in [Run -> [Phase -> PhaseRow]]
  <2> HIDE DEF phases
  <2>1. QED BY <1>7, <1>8 DEF TypeOK
<1>10. agent' \in [Agent -> AgentRow]
  BY SettleAgentsType DEF Transition, TransitionAllowed, PhasesAfter, StatusAfter,
         ProgressAfter, TypeOK
<1>11. kind \in EventKind /\ Commit(r, kind)
  BY DEF Transition, TransitionAllowed, PhasesAfter, StatusAfter,
         ProgressAfter, EventKind, RunTransitions, RunStatus, RequireOwnedRun
<1>12. log' \in [Run -> LogRow]
  BY <1>11, CommitType
<1>13. QED BY <1>6, <1>9, <1>10, <1>12 DEF TypeOK

LEMMA RecordEventType ==
  ASSUME TypeOK, NEW r \in Run, NEW version, NEW claim \in Claim,
         RecordEvent(r, version, claim)
  PROVE  TypeOK'
BY CommitType DEF RecordEvent, EventKind, TypeOK

LEMMA StartAttemptType ==
  ASSUME TypeOK, NEW r \in Run, NEW version, NEW claim \in Claim,
         NEW p \in Phase, NEW a \in Agent, NEW ordinal \in Nat,
         StartAttempt(r, version, claim, p, a, ordinal)
  PROVE  TypeOK'
<1> DEFINE t == [status |-> "starting", session |-> None]
           ts == agent[a].attempts
           row == [home |-> <<r, p>>, status |-> "running",
                   attempts |-> Append(ts, t)]
<1>1. t \in AttemptRow
  BY DEF AttemptRow, AttemptStatus
<1>2. ts \in Seq(AttemptRow)
  BY DEF TypeOK, AgentRow
<1>3. Append(ts, t) \in Seq(AttemptRow)
  <2> HIDE DEF t, ts
  <2>1. QED BY <1>1, <1>2
<1>4. row \in AgentRow
  <2> HIDE DEF t, ts
  <2>1. QED BY <1>3 DEF AgentRow, AttemptStatus
<1>5. agent' = [agent EXCEPT ![a] = row]
  BY DEF StartAttempt
<1>6. agent' \in [Agent -> AgentRow]
  <2> HIDE DEF row
  <2>1. QED BY <1>4, <1>5 DEF TypeOK
<1>7. log' \in [Run -> LogRow]
  BY CommitType DEF StartAttempt, EventKind
<1>8. QED BY <1>6, <1>7 DEF StartAttempt, TypeOK

LEMMA UpdateAttemptType ==
  ASSUME TypeOK, NEW r \in Run, NEW version, NEW claim \in Claim,
         NEW a \in Agent, NEW k, NEW next \in AttemptStatus,
         NEW session \in Session \cup {None},
         UpdateAttempt(r, version, claim, a, k, next, session)
  PROVE  TypeOK'
<1> DEFINE ts == agent[a].attempts
           bound == IF session = None THEN ts[k].session ELSE session
           t == [status |-> next, session |-> bound]
           us == [ts EXCEPT ![k] = t]
           status == IF next = "running" THEN agent[a].status ELSE next
           row == [agent[a] EXCEPT !.attempts = us, !.status = status]
<1>1. agent[a] \in AgentRow
  BY DEF TypeOK
<1>2. ts \in Seq(AttemptRow) /\ k \in DOMAIN ts
  BY <1>1 DEF AgentRow, UpdateAttempt, UpdateAttemptAllowed
<1>3. ts[k] \in AttemptRow
  BY <1>2
<1>4. t \in AttemptRow
  BY <1>3 DEF AttemptRow
<1>5. us \in Seq(AttemptRow)
  <2> HIDE DEF ts, t
  <2>1. QED BY <1>2, <1>4
<1>6. status \in AttemptStatus \cup {"absent"}
  BY <1>1 DEF AgentRow
<1>7. row \in AgentRow
  <2> HIDE DEF us, status
  <2>1. QED BY <1>1, <1>5, <1>6 DEF AgentRow
<1>8. agent' = [agent EXCEPT ![a] = row]
  BY DEF UpdateAttempt
<1>9. agent' \in [Agent -> AgentRow]
  <2> HIDE DEF row
  <2>1. QED BY <1>7, <1>8 DEF TypeOK
<1>10. log' \in [Run -> LogRow]
  BY CommitType DEF UpdateAttempt, EventKind
<1>11. QED BY <1>9, <1>10 DEF UpdateAttempt, TypeOK

LEMMA ReuseOutputType ==
  ASSUME TypeOK, NEW r \in Run, NEW version, NEW claim \in Claim,
         NEW p \in Phase, NEW source \in Run, NEW sourcePhase \in Phase,
         NEW digest \in Output,
         ReuseOutput(r, version, claim, p, source, sourcePhase, digest)
  PROVE  TypeOK'
<1> DEFINE row == [phase[r][p] EXCEPT !.state = "reused",
                                      !.output = digest,
                                      !.source = <<source, sourcePhase>>,
                                      !.version = phase[r][p].version + 1]
<1>1. row \in PhaseRow
  <2>1. phase[r][p] \in PhaseRow
    BY DEF TypeOK
  <2>2. ASSUME NEW q \in PhaseRow, NEW n \in Nat
        PROVE  [q EXCEPT !.state = "reused", !.output = digest,
                         !.source = <<source, sourcePhase>>,
                         !.version = n] \in PhaseRow
    BY DEF PhaseRow, PhaseState
  <2>3. phase[r][p].version + 1 \in Nat
    BY <2>1 DEF PhaseRow
  <2>4. QED BY <2>1, <2>2, <2>3
<1>2. phase' = [phase EXCEPT ![r] = [phase[r] EXCEPT ![p] = row]]
  BY DEF ReuseOutput
<1>3. phase' \in [Run -> [Phase -> PhaseRow]]
  <2> HIDE DEF row
  <2>1. QED BY <1>1, <1>2 DEF TypeOK
<1>4. log' \in [Run -> LogRow]
  BY CommitType DEF ReuseOutput, EventKind
<1>5. QED BY <1>3, <1>4 DEF ReuseOutput, TypeOK

LEMMA OwnerOperationType ==
  ASSUME TypeOK, NEW r \in Run, NEW version, NEW claim \in Claim,
         OwnerOperation(r, version, claim)
  PROVE  TypeOK'
<1>1. CASE PhaseTransition(r, version, claim)
  BY <1>1, TransitionType DEF PhaseTransition
<1>2. CASE StatusTransition(r, version, claim)
  <2>1. PICK next \in {"interrupted", "completed", "failed", "canceled"} :
          Transition(r, version, claim, None, next,
            IF next = "completed" THEN "complete" ELSE "inconclusive")
    BY <1>2 DEF StatusTransition
  <2>2. next \in RunStatus
    BY DEF RunStatus
  <2>3. (IF next = "completed" THEN "complete" ELSE "inconclusive")
          \in Coverage
    BY DEF Coverage
  <2>4. QED BY <2>1, <2>2, <2>3, TransitionType
<1>3. CASE RecordEvent(r, version, claim)
  BY <1>3, RecordEventType
<1>4. CASE AttemptStart(r, version, claim)
  <2>1. PICK p \in Phase, a \in Agent, ordinal \in 1..MaxAttempts :
          StartAttempt(r, version, claim, p, a, ordinal)
    BY <1>4 DEF AttemptStart
  <2>2. ordinal \in Nat
    BY BoundAssumption
  <2>3. QED BY <2>1, <2>2, StartAttemptType
<1>5. CASE AttemptUpdate(r, version, claim)
  BY <1>5, UpdateAttemptType DEF AttemptUpdate
<1>6. CASE OutputReuse(r, version, claim)
  BY <1>6, ReuseOutputType DEF OutputReuse
<1>7. QED
  BY <1>1, <1>2, <1>3, <1>4, <1>5, <1>6 DEF OwnerOperation

LEMMA StutterType == TypeOK /\ UNCHANGED vars => TypeOK'
BY DEF TypeOK, vars

LEMMA TypeInit == Init => TypeOK
BY DEF Init, TypeOK, NoRun, NoLog, NoPhase, NoAgent, RunRow, LogRow, PhaseRow, AgentRow,
       Coverage

LEMMA TypeStep ==
  ASSUME TypeOK, [Next]_vars
  PROVE  TypeOK'
<1>1. ASSUME NEW r \in Run, NEW t \in Target, CreateRun(r, t)
      PROVE  TypeOK'
  BY <1>1, CreateRunType
<1>2. ASSUME NEW r \in Run, CancelRun(r)
      PROVE  TypeOK'
  BY <1>2, CancelRunType
<1>3. ASSUME NEW r \in Run, NEW version \in 1..MaxVersion,
             NEW claim \in Claim, ClaimRun(r, version, claim)
      PROVE  TypeOK'
  BY <1>3, ClaimRunType
<1>4. ASSUME NEW r \in Run, NEW version \in 1..MaxVersion,
             NEW claim \in Claim, OwnerOperation(r, version, claim)
      PROVE  TypeOK'
  BY <1>4, OwnerOperationType
<1>5. CASE UNCHANGED vars
  BY <1>5, StutterType
<1>6. QED BY <1>1, <1>2, <1>3, <1>4, <1>5 DEF Next

\* The rows always have the columns' types, whatever the clients do.
THEOREM TypeCorrect == Spec => []TypeOK
<1>1. TypeOK /\ [Next]_vars => TypeOK'
  BY TypeStep
<1>2. QED BY <1>1, TypeInit, PTL DEF Spec

-----------------------------------------------------------------------------
(* What one step may do to the row of a run and to its phases *)

SameRun(r) == run'[r] = run[r] /\ phase'[r] = phase[r]

Created(r) ==
  /\ run[r].status = "absent"
  /\ run'[r].status = "created"
  /\ run'[r].controller = None
  /\ ~run'[r].frozen
  /\ run'[r].coverage = "unset"
  /\ phase'[r] = [p \in Phase |-> NewPhase(p)]

CancelRequested(r) ==
  /\ run[r].status = "running" /\ ~run[r].frozen
  /\ run'[r].status = "running" /\ run'[r].frozen
  /\ run'[r].controller = run[r].controller
  /\ run'[r].coverage = "inconclusive"
  /\ run'[r].target = run[r].target
  /\ phase'[r] = phase[r]

Claimed(r) ==
  /\ run[r].status \in {"created", "interrupted"}
  /\ run'[r].status = "running"
  /\ run'[r].controller \in Claim
  /\ run'[r].frozen = run[r].frozen
  /\ run'[r].coverage # "complete"
  /\ run'[r].target = run[r].target
  /\ phase'[r] = phase[r]

PhaseChanged(r) ==
  /\ run[r].status = "running" /\ ~run[r].frozen
  /\ run'[r].status = "running" /\ ~run'[r].frozen
  /\ run'[r].controller = run[r].controller
  /\ run'[r].coverage # "complete"
  /\ run'[r].target = run[r].target
  /\ \E change \in PhaseChange :
       /\ UpdatePhaseAllowed(r, change)
       /\ phase'[r] = UpdatePhase(r, change)

ReusedFrom(r, p, s, q, row) ==
  /\ phase[r][p].state \in {"pending", "ready"}
  /\ phase[s][q].state \in Done
  /\ phase[s][q].input = phase[r][p].input
  /\ PhaseType[p] = PhaseType[q]
  /\ run[r].target = run[s].target
  /\ row.state = "reused"
  /\ row.input = phase[r][p].input
  /\ row.output = phase[s][q].output
  /\ row.output \in Output
  /\ row.version = phase[r][p].version + 1
  /\ phase'[r] = [phase[r] EXCEPT ![p] = row]

Reused(r) ==
  /\ run[r].status = "running" /\ ~run[r].frozen
  /\ run'[r] = run[r]
  /\ \E p \in Phase, s \in Run, q \in Phase, row \in PhaseRow :
       ReusedFrom(r, p, s, q, row)

Finished(r) ==
  /\ run[r].status = "running"
  /\ run'[r].status \in {"interrupted", "completed", "failed", "canceled"}
  /\ run[r].frozen <=> run'[r].status = "canceled"
  /\ run'[r].frozen = run[r].frozen
  /\ run'[r].controller = None
  /\ run'[r].target = run[r].target
  /\ run'[r].coverage = "complete" <=> run'[r].status = "completed"
  /\ phase'[r] = IF run[r].frozen THEN SettleCanceledPhases(r) ELSE phase[r]
  /\ run'[r].status = "completed" =>
       /\ \A p \in Phase : phase[r][p].state \in Done
       /\ \E p \in Phase : PhaseType[p] = Publication

Effect(r) ==
  \/ SameRun(r)
  \/ Created(r)
  \/ CancelRequested(r)
  \/ Claimed(r)
  \/ PhaseChanged(r)
  \/ Reused(r)
  \/ Finished(r)

\* The other runs are left alone.
Others(r) == \A s \in Run \ {r} : SameRun(s)

LEMMA CreateRunEffect ==
  ASSUME TypeOK, NEW r \in Run, NEW t \in Target, CreateRun(r, t)
  PROVE  Others(r) /\ Created(r)
<1>1. run'[r] = [NoRun EXCEPT !.status = "created", !.target = t]
  BY DEF CreateRun, TypeOK
<1>2. phase'[r] = [p \in Phase |-> NewPhase(p)]
  BY DEF CreateRun, TypeOK
<1>3. Others(r)
  BY DEF CreateRun, TypeOK, Others, SameRun
<1>4. /\ run'[r].status = "created"
      /\ run'[r].controller = None
      /\ ~run'[r].frozen
      /\ run'[r].coverage = "unset"
  BY <1>1 DEF NoRun
<1>5. run[r].status = "absent"
  BY DEF CreateRun
<1>6. QED BY <1>2, <1>3, <1>4, <1>5 DEF Created

LEMMA CancelRunEffect ==
  ASSUME TypeOK, NEW r \in Run, CancelRun(r)
  PROVE  Others(r) /\ CancelRequested(r)
<1>1. run'[r] = [run[r] EXCEPT !.coverage = "inconclusive", !.frozen = TRUE]
  BY DEF CancelRun, TypeOK
<1>2. run[r] \in RunRow
  BY DEF TypeOK
<1>3. Others(r)
  BY DEF CancelRun, TypeOK, Others, SameRun
<1>4. /\ run'[r].status = run[r].status
      /\ run'[r].frozen
      /\ run'[r].controller = run[r].controller
      /\ run'[r].coverage = "inconclusive"
      /\ run'[r].target = run[r].target
  BY <1>1, <1>2 DEF RunRow
<1>5. /\ run[r].status = "running" /\ ~run[r].frozen
      /\ phase'[r] = phase[r]
  BY DEF CancelRun
<1>6. QED BY <1>3, <1>4, <1>5 DEF CancelRequested

LEMMA ClaimRunEffect ==
  ASSUME TypeOK, NEW r \in Run, NEW version, NEW claim \in Claim,
         ClaimRun(r, version, claim)
  PROVE  Others(r) /\ Claimed(r) /\ run'[r].controller = claim
<1>1. run'[r] = [run[r] EXCEPT !.status = "running", !.controller = claim,
                   !.coverage = OutcomeCoverage("running", run[r].coverage)]
  BY DEF ClaimRun, TypeOK
<1>2. run[r] \in RunRow
  BY DEF TypeOK
<1>3. Others(r)
  BY DEF ClaimRun, TypeOK, Others, SameRun
<1>4. OutcomeCoverage("running", run[r].coverage) # "complete"
  BY DEF OutcomeCoverage
<1>5. /\ run'[r].status = "running"
      /\ run'[r].controller = claim
      /\ run'[r].frozen = run[r].frozen
      /\ run'[r].coverage = OutcomeCoverage("running", run[r].coverage)
      /\ run'[r].target = run[r].target
  BY <1>1, <1>2 DEF RunRow
<1>6. /\ run[r].status \in {"created", "interrupted"}
      /\ phase'[r] = phase[r]
  BY DEF ClaimRun
<1>7. QED BY <1>3, <1>4, <1>5, <1>6 DEF Claimed

LEMMA ChangeEffect ==
  ASSUME TypeOK, NEW r \in Run, NEW version, NEW claim \in Claim,
         NEW change \in PhaseChange,
         Transition(r, version, claim, change, None, None)
  PROVE  /\ Others(r) /\ PhaseChanged(r)
         /\ run[r].controller = claim
         /\ UpdatePhaseAllowed(r, change)
         /\ phase'[r] = UpdatePhase(r, change)
<1>1. Transition(r, version, claim, change, None, None)
  OBVIOUS
<1>2. None # "canceled" /\ None # "complete"
  BY NoneAssumption DEF RunStatus, Coverage
<1>3. RequireOwnedRun(r, version, claim, FALSE)
  BY <1>1, <1>2 DEF Transition, TransitionAllowed, PhasesAfter, StatusAfter,
         ProgressAfter, RequireOwnedRun
<1>4. run[r].status = "running" /\ ~run[r].frozen /\ run[r] \in RunRow
  BY <1>3 DEF RequireOwnedRun, TypeOK
<1>5. OutcomeCoverage("running", run[r].coverage) # "complete"
  BY DEF OutcomeCoverage
<1>6. run'[r] = [run[r] EXCEPT
                   !.status = "running",
                   !.controller = run[r].controller,
                   !.frozen = FALSE,
                   !.coverage = OutcomeCoverage("running", run[r].coverage)]
  BY <1>1, <1>2, <1>4 DEF Transition, TransitionAllowed, PhasesAfter, StatusAfter,
         ProgressAfter, TypeOK, TerminalRunStatus, Released
<1>7. Others(r)
  BY <1>1 DEF Transition, TransitionAllowed, PhasesAfter, StatusAfter,
         ProgressAfter, TypeOK, Others, SameRun
<1>8. change # None
  BY ChangeAssumption
<1>9. UpdatePhaseAllowed(r, change) /\ phase'[r] = UpdatePhase(r, change)
  BY <1>1, <1>4, <1>8 DEF Transition, TransitionAllowed, PhasesAfter, StatusAfter,
         ProgressAfter, TypeOK
<1>10. /\ run'[r].status = "running"
       /\ ~run'[r].frozen
       /\ run'[r].controller = run[r].controller
       /\ run'[r].coverage = OutcomeCoverage("running", run[r].coverage)
       /\ run'[r].target = run[r].target
  BY <1>4, <1>6 DEF RunRow
<1>11. QED BY <1>3, <1>4, <1>5, <1>7, <1>9, <1>10 DEF PhaseChanged, RequireOwnedRun

LEMMA PhaseTransitionEffect ==
  ASSUME TypeOK, NEW r \in Run, NEW version, NEW claim \in Claim,
         PhaseTransition(r, version, claim)
  PROVE  Others(r) /\ PhaseChanged(r)
BY ChangeEffect DEF PhaseTransition

Conclusion(next) == IF next = "completed" THEN "complete" ELSE "inconclusive"

LEMMA ConclusionEffect ==
  ASSUME TypeOK, NEW r \in Run, NEW version, NEW claim \in Claim,
         NEW next \in {"interrupted", "completed", "failed", "canceled"},
         next = "canceled" => run[r].frozen,
         Transition(r, version, claim, None, next, Conclusion(next))
  PROVE  /\ Others(r) /\ Finished(r)
         /\ run'[r].status = next
         /\ run[r].controller = claim
<1>1. /\ next = "canceled" => run[r].frozen
      /\ Transition(r, version, claim, None, next, Conclusion(next))
  OBVIOUS
<1>2. next # None /\ Conclusion(next) # None
  BY NoneAssumption DEF RunStatus, Coverage, Conclusion
<1>3. run[r].status = "running" /\ (run[r].frozen <=> next = "canceled")
  BY <1>1 DEF Transition, TransitionAllowed, PhasesAfter, StatusAfter,
         ProgressAfter, RequireOwnedRun
<1>4. run[r] \in RunRow
  BY DEF TypeOK
<1>5. OutcomeCoverage(next, Conclusion(next)) = "complete"
        <=> next = "completed"
  BY DEF OutcomeCoverage, Conclusion
<1>6. run'[r] = [run[r] EXCEPT
                   !.status = next,
                   !.controller = None,
                   !.frozen = run[r].frozen \/ next = "canceled",
                   !.coverage = OutcomeCoverage(next, Conclusion(next))]
  BY <1>1, <1>2 DEF Transition, TransitionAllowed, PhasesAfter, StatusAfter,
         ProgressAfter, TypeOK, TerminalRunStatus, Released
<1>7. phase'[r] = IF run[r].frozen THEN SettleCanceledPhases(r) ELSE phase[r]
  BY <1>1 DEF Transition, TransitionAllowed, PhasesAfter, StatusAfter,
         ProgressAfter, TypeOK
<1>8. next = "completed" =>
        /\ \A p \in Phase : phase[r][p].state \in Done
        /\ \E p \in Phase : PhaseType[p] = Publication
  BY <1>1, <1>2, <1>3 DEF Transition, TransitionAllowed, PhasesAfter, StatusAfter,
         ProgressAfter, OutcomeAllowed
<1>9. Others(r)
  BY <1>1 DEF Transition, TransitionAllowed, PhasesAfter, StatusAfter,
         ProgressAfter, TypeOK, Others, SameRun
<1>10. /\ run'[r].status = next
       /\ run'[r].controller = None
       /\ run'[r].frozen = run[r].frozen
       /\ run'[r].coverage = OutcomeCoverage(next, Conclusion(next))
       /\ run'[r].target = run[r].target
  BY <1>3, <1>4, <1>6 DEF RunRow
<1>11. run[r].controller = claim
  BY <1>1 DEF Transition, TransitionAllowed, RequireOwnedRun
<1>12. QED BY <1>1, <1>3, <1>5, <1>7, <1>8, <1>9, <1>10, <1>11 DEF Finished

LEMMA StatusTransitionEffect ==
  ASSUME TypeOK, NEW r \in Run, NEW version, NEW claim \in Claim,
         StatusTransition(r, version, claim)
  PROVE  Others(r) /\ Finished(r)
BY ConclusionEffect DEF StatusTransition, Conclusion

LEMMA OutputReuseEffect ==
  ASSUME TypeOK, NEW r \in Run, NEW version, NEW claim \in Claim,
         OutputReuse(r, version, claim)
  PROVE  Others(r) /\ Reused(r)
<1>1. PICK p \in Phase, q \in Phase, s \in Run, digest \in Output :
        ReuseOutput(r, version, claim, p, s, q, digest)
  BY DEF OutputReuse
<1> DEFINE row == [phase[r][p] EXCEPT !.state = "reused",
                                      !.output = digest,
                                      !.source = <<s, q>>,
                                      !.version = phase[r][p].version + 1]
<1>2. phase[r][p] \in PhaseRow
  BY DEF TypeOK
<1>3. row \in PhaseRow
  <2>1. ASSUME NEW u \in PhaseRow, NEW n \in Nat
        PROVE  [u EXCEPT !.state = "reused", !.output = digest,
                         !.source = <<s, q>>, !.version = n] \in PhaseRow
    BY DEF PhaseRow, PhaseState
  <2>2. phase[r][p].version + 1 \in Nat
    BY <1>2 DEF PhaseRow
  <2>3. QED BY <1>2, <2>1, <2>2
<1>4. /\ row.state = "reused" /\ row.output = digest
      /\ row.input = phase[r][p].input
      /\ row.version = phase[r][p].version + 1
  BY <1>2 DEF PhaseRow
<1>5. phase'[r] = [phase[r] EXCEPT ![p] = row]
  BY <1>1 DEF ReuseOutput, TypeOK
<1>6. run' = run /\ Others(r)
  BY <1>1 DEF ReuseOutput, TypeOK, Others, SameRun
<1>7. run[r].status = "running" /\ ~run[r].frozen
  BY <1>1 DEF ReuseOutput, RequireOwnedRun
<1>8. /\ phase[r][p].state \in {"pending", "ready"}
      /\ phase[s][q].state \in Done
      /\ phase[s][q].input = phase[r][p].input
      /\ PhaseType[p] = PhaseType[q]
      /\ run[r].target = run[s].target
      /\ phase[s][q].output = digest
  BY <1>1 DEF ReuseOutput, SameWork
<1>9. ReusedFrom(r, p, s, q, row)
  <2> HIDE DEF row
  <2>1. QED BY <1>4, <1>5, <1>8 DEF ReusedFrom
<1>10. QED
  <2> HIDE DEF row
  <2>1. QED BY <1>3, <1>6, <1>7, <1>9 DEF Reused

\* Every step does one of these things to a run, and nothing to the others.
OneRunMoves ==
  \/ run' = run /\ phase' = phase
  \/ \E r \in Run : Others(r) /\ Effect(r)

LEMMA OneRunMovesStep ==
  ASSUME TypeOK, [Next]_vars
  PROVE  OneRunMoves
<1>1. ASSUME NEW r \in Run, NEW t \in Target, CreateRun(r, t)
      PROVE  OneRunMoves
  BY <1>1, CreateRunEffect DEF Effect, OneRunMoves
<1>2. ASSUME NEW r \in Run, CancelRun(r)
      PROVE  OneRunMoves
  BY <1>2, CancelRunEffect DEF Effect, OneRunMoves
<1>3. ASSUME NEW r \in Run, NEW version, NEW claim \in Claim,
             ClaimRun(r, version, claim)
      PROVE  OneRunMoves
  BY <1>3, ClaimRunEffect DEF Effect, OneRunMoves
<1>4. ASSUME NEW r \in Run, NEW version, NEW claim \in Claim,
             OwnerOperation(r, version, claim)
      PROVE  OneRunMoves
  <2>1. CASE PhaseTransition(r, version, claim)
    BY <2>1, PhaseTransitionEffect DEF Effect, OneRunMoves
  <2>2. CASE StatusTransition(r, version, claim)
    BY <2>2, StatusTransitionEffect DEF Effect, OneRunMoves
  <2>3. CASE OutputReuse(r, version, claim)
    BY <2>3, OutputReuseEffect DEF Effect, OneRunMoves
  <2>4. CASE \/ RecordEvent(r, version, claim)
             \/ AttemptStart(r, version, claim)
             \/ AttemptUpdate(r, version, claim)
    BY <2>4 DEF RecordEvent, AttemptStart, StartAttempt, AttemptUpdate,
                UpdateAttempt, OneRunMoves
  <2>5. QED BY <1>4, <2>1, <2>2, <2>3, <2>4 DEF OwnerOperation
<1>5. CASE UNCHANGED vars
  BY <1>5 DEF vars, OneRunMoves
<1>6. QED BY <1>1, <1>2, <1>3, <1>4, <1>5 DEF Next

LEMMA StepEffect ==
  ASSUME TypeOK, [Next]_vars
  PROVE  \A r \in Run : Effect(r)
<1>1. CASE run' = run /\ phase' = phase
  BY <1>1 DEF Effect, SameRun
<1>2. CASE \E r \in Run : Others(r) /\ Effect(r)
  BY <1>2 DEF Others, Effect
<1>3. QED BY <1>1, <1>2, OneRunMovesStep DEF OneRunMoves

-----------------------------------------------------------------------------
(* What one step may do to one phase *)

Updated(r, p) ==
  /\ run[r].status = "running" /\ ~run[r].frozen
  /\ phase'[r][p].state \in PhaseTransitions[phase[r][p].state]
  /\ phase'[r][p].state # "reused"
  /\ phase'[r][p].state = "running" =>
       \A d \in Deps[p] : phase[r][d].state \in Done
  /\ IF phase'[r][p].state = "completed" THEN phase'[r][p].output \in Output
                                         ELSE phase'[r][p].output = None

Copied(r, p) ==
  /\ run[r].status = "running" /\ ~run[r].frozen
  /\ phase[r][p].state \in {"pending", "ready"}
  /\ phase'[r][p].state = "reused"
  /\ phase'[r][p].output \in Output
  /\ \E s \in Run, q \in Phase :
       /\ phase[s][q].state \in Done
       /\ phase[s][q].output = phase'[r][p].output
       /\ phase[s][q].input = phase'[r][p].input
       /\ PhaseType[p] = PhaseType[q]
       /\ run[r].target = run[s].target

Settled(r, p) ==
  /\ run[r].status = "running" /\ run[r].frozen
  /\ run'[r].status = "canceled"
  /\ phase[r][p].state \in Unsettled
  /\ phase'[r][p].state = "canceled"
  /\ phase'[r][p].output = phase[r][p].output

PhaseEffect(r, p) ==
  \/ phase'[r][p] = phase[r][p]
  \/ run[r].status = "absent" /\ phase'[r][p] = NewPhase(p)
  \/ Updated(r, p)
  \/ Copied(r, p)
  \/ Settled(r, p)

LEMMA PhaseStepEffect ==
  ASSUME TypeOK, NEW r \in Run, Effect(r), NEW p \in Phase
  PROVE  PhaseEffect(r, p)
<1>1. phase[r] \in [Phase -> PhaseRow] /\ phase[r][p] \in PhaseRow
  BY DEF TypeOK
<1>2. CASE SameRun(r) \/ CancelRequested(r) \/ Claimed(r)
  BY <1>2 DEF SameRun, CancelRequested, Claimed, PhaseEffect
<1>3. CASE Created(r)
  BY <1>3 DEF Created, PhaseEffect
<1>4. CASE PhaseChanged(r)
  <2>1. PICK change \in PhaseChange :
          UpdatePhaseAllowed(r, change) /\ phase'[r] = UpdatePhase(r, change)
    BY <1>4 DEF PhaseChanged
  <2>2. /\ change.id \in Phase
        /\ change.state # "reused"
        /\ IF change.state = "completed" THEN change.output \in Output
                                         ELSE change.output = None
    BY DEF PhaseChange
  <2>3. CASE p # change.id
    BY <1>1, <2>1, <2>2, <2>3 DEF UpdatePhase, PhaseEffect
  <2>4. CASE p = change.id
    <3>1. /\ phase'[r][p].state = change.state
          /\ phase'[r][p].output = change.output
      BY <1>1, <2>1, <2>2, <2>4 DEF UpdatePhase
    <3>2. Updated(r, p)
      BY <1>4, <2>1, <2>2, <2>4, <3>1
         DEF Updated, PhaseChanged, UpdatePhaseAllowed, DependenciesDone
    <3>3. QED BY <3>2 DEF PhaseEffect
  <2>5. QED BY <2>3, <2>4
<1>5. CASE Reused(r)
  <2>1. PICK u \in Phase, s \in Run, q \in Phase, row \in PhaseRow :
          ReusedFrom(r, u, s, q, row)
    BY <1>5 DEF Reused
  <2>2. CASE p # u
    BY <1>1, <2>1, <2>2 DEF ReusedFrom, PhaseEffect
  <2>3. CASE p = u
    <3>1. phase'[r][p] = row
      BY <1>1, <2>1, <2>3 DEF ReusedFrom
    <3>2. /\ phase[s][q].state \in Done
          /\ phase[s][q].output = phase'[r][p].output
          /\ phase[s][q].input = phase'[r][p].input
          /\ PhaseType[p] = PhaseType[q]
          /\ run[r].target = run[s].target
      BY <2>1, <2>3, <3>1 DEF ReusedFrom
    <3>3. Copied(r, p)
      BY <1>5, <2>1, <2>3, <3>1, <3>2 DEF Copied, Reused, ReusedFrom
    <3>4. QED BY <3>3 DEF PhaseEffect
  <2>4. QED BY <2>2, <2>3
<1>6. CASE Finished(r)
  <2>1. CASE ~run[r].frozen
    BY <1>6, <2>1 DEF Finished, PhaseEffect
  <2>2. CASE run[r].frozen /\ phase[r][p].state \notin Unsettled
    BY <1>6, <2>2 DEF Finished, PhaseEffect, SettleCanceledPhases
  <2>3. CASE run[r].frozen /\ phase[r][p].state \in Unsettled
    <3>1. phase'[r][p] = [phase[r][p] EXCEPT !.state = "canceled",
                            !.version = phase[r][p].version + 1]
      BY <1>6, <2>3 DEF Finished, SettleCanceledPhases
    <3>2. /\ phase'[r][p].state = "canceled"
          /\ phase'[r][p].output = phase[r][p].output
      BY <1>1, <3>1 DEF PhaseRow
    <3>3. Settled(r, p)
      BY <1>6, <2>3, <3>2 DEF Settled, Finished
    <3>4. QED BY <3>3 DEF PhaseEffect
  <2>4. QED BY <2>1, <2>2, <2>3
<1>7. QED BY <1>2, <1>3, <1>4, <1>5, <1>6 DEF Effect

-----------------------------------------------------------------------------
(* The inductive invariant of runs and phases *)

\* The columns of a run agree with its status.
RunColumns(r) ==
  /\ run[r].controller # None <=> run[r].status = "running"
  /\ run[r].coverage = "complete" <=> run[r].status = "completed"
  /\ run[r].frozen => run[r].status \in {"running", "canceled"}
  /\ run[r].status = "canceled" => run[r].frozen

\* A phase agrees with its run and with its dependencies.
PhaseColumns(r, p) ==
  /\ run[r].status = "absent" <=> phase[r][p].state = "absent"
  /\ phase[r][p].output # None <=> phase[r][p].state \in Done
  /\ phase[r][p].state \in {"running", "interrupted", "failed", "completed"}
       => \A d \in Deps[p] : phase[r][d].state \in Done
  /\ run[r].status = "canceled" => phase[r][p].state \notin Unsettled
  /\ run[r].status = "completed" => phase[r][p].state \in Done

HasPublication(r) ==
  run[r].status = "completed" => \E p \in Phase : PhaseType[p] = Publication

StoreInv ==
  \A r \in Run :
    /\ RunColumns(r)
    /\ HasPublication(r)
    /\ \A p \in Phase : PhaseColumns(r, p)

LEMMA RunColumnsStep ==
  ASSUME TypeOK, NEW r \in Run, Effect(r), RunColumns(r), HasPublication(r)
  PROVE  RunColumns(r)' /\ HasPublication(r)'
<1>1. CASE SameRun(r)
  BY <1>1 DEF SameRun, RunColumns, HasPublication
<1>2. CASE Created(r)
  BY <1>2 DEF Created, RunColumns, HasPublication
<1>3. CASE CancelRequested(r)
  BY <1>3 DEF CancelRequested, RunColumns, HasPublication
<1>4. CASE Claimed(r)
  BY <1>4, NoneAssumption DEF Claimed, RunColumns, HasPublication
<1>5. CASE PhaseChanged(r)
  BY <1>5 DEF PhaseChanged, RunColumns, HasPublication
<1>6. CASE Reused(r)
  BY <1>6 DEF Reused, RunColumns, HasPublication
<1>7. CASE Finished(r)
  BY <1>7 DEF Finished, RunColumns, HasPublication
<1>8. QED BY <1>1, <1>2, <1>3, <1>4, <1>5, <1>6, <1>7 DEF Effect

LEMMA DoneStays ==
  ASSUME TypeOK, NEW r \in Run, NEW p \in Phase, PhaseEffect(r, p),
         PhaseColumns(r, p), phase[r][p].state \in Done
  PROVE  phase'[r][p] = phase[r][p]
<1>1. run[r].status # "absent"
  BY DEF PhaseColumns, Done
<1>2. ~Updated(r, p)
  BY DEF Updated, PhaseTransitions, Done
<1>3. ~Copied(r, p) /\ ~Settled(r, p)
  BY DEF Copied, Settled, Done, Unsettled
<1>4. QED BY <1>1, <1>2, <1>3 DEF PhaseEffect

\* What any step leaves of a phase that stays as it was.
LEMMA PhaseColumnsStep ==
  ASSUME TypeOK, NEW r \in Run, Effect(r), RunColumns(r),
         \A q \in Phase : PhaseColumns(r, q) /\ PhaseEffect(r, q),
         NEW p \in Phase
  PROVE  PhaseColumns(r, p)'
<1>1. PhaseColumns(r, p) /\ PhaseEffect(r, p)
  OBVIOUS
<1>2. Deps[p] \subseteq Phase
  BY WorkflowAssumption
<1>3. \A q \in Phase : phase[r][q].state \in Done
        => phase'[r][q] = phase[r][q]
  BY DoneStays
<1>4. \A d \in Deps[p] : phase[r][d].state \in Done
        => phase'[r][d].state \in Done
  BY <1>2, <1>3
<1>5. \A o \in Output : o # None
  BY NoneAssumption
<1>6. CASE SameRun(r)
  BY <1>1, <1>6 DEF SameRun, PhaseColumns
<1>7. CASE Created(r)
  BY <1>7 DEF Created, PhaseColumns, NewPhase, Done, Unsettled
<1>8. CASE CancelRequested(r) \/ Claimed(r)
  BY <1>1, <1>8 DEF CancelRequested, Claimed, PhaseColumns, Unsettled
<1>9. ASSUME \/ PhaseChanged(r)
             \/ Reused(r)
      PROVE  PhaseColumns(r, p)'
  <2>1. run[r].status = "running" /\ run'[r].status = "running"
    BY <1>9 DEF PhaseChanged, Reused
  <2>2. CASE phase'[r][p] = phase[r][p]
    BY <1>1, <1>4, <2>1, <2>2 DEF PhaseColumns
  <2>3. CASE Updated(r, p)
    <3>1. phase'[r][p].state \in PhaseTransitions[phase[r][p].state]
      BY <2>3 DEF Updated
    <3>2. phase[r][p].state \in PhaseState
      <4>1. phase[r][p] \in PhaseRow
        BY DEF TypeOK
      <4>2. QED BY <1>1, <2>1, <4>1 DEF PhaseColumns, PhaseRow
    <3>3. phase'[r][p].state # "absent"
      BY <3>1, <3>2 DEF PhaseTransitions, PhaseState
    <3>4. phase'[r][p].output # None <=> phase'[r][p].state \in Done
      BY <1>5, <2>3 DEF Updated, Done
    <3>5. phase'[r][p].state \in {"interrupted", "failed", "completed"}
            => phase[r][p].state \in {"running", "interrupted"}
      BY <3>1, <3>2 DEF PhaseTransitions, PhaseState
    <3>6. phase'[r][p].state
              \in {"running", "interrupted", "failed", "completed"}
            => \A d \in Deps[p] : phase[r][d].state \in Done
      BY <1>1, <2>3, <3>5 DEF Updated, PhaseColumns
    <3>7. QED BY <1>4, <2>1, <3>3, <3>4, <3>6 DEF PhaseColumns
  <2>4. CASE Copied(r, p)
    BY <1>5, <2>1, <2>4 DEF Copied, PhaseColumns, Done
  <2>5. ~Settled(r, p)
    BY <2>1 DEF Settled
  <2>6. QED BY <1>1, <2>1, <2>2, <2>3, <2>4, <2>5 DEF PhaseEffect
<1>10. CASE Finished(r)
  <2>1. /\ run[r].status = "running"
        /\ run'[r].status \in {"interrupted", "completed", "failed",
                               "canceled"}
    BY <1>10 DEF Finished
  <2>2. CASE ~run[r].frozen
    <3>1. phase'[r] = phase[r] /\ run'[r].status # "canceled"
      BY <1>10, <2>2 DEF Finished
    <3>2. run'[r].status = "completed" => phase[r][p].state \in Done
      BY <1>10 DEF Finished
    <3>3. QED BY <1>1, <2>1, <3>1, <3>2 DEF PhaseColumns
  <2>3. CASE run[r].frozen
    <3>1. run'[r].status = "canceled"
      BY <1>10, <2>3 DEF Finished
    <3>2. phase'[r] = SettleCanceledPhases(r)
      BY <1>10, <2>3 DEF Finished
    <3>3. CASE phase[r][p].state \in Unsettled
      <4>1. Settled(r, p)
        <5>1. phase[r][p] \in PhaseRow
          BY DEF TypeOK
        <5>2. phase'[r][p] = [phase[r][p] EXCEPT !.state = "canceled",
                                !.version = phase[r][p].version + 1]
          BY <3>2, <3>3 DEF SettleCanceledPhases
        <5>3. QED BY <2>1, <2>3, <3>1, <3>3, <5>1, <5>2
                  DEF Settled, PhaseRow
      <4>2. QED BY <1>1, <2>1, <3>1, <3>3, <4>1
                DEF Settled, PhaseColumns, Unsettled, Done
    <3>4. CASE phase[r][p].state \notin Unsettled
      <4>1. phase'[r][p] = phase[r][p]
        BY <3>2, <3>4 DEF SettleCanceledPhases
      <4>2. QED BY <1>1, <1>4, <2>1, <3>1, <3>4, <4>1 DEF PhaseColumns
    <3>5. QED BY <3>3, <3>4
  <2>4. QED BY <2>2, <2>3
<1>11. QED BY <1>6, <1>7, <1>8, <1>9, <1>10 DEF Effect

LEMMA StoreInvInit == Init => StoreInv
<1> SUFFICES ASSUME Init, NEW r \in Run
             PROVE  /\ RunColumns(r)
                    /\ HasPublication(r)
                    /\ \A p \in Phase : PhaseColumns(r, p)
  BY DEF StoreInv
<1>1. run[r] = NoRun
  BY DEF Init
<1>2. RunColumns(r) /\ HasPublication(r)
  BY <1>1 DEF NoRun, RunColumns, HasPublication
<1>3. ASSUME NEW p \in Phase
      PROVE  PhaseColumns(r, p)
  <2>1. phase[r][p] = NoPhase
    BY DEF Init
  <2>2. QED BY <1>1, <2>1 DEF NoRun, NoPhase, PhaseColumns, Done
<1>4. QED BY <1>2, <1>3

LEMMA StoreInvStep ==
  ASSUME TypeOK, StoreInv, [Next]_vars
  PROVE  StoreInv'
<1> SUFFICES ASSUME NEW r \in Run
             PROVE  /\ RunColumns(r)'
                    /\ HasPublication(r)'
                    /\ \A p \in Phase : PhaseColumns(r, p)'
  BY DEF StoreInv
<1>1. Effect(r)
  BY StepEffect
<1>2. RunColumns(r) /\ HasPublication(r) /\ \A p \in Phase : PhaseColumns(r, p)
  BY DEF StoreInv
<1>3. \A p \in Phase : PhaseEffect(r, p)
  BY <1>1, PhaseStepEffect
<1>4. QED BY <1>1, <1>2, <1>3, RunColumnsStep, PhaseColumnsStep

\* The conjunction of the facts about runs and phases is an invariant of the
\* store: each operation may rely on them and re-establishes them.
THEOREM StoreInvariant == Spec => []StoreInv
<1>1. Init => StoreInv
  BY StoreInvInit
<1>2. TypeOK /\ StoreInv /\ [Next]_vars => StoreInv'
  BY StoreInvStep
<1>3. QED BY <1>1, <1>2, TypeCorrect, PTL DEF Spec

\* Whatever the controllers do, a run that completes has every output of its
\* workflow, its publication among them, and alone claims complete coverage.
THEOREM CompletedRuns == Spec => []CompletedRunIsWhole
<1>1. ASSUME StoreInv
      PROVE  CompletedRunIsWhole
  <2> SUFFICES ASSUME NEW r \in Run
               PROVE  /\ run[r].status = "completed" =>
                           /\ \A p \in Phase : /\ phase[r][p].state \in Done
                                               /\ phase[r][p].output # None
                           /\ \E p \in Phase : PhaseType[p] = Publication
                           /\ ~run[r].frozen
                      /\ run[r].coverage = "complete"
                           <=> run[r].status = "completed"
    BY DEF CompletedRunIsWhole
  <2>1. RunColumns(r) /\ HasPublication(r)
    BY <1>1 DEF StoreInv
  <2>2. \A p \in Phase : PhaseColumns(r, p)
    BY <1>1 DEF StoreInv
  <2>3. QED BY <2>1, <2>2 DEF RunColumns, HasPublication, PhaseColumns
<1>2. QED BY <1>1, StoreInvariant, PTL

\* A run has a controller exactly while it is running.
THEOREM Controllers == Spec => []ControllerWhileRunning
<1>1. StoreInv => ControllerWhileRunning
  BY DEF StoreInv, RunColumns, ControllerWhileRunning
<1>2. QED BY <1>1, StoreInvariant, PTL

\* No phase runs, and no result exists, before the phases it depends on are
\* done, however results are reused and runs resumed.
THEOREM DependencyOrder == Spec => []RanAfterDependencies
<1>1. StoreInv => RanAfterDependencies
  BY DEF StoreInv, PhaseColumns, RanAfterDependencies
<1>2. QED BY <1>1, StoreInvariant, PTL

\* A phase has an output exactly when it is done.
THEOREM Outputs == Spec => []OutputWhenDone
<1>1. StoreInv => OutputWhenDone
  BY DEF StoreInv, PhaseColumns, OutputWhenDone
<1>2. QED BY <1>1, StoreInvariant, PTL

-----------------------------------------------------------------------------
(* The refinement *)

\* The results of a run are those it had, but for one that has been delivered.
NoDelivery(r) == \A p \in Phase : phase'[r][p].output = phase[r][p].output

Delivered(r, q, o) ==
  /\ phase[r][q].output = None
  /\ phase'[r][q].output = o
  /\ \A p \in Phase \ {q} : phase'[r][p].output = phase[r][p].output

\* A change of one phase delivers one result or none.
LEMMA PhaseChangeDelivers ==
  ASSUME TypeOK, NEW r \in Run, \A p \in Phase : PhaseColumns(r, p),
         \A p \in Phase : PhaseEffect(r, p), PhaseChanged(r) \/ Reused(r)
  PROVE  NoDelivery(r) \/ \E q \in Phase, o \in Output : Delivered(r, q, o)
<1>1. phase[r] \in [Phase -> PhaseRow] /\ run[r].status = "running"
  BY DEF TypeOK, PhaseChanged, Reused
<1>2. PICK q \in Phase : \A p \in Phase \ {q} : phase'[r][p] = phase[r][p]
  <2>1. CASE PhaseChanged(r)
    <3>1. PICK change \in PhaseChange : phase'[r] = UpdatePhase(r, change)
      BY <2>1 DEF PhaseChanged
    <3>2. change.id \in Phase
      BY DEF PhaseChange
    <3> QED BY <1>1, <3>1, <3>2 DEF UpdatePhase
  <2>2. CASE Reused(r)
    BY <1>1, <2>2 DEF Reused, ReusedFrom
  <2> QED BY <2>1, <2>2
<1>3. PhaseColumns(r, q) /\ PhaseEffect(r, q)
  OBVIOUS
<1>4. CASE phase'[r][q] = phase[r][q]
  BY <1>2, <1>4 DEF NoDelivery
<1>5. CASE phase'[r][q] # phase[r][q]
  <2>1. ~Settled(r, q)
    BY DEF Settled, PhaseChanged, Reused
  <2>2. phase[r][q].state \notin Done /\ phase[r][q].output = None
    <3>1. phase[r][q].state \notin Done
      BY <1>3, <1>5, DoneStays
    <3> QED BY <1>3, <3>1 DEF PhaseColumns
  <2>3. phase'[r][q].output \in Output \/ phase'[r][q].output = None
    BY <1>1, <1>3, <1>5, <2>1 DEF PhaseEffect, Updated, Copied
  <2>4. CASE phase'[r][q].output = None
    BY <1>2, <2>2, <2>4 DEF NoDelivery
  <2>5. CASE phase'[r][q].output \in Output
    BY <1>2, <2>2, <2>5 DEF Delivered
  <2> QED BY <2>3, <2>4, <2>5
<1>6. QED BY <1>4, <1>5

\* A run that ends, or is created, delivers nothing.
LEMMA OtherwiseNoDelivery ==
  ASSUME TypeOK, NEW r \in Run, \A p \in Phase : PhaseColumns(r, p),
         \/ SameRun(r) \/ Created(r) \/ CancelRequested(r) \/ Claimed(r)
         \/ Finished(r)
  PROVE  NoDelivery(r)
<1> SUFFICES ASSUME NEW p \in Phase
             PROVE  phase'[r][p].output = phase[r][p].output
  BY DEF NoDelivery
<1>1. CASE SameRun(r) \/ CancelRequested(r) \/ Claimed(r)
  BY <1>1 DEF SameRun, CancelRequested, Claimed
<1>2. CASE Created(r)
  <2>1. phase[r][p].state = "absent" /\ PhaseColumns(r, p)
    BY <1>2 DEF Created, PhaseColumns
  <2>2. phase[r][p].output = None
    BY <2>1 DEF PhaseColumns, Done
  <2> QED BY <1>2, <2>2 DEF Created, NewPhase
<1>3. CASE Finished(r)
  <2>1. phase[r][p] \in PhaseRow
    BY DEF TypeOK
  <2>2. phase'[r][p] = phase[r][p]
          \/ phase'[r][p] = [phase[r][p] EXCEPT !.state = "canceled",
                               !.version = phase[r][p].version + 1]
    BY <1>3 DEF Finished, SettleCanceledPhases
  <2> QED BY <2>1, <2>2 DEF PhaseRow
<1>4. QED BY <1>1, <1>2, <1>3

\* What the contract sees of the store.
Statuses == [r \in Run |-> run[r].status]
Stops == [r \in Run |-> run[r].frozen]
Results == [r \in Run |-> [p \in Phase |-> phase[r][p].output]]

\* What it sees of a step in which only run r moves.
LEMMA OthersSeen ==
  ASSUME NEW r \in Run, Others(r)
  PROVE  /\ Statuses' = [Statuses EXCEPT ![r] = run'[r].status]
         /\ Stops' = [Stops EXCEPT ![r] = run'[r].frozen]
         /\ NoDelivery(r) => Results' = Results
         /\ \A q \in Phase, o \in Output :
              Delivered(r, q, o) => Results' = [Results EXCEPT ![r][q] = o]
<1>1. \A s \in Run \ {r} : run'[s] = run[s] /\ phase'[s] = phase[s]
  BY DEF Others, SameRun
<1>2. Statuses' = [Statuses EXCEPT ![r] = run'[r].status]
  BY <1>1 DEF Statuses
<1>3. Stops' = [Stops EXCEPT ![r] = run'[r].frozen]
  BY <1>1 DEF Stops
<1>4. NoDelivery(r) => Results' = Results
  BY <1>1 DEF NoDelivery, Results
<1>5. ASSUME NEW q \in Phase, NEW o \in Output, Delivered(r, q, o)
      PROVE  Results' = [Results EXCEPT ![r][q] = o]
  <2>1. [p \in Phase |-> phase'[r][p].output]
          = [[p \in Phase |-> phase[r][p].output] EXCEPT ![q] = o]
    BY <1>5 DEF Delivered
  <2> QED BY <1>1, <2>1 DEF Results
<1> QED BY <1>2, <1>3, <1>4, <1>5

\* One run moves as the contract allows, or so that it does not see it.
LEMMA ContractStep ==
  ASSUME TypeOK, TypeOK', StoreInv, NEW r \in Run, Others(r), Effect(r)
  PROVE  Contract!ContractNext \/ UNCHANGED <<Statuses, Stops, Results>>
<1>1. RunColumns(r) /\ \A p \in Phase : PhaseColumns(r, p)
  BY DEF StoreInv
<1>2. /\ Statuses[r] = run[r].status
      /\ Stops[r] = run[r].frozen
      /\ \A p \in Phase : Results[r][p] = phase[r][p].output
      /\ Statuses = [Statuses EXCEPT ![r] = run[r].status]
      /\ Stops = [Stops EXCEPT ![r] = run[r].frozen]
  BY DEF Statuses, Stops, Results
<1>3. /\ Statuses' = [Statuses EXCEPT ![r] = run'[r].status]
      /\ Stops' = [Stops EXCEPT ![r] = run'[r].frozen]
      /\ NoDelivery(r) => Results' = Results
      /\ \A q \in Phase, o \in Output :
           Delivered(r, q, o) => Results' = [Results EXCEPT ![r][q] = o]
  BY OthersSeen
<1>4. /\ run'[r].frozen = run[r].frozen => Stops' = Stops
      /\ run'[r].status = run[r].status => Statuses' = Statuses
  BY <1>2, <1>3
<1>5. run[r].frozen \in BOOLEAN /\ run'[r].frozen \in BOOLEAN
  BY DEF TypeOK, RunRow
<1>6. \/ SameRun(r) \/ Created(r) \/ CancelRequested(r) \/ Claimed(r)
      \/ Finished(r)
      => Results' = Results
  BY <1>1, <1>3, OtherwiseNoDelivery
<1>7. CASE SameRun(r)
  BY <1>4, <1>6, <1>7 DEF SameRun
<1>8. CASE Created(r)
  <2>1. run[r].status = "absent" /\ run'[r].status = "created"
    BY <1>8 DEF Created
  <2>2. Stops' = Stops
    <3>1. ~run'[r].frozen /\ ~run[r].frozen
      BY <1>1, <1>8, <2>1 DEF Created, RunColumns
    <3> QED BY <1>4, <1>5, <3>1
  <2>3. Contract!Submit(r)
    BY <1>2, <1>3, <1>6, <1>8, <2>1, <2>2
       DEF Contract!Submit, Contract!MoveTo, Statuses, Stops, Results
  <2> QED BY <2>3 DEF Contract!ContractNext
<1>9. CASE CancelRequested(r)
  <2>1. /\ run[r].status = "running" /\ ~run[r].frozen
        /\ Statuses' = Statuses /\ Stops' = [Stops EXCEPT ![r] = TRUE]
        /\ Results' = Results
    <3>1. run'[r].frozen = TRUE
      BY <1>5, <1>9 DEF CancelRequested
    <3> QED BY <1>3, <1>4, <1>6, <1>9, <3>1 DEF CancelRequested
  <2>2. Contract!RequestCancel(r)
    BY <1>2, <2>1 DEF Contract!RequestCancel, Contract!Working, Statuses, Stops, Results
  <2> QED BY <2>2 DEF Contract!ContractNext
<1>10. CASE Claimed(r)
  <2>1. Contract!Start(r)
    BY <1>2, <1>3, <1>4, <1>6, <1>10
       DEF Claimed, Contract!Start, Contract!MoveTo, Statuses, Stops, Results
  <2> QED BY <2>1 DEF Contract!ContractNext
<1>11. CASE Finished(r)
  <2>1. run'[r].frozen = run[r].frozen /\ run[r].status = "running"
    BY <1>11 DEF Finished
  <2>2. CASE run'[r].status = "canceled"
    <3>1. Contract!Cancel(r)
      BY <1>2, <1>3, <1>4, <1>6, <1>11, <2>1, <2>2
         DEF Finished, Contract!Cancel, Contract!MoveTo, Statuses, Stops, Results
    <3> QED BY <3>1 DEF Contract!ContractNext
  <2>3. CASE run'[r].status = "completed"
    <3>1. ~run[r].frozen /\ \A p \in Phase : phase[r][p].state \in Done
      BY <1>11, <2>3 DEF Finished
    <3>2. \A p \in Phase : Results[r][p] # None
      BY <1>1, <1>2, <3>1 DEF PhaseColumns
    <3>3. Contract!Complete(r)
      BY <1>2, <1>3, <1>4, <1>6, <1>11, <2>1, <2>3, <3>1, <3>2
         DEF Contract!Complete, Contract!Working, Contract!MoveTo, Statuses, Stops, Results
    <3> QED BY <3>3 DEF Contract!ContractNext
  <2>4. CASE run'[r].status \in {"failed", "interrupted"}
    <3>1. ~run[r].frozen
      BY <1>11, <2>4 DEF Finished
    <3>2. Contract!GiveUp(r)
      BY <1>2, <1>3, <1>4, <1>6, <1>11, <2>1, <2>4, <3>1
         DEF Contract!GiveUp, Contract!Working, Contract!MoveTo, Statuses, Stops, Results
    <3> QED BY <3>2 DEF Contract!ContractNext
  <2> QED BY <1>11, <2>2, <2>3, <2>4 DEF Finished
<1>12. CASE PhaseChanged(r) \/ Reused(r)
  <2>1. /\ run[r].status = "running" /\ ~run[r].frozen
        /\ run'[r].status = run[r].status /\ run'[r].frozen = run[r].frozen
    BY <1>5, <1>12 DEF PhaseChanged, Reused
  <2>2. Statuses' = Statuses /\ Stops' = Stops
    BY <1>4, <2>1
  <2>3. \A p \in Phase : PhaseEffect(r, p)
    BY PhaseStepEffect
  <2>4. CASE NoDelivery(r)
    BY <1>3, <2>2, <2>4
  <2>5. ASSUME NEW q \in Phase, NEW o \in Output, Delivered(r, q, o)
        PROVE  Contract!ContractNext
    <3>1. Results[r][q] = None /\ Results' = [Results EXCEPT ![r][q] = o]
      BY <1>2, <1>3, <2>5 DEF Delivered
    <3>2. Contract!Deliver(r, q, o)
      BY <1>2, <2>1, <2>2, <3>1
         DEF Contract!Deliver, Contract!Working, Statuses, Stops, Results
    <3> QED BY <3>2 DEF Contract!ContractNext
  <2> QED BY <1>1, <1>12, <2>3, <2>4, <2>5, PhaseChangeDelivers
<1> QED BY <1>7, <1>8, <1>9, <1>10, <1>11, <1>12 DEF Effect

\* Every history of the tables is one the contract allows: whatever the
\* controllers do, results are delivered once, only while the run is running
\* and no cancellation is pending, and a request to cancel is irrevocable.
THEOREM ImplementsTheContract == Spec => ImplementsContract
<1>1. Init => Contract!ContractInit
  <2> SUFFICES ASSUME Init PROVE Contract!ContractInit
    OBVIOUS
  <2>1. /\ Statuses = [r \in Run |-> "absent"]
        /\ Stops = [r \in Run |-> FALSE]
        /\ Results = [r \in Run |-> [p \in Phase |-> None]]
    BY DEF Init, Statuses, Stops, Results, NoRun, NoPhase
  <2> QED BY <2>1 DEF Contract!ContractInit, Statuses, Stops, Results
<1>2. TypeOK /\ TypeOK' /\ StoreInv /\ [Next]_vars
        => [Contract!ContractNext]_(Contract!contractVars)
  <2> SUFFICES ASSUME TypeOK, TypeOK', StoreInv, [Next]_vars
               PROVE  [Contract!ContractNext]_(Contract!contractVars)
    OBVIOUS
  <2>1. CASE run' = run /\ phase' = phase
    BY <2>1 DEF Contract!contractVars
  <2>2. ASSUME NEW r \in Run, Others(r), Effect(r)
        PROVE  [Contract!ContractNext]_(Contract!contractVars)
    <3>1. Contract!ContractNext \/ UNCHANGED <<Statuses, Stops, Results>>
      BY <2>2, ContractStep
    <3> QED BY <3>1 DEF Contract!contractVars, Statuses, Stops, Results
  <2> QED BY <2>1, <2>2, OneRunMovesStep DEF OneRunMoves
<1> QED
  BY <1>1, <1>2, TypeCorrect, StoreInvariant, PTL
     DEF Spec, ImplementsContract, Contract!ContractSpec

-----------------------------------------------------------------------------
(* What one step may do to the log of a run *)

Works(r) ==
  /\ run[r].status = "running" /\ ~run[r].frozen
  /\ run'[r].status = "running" /\ ~run'[r].frozen

\* Every change of a run is an event, and every event tells its change.
Logged(r) ==
  \/ log'[r] = log[r] /\ SameRun(r)
  \/ /\ log'[r].sequence = log[r].sequence + 1
     /\ \/ Created(r) /\ log'[r].version = 1
        \/ /\ log'[r].version = log[r].version + 1
           /\ \/ CancelRequested(r) /\ log'[r].event = "cancel_requested"
              \/ Claimed(r)
              \/ Finished(r) /\ log'[r].event = run'[r].status
              \/ Works(r)

LEMMA AppendEventEffect ==
  ASSUME TypeOK, NEW r \in Run, NEW version, NEW kind,
         AppendEvent(r, version, kind)
  PROVE  /\ log'[r].version = version
         /\ log'[r].sequence = log[r].sequence + 1
         /\ log'[r].event = kind
         /\ \A s \in Run \ {r} : log'[s] = log[s]
BY DEF AppendEvent, TypeOK

LEMMA CommitEffect ==
  ASSUME TypeOK, NEW r \in Run, NEW kind, Commit(r, kind)
  PROVE  /\ log'[r].version = log[r].version + 1
         /\ log'[r].sequence = log[r].sequence + 1
         /\ log'[r].event = kind
         /\ \A s \in Run \ {r} : log'[s] = log[s]
BY AppendEventEffect DEF Commit

LEMMA LoggedStep ==
  ASSUME TypeOK, [Next]_vars
  PROVE  \A r \in Run : Logged(r)
<1>1. ASSUME NEW r \in Run, Others(r), Logged(r),
             \A s \in Run \ {r} : log'[s] = log[s]
      PROVE  \A s \in Run : Logged(s)
  BY <1>1 DEF Others, Logged
<1>2. ASSUME NEW r \in Run, NEW t \in Target, CreateRun(r, t)
      PROVE  \A s \in Run : Logged(s)
  <2>1. AppendEvent(r, 1, "created")
    BY <1>2 DEF CreateRun
  <2> QED BY <1>1, <1>2, <2>1, CreateRunEffect, AppendEventEffect DEF Logged
<1>3. ASSUME NEW r \in Run, CancelRun(r)
      PROVE  \A s \in Run : Logged(s)
  <2>1. Commit(r, "cancel_requested")
    BY <1>3 DEF CancelRun
  <2> QED BY <1>1, <1>3, <2>1, CancelRunEffect, CommitEffect DEF Logged
<1>4. ASSUME NEW r \in Run, NEW version, NEW claim \in Claim,
             ClaimRun(r, version, claim)
      PROVE  \A s \in Run : Logged(s)
  <2>1. \E kind : Commit(r, kind)
    BY <1>4 DEF ClaimRun
  <2> QED BY <1>1, <1>4, <2>1, ClaimRunEffect, CommitEffect DEF Logged
<1>5. ASSUME NEW r \in Run, NEW version, NEW claim \in Claim,
             OwnerOperation(r, version, claim)
      PROVE  \A s \in Run : Logged(s)
  <2>1. CASE PhaseTransition(r, version, claim)
    <3>1. \E kind : Commit(r, kind)
      BY <2>1 DEF PhaseTransition, Transition
    <3>2. Works(r)
      BY <2>1, PhaseTransitionEffect DEF PhaseChanged, Works
    <3> QED BY <1>1, <2>1, <3>1, <3>2, PhaseTransitionEffect, CommitEffect
            DEF Logged
  <2>2. CASE StatusTransition(r, version, claim)
    <3>1. PICK next \in {"interrupted", "completed", "failed", "canceled"} :
            Transition(r, version, claim, None, next,
              IF next = "completed" THEN "complete" ELSE "inconclusive")
      BY <2>2 DEF StatusTransition
    <3>2. next # None
      BY NoneAssumption DEF RunStatus
    <3>3. Commit(r, next)
      BY <3>1, <3>2 DEF Transition
    <3>4. run'[r].status = next
      <4>1. run'[r].status = StatusAfter(r, next)
        BY <3>1 DEF Transition, TypeOK, RunRow
      <4> QED BY <3>2, <4>1 DEF StatusAfter
    <3> QED BY <1>1, <2>2, <3>3, <3>4, StatusTransitionEffect, CommitEffect
            DEF Logged
  <2>3. CASE OutputReuse(r, version, claim)
    <3>1. Commit(r, "other")
      BY <2>3 DEF OutputReuse, ReuseOutput
    <3>2. Works(r)
      BY <2>3, OutputReuseEffect DEF Reused, Works
    <3> QED BY <1>1, <2>3, <3>1, <3>2, OutputReuseEffect, CommitEffect
            DEF Logged
  <2>4. CASE \/ RecordEvent(r, version, claim)
             \/ AttemptStart(r, version, claim)
             \/ AttemptUpdate(r, version, claim)
    <3>1. /\ Commit(r, "other")
          /\ run' = run /\ phase' = phase
          /\ RequireOwnedRun(r, version, claim, FALSE)
      BY <2>4 DEF RecordEvent, AttemptStart, StartAttempt, AttemptUpdate,
                  UpdateAttempt, StartAttemptAllowed, UpdateAttemptAllowed
    <3>2. Works(r) /\ Others(r)
      BY <3>1 DEF RequireOwnedRun, Works, Others, SameRun
    <3> QED BY <1>1, <3>1, <3>2, CommitEffect DEF Logged
  <2>5. QED BY <1>5, <2>1, <2>2, <2>3, <2>4 DEF OwnerOperation
<1>6. CASE UNCHANGED vars
  BY <1>6 DEF vars, Logged, SameRun
<1>7. QED BY <1>2, <1>3, <1>4, <1>5, <1>6 DEF Next

\* The log of a run agrees with its row.
LogHolds(r) ==
  /\ log[r].sequence = log[r].version
  /\ run[r].status = "absent" => log[r].version = 0
  /\ run[r].status = "running" /\ run[r].frozen =>
       log[r].event = "cancel_requested"
  /\ run[r].status \in TerminalRunStatus => log[r].event = run[r].status

LogInv == \A r \in Run : LogHolds(r)

LEMMA LogInvStep ==
  ASSUME TypeOK, StoreInv, LogInv, [Next]_vars
  PROVE  LogInv'
<1> SUFFICES ASSUME NEW r \in Run PROVE LogHolds(r)'
  BY DEF LogInv
<1>1. LogHolds(r) /\ RunColumns(r) /\ Logged(r)
  BY LoggedStep DEF LogInv, StoreInv
<1>2. CASE log'[r] = log[r] /\ SameRun(r)
  BY <1>1, <1>2 DEF SameRun, LogHolds
<1>3. CASE Created(r) /\ log'[r].version = 1
                      /\ log'[r].sequence = log[r].sequence + 1
  BY <1>1, <1>3 DEF Created, LogHolds, TerminalRunStatus
<1>4. ASSUME log'[r].version = log[r].version + 1,
             log'[r].sequence = log[r].sequence + 1
      PROVE  log'[r].sequence = log'[r].version
  BY <1>1, <1>4 DEF LogHolds
<1>5. CASE CancelRequested(r) /\ log'[r].event = "cancel_requested"
                              /\ log'[r].sequence = log'[r].version
  BY <1>5 DEF CancelRequested, LogHolds, TerminalRunStatus
<1>6. CASE Claimed(r) /\ log'[r].sequence = log'[r].version
  BY <1>1, <1>6 DEF Claimed, LogHolds, RunColumns, TerminalRunStatus
<1>7. CASE Finished(r) /\ log'[r].event = run'[r].status
                       /\ log'[r].sequence = log'[r].version
  BY <1>7 DEF Finished, LogHolds
<1>8. CASE Works(r) /\ log'[r].sequence = log'[r].version
  BY <1>8 DEF Works, LogHolds, TerminalRunStatus
<1>9. QED BY <1>1, <1>2, <1>3, <1>4, <1>5, <1>6, <1>7, <1>8 DEF Logged

\* The log has one event per version, and its last one tells how the run
\* stands, however the calls of its clients interleave.
THEOREM LogIsTrue == Spec => []LogTellsOutcome
<1>1. Init => LogInv
  BY DEF Init, LogInv, LogHolds, NoRun, NoLog, TerminalRunStatus
<1>2. TypeOK /\ StoreInv /\ LogInv /\ [Next]_vars => LogInv'
  BY LogInvStep
<1>3. LogInv => LogTellsOutcome
  BY DEF LogInv, LogHolds, LogTellsOutcome
<1>4. QED BY <1>1, <1>2, <1>3, TypeCorrect, StoreInvariant, PTL DEF Spec

\* After a cancellation has been requested, the next change of the run, of
\* whatever kind and whoever makes it, is its cancellation, and no result is
\* admitted any more.
THEOREM FrozenRunsOnlyCancel == Spec => FrozenRunOnlyCancels
<1>1. ASSUME TypeOK, StoreInv, [Next]_vars
      PROVE  \A r \in Run :
               run[r].frozen /\ log'[r] # log[r] =>
                 /\ run[r].status = "running" /\ run'[r].status = "canceled"
                 /\ \A p \in Phase : phase'[r][p].output = phase[r][p].output
  <2> SUFFICES ASSUME NEW r \in Run, run[r].frozen, log'[r] # log[r]
               PROVE  /\ run[r].status = "running"
                      /\ run'[r].status = "canceled"
                      /\ \A p \in Phase :
                           phase'[r][p].output = phase[r][p].output
    OBVIOUS
  <2>1. Logged(r) /\ RunColumns(r) /\ \A p \in Phase : PhaseColumns(r, p)
    BY <1>1, LoggedStep DEF StoreInv
  <2>2. run[r].status \in {"running", "canceled"}
    BY <2>1 DEF RunColumns
  <2>3. Finished(r)
    BY <2>1, <2>2 DEF Logged, Created, CancelRequested, Claimed, Works
  <2>4. NoDelivery(r)
    BY <1>1, <2>1, <2>3, OtherwiseNoDelivery
  <2> QED BY <2>3, <2>4 DEF Finished, NoDelivery
<1> QED
  BY <1>1, TypeCorrect, StoreInvariant, PTL DEF Spec, FrozenRunOnlyCancels

-----------------------------------------------------------------------------
(* What one step may do to an agent and its attempts *)

\* An attempt begins, in a run that works.
Begun(a, r) ==
  /\ run[r].status = "running" /\ ~run[r].frozen
  /\ \E p \in Phase :
       /\ agent[a].home = None \/ agent[a].home = <<r, p>>
       /\ agent'[a].home = <<r, p>>
  /\ \E t : agent'[a].attempts = Append(agent[a].attempts, t)

\* An active attempt moves, and keeps the session it is bound to.
Moved(a, r) ==
  /\ run[r].status = "running" /\ ~run[r].frozen
  /\ BelongsTo(a, r)
  /\ agent'[a].home = agent[a].home
  /\ \E k \in DOMAIN agent[a].attempts : \E u :
       /\ agent'[a].attempts = [agent[a].attempts EXCEPT ![k] = u]
       /\ agent[a].attempts[k].status \in Active
       /\ agent[a].attempts[k].session # None =>
            u.session = agent[a].attempts[k].session

\* The attempts of a canceled run are settled.
Withdrawn(a, r) ==
  /\ run[r].status = "running" /\ run'[r].status = "canceled"
  /\ BelongsTo(a, r)
  /\ agent'[a] = SettleCanceledAgents(r)[a]

AgentEffect(a) ==
  \/ agent'[a] = agent[a]
  \/ \E r \in Run : Begun(a, r) \/ Moved(a, r) \/ Withdrawn(a, r)

\* An agent belongs to one run.
LEMMA OneHome ==
  ASSUME NEW a, NEW r, NEW s, BelongsTo(a, r), BelongsTo(a, s)
  PROVE  r = s
BY DEF BelongsTo

LEMMA StartAttemptEffect ==
  ASSUME TypeOK, NEW r \in Run, NEW version, NEW claim \in Claim,
         AttemptStart(r, version, claim), NEW a \in Agent
  PROVE  AgentEffect(a)
<1>1. PICK p \in Phase, b \in Agent, ordinal \in 1..MaxAttempts :
        StartAttempt(r, version, claim, p, b, ordinal)
  BY DEF AttemptStart
<1> DEFINE t == [status |-> "starting", session |-> None]
<1>2. /\ run[r].status = "running" /\ ~run[r].frozen
      /\ agent[b].home = None \/ agent[b].home = <<r, p>>
  BY <1>1 DEF StartAttempt, StartAttemptAllowed, RequireOwnedRun
<1>3. agent' = [agent EXCEPT ![b] =
                  [home |-> <<r, p>>, status |-> "running",
                   attempts |-> Append(agent[b].attempts, t)]]
  BY <1>1 DEF StartAttempt
<1>4. CASE a # b
  BY <1>3, <1>4 DEF TypeOK, AgentEffect
<1>5. CASE a = b
  <2>1. /\ agent'[a].home = <<r, p>>
        /\ agent'[a].attempts = Append(agent[a].attempts, t)
    BY <1>3, <1>5 DEF TypeOK
  <2> HIDE DEF t
  <2> QED BY <1>2, <1>5, <2>1 DEF AgentEffect, Begun
<1> QED BY <1>4, <1>5

LEMMA UpdateAttemptEffect ==
  ASSUME TypeOK, NEW r \in Run, NEW version, NEW claim \in Claim,
         AttemptUpdate(r, version, claim), NEW a \in Agent
  PROVE  AgentEffect(a)
<1>1. PICK b \in Agent, next \in AttemptStatus, session \in Session \cup {None} :
        \E k \in DOMAIN agent[b].attempts :
          UpdateAttempt(r, version, claim, b, k, next, session)
  BY DEF AttemptUpdate
<1>2. PICK k \in DOMAIN agent[b].attempts :
        UpdateAttempt(r, version, claim, b, k, next, session)
  BY <1>1
<1> DEFINE ts == agent[b].attempts
           u == [status  |-> next,
                 session |-> IF session = None THEN ts[k].session ELSE session]
           status == IF next = "running" THEN agent[b].status ELSE next
<1>3. /\ run[r].status = "running" /\ ~run[r].frozen /\ BelongsTo(b, r)
      /\ session # None /\ ts[k].session # None => session = ts[k].session
      /\ next \in AttemptTransitions[ts[k].status]
  BY <1>2 DEF UpdateAttempt, UpdateAttemptAllowed, RequireOwnedRun
<1>4. agent' = [agent EXCEPT ![b] =
        [agent[b] EXCEPT !.attempts = [ts EXCEPT ![k] = u], !.status = status]]
  BY <1>2 DEF UpdateAttempt
<1>5. agent[b] \in AgentRow /\ ts[k].status \in AttemptStatus
  <2>1. agent[b] \in AgentRow /\ ts \in Seq(AttemptRow)
    BY DEF TypeOK, AgentRow
  <2>2. ts[k] \in AttemptRow
    BY <2>1
  <2> QED BY <2>1, <2>2 DEF AttemptRow
<1>6. ts[k].status \in Active
  BY <1>3, <1>5 DEF AttemptTransitions, AttemptStatus, Active
<1>7. ts[k].session # None => u.session = ts[k].session
  BY <1>3
<1>8. CASE a # b
  BY <1>4, <1>8 DEF TypeOK, AgentEffect
<1>9. CASE a = b
  <2> HIDE DEF u, status
  <2>1. agent'[a] = [agent[b] EXCEPT !.attempts = [ts EXCEPT ![k] = u],
                                     !.status = status]
    BY <1>4, <1>9 DEF TypeOK
  <2>2. /\ agent'[a].home = agent[a].home
        /\ agent'[a].attempts = [agent[a].attempts EXCEPT ![k] = u]
    BY <1>5, <1>9, <2>1 DEF AgentRow
  <2> QED BY <1>3, <1>6, <1>7, <1>9, <2>2 DEF AgentEffect, Moved
<1> QED BY <1>8, <1>9

\* Only a cancellation, and only of the run it cancels, settles agents.
LEMMA TransitionEffect ==
  ASSUME TypeOK, NEW r \in Run, NEW version, NEW claim \in Claim,
         PhaseTransition(r, version, claim) \/ StatusTransition(r, version, claim)
  PROVE  IF run'[r].status = "canceled" THEN agent' = SettleCanceledAgents(r)
                                        ELSE agent' = agent
<1>1. CASE PhaseTransition(r, version, claim)
  <2>1. ~run[r].frozen /\ run'[r].status = "running"
    BY <1>1, PhaseTransitionEffect DEF PhaseChanged
  <2> QED BY <1>1, <2>1 DEF PhaseTransition, Transition
<1>2. CASE StatusTransition(r, version, claim)
  <2>1. run[r].frozen <=> run'[r].status = "canceled"
    BY <1>2, StatusTransitionEffect DEF Finished
  <2> QED BY <1>2, <2>1 DEF StatusTransition, Transition
<1> QED BY <1>1, <1>2

LEMMA AgentStepEffect ==
  ASSUME TypeOK, [Next]_vars, NEW a \in Agent
  PROVE  AgentEffect(a)
<1>1. CASE UNCHANGED agent
  BY <1>1 DEF AgentEffect
<1>2. ASSUME NEW r \in Run, NEW version, NEW claim \in Claim,
             OwnerOperation(r, version, claim)
      PROVE  AgentEffect(a)
  <2>1. CASE PhaseTransition(r, version, claim) \/ StatusTransition(r, version, claim)
    <3>1. CASE agent' = SettleCanceledAgents(r) /\ run'[r].status = "canceled"
      <4>1. run[r].status = "running"
        BY <1>2 DEF OwnerOperation, RequireOwnedRun
      <4>2. ~BelongsTo(a, r) => agent'[a] = agent[a]
        BY <3>1 DEF SettleCanceledAgents
      <4> QED BY <3>1, <4>1, <4>2 DEF AgentEffect, Withdrawn
    <3> QED BY <1>1, <2>1, <3>1, TransitionEffect
  <2>2. CASE RecordEvent(r, version, claim) \/ OutputReuse(r, version, claim)
    BY <1>1, <2>2 DEF RecordEvent, OutputReuse, ReuseOutput
  <2>3. QED BY <1>2, <2>1, <2>2, StartAttemptEffect, UpdateAttemptEffect
            DEF OwnerOperation
<1>3. QED BY <1>1, <1>2 DEF Next, CreateRun, CancelRun, ClaimRun, vars

\* A run that becomes canceled takes all its agents along.
LEMMA CancellationSettles ==
  ASSUME TypeOK, [Next]_vars, NEW r \in Run,
         run[r].status # "canceled", run'[r].status = "canceled"
  PROVE  agent' = SettleCanceledAgents(r)
<1>1. ASSUME NEW s \in Run, Others(s)
      PROVE  r = s
  BY <1>1 DEF Others, SameRun
<1>2. ASSUME NEW s \in Run, NEW t \in Target, CreateRun(s, t)
      PROVE  FALSE
  BY <1>1, <1>2, CreateRunEffect DEF Created
<1>3. ASSUME NEW s \in Run, CancelRun(s)
      PROVE  FALSE
  BY <1>1, <1>3, CancelRunEffect DEF CancelRequested
<1>4. ASSUME NEW s \in Run, NEW version, NEW claim \in Claim,
             ClaimRun(s, version, claim)
      PROVE  FALSE
  BY <1>1, <1>4, ClaimRunEffect DEF Claimed
<1>5. ASSUME NEW s \in Run, NEW version, NEW claim \in Claim,
             OwnerOperation(s, version, claim)
      PROVE  agent' = SettleCanceledAgents(r)
  <2>1. CASE PhaseTransition(s, version, claim) \/ StatusTransition(s, version, claim)
    <3>1. Others(s)
      BY <2>1, PhaseTransitionEffect, StatusTransitionEffect
    <3>2. r = s
      BY <1>1, <3>1
    <3> QED BY <2>1, <3>2, TransitionEffect
  <2>2. CASE ~(PhaseTransition(s, version, claim) \/ StatusTransition(s, version, claim))
    <3>1. run' = run
      BY <1>5, <2>2 DEF OwnerOperation, RecordEvent, AttemptStart, StartAttempt,
           AttemptUpdate, UpdateAttempt, OutputReuse, ReuseOutput
    <3> QED BY <3>1
  <2> QED BY <2>1, <2>2
<1>6. CASE UNCHANGED vars
  BY <1>6 DEF vars
<1>7. QED BY <1>2, <1>3, <1>4, <1>5, <1>6 DEF Next

\* Agents of a run that is not running are left alone, and no agent joins it.
LEMMA RestingAgents ==
  ASSUME TypeOK, [Next]_vars, NEW r \in Run, run[r].status # "running",
         NEW a \in Agent, BelongsTo(a, r) \/ BelongsTo(a, r)'
  PROVE  agent'[a] = agent[a] /\ BelongsTo(a, r)
<1>1. AgentEffect(a)
  BY AgentStepEffect
<1>2. ASSUME NEW s \in Run, Begun(a, s) PROVE FALSE
  <2>1. PICK p \in Phase : /\ agent[a].home = None \/ agent[a].home = <<s, p>>
                           /\ agent'[a].home = <<s, p>>
    BY <1>2 DEF Begun
  <2>2. r # s
    BY <1>2 DEF Begun
  <2>3. \A q \in Phase : <<r, q>> # None
    BY NoneAssumption
  <2> QED BY <2>1, <2>2, <2>3 DEF BelongsTo
<1>3. ASSUME NEW s \in Run, Moved(a, s) PROVE FALSE
  <2>1. BelongsTo(a, r)
    BY <1>3 DEF Moved, BelongsTo
  <2> QED BY <1>3, <2>1, OneHome DEF Moved
<1>4. ASSUME NEW s \in Run, Withdrawn(a, s) PROVE FALSE
  <2>1. agent[a] \in AgentRow
    BY DEF TypeOK
  <2>2. agent'[a].home = agent[a].home
    BY <1>4, <2>1 DEF Withdrawn, SettleCanceledAgents, AgentRow
  <2>3. BelongsTo(a, r)
    BY <2>2 DEF BelongsTo
  <2> QED BY <1>4, <2>3, OneHome DEF Withdrawn
<1>5. agent'[a] = agent[a]
  BY <1>1, <1>2, <1>3, <1>4 DEF AgentEffect
<1> QED BY <1>5 DEF BelongsTo

\* What settle_canceled_rows leaves of an agent of the run.
LEMMA SettledAgent ==
  ASSUME TypeOK, NEW r \in Run, NEW a \in Agent, BelongsTo(a, r),
         NEW row, row = SettleCanceledAgents(r)[a]
  PROVE  /\ row.home = agent[a].home
         /\ row.status # "running"
         /\ DOMAIN row.attempts = DOMAIN agent[a].attempts
         /\ Len(row.attempts) = Len(agent[a].attempts)
         /\ \A k \in DOMAIN agent[a].attempts :
              /\ row.attempts[k] = SettleAttempt(agent[a].attempts[k])
              /\ row.attempts[k].status \notin Active
<1> DEFINE ts == agent[a].attempts
           us == [k \in 1..Len(ts) |-> SettleAttempt(ts[k])]
           st == IF agent[a].status = "running" THEN "canceled" ELSE agent[a].status
<1>1. agent[a] \in AgentRow /\ ts \in Seq(AttemptRow)
  BY DEF TypeOK, AgentRow
<1>2. row = [agent[a] EXCEPT !.attempts = us, !.status = st]
  BY DEF SettleCanceledAgents
<1>3. row.home = agent[a].home /\ row.attempts = us /\ row.status = st
  <2> HIDE DEF us, st
  <2> QED BY <1>1, <1>2 DEF AgentRow
<1>4. DOMAIN ts = 1..Len(ts) /\ Len(ts) \in Nat
  BY <1>1
<1>5. Len(us) = Len(ts)
  BY <1>4
<1>6. ASSUME NEW t \in AttemptRow PROVE SettleAttempt(t).status \notin Active
  BY DEF SettleAttempt, AttemptRow, Active
<1>7. \A k \in DOMAIN ts : us[k] = SettleAttempt(ts[k]) /\ us[k].status \notin Active
  BY <1>1, <1>4, <1>6
<1> QED
  <2>1. DOMAIN us = DOMAIN ts
    BY <1>4
  <2> HIDE DEF us
  <2> QED BY <1>3, <1>5, <1>7, <2>1

\* A canceled run keeps nothing under way: all its attempts are settled with
\* it, and none can begin or move any more.
THEOREM CanceledRunsAreSettled == Spec => []CanceledRunIsSettled
<1> DEFINE AgentsSettled(r) ==
             run[r].status = "canceled" =>
               \A a \in Agent : BelongsTo(a, r) =>
                 /\ agent[a].status # "running"
                 /\ \A k \in DOMAIN agent[a].attempts :
                      agent[a].attempts[k].status \notin Active
           Inv == \A r \in Run : AgentsSettled(r)
<1>1. Init => Inv
  BY DEF Init, NoRun
<1>2. TypeOK /\ Inv /\ [Next]_vars => Inv'
  <2> SUFFICES ASSUME TypeOK, Inv, [Next]_vars, NEW r \in Run,
                      run'[r].status = "canceled",
                      NEW a \in Agent, BelongsTo(a, r)'
               PROVE  /\ agent'[a].status # "running"
                      /\ \A k \in DOMAIN agent'[a].attempts :
                           agent'[a].attempts[k].status \notin Active
    OBVIOUS
  <2>1. CASE run[r].status = "canceled"
    <3>1. agent'[a] = agent[a] /\ BelongsTo(a, r)
      BY <2>1, RestingAgents
    <3> QED BY <2>1, <3>1
  <2>2. CASE run[r].status # "canceled"
    <3>1. agent' = SettleCanceledAgents(r)
      BY <2>2, CancellationSettles
    <3>2. BelongsTo(a, r)
      <4>1. CASE BelongsTo(a, r)
        BY <4>1
      <4>2. CASE ~BelongsTo(a, r)
        BY <3>1, <4>2 DEF SettleCanceledAgents, BelongsTo
      <4> QED BY <4>1, <4>2
    <3> QED BY <3>1, <3>2, SettledAgent
  <2> QED BY <2>1, <2>2
<1>3. StoreInv /\ Inv => CanceledRunIsSettled
  BY DEF StoreInv, RunColumns, PhaseColumns, CanceledRunIsSettled
<1> HIDE DEF Inv
<1>4. QED BY <1>1, <1>2, <1>3, TypeCorrect, StoreInvariant, PTL DEF Spec

\* A run that is over never changes again: neither its row nor its log, phases,
\* agents or attempts, whatever late calls arrive.
THEOREM TerminalRunsAreImmutable == Spec => TerminalRunIsImmutable
<1>1. ASSUME TypeOK, [Next]_vars
      PROVE  \A r \in Run :
               run[r].status \in TerminalRunStatus =>
                 /\ <<run[r], log[r], phase[r]>>' = <<run[r], log[r], phase[r]>>
                 /\ \A a \in Agent : BelongsTo(a, r) => agent'[a] = agent[a]
  <2> SUFFICES ASSUME NEW r \in Run, run[r].status \in TerminalRunStatus
               PROVE  /\ <<run[r], log[r], phase[r]>>' = <<run[r], log[r], phase[r]>>
                      /\ \A a \in Agent : BelongsTo(a, r) => agent'[a] = agent[a]
    OBVIOUS
  <2>1. log'[r] = log[r] /\ SameRun(r)
    BY <1>1, LoggedStep
       DEF Logged, Created, CancelRequested, Claimed, Finished, Works,
           TerminalRunStatus
  <2>2. \A a \in Agent : BelongsTo(a, r) => agent'[a] = agent[a]
    BY <1>1, RestingAgents DEF TerminalRunStatus
  <2> QED BY <2>1, <2>2 DEF SameRun
<1> QED BY <1>1, TypeCorrect, PTL DEF Spec, TerminalRunIsImmutable

\* The history of an agent only grows: a settled attempt and a bound session
\* never change, and an agent never moves to another phase.
THEOREM HistoriesOnlyGrow == Spec => AttemptHistoryOnlyGrows
<1> DEFINE Grows(a) ==
             agent[a].home # None =>
               /\ agent'[a].home = agent[a].home
               /\ Len(agent'[a].attempts) >= Len(agent[a].attempts)
               /\ \A k \in DOMAIN agent[a].attempts :
                    LET t == agent[a].attempts[k]
                        u == agent'[a].attempts[k]
                    IN /\ t.status \notin Active => u = t
                       /\ t.session # None => u.session = t.session
<1>1. ASSUME TypeOK, [Next]_vars, NEW a \in Agent, agent[a].home # None
      PROVE  Grows(a)
  <2> DEFINE ts == agent[a].attempts
  <2>1. /\ AgentEffect(a) /\ agent[a] \in AgentRow
        /\ ts \in Seq(AttemptRow) /\ Len(ts) \in Nat /\ DOMAIN ts = 1..Len(ts)
    BY <1>1, AgentStepEffect DEF TypeOK, AgentRow
  <2>2. CASE agent'[a] = agent[a]
    BY <2>1, <2>2
  <2>3. ASSUME NEW r \in Run, Begun(a, r) PROVE Grows(a)
    <3>1. PICK t : agent'[a].attempts = Append(ts, t)
      BY <2>3 DEF Begun
    <3>2. /\ Len(agent'[a].attempts) = Len(ts) + 1
          /\ \A k \in DOMAIN ts : agent'[a].attempts[k] = ts[k]
      BY <2>1, <3>1
    <3>3. agent'[a].home = agent[a].home
      BY <1>1, <2>3 DEF Begun
    <3>4. Len(agent'[a].attempts) >= Len(ts)
      BY <2>1, <3>2
    <3>5. ASSUME NEW k \in DOMAIN ts
          PROVE  /\ ts[k].status \notin Active => agent'[a].attempts[k] = ts[k]
                 /\ ts[k].session # None => agent'[a].attempts[k].session = ts[k].session
      BY <3>2
    <3> QED BY <3>3, <3>4, <3>5
  <2>4. ASSUME NEW r \in Run, Moved(a, r) PROVE Grows(a)
    <3>0. PICK k \in DOMAIN ts :
            \E u : /\ agent'[a].attempts = [ts EXCEPT ![k] = u]
                   /\ ts[k].status \in Active
                   /\ ts[k].session # None => u.session = ts[k].session
      BY <2>4 DEF Moved
    <3>1. PICK u :
            /\ agent'[a].attempts = [ts EXCEPT ![k] = u]
            /\ ts[k].status \in Active
            /\ ts[k].session # None => u.session = ts[k].session
      BY <3>0
    <3>2. agent'[a].home = agent[a].home
      BY <2>4 DEF Moved
    <3>3. Len(agent'[a].attempts) = Len(ts)
      BY <2>1, <3>1
    <3>4. \A j \in DOMAIN ts :
            agent'[a].attempts[j] = IF j = k THEN u ELSE ts[j]
      BY <2>1, <3>1
    <3> QED BY <2>1, <3>1, <3>2, <3>3, <3>4
  <2>5. ASSUME NEW r \in Run, Withdrawn(a, r) PROVE Grows(a)
    <3>1. /\ agent'[a].home = agent[a].home
          /\ Len(agent'[a].attempts) = Len(ts)
          /\ \A k \in DOMAIN ts : agent'[a].attempts[k] = SettleAttempt(ts[k])
      BY <1>1, <2>5, SettledAgent DEF Withdrawn
    <3>2. \A k \in DOMAIN ts : ts[k] \in AttemptRow
      BY <2>1
    <3>3. ASSUME NEW t \in AttemptRow
          PROVE  /\ t.status \notin Active => SettleAttempt(t) = t
                 /\ SettleAttempt(t).session = t.session
      BY DEF SettleAttempt, AttemptRow
    <3> QED BY <2>1, <3>1, <3>2, <3>3
  <2> QED BY <2>1, <2>2, <2>3, <2>4, <2>5 DEF AgentEffect
<1>2. TypeOK /\ [Next]_vars
        => [\A a \in Agent :
              agent[a].home # None =>
                /\ agent'[a].home = agent[a].home
                /\ Len(agent'[a].attempts) >= Len(agent[a].attempts)
                /\ \A k \in DOMAIN agent[a].attempts :
                     LET t == agent[a].attempts[k]
                         u == agent'[a].attempts[k]
                     IN /\ t.status \notin Active => u = t
                        /\ t.session # None => u.session = t.session]_vars
  BY <1>1
<1> QED BY <1>2, TypeCorrect, PTL DEF Spec, AttemptHistoryOnlyGrows

-----------------------------------------------------------------------------
(* Reuse *)

\* The target of a run is fixed when it is created.
LEMMA TargetStays ==
  ASSUME NEW r \in Run, Effect(r), run[r].status # "absent"
  PROVE  run'[r].target = run[r].target
BY DEF Effect, SameRun, Created, CancelRequested, Claimed, PhaseChanged, Reused,
       Finished

\* A reused output goes back to a phase that computed it, of the same type, from
\* the same input and for the same target.
GroundedBy(r, p, s, q) ==
  /\ phase[s][q].state = "completed"
  /\ phase[s][q].output = phase[r][p].output
  /\ phase[s][q].input = phase[r][p].input
  /\ PhaseType[q] = PhaseType[p]
  /\ run[s].target = run[r].target

LEMMA ReuseStep ==
  ASSUME TypeOK, StoreInv, ReuseIsGrounded, [Next]_vars
  PROVE  ReuseIsGrounded'
<1> SUFFICES ASSUME NEW r \in Run, NEW p \in Phase, phase'[r][p].state = "reused"
             PROVE  \E s \in Run, q \in Phase : GroundedBy(r, p, s, q)'
  BY DEF ReuseIsGrounded, GroundedBy
<1>1. \A s \in Run : Effect(s)
  BY StepEffect
<1>2. \A s \in Run, q \in Phase : PhaseColumns(s, q) /\ PhaseEffect(s, q)
  BY <1>1, PhaseStepEffect DEF StoreInv
<1>3. \A s \in Run, q \in Phase :
        phase[s][q].state \in Done =>
          phase'[s][q] = phase[s][q] /\ run'[s].target = run[s].target
  BY <1>1, <1>2, DoneStays, TargetStays DEF PhaseColumns, Done
<1>4. \A s \in Run, q \in Phase :
        phase[s][q].state = "reused" =>
          \E u \in Run, v \in Phase : GroundedBy(s, q, u, v)
  BY DEF ReuseIsGrounded, GroundedBy
<1>5. CASE phase'[r][p] = phase[r][p]
  <2>1. PICK s \in Run, q \in Phase : GroundedBy(r, p, s, q)
    BY <1>4, <1>5
  <2>2. phase[s][q].state \in Done /\ phase[r][p].state \in Done
    BY <1>5, <2>1 DEF GroundedBy, Done
  <2>3. GroundedBy(r, p, s, q)'
    BY <1>3, <2>1, <2>2 DEF GroundedBy
  <2> QED BY <2>3
<1>6. CASE phase'[r][p] # phase[r][p]
  <2>1. Copied(r, p)
    <3>1. PhaseEffect(r, p)
      BY <1>2
    <3> QED BY <1>6, <3>1 DEF PhaseEffect, Updated, Settled, NewPhase
  <2>2. PICK s \in Run, q \in Phase :
          /\ phase[s][q].state \in Done
          /\ phase[s][q].output = phase'[r][p].output
          /\ phase[s][q].input = phase'[r][p].input
          /\ PhaseType[p] = PhaseType[q]
          /\ run[r].target = run[s].target
    BY <2>1 DEF Copied
  <2>3. run'[r].target = run[r].target
    BY <1>1, <2>1, TargetStays DEF Copied
  <2>4. CASE phase[s][q].state = "completed"
    <3>1. GroundedBy(r, p, s, q)'
      BY <1>3, <2>2, <2>3, <2>4 DEF GroundedBy, Done
    <3> QED BY <3>1
  <2>5. CASE phase[s][q].state = "reused"
    <3>1. PICK u \in Run, v \in Phase : GroundedBy(s, q, u, v)
      BY <1>4, <2>5
    <3>2. phase[u][v].state \in Done
      BY <3>1 DEF GroundedBy, Done
    <3>3. GroundedBy(r, p, u, v)'
      BY <1>3, <2>2, <2>3, <3>1, <3>2 DEF GroundedBy
    <3> QED BY <3>3
  <2> QED BY <2>2, <2>4, <2>5 DEF Done
<1> QED BY <1>5, <1>6

\* However many reuses lie between, every reused output was computed by a phase
\* of the same type, from the same input and for the same target.
THEOREM ReusesAreGrounded == Spec => []ReuseIsGrounded
<1>1. Init => ReuseIsGrounded
  BY DEF Init, NoPhase, ReuseIsGrounded
<1>2. TypeOK /\ StoreInv /\ ReuseIsGrounded /\ [Next]_vars => ReuseIsGrounded'
  BY ReuseStep
<1>3. QED BY <1>1, <1>2, TypeCorrect, StoreInvariant, PTL DEF Spec

-----------------------------------------------------------------------------
(* Versions *)

\* The versions of the phases lag behind the version of their run.
VersionsFit ==
  \A r \in Run :
    run[r].status # "absent" =>
      /\ log[r].version >= 1
      /\ \A p \in Phase : phase[r][p].version \in 1..log[r].version

\* A change of a phase raises its version by one.
LEMMA VersionEffect ==
  ASSUME TypeOK, NEW r \in Run, Effect(r), ~Created(r), NEW p \in Phase
  PROVE  phase'[r][p].version \in {phase[r][p].version, phase[r][p].version + 1}
<1>1. phase[r] \in [Phase -> PhaseRow] /\ phase[r][p] \in PhaseRow
  BY DEF TypeOK
<1>2. CASE SameRun(r) \/ CancelRequested(r) \/ Claimed(r)
  BY <1>2 DEF SameRun, CancelRequested, Claimed
<1>3. CASE PhaseChanged(r)
  <2>1. PICK change \in PhaseChange : phase'[r] = UpdatePhase(r, change)
    BY <1>3 DEF PhaseChanged
  <2>2. CASE p = change.id
    BY <1>1, <2>1, <2>2 DEF UpdatePhase
  <2>3. CASE p # change.id
    BY <1>1, <2>1, <2>3 DEF UpdatePhase
  <2> QED BY <2>2, <2>3
<1>4. CASE Reused(r)
  <2>1. PICK u \in Phase, s \in Run, q \in Phase, row \in PhaseRow :
          ReusedFrom(r, u, s, q, row)
    BY <1>4 DEF Reused
  <2>2. CASE p = u
    BY <1>1, <2>1, <2>2 DEF ReusedFrom
  <2>3. CASE p # u
    BY <1>1, <2>1, <2>3 DEF ReusedFrom
  <2> QED BY <2>2, <2>3
<1>5. CASE Finished(r)
  <2>1. CASE phase'[r] = phase[r]
    BY <2>1
  <2>2. CASE phase'[r] = SettleCanceledPhases(r)
    <3>1. phase'[r][p] = IF phase[r][p].state \in Unsettled
                         THEN [phase[r][p] EXCEPT !.state = "canceled",
                                 !.version = phase[r][p].version + 1]
                         ELSE phase[r][p]
      BY <2>2 DEF SettleCanceledPhases
    <3> QED BY <1>1, <3>1 DEF PhaseRow
  <2> QED BY <1>5, <2>1, <2>2 DEF Finished
<1> QED BY <1>2, <1>3, <1>4, <1>5 DEF Effect

LEMMA VersionsFitStep ==
  ASSUME TypeOK, VersionsFit, [Next]_vars
  PROVE  VersionsFit'
<1> SUFFICES ASSUME NEW r \in Run, run'[r].status # "absent"
             PROVE  /\ log'[r].version >= 1
                    /\ \A p \in Phase : phase'[r][p].version \in 1..log'[r].version
  BY DEF VersionsFit
<1>1. Logged(r) /\ Effect(r)
  BY LoggedStep, StepEffect
<1>2. log[r].version \in Nat /\ \A p \in Phase : phase[r][p].version \in Nat
  BY DEF TypeOK, LogRow, PhaseRow
<1>3. CASE log'[r] = log[r] /\ SameRun(r)
  BY <1>3 DEF VersionsFit, SameRun
<1>4. CASE Created(r) /\ log'[r].version = 1
  <2>1. \A p \in Phase : phase'[r][p].version = 1
    BY <1>4 DEF Created, NewPhase
  <2> QED BY <1>4, <2>1
<1>5. CASE log'[r].version = log[r].version + 1 /\ run[r].status # "absent"
  <2>1. \A p \in Phase :
          phase'[r][p].version \in {phase[r][p].version, phase[r][p].version + 1}
    BY <1>1, <1>5, VersionEffect DEF Created
  <2> QED BY <1>2, <1>5, <2>1 DEF VersionsFit
<1>6. \/ log'[r] = log[r] /\ SameRun(r)
      \/ Created(r) /\ log'[r].version = 1
      \/ log'[r].version = log[r].version + 1 /\ run[r].status # "absent"
  BY <1>1 DEF Logged, CancelRequested, Claimed, Finished, Works
<1> QED BY <1>3, <1>4, <1>5, <1>6

-----------------------------------------------------------------------------
(* The process that executes a run.                                        *)

(* The inductive invariant *)

Conclusions == {"completed", "failed", "canceled"}

Settling == {"retracting", "settling"}

Resting == {"idle", "returned", "threw"}

InSchedule == {"schedule", "joinCallback", "writeCallback"}

\* Where the run is this process's: nothing has been concluded, and no call
\* has failed.
Owning ==
  {"normalize", "join", "unsettled", "unsettledWrite", "rejoin", "last", "finish"}
    \cup InSchedule

AfterSchedule == {"join", "unsettled", "unsettledWrite", "rejoin", "last", "finish"}

Places == {"absent", "claiming"} \cup Over \cup Executing

ExeRow ==
  [pc : Places,
   claim : Claim \cup {None}, claims : SUBSET Claim, seen : Nat,
   writing : {"running", "interrupted"} \cup Conclusions \cup {None},
   outcome : {"interrupted", "canceled"} \cup {None},
   finalizing : BOOLEAN, joined : BOOLEAN, caught : BOOLEAN, monitor : BOOLEAN]

ProcessTypeOK ==
  /\ exe \in ExeRow
  /\ aborting \in {"none", "busy", "done", "failed"}

\* The scheduler: executors work only for what it has started, and its last
\* verdict is told.
ScheduleOK ==
  /\ active \in SUBSET Phase
  /\ execution \in [Phase -> Sched!Result \cup {"none", "busy"}]
  /\ control \in Sched!Control
  /\ aborted \in BOOLEAN
  /\ \A p \in Phase :
       execution[p] = "busy" => p \in active /\ control \notin Resting \cup {"stalled"}
  /\ control \in Awaited => at \in Phase
  /\ control \in Settling => execution[at] # "busy"
  /\ control \in Settling \cup {"returned"} => verdict \in Conclusions
  /\ control = "returned" /\ verdict = "canceled" => aborted

\* Where the main task is, and where the scheduler inside it is.
PlacesAgree ==
  /\ exe.pc \notin InSchedule => control \in Resting
  /\ exe.pc \in {"joinCallback", "writeCallback"} => control \in Awaited
  /\ exe.pc \in AfterSchedule => Scheduled
  /\ exe.pc = "writeCallback" =>
       exe.writing # None /\ (control = "starting" <=> exe.writing = "running")

\* The run belongs to the process, which has written nothing else.
RunAgrees ==
  /\ exe.pc = "absent" <=> run[TheRun].status = "absent"
  /\ exe.pc = "absent" => exe.claims = {}
  /\ exe.pc # "absent" => exe.claim \in Claim
  /\ exe.pc \in Owning =>
       run[TheRun].status = "running" /\ run[TheRun].controller = exe.claim
  /\ exe.pc = "joinCanceled" => run[TheRun].status = "canceled"
  /\ exe.pc = "settled" => run[TheRun].status \in TerminalRunStatus \cup {"interrupted"}
  /\ \A p \in Phase : execution[p] = "busy" => phase[TheRun][p].state = "running"

\* What a stop leaves behind: an outcome, the request in the tables, sessions
\* that are being stopped.
StopsAgree ==
  /\ aborted => exe.outcome # None
  /\ exe.outcome = "canceled" => run[TheRun].frozen
  /\ exe.pc # "dead" /\ exe.outcome # None => aborting # "none"
  /\ exe.pc # "dead" /\ exe.joined => aborting = "done"
  /\ exe.pc \in {"joinCancel", "finalizeRead", "finalizeWrite"} => run[TheRun].frozen
  /\ exe.pc \in {"finalizeRead", "finalizeWrite"} => aborting = "done"

\* What is about to be concluded.
ConclusionAgrees ==
  /\ exe.pc = "finalizeWrite" => exe.writing = "canceled"
  /\ exe.pc = "catchFail" => exe.writing = "failed"
  /\ exe.pc = "finish" =>
       /\ exe.finalizing
       /\ exe.writing \in Conclusions \cup {"interrupted"}
       /\ exe.writing = "completed" => exe.outcome # "interrupted"
       /\ exe.writing = "canceled" => run[TheRun].frozen /\ aborting = "done"

ProcessInv ==
  /\ ProcessTypeOK /\ ScheduleOK /\ PlacesAgree /\ RunAgrees /\ StopsAgree
  /\ ConclusionAgrees

LifecycleInv == TypeOK /\ StoreInv /\ VersionsFit /\ ProcessInv

-----------------------------------------------------------------------------
(* The first phase of a set, in the order *)

LEMMA LeastNatural ==
  ASSUME NEW T, T \subseteq Nat, T # {}
  PROVE  \E m \in T : \A k \in T : m <= k
<1> DEFINE R == {ss \in Nat \X Nat : ss[1] < ss[2]}
<1>1. IsWellFoundedOn(R, Nat)
  BY NatLessThanWellFounded DEF OpToRel
<1>2. PICK m \in T : \A k \in T : ~(<<k, m>> \in R)
  <2> HIDE DEF R
  <2> QED BY <1>1, WFMin
<1>3. ASSUME NEW k \in T PROVE m <= k
  <2>1. ~(<<k, m>> \in R)
    BY <1>2
  <2> QED BY <2>1
<1> QED BY <1>3

LEMMA FirstInOrder ==
  ASSUME NEW S, S \subseteq Phase, S # {}
  PROVE  \E p \in S : \E k \in DOMAIN Order :
           Order[k] = p /\ \A j \in 1..(k - 1) : Order[j] \notin S
<1> DEFINE T == {k \in DOMAIN Order : Order[k] \in S}
<1>1. T # {} /\ T \subseteq Nat
  BY LifecycleAssumption
<1>2. PICK k \in T : \A j \in T : k <= j
  <2> HIDE DEF T
  <2> QED BY <1>1, LeastNatural
<1>3. \A j \in 1..(k - 1) : Order[j] \notin S
  BY <1>2, LifecycleAssumption
<1> QED BY <1>2, <1>3

LEMMA FirstOfIn ==
  ASSUME NEW S, S \subseteq Phase, S # {}
  PROVE  FirstOf(S) \in S
BY FirstInOrder DEF FirstOf

LEMMA FirstReadyIn ==
  ASSUME NEW st, Sched!Ready(st) # {}
  PROVE  Sched!FirstReady(st) \in Phase
<1>1. Sched!Ready(st) \subseteq Phase
  BY DEF Sched!Ready
<1>2. \E p \in Sched!Ready(st) : \E k \in DOMAIN Order :
        /\ Order[k] = p
        /\ \A j \in 1..(k - 1) : Order[j] \notin Sched!Ready(st)
  BY <1>1, FirstInOrder
<1> QED BY <1>1, <1>2 DEF Sched!FirstReady

-----------------------------------------------------------------------------
(* The calls of the process *)

Recordable == {"running", "interrupted", "completed", "failed", "canceled", "skipped"}

\* One phase of the run is recorded ...
Recorded(p, to) ==
  /\ run[TheRun].status = "running" /\ run[TheRun].controller = exe.claim
  /\ run'[TheRun].status = "running" /\ run'[TheRun].controller = exe.claim
  /\ ~run[TheRun].frozen /\ ~run'[TheRun].frozen
  /\ phase'[TheRun][p].state = to
  /\ to \in PhaseTransitions[phase[TheRun][p].state]
  /\ \A q \in Phase \ {p} : phase'[TheRun][q] = phase[TheRun][q]

\* ... or the run is concluded.
Concluded(status) ==
  /\ run[TheRun].status = "running" /\ run'[TheRun].status = status
  /\ run[TheRun].frozen <=> status = "canceled"
  /\ run'[TheRun].frozen = run[TheRun].frozen

LEMMA NextVersion ==
  ASSUME TypeOK, HasRoom(TheRun)
  PROVE  log[TheRun].version \in Nat /\ log[TheRun].version <= MaxVersion
BY LifecycleAssumption, BoundAssumption DEF TypeOK, LogRow, HasRoom

\* A phase that is recorded is recorded as a client would.
LEMMA ChangeIsClients ==
  ASSUME TypeOK, VersionsFit, NEW p \in Phase, NEW to \in Recordable,
         NEW change \in PhaseTo(p, to), HasRoom(TheRun),
         run[TheRun].status # "absent"
  PROVE  change \in PhaseChange /\ change.id = p /\ change.state = to
<1>1. phase[TheRun][p].version \in 1..MaxVersion
  <2>1. phase[TheRun][p].version \in 1..log[TheRun].version
    BY LifecycleAssumption DEF VersionsFit
  <2> QED BY <2>1, NextVersion, BoundAssumption
<1>2. PICK i \in IF to = "running" THEN Input ELSE {None},
           o \in IF to = "completed" THEN Output ELSE {None} :
        change = [id |-> p, version |-> phase[TheRun][p].version, state |-> to,
                  input |-> i, output |-> o]
  BY DEF PhaseTo
<1>3. CASE to = "running"
  BY <1>1, <1>2, <1>3 DEF PhaseChange
<1>4. CASE to = "completed"
  BY <1>1, <1>2, <1>4 DEF PhaseChange
<1>5. CASE to \in {"failed", "interrupted", "canceled", "skipped"}
  BY <1>1, <1>2, <1>5 DEF PhaseChange
<1> QED BY <1>2, <1>3, <1>4, <1>5 DEF Recordable

LEMMA PhaseCall ==
  ASSUME TypeOK, VersionsFit, NEW p \in Phase, NEW to \in Recordable,
         NEW change \in PhaseTo(p, to), exe.claim \in Claim, Commits(change, None)
  PROVE  Next /\ Recorded(p, to)
<1>0. TheRun \in Run
  BY LifecycleAssumption
<1>1. Transition(TheRun, exe.seen, exe.claim, change, None, None)
  BY DEF Commits, Concludes
<1>2. /\ log[TheRun].version = exe.seen /\ HasRoom(TheRun)
      /\ run[TheRun].controller = exe.claim /\ run[TheRun].status = "running"
      /\ RequireOwnedRun(TheRun, exe.seen, exe.claim, TRUE)
  BY <1>1 DEF Transition, TransitionAllowed, RequireOwnedRun
<1>3. change \in PhaseChange /\ change.id = p /\ change.state = to
  BY <1>2, ChangeIsClients
<1>4. exe.seen \in 1..MaxVersion
  BY <1>0, <1>2, NextVersion, BoundAssumption DEF VersionsFit
<1>5. Next
  BY <1>0, <1>1, <1>2, <1>3, <1>4 DEF Next, OwnerOperation, PhaseTransition
<1>6. /\ PhaseChanged(TheRun) /\ UpdatePhaseAllowed(TheRun, change)
      /\ phase'[TheRun] = UpdatePhase(TheRun, change)
  BY <1>0, <1>1, <1>3, ChangeEffect
<1>7. phase[TheRun] \in [Phase -> PhaseRow]
  BY <1>0 DEF TypeOK
<1>8. /\ phase'[TheRun][p].state = to
      /\ \A q \in Phase \ {p} : phase'[TheRun][q] = phase[TheRun][q]
  BY <1>3, <1>6, <1>7 DEF UpdatePhase
<1>9. to \in PhaseTransitions[phase[TheRun][p].state]
  BY <1>3, <1>6 DEF UpdatePhaseAllowed
<1> QED BY <1>2, <1>5, <1>6, <1>8, <1>9 DEF Recorded, PhaseChanged

LEMMA StatusCall ==
  ASSUME TypeOK, VersionsFit, NEW status \in Conclusions \cup {"interrupted"},
         status = "canceled" => run[TheRun].frozen,
         exe.claim \in Claim, Commits(None, status)
  PROVE  Next /\ Concluded(status)
<1>0. TheRun \in Run
  BY LifecycleAssumption
<1>1. status # None /\ Concludes(status) = Conclusion(status)
  BY NoneAssumption DEF Conclusions, RunStatus, Concludes, Conclusion
<1>2. Transition(TheRun, exe.seen, exe.claim, None, status, Conclusion(status))
  BY <1>1 DEF Commits
<1>3. /\ log[TheRun].version = exe.seen /\ HasRoom(TheRun)
      /\ run[TheRun].status = "running"
      /\ RequireOwnedRun(TheRun, exe.seen, exe.claim, TRUE)
  BY <1>2 DEF Transition, TransitionAllowed, RequireOwnedRun
<1>4. exe.seen \in 1..MaxVersion
  BY <1>0, <1>3, NextVersion, BoundAssumption DEF VersionsFit
<1>5. StatusTransition(TheRun, exe.seen, exe.claim)
  BY <1>2 DEF StatusTransition, Conclusion, Conclusions
<1>6. Next
  BY <1>0, <1>3, <1>4, <1>5 DEF Next, OwnerOperation
<1>7. Finished(TheRun) /\ run'[TheRun].status = status
  BY <1>0, <1>2, ConclusionEffect DEF Conclusions
<1> QED BY <1>6, <1>7 DEF Finished, Concluded

-----------------------------------------------------------------------------
(* The scheduler *)

NoNewExecutor == \A p \in Phase : execution'[p] = "busy" => execution[p] = "busy"

LEMMA ProceedKeeps ==
  ASSUME NEW st, NEW started \in SUBSET Phase, Sched!Proceed(st, started),
         aborted \in BOOLEAN, aborted' = aborted,
         execution' \in [Phase -> Sched!Result \cup {"none", "busy"}],
         \A p \in Phase : execution'[p] = "busy" => p \in started
  PROVE  ScheduleOK' /\ control' \in {"starting", "racing", "returned", "stalled"}
<1>1. CASE Sched!Dispatch(st, started)
  <2>1. at' \in Phase /\ control' = "starting"
    BY <1>1, FirstReadyIn DEF Sched!Dispatch, Sched!CanDispatch
  <2> QED BY <2>1 DEF ScheduleOK, Sched!Proceed, Sched!Control, Resting, Awaited, Settling
<1>2. CASE Sched!Race(st, started)
  BY <1>2 DEF ScheduleOK, Sched!Proceed, Sched!Race, Sched!Control, Resting, Awaited, Settling
<1>3. CASE Sched!Return(st, started)
  <2>1. /\ started = {} /\ control' \in {"returned", "stalled"}
        /\ verdict' \in Conclusions
        /\ verdict' = "canceled" => aborted
    BY <1>3 DEF Sched!Return, Sched!Status, Conclusions
  <2> QED BY <2>1 DEF ScheduleOK, Sched!Proceed, Sched!Control, Awaited, Settling
<1> QED BY <1>1, <1>2, <1>3 DEF Sched!Proceed

LEMMA BeginKeeps ==
  ASSUME ScheduleOK, NEW done, Sched!Begin(done)
  PROVE  ScheduleOK' /\ NoNewExecutor
<1>1. \A p \in Phase : execution[p] # "busy"
  BY DEF ScheduleOK, Sched!Begin, Resting
<1>2. UNCHANGED <<execution, aborted>>
  BY DEF Sched!Begin
<1>3. \E st : Sched!Proceed(st, {})
  BY DEF Sched!Begin, Sched!Continue
<1> QED BY <1>1, <1>2, <1>3, ProceedKeeps DEF ScheduleOK, NoNewExecutor

LEMMA StartedKeeps ==
  ASSUME ScheduleOK, Sched!Started, execution[at] # "busy"
  PROVE  /\ ScheduleOK'
         /\ \A p \in Phase : execution'[p] = "busy" => execution[p] = "busy" \/ p = at
<1>1. at \in Phase /\ control = "starting" /\ aborted' = aborted
  BY DEF ScheduleOK, Sched!Started, Awaited
<1>2. CASE aborted
  <2>1. /\ control' = "retracting" /\ verdict' = "canceled"
        /\ UNCHANGED <<active, execution, at>>
    BY <1>2 DEF Sched!Started
  <2> QED BY <1>1, <2>1 DEF ScheduleOK, Conclusions, Awaited, Settling, Resting, Sched!Control
<1>3. CASE ~aborted
  <2>1. /\ execution' = [execution EXCEPT ![at] = "busy"]
        /\ Sched!Proceed(state, active \cup {at})
    BY <1>3 DEF Sched!Started
  <2>2. /\ execution' \in [Phase -> Sched!Result \cup {"none", "busy"}]
        /\ \A p \in Phase : execution'[p] = "busy" => execution[p] = "busy" \/ p = at
        /\ \A p \in Phase : execution'[p] = "busy" => p \in active \cup {at}
    BY <1>1, <2>1 DEF ScheduleOK
  <2>3. active \cup {at} \in SUBSET Phase
    BY <1>1 DEF ScheduleOK
  <2> QED BY <1>1, <2>1, <2>2, <2>3, ProceedKeeps DEF ScheduleOK
<1> QED BY <1>2, <1>3 DEF ScheduleOK

LEMMA CallbackEndKeeps ==
  ASSUME ScheduleOK, Sched!Retracted \/ Sched!Settled
  PROVE  ScheduleOK' /\ NoNewExecutor
<1>1. UNCHANGED <<execution, aborted>>
  BY DEF Sched!Retracted, Sched!Settled
<1>2. \E st : Sched!Proceed(st, active)
  BY DEF Sched!Retracted, Sched!Settled, Sched!Continue
<1> QED BY <1>1, <1>2, ProceedKeeps DEF ScheduleOK, NoNewExecutor

LEMMA CallbackThrowsKeeps ==
  ASSUME ScheduleOK, Sched!CallbackThrows
  PROVE  ScheduleOK' /\ NoNewExecutor
<1>1. control' = "draining" /\ UNCHANGED <<active, execution, aborted>>
  BY DEF Sched!CallbackThrows
<1>2. control \notin Resting \cup {"stalled"}
  BY DEF Sched!CallbackThrows, Resting
<1> QED BY <1>1, <1>2 DEF ScheduleOK, NoNewExecutor, Sched!Control, Resting, Awaited, Settling

LEMMA TakeKeeps ==
  ASSUME ScheduleOK, NEW p \in Phase, Sched!Take(p)
  PROVE  ScheduleOK' /\ NoNewExecutor
<1>1. /\ control = "racing" /\ control' = "settling"
      /\ active' = active \ {p} /\ at' = p /\ execution[p] \in Sched!Result
      /\ verdict' \in Conclusions
      /\ UNCHANGED <<execution, aborted>>
  BY DEF Sched!Take, Conclusions
<1>2. execution[p] # "busy"
  BY <1>1 DEF Sched!Result
<1> QED BY <1>1, <1>2 DEF ScheduleOK, NoNewExecutor, Sched!Control, Resting, Awaited, Settling

LEMMA ThrowKeeps ==
  ASSUME ScheduleOK, Sched!Throw
  PROVE  ScheduleOK' /\ NoNewExecutor
<1>1. /\ control' = "threw" /\ UNCHANGED <<active, execution, aborted>>
      /\ \A p \in active : execution[p] # "busy"
  BY DEF Sched!Throw, Sched!Result
<1> QED BY <1>1 DEF ScheduleOK, NoNewExecutor, Sched!Control, Resting, Awaited, Settling

LEMMA ExecuteKeeps ==
  ASSUME ScheduleOK, NEW p \in Phase, NEW result \in Sched!Result,
         Sched!Execute(p, result)
  PROVE  ScheduleOK' /\ NoNewExecutor
<1>1. /\ execution' = [execution EXCEPT ![p] = result]
      /\ UNCHANGED <<active, control, at, verdict, aborted>>
      /\ result # "busy"
  BY DEF Sched!Execute, Sched!Result
<1>2. /\ execution' \in [Phase -> Sched!Result \cup {"none", "busy"}]
      /\ \A q \in Phase : execution'[q] = "busy" => execution[q] = "busy"
      /\ \A q \in Phase : execution[q] # "busy" => execution'[q] # "busy"
  BY <1>1 DEF ScheduleOK
<1> QED BY <1>1, <1>2 DEF ScheduleOK, NoNewExecutor, Awaited, Settling

-----------------------------------------------------------------------------
(* The main task *)

KeepsExe ==
  /\ exe'.claim = exe.claim /\ exe'.outcome = exe.outcome
  /\ exe'.finalizing = exe.finalizing /\ exe'.joined = exe.joined

LEMMA Going ==
  ASSUME exe \in ExeRow, NEW pc \in Places, exe' = To(pc)
  PROVE  exe' \in ExeRow /\ exe'.pc = pc /\ exe'.writing = exe.writing /\ KeepsExe
BY DEF ExeRow, To, KeepsExe

LEMMA GoingToWrite ==
  ASSUME TypeOK, exe \in ExeRow, NEW pc \in Places,
         NEW what \in {"running", "interrupted"} \cup Conclusions \cup {None},
         exe' = ToWrite(pc, what)
  PROVE  exe' \in ExeRow /\ exe'.pc = pc /\ exe'.writing = what /\ KeepsExe
<1>1. log[TheRun].version \in Nat
  BY LifecycleAssumption DEF TypeOK, LogRow
<1> QED BY <1>1 DEF ExeRow, ToWrite, KeepsExe

LEMMA GoingToCancel ==
  ASSUME exe \in ExeRow, NEW pc \in Places, exe' = ToCancel(pc)
  PROVE  /\ exe' \in ExeRow /\ exe'.pc = pc /\ exe'.writing = exe.writing
         /\ exe'.outcome = "canceled" /\ exe'.claim = exe.claim
         /\ exe'.finalizing = exe.finalizing /\ exe'.joined = exe.joined
BY DEF ExeRow, ToCancel

LEMMA Failing ==
  ASSUME exe \in ExeRow, exe' = Failed
  PROVE  exe' \in ExeRow /\ exe'.pc \in {"caught", "rejected"} /\ KeepsExe
BY DEF ExeRow, Failed, To, KeepsExe, Places, Over, Executing

-----------------------------------------------------------------------------
(* What every step must show *)

\* Nothing is concluded against a stop, and no cancellation before the
\* sessions have been stopped.
StopsKept ==
  /\ run'[TheRun].status = "completed" /\ run[TheRun].status # "completed" =>
       exe.outcome = None
  /\ run'[TheRun].status = "canceled" /\ run[TheRun].status = "running" =>
       aborting = "done"

Good == [Next]_vars /\ ProcessInv' /\ StopsKept

\* The row of the run, as far as the process depends on it.
RunKept ==
  /\ run'[TheRun].status = run[TheRun].status
  /\ run'[TheRun].controller = run[TheRun].controller
  /\ run[TheRun].frozen => run'[TheRun].frozen

LEMMA StoreStill ==
  ASSUME UNCHANGED store
  PROVE  /\ [Next]_vars /\ StopsKept /\ RunKept
         /\ \A p \in Phase : phase'[TheRun][p] = phase[TheRun][p]
<1>1. run' = run /\ phase' = phase /\ UNCHANGED vars
  BY DEF store, vars
<1> QED BY <1>1 DEF StopsKept, RunKept

LEMMA ScheduleStill ==
  ASSUME ScheduleOK, UNCHANGED schedule
  PROVE  ScheduleOK' /\ UNCHANGED <<state, active, execution, control, at, verdict, aborted>>
BY DEF schedule, ScheduleOK

\* A phase is recorded, or the call fails.
LEMMA PhaseWrite ==
  ASSUME LifecycleInv, exe.claim \in Claim, NEW p \in Phase, NEW to \in Recordable,
         NEW change \in PhaseTo(p, to),
         Writes(change, None) \/ WriteFails(change, None)
  PROVE  /\ [Next]_vars /\ StopsKept /\ RunKept
         /\ \A q \in Phase \ {p} : phase'[TheRun][q] = phase[TheRun][q]
         /\ Writes(change, None) => Recorded(p, to)
         /\ UNCHANGED store \/ Recorded(p, to)
<1>1. CASE Commits(change, None)
  <2>1. Next /\ Recorded(p, to)
    BY <1>1, PhaseCall DEF LifecycleInv
  <2> QED BY <2>1 DEF Recorded, StopsKept, RunKept
<1>2. CASE UNCHANGED store
  BY <1>2, StoreStill, <1>1 DEF Writes
<1> QED BY <1>1, <1>2 DEF Writes, WriteFails, Reads, Unavailable

\* Where the call fails, the process fails.
LEMMA FailsKeep ==
  ASSUME ProcessInv, exe.pc # "absent", control \in Resting, UNCHANGED <<aborting, schedule>>,
         exe' \in ExeRow, exe'.pc \in {"caught", "rejected"}, KeepsExe,
         exe.pc # "dead", run'[TheRun].status # "absent",
         run[TheRun].frozen => run'[TheRun].frozen
  PROVE  ProcessInv'
<1>1. ScheduleOK' /\ UNCHANGED <<execution, control, at, verdict, aborted, aborting>>
  BY ScheduleStill DEF ProcessInv
<1>2. ProcessTypeOK'
  BY <1>1 DEF ProcessInv, ProcessTypeOK
<1>3. PlacesAgree'
  BY <1>1 DEF PlacesAgree, InSchedule, AfterSchedule
<1>4. \A p \in Phase : execution'[p] # "busy"
  BY <1>1 DEF ProcessInv, ScheduleOK
<1>5. RunAgrees'
  BY <1>4 DEF ProcessInv, RunAgrees, KeepsExe, Owning, InSchedule
<1>6. StopsAgree'
  BY <1>1 DEF ProcessInv, StopsAgree, KeepsExe
<1>7. ConclusionAgrees'
  BY DEF ConclusionAgrees
<1> QED BY <1>1, <1>2, <1>3, <1>5, <1>6, <1>7 DEF ProcessInv

-----------------------------------------------------------------------------
(* Claiming *)

LEMMA CreateKeeps == LifecycleInv /\ Create => Good
<1> SUFFICES ASSUME LifecycleInv, Create PROVE Good
  OBVIOUS
<1>0. TypeOK /\ ProcessInv /\ TheRun \in Run
  BY LifecycleAssumption DEF LifecycleInv
<1>1. PICK t \in Target : CreateRun(TheRun, t)
  BY DEF Create
<1>2. Created(TheRun)
  BY <1>0, <1>1, CreateRunEffect
<1>3. exe.pc = "absent" /\ UNCHANGED <<aborting, schedule>>
  BY DEF Create, At, KeepWork
<1>4. NewClaim \in Claim
  <2>1. exe.claims = {}
    BY <1>0, <1>3 DEF ProcessInv, RunAgrees
  <2> QED BY <2>1, LifecycleAssumption DEF NewClaim
<1>5. /\ exe' \in ExeRow /\ exe'.pc = "claiming" /\ exe'.claim \in Claim
      /\ exe'.outcome = exe.outcome /\ exe'.joined = exe.joined
  <2>1. exe' = [exe EXCEPT !.pc = "claiming", !.claim = NewClaim,
                           !.claims = {NewClaim}, !.seen = 1]
    BY DEF Create
  <2>2. ASSUME NEW c \in Claim
        PROVE  LET e == [exe EXCEPT !.pc = "claiming", !.claim = c,
                                    !.claims = {c}, !.seen = 1]
               IN /\ e \in ExeRow /\ e.pc = "claiming" /\ e.claim = c
                  /\ e.outcome = exe.outcome /\ e.joined = exe.joined
    BY <1>0 DEF ProcessInv, ProcessTypeOK, ExeRow, Places
  <2> QED BY <1>4, <2>1, <2>2
<1>6. /\ ScheduleOK'
      /\ UNCHANGED <<execution, control, verdict, aborted, aborting>>
  BY <1>0, <1>3, ScheduleStill DEF ProcessInv
<1>7. control \in Resting /\ \A p \in Phase : execution[p] # "busy"
  BY <1>0, <1>3 DEF ProcessInv, PlacesAgree, InSchedule, ScheduleOK
<1>8. ProcessInv'
  <2>1. ProcessTypeOK'
    BY <1>0, <1>5, <1>6 DEF ProcessInv, ProcessTypeOK
  <2>2. PlacesAgree'
    BY <1>5, <1>6, <1>7 DEF PlacesAgree, InSchedule, AfterSchedule
  <2>3. RunAgrees'
    BY <1>2, <1>5, <1>6, <1>7 DEF RunAgrees, Created, Owning, InSchedule
  <2>4. exe.outcome # "canceled"
    BY <1>0, <1>2, <1>3 DEF ProcessInv, StopsAgree, Created, LifecycleInv, StoreInv, RunColumns
  <2>5. StopsAgree'
    BY <1>0, <1>3, <1>5, <1>6, <2>4 DEF ProcessInv, StopsAgree
  <2>6. ConclusionAgrees'
    BY <1>5 DEF ConclusionAgrees
  <2> QED BY <1>6, <2>1, <2>2, <2>3, <2>5, <2>6 DEF ProcessInv
<1>9. Next /\ StopsKept
  BY <1>0, <1>1, <1>2 DEF Next, StopsKept, Created
<1> QED BY <1>8, <1>9 DEF Good

LEMMA TakeOverKeeps == LifecycleInv /\ TakeOver => Good
<1> SUFFICES ASSUME LifecycleInv, TakeOver PROVE Good
  OBVIOUS
<1>0. /\ TypeOK /\ ProcessInv /\ TheRun \in Run /\ exe \in ExeRow
      /\ exe.pc = "claiming" /\ UNCHANGED <<aborting, schedule>>
      /\ exe.claim \in Claim
  BY LifecycleAssumption
     DEF LifecycleInv, TakeOver, At, KeepWork, ProcessInv, ProcessTypeOK, RunAgrees
<1>1. control \in Resting /\ \A p \in Phase : execution[p] # "busy"
  BY <1>0 DEF ProcessInv, PlacesAgree, InSchedule, ScheduleOK
<1>2. ASSUME ClaimRun(TheRun, exe.seen, exe.claim)
      PROVE  /\ Next /\ StopsKept /\ Claimed(TheRun)
             /\ run'[TheRun].controller = exe.claim
  <2>1. Claimed(TheRun) /\ run'[TheRun].controller = exe.claim
    BY <1>0, <1>2, ClaimRunEffect
  <2>2. /\ exe.seen = log[TheRun].version /\ HasRoom(TheRun)
        /\ run[TheRun].status # "absent"
    BY <1>2 DEF ClaimRun
  <2>3. exe.seen \in 1..MaxVersion
    BY <1>0, <2>2, NextVersion, BoundAssumption DEF LifecycleInv, VersionsFit
  <2>4. Next
    BY <1>0, <1>2, <2>3 DEF Next
  <2> QED BY <2>1, <2>4 DEF StopsKept, Claimed
<1>3. CASE exe' = To("rejected")
  <2>1. exe' \in ExeRow /\ exe'.pc = "rejected" /\ KeepsExe
    BY <1>0, <1>3, Going DEF Places, Over
  <2>2. /\ [Next]_vars /\ StopsKept /\ run'[TheRun].status # "absent"
        /\ run[TheRun].frozen => run'[TheRun].frozen
    <3>1. CASE ClaimRun(TheRun, exe.seen, exe.claim)
      BY <1>2, <3>1 DEF Claimed
    <3>2. CASE UNCHANGED store
      BY <1>0, <3>2, StoreStill DEF ProcessInv, RunAgrees, RunKept
    <3> QED BY <1>3, <3>1, <3>2 DEF TakeOver, Unavailable
  <2> QED BY <1>0, <1>1, <2>1, <2>2, FailsKeep DEF Good
<1>4. CASE /\ ClaimRun(TheRun, exe.seen, exe.claim)
           /\ exe' = [exe EXCEPT !.pc = "normalize", !.seen = exe.seen + 1]
  <2>1. /\ exe' \in ExeRow /\ exe'.pc = "normalize" /\ KeepsExe
    <3>1. exe.seen + 1 \in Nat /\ "normalize" \in Places
      BY <1>0 DEF ExeRow, Places, Executing
    <3>2. ASSUME NEW n \in Nat, exe' = [exe EXCEPT !.pc = "normalize", !.seen = n]
          PROVE  /\ exe' \in ExeRow /\ exe'.pc = "normalize" /\ KeepsExe
      BY <1>0, <3>1, <3>2 DEF ExeRow, KeepsExe
    <3> QED BY <1>4, <3>1, <3>2
  <2>2. /\ ScheduleOK'
        /\ UNCHANGED <<execution, control, verdict, aborted, aborting>>
    BY <1>0, ScheduleStill DEF ProcessInv
  <2>3. PlacesAgree'
    BY <1>1, <2>1, <2>2 DEF PlacesAgree, InSchedule, AfterSchedule
  <2>4. RunAgrees'
    BY <1>0, <1>1, <1>2, <1>4, <2>1, <2>2 DEF RunAgrees, Claimed, KeepsExe
  <2>5. StopsAgree'
    BY <1>0, <1>2, <1>4, <2>1, <2>2 DEF ProcessInv, StopsAgree, KeepsExe, Claimed
  <2>6. ConclusionAgrees' /\ ProcessTypeOK'
    BY <1>0, <2>1, <2>2 DEF ConclusionAgrees, ProcessInv, ProcessTypeOK
  <2> QED BY <1>2, <1>4, <2>2, <2>3, <2>4, <2>5, <2>6 DEF Good, ProcessInv
<1> QED BY <1>3, <1>4 DEF TakeOver

-----------------------------------------------------------------------------
(* Steps that leave the main task where it is, and steps of the scheduler *)

LEMMA StaysPut ==
  ASSUME ProcessInv, RunKept, UNCHANGED <<aborting, schedule>>,
         exe' \in ExeRow, exe'.pc = exe.pc, exe'.writing = exe.writing, KeepsExe,
         exe.pc = "absent" => exe'.claims = exe.claims,
         \A p \in Phase : execution[p] = "busy" =>
           phase'[TheRun][p].state = phase[TheRun][p].state
  PROVE  ProcessInv'
<1>1. ScheduleOK' /\ UNCHANGED <<execution, control, at, verdict, aborted, aborting>>
  BY ScheduleStill DEF ProcessInv
<1>2. ProcessTypeOK'
  BY <1>1 DEF ProcessInv, ProcessTypeOK
<1>3. PlacesAgree'
  BY <1>1 DEF ProcessInv, PlacesAgree, Scheduled
<1>4. RunAgrees'
  BY <1>1 DEF ProcessInv, RunAgrees, KeepsExe, RunKept
<1>5. StopsAgree'
  BY <1>1 DEF ProcessInv, StopsAgree, KeepsExe, RunKept
<1>6. ConclusionAgrees'
  BY <1>1 DEF ProcessInv, ConclusionAgrees, KeepsExe, RunKept
<1> QED BY <1>1, <1>2, <1>3, <1>4, <1>5, <1>6 DEF ProcessInv

LEMMA ScheduleMoves ==
  ASSUME ProcessInv, RunKept, exe.pc \in InSchedule \cup {"normalize"},
         exe' \in ExeRow, exe'.pc = "schedule", KeepsExe,
         UNCHANGED aborting, ScheduleOK', aborted' = aborted,
         \A p \in Phase : execution'[p] = "busy" => phase'[TheRun][p].state = "running"
  PROVE  ProcessInv'
<1>1. ProcessTypeOK'
  BY DEF ProcessInv, ProcessTypeOK
<1>2. PlacesAgree'
  BY DEF PlacesAgree, InSchedule, AfterSchedule
<1>3. RunAgrees'
  BY DEF ProcessInv, RunAgrees, KeepsExe, RunKept, Owning, InSchedule
<1>4. StopsAgree'
  BY DEF ProcessInv, StopsAgree, KeepsExe, RunKept, InSchedule
<1>5. ConclusionAgrees'
  BY DEF ConclusionAgrees
<1> QED BY <1>1, <1>2, <1>3, <1>4, <1>5 DEF ProcessInv

LEMMA StopWorkKeeps ==
  ASSUME ProcessInv, StopWork
  PROVE  /\ ScheduleOK' /\ aborted'
         /\ UNCHANGED <<execution, control, at, verdict>>
         /\ aborting' \in {"busy", "done", "failed"}
         /\ aborting # "none" => aborting' = aborting
<1>1. /\ aborted' = TRUE /\ UNCHANGED <<active, execution, control, at, verdict>>
      /\ aborting' = IF aborting = "none" THEN "busy" ELSE aborting
  BY DEF StopWork
<1> QED BY <1>1 DEF ProcessInv, ProcessTypeOK, ScheduleOK

LEMMA Advancing ==
  ASSUME exe \in ExeRow, exe' = [exe EXCEPT !.seen = exe.seen + 1]
  PROVE  /\ exe' \in ExeRow /\ exe'.pc = exe.pc /\ exe'.writing = exe.writing
         /\ KeepsExe
<1>1. exe.seen + 1 \in Nat
  BY DEF ExeRow
<1>2. ASSUME NEW n \in Nat, exe' = [exe EXCEPT !.seen = n]
      PROVE  /\ exe' \in ExeRow /\ exe'.pc = exe.pc /\ exe'.writing = exe.writing
             /\ KeepsExe
  BY <1>2 DEF ExeRow, KeepsExe
<1> QED BY <1>1, <1>2

-----------------------------------------------------------------------------
(* executeClaimed, up to the end of scheduleWorkflow *)

LEMMA InStateIn == \A states : InState(states) \subseteq Phase
BY DEF InState

LEMMA NormalizeKeeps == LifecycleInv /\ Normalize => Good
<1> SUFFICES ASSUME LifecycleInv, Normalize PROVE Good
  OBVIOUS
<1>0. /\ ProcessInv /\ exe \in ExeRow /\ exe.pc = "normalize"
      /\ UNCHANGED aborting /\ exe.claim \in Claim
      /\ run[TheRun].status = "running"
  BY DEF LifecycleInv, Normalize, At, ProcessInv, ProcessTypeOK, RunAgrees, Owning
<1>1. control \in Resting /\ ScheduleOK /\ \A p \in Phase : execution[p] # "busy"
  BY <1>0 DEF ProcessInv, PlacesAgree, InSchedule, ScheduleOK
<1>2. CASE /\ InState({"running"}) = {} /\ Sched!Begin(InState(Done))
           /\ exe' = To("schedule") /\ Reads
  <2>1. /\ exe' \in ExeRow /\ exe'.pc = "schedule" /\ KeepsExe
    BY <1>0, <1>2, Going DEF Places, Executing
  <2>2. ScheduleOK' /\ NoNewExecutor /\ aborted' = aborted
    BY <1>1, <1>2, BeginKeeps DEF Sched!Begin
  <2>3. [Next]_vars /\ StopsKept /\ RunKept
    BY <1>2, StoreStill DEF Reads
  <2> QED BY <1>0, <1>1, <2>1, <2>2, <2>3, ScheduleMoves DEF Good, NoNewExecutor
<1>3. CASE /\ InState({"running"}) # {} /\ UNCHANGED schedule
           /\ \E change \in PhaseTo(FirstOf(InState({"running"})), "interrupted") :
                \/ /\ Writes(change, None)
                   /\ exe' = [exe EXCEPT !.seen = exe.seen + 1]
                \/ WriteFails(change, None) /\ exe' = Failed
  <2>1. PICK p \in Phase : p = FirstOf(InState({"running"}))
    BY <1>3, InStateIn, FirstOfIn
  <2>2. PICK change \in PhaseTo(p, "interrupted") :
                \/ /\ Writes(change, None)
                   /\ exe' = [exe EXCEPT !.seen = exe.seen + 1]
                \/ WriteFails(change, None) /\ exe' = Failed
    BY <1>3, <2>1
  <2>3. [Next]_vars /\ StopsKept /\ RunKept
    <3>1. "interrupted" \in Recordable
      BY DEF Recordable
    <3> QED BY <1>0, <2>2, <3>1, PhaseWrite
  <2>4. CASE exe' = [exe EXCEPT !.seen = exe.seen + 1]
    BY <1>0, <1>1, <1>3, <2>3, <2>4, Advancing, StaysPut DEF Good
  <2>5. CASE exe' = Failed
    BY <1>0, <1>1, <1>3, <2>3, <2>5, Failing, FailsKeep DEF Good, RunKept
  <2> QED BY <2>2, <2>4, <2>5
<1> QED BY <1>2, <1>3 DEF Normalize

LEMMA CallbackReadKeeps == LifecycleInv /\ CallbackRead => Good
<1> SUFFICES ASSUME LifecycleInv, CallbackRead PROVE Good
  OBVIOUS
<1>0. /\ TypeOK /\ ProcessInv /\ exe \in ExeRow /\ exe.pc = "schedule"
      /\ control \in Awaited /\ exe.pc \in InSchedule
      /\ exe.claim \in Claim /\ UNCHANGED store
  BY DEF LifecycleInv, CallbackRead, At, ProcessInv, ProcessTypeOK, RunAgrees, InSchedule,
         Reads, Unavailable
<1>1. /\ [Next]_vars /\ StopsKept /\ RunKept
      /\ \A p \in Phase : phase'[TheRun][p] = phase[TheRun][p]
  BY <1>0, StoreStill
<1>2. CASE run[TheRun].frozen /\ StopWork /\ exe' = ToCancel("joinCallback")
  <2>1. /\ exe' \in ExeRow /\ exe'.pc = "joinCallback" /\ exe'.outcome = "canceled"
        /\ exe'.claim = exe.claim /\ exe'.joined = exe.joined
    BY <1>0, <1>2, GoingToCancel DEF Places, Executing
  <2>2. /\ ScheduleOK' /\ UNCHANGED <<execution, control>>
        /\ aborting' \in {"busy", "done", "failed"}
        /\ aborting # "none" => aborting' = aborting
    BY <1>0, <1>2, StopWorkKeeps
  <2>3. NoneAssumption /\ None # "canceled"
    BY NoneAssumption DEF RunStatus
  <2>4. ProcessTypeOK' /\ PlacesAgree' /\ ConclusionAgrees'
    BY <1>0, <2>1, <2>2 DEF ProcessTypeOK, PlacesAgree, ConclusionAgrees, InSchedule, AfterSchedule
  <2>5. RunAgrees'
    BY <1>0, <1>1, <2>1, <2>2 DEF ProcessInv, RunAgrees, RunKept, Owning, InSchedule
  <2>6. StopsAgree'
    BY <1>0, <1>1, <1>2, <2>1, <2>2, <2>3 DEF ProcessInv, StopsAgree, RunKept
  <2> QED BY <1>1, <2>2, <2>4, <2>5, <2>6 DEF Good, ProcessInv
<1>3. CASE exe' = ToWrite("writeCallback", Persisted) /\ KeepWork
  <2>1. verdict \in Conclusions \/ control = "starting"
    BY <1>0 DEF ProcessInv, ScheduleOK, Awaited, Settling
  <2>2. /\ Persisted \in {"running", "interrupted"} \cup Conclusions
        /\ Persisted = "running" <=> control = "starting"
    BY <2>1 DEF Persisted, Conclusions
  <2>3. /\ exe' \in ExeRow /\ exe'.pc = "writeCallback" /\ exe'.writing = Persisted
        /\ KeepsExe
    BY <1>0, <1>3, <2>2, GoingToWrite DEF Places, Executing
  <2>4. /\ ScheduleOK' /\ UNCHANGED <<execution, control, aborted, aborting>>
    BY <1>0, <1>3, ScheduleStill DEF ProcessInv, KeepWork
  <2>5. Persisted # None
    BY <2>2, NoneAssumption DEF RunStatus, Conclusions
  <2>6. ProcessTypeOK' /\ PlacesAgree' /\ ConclusionAgrees'
    BY <1>0, <2>2, <2>3, <2>4, <2>5
       DEF ProcessInv, ProcessTypeOK, PlacesAgree, ConclusionAgrees, InSchedule, AfterSchedule
  <2>7. RunAgrees'
    BY <1>0, <1>1, <2>3, <2>4 DEF ProcessInv, RunAgrees, RunKept, KeepsExe, Owning, InSchedule
  <2>8. StopsAgree'
    BY <1>0, <1>1, <2>3, <2>4 DEF ProcessInv, StopsAgree, RunKept, KeepsExe
  <2> QED BY <1>1, <2>4, <2>6, <2>7, <2>8 DEF Good, ProcessInv
<1>4. CASE Sched!CallbackThrows /\ UNCHANGED <<exe, aborting>>
  <2>1. ScheduleOK' /\ NoNewExecutor /\ aborted' = aborted
    BY <1>0, <1>4, CallbackThrowsKeeps DEF ProcessInv, Sched!CallbackThrows
  <2>2. \A p \in Phase : execution'[p] = "busy" => phase'[TheRun][p].state = "running"
    BY <1>0, <1>1, <2>1 DEF NoNewExecutor, ProcessInv, RunAgrees
  <2> QED BY <1>0, <1>1, <1>4, <2>1, <2>2, ScheduleMoves DEF Good, KeepsExe
<1> QED BY <1>2, <1>3, <1>4 DEF CallbackRead

LEMMA CallbackJoinKeeps == LifecycleInv /\ CallbackJoin => Good
<1> SUFFICES ASSUME LifecycleInv, CallbackJoin PROVE Good
  OBVIOUS
<1>0. /\ ProcessInv /\ exe \in ExeRow /\ exe.pc = "joinCallback"
      /\ exe.pc \in InSchedule /\ UNCHANGED aborting /\ exe' = To("schedule")
      /\ UNCHANGED store
  BY DEF LifecycleInv, CallbackJoin, At, ProcessInv, ProcessTypeOK, InSchedule, Reads
<1>1. /\ [Next]_vars /\ StopsKept /\ RunKept
      /\ \A p \in Phase : phase'[TheRun][p] = phase[TheRun][p]
  BY <1>0, StoreStill
<1>2. exe' \in ExeRow /\ exe'.pc = "schedule" /\ KeepsExe
  BY <1>0, Going DEF Places, Executing
<1>3. ScheduleOK' /\ NoNewExecutor /\ aborted' = aborted
  <2>1. CASE Sched!CallbackThrows
    BY <1>0, <2>1, CallbackThrowsKeeps DEF ProcessInv, Sched!CallbackThrows
  <2>2. CASE Sched!Retracted \/ Sched!Settled
    BY <1>0, <2>2, CallbackEndKeeps DEF ProcessInv, Sched!Retracted, Sched!Settled
  <2> QED BY <2>1, <2>2 DEF CallbackJoin
<1>4. \A p \in Phase : execution'[p] = "busy" => phase'[TheRun][p].state = "running"
  BY <1>0, <1>1, <1>3 DEF NoNewExecutor, ProcessInv, RunAgrees
<1> QED BY <1>0, <1>1, <1>2, <1>3, <1>4, ScheduleMoves DEF Good

LEMMA CallbackWriteKeeps == LifecycleInv /\ CallbackWrite => Good
<1> SUFFICES ASSUME LifecycleInv, CallbackWrite PROVE Good
  OBVIOUS
<1>0. /\ ProcessInv /\ exe \in ExeRow /\ exe.pc = "writeCallback"
      /\ exe.pc \in InSchedule /\ UNCHANGED aborting /\ exe' = To("schedule")
      /\ exe.claim \in Claim /\ control \in Awaited /\ at \in Phase /\ ScheduleOK
      /\ control = "starting" <=> exe.writing = "running"
      /\ exe.writing # None
  BY DEF LifecycleInv, CallbackWrite, At, ProcessInv, ProcessTypeOK, InSchedule, RunAgrees,
         PlacesAgree, ScheduleOK
<1>1. exe.writing \in Recordable
  BY <1>0 DEF ExeRow, Recordable, Conclusions
<1>2. PICK change \in PhaseTo(at, exe.writing) :
        \/ /\ Writes(change, None)
           /\ Sched!Started \/ Sched!Retracted \/ Sched!Settled
        \/ WriteFails(change, None) /\ Sched!CallbackThrows
  BY DEF CallbackWrite
<1>3. /\ [Next]_vars /\ StopsKept /\ RunKept
      /\ \A q \in Phase \ {at} : phase'[TheRun][q] = phase[TheRun][q]
      /\ Writes(change, None) => Recorded(at, exe.writing)
      /\ UNCHANGED store \/ Recorded(at, exe.writing)
  BY <1>0, <1>1, <1>2, PhaseWrite
<1>4. exe' \in ExeRow /\ exe'.pc = "schedule" /\ KeepsExe
  BY <1>0, Going DEF Places, Executing
<1>5. Recorded(at, exe.writing) => execution[at] # "busy"
  <2>1. CASE control = "starting"
    <3>1. execution[at] = "busy" => phase[TheRun][at].state = "running"
      BY <1>0 DEF ProcessInv, RunAgrees
    <3> QED BY <1>0, <2>1, <3>1 DEF Recorded, PhaseTransitions
  <2>2. CASE control \in Settling
    BY <1>0, <2>2 DEF ScheduleOK
  <2> QED BY <1>0, <2>1, <2>2 DEF Awaited, Settling
<1>6. \A p \in Phase : execution[p] = "busy" => phase'[TheRun][p].state = "running"
  <2>1. \A p \in Phase : execution[p] = "busy" => phase[TheRun][p].state = "running"
    BY <1>0 DEF ProcessInv, RunAgrees
  <2>2. CASE UNCHANGED store
    BY <2>1, <2>2, StoreStill
  <2>3. CASE Recorded(at, exe.writing)
    BY <1>3, <1>5, <2>1, <2>3
  <2> QED BY <1>3, <2>2, <2>3
<1>7. CASE Sched!Started /\ Writes(change, None)
  <2>1. execution[at] # "busy" /\ phase'[TheRun][at].state = "running"
    BY <1>0, <1>3, <1>5, <1>7 DEF Recorded, Sched!Started
  <2>2. /\ ScheduleOK' /\ aborted' = aborted
        /\ \A p \in Phase : execution'[p] = "busy" => execution[p] = "busy" \/ p = at
    BY <1>0, <1>7, <2>1, StartedKeeps DEF Sched!Started
  <2>3. \A p \in Phase : execution'[p] = "busy" => phase'[TheRun][p].state = "running"
    BY <1>6, <2>1, <2>2
  <2> QED BY <1>0, <1>3, <1>4, <2>2, <2>3, ScheduleMoves DEF Good
<1>8. CASE Sched!Retracted \/ Sched!Settled \/ Sched!CallbackThrows
  <2>1. ScheduleOK' /\ NoNewExecutor /\ aborted' = aborted
    <3>1. CASE Sched!CallbackThrows
      BY <1>0, <3>1, CallbackThrowsKeeps DEF Sched!CallbackThrows
    <3>2. CASE Sched!Retracted \/ Sched!Settled
      BY <1>0, <3>2, CallbackEndKeeps DEF Sched!Retracted, Sched!Settled
    <3> QED BY <1>8, <3>1, <3>2
  <2>2. \A p \in Phase : execution'[p] = "busy" => phase'[TheRun][p].state = "running"
    BY <1>6, <2>1 DEF NoNewExecutor
  <2> QED BY <1>0, <1>3, <1>4, <2>1, <2>2, ScheduleMoves DEF Good
<1> QED BY <1>2, <1>7, <1>8

-----------------------------------------------------------------------------
(* Moves of the main task outside the scheduler *)

LEMMA MainMoves ==
  ASSUME ProcessInv, control \in Resting, UNCHANGED <<aborting, schedule>>, RunKept,
         exe.pc \notin {"absent", "dead"},
         exe' \in ExeRow, exe'.pc \notin {"absent"} \cup InSchedule,
         exe'.claim = exe.claim, exe'.outcome = exe.outcome,
         exe'.joined => exe.joined \/ aborting = "done",
         exe'.pc \in AfterSchedule => Scheduled,
         exe'.pc \in Owning => exe.pc \in Owning,
         exe'.pc = "joinCanceled" => run[TheRun].status = "canceled",
         exe'.pc = "settled" => run[TheRun].status \in TerminalRunStatus \cup {"interrupted"},
         exe'.pc \in {"joinCancel", "finalizeRead", "finalizeWrite"} => run[TheRun].frozen,
         exe'.pc \in {"finalizeRead", "finalizeWrite"} => aborting = "done",
         ConclusionAgrees'
  PROVE  ProcessInv'
<1>1. ScheduleOK' /\ UNCHANGED <<execution, control, at, verdict, aborted, aborting>>
  BY ScheduleStill DEF ProcessInv
<1>2. ProcessTypeOK'
  BY <1>1 DEF ProcessInv, ProcessTypeOK
<1>3. PlacesAgree'
  BY <1>1 DEF PlacesAgree, Scheduled, InSchedule
<1>4. \A p \in Phase : execution'[p] # "busy"
  BY <1>1 DEF ProcessInv, ScheduleOK
<1>5. RunAgrees'
  BY <1>4 DEF ProcessInv, RunAgrees, RunKept
<1>6. StopsAgree'
  BY <1>1 DEF ProcessInv, StopsAgree, RunKept
<1> QED BY <1>1, <1>2, <1>3, <1>5, <1>6 DEF ProcessInv

\* The main task stops the work of a canceled run, wherever it is.
LEMMA CancelMoves ==
  ASSUME ProcessInv, NEW pc \in Executing, exe.pc \in Executing, StopWork,
         exe' = ToCancel(pc), RunKept, run'[TheRun].frozen,
         \A p \in Phase : phase'[TheRun][p] = phase[TheRun][p],
         \/ pc = exe.pc
         \/ /\ control \in Resting
            /\ pc = "joinCancel" \/ (pc = "joinCanceled" /\ run[TheRun].status = "canceled")
  PROVE  ProcessInv'
<1>0. exe \in ExeRow /\ exe.pc \notin {"absent", "dead", "settled"} /\ pc \in Places
  BY DEF ProcessInv, ProcessTypeOK, Executing, Places
<1>1. /\ exe' \in ExeRow /\ exe'.pc = pc /\ exe'.writing = exe.writing
      /\ exe'.outcome = "canceled" /\ exe'.claim = exe.claim
      /\ exe'.finalizing = exe.finalizing /\ exe'.joined = exe.joined
  BY <1>0, GoingToCancel
<1>2. /\ ScheduleOK' /\ aborted' /\ UNCHANGED <<execution, control, at, verdict>>
      /\ aborting' \in {"busy", "done", "failed"}
      /\ aborting # "none" => aborting' = aborting
  BY StopWorkKeeps
<1>3. pc \notin {"absent", "settled", "dead"}
  BY DEF Executing
<1>4. ProcessTypeOK'
  BY <1>1, <1>2 DEF ProcessTypeOK
<1>5. PlacesAgree'
  BY <1>1, <1>2 DEF ProcessInv, PlacesAgree, Scheduled, InSchedule, AfterSchedule
<1>6. RunAgrees'
  BY <1>0, <1>1, <1>2, <1>3 DEF ProcessInv, RunAgrees, RunKept, Owning, InSchedule
<1>7. StopsAgree'
  BY <1>0, <1>1, <1>2, NoneAssumption DEF ProcessInv, StopsAgree, RunKept, RunStatus
<1>8. ConclusionAgrees'
  BY <1>1, <1>2 DEF ProcessInv, ConclusionAgrees, RunKept
<1> QED BY <1>2, <1>4, <1>5, <1>6, <1>7, <1>8 DEF ProcessInv

LEMMA LatestKeeps == LifecycleInv /\ Latest => Good
<1> SUFFICES ASSUME LifecycleInv, Latest PROVE Good
  OBVIOUS
<1>0. /\ ProcessInv /\ exe \in ExeRow /\ exe.pc = "schedule" /\ exe.pc \in Executing
      /\ control \in Resting /\ exe.pc \in Owning
      /\ run[TheRun].status # "absent" /\ UNCHANGED store
  BY DEF LifecycleInv, Latest, At, ProcessInv, ProcessTypeOK, RunAgrees, Owning, InSchedule,
         Resting, Executing, Reads, Unavailable
<1>1. /\ [Next]_vars /\ StopsKept /\ RunKept
      /\ \A p \in Phase : phase'[TheRun][p] = phase[TheRun][p]
  BY <1>0, StoreStill
<1>2. CASE exe' = Failed /\ KeepWork
  <2>1. UNCHANGED <<aborting, schedule>>
    BY <1>2 DEF KeepWork
  <2> QED BY <1>0, <1>1, <1>2, <2>1, Failing, FailsKeep DEF Good, RunKept
<1>3. CASE CancelPending /\ StopWork /\ exe' = ToCancel("joinCancel")
  <2>1. "joinCancel" \in Executing /\ run'[TheRun].frozen
    BY <1>1, <1>3 DEF Executing, CancelPending, RunKept
  <2> QED BY <1>0, <1>1, <1>3, <2>1, CancelMoves DEF Good
<1>4. CASE Scheduled /\ exe' = To(IF aborting # "none" THEN "join" ELSE AfterJoin) /\ KeepWork
  <2>1. PICK pc \in {"join", "rejoin", "unsettled"} : exe' = To(pc)
    BY <1>4 DEF AfterJoin
  <2>2. /\ exe' \in ExeRow /\ exe'.pc = pc /\ KeepsExe
    BY <1>0, <2>1, Going DEF Places, Executing
  <2>3. UNCHANGED <<aborting, schedule>>
    BY <1>4 DEF KeepWork
  <2>4. ConclusionAgrees'
    BY <2>2 DEF ConclusionAgrees
  <2>5. exe'.pc \notin {"absent"} \cup InSchedule
    BY <2>2 DEF InSchedule
  <2> QED BY <1>0, <1>1, <1>4, <2>2, <2>3, <2>4, <2>5, MainMoves DEF Good, KeepsExe
<1> QED BY <1>2, <1>3, <1>4 DEF Latest

-----------------------------------------------------------------------------
(* The end of executeClaimed *)

LEMMA JoinCancelKeeps == LifecycleInv /\ JoinCancel => Good
<1> SUFFICES ASSUME LifecycleInv, JoinCancel PROVE Good
  OBVIOUS
<1>0. /\ ProcessInv /\ exe \in ExeRow /\ exe.pc = "joinCancel"
      /\ UNCHANGED <<aborting, schedule>> /\ UNCHANGED store
      /\ run[TheRun].frozen /\ run[TheRun].status # "absent"
  BY DEF LifecycleInv, JoinCancel, At, ProcessInv, ProcessTypeOK, RunAgrees, StopsAgree,
         KeepWork, Reads
<1>1. [Next]_vars /\ StopsKept /\ RunKept /\ control \in Resting
  BY <1>0, StoreStill DEF ProcessInv, PlacesAgree, InSchedule
<1>2. CASE exe' = Failed
  BY <1>0, <1>1, <1>2, Failing, FailsKeep DEF Good, RunKept
<1>3. CASE aborting = "done" /\ exe' = To("finalizeRead")
  <2>1. exe' \in ExeRow /\ exe'.pc = "finalizeRead" /\ KeepsExe
    BY <1>0, <1>3, Going DEF Places, Executing
  <2>2. /\ ConclusionAgrees'
        /\ exe'.pc \notin {"absent"} \cup InSchedule \cup AfterSchedule \cup Owning
    BY <2>1 DEF ConclusionAgrees, InSchedule, AfterSchedule, Owning
  <2> QED BY <1>0, <1>1, <1>3, <2>1, <2>2, MainMoves DEF Good, KeepsExe
<1> QED BY <1>2, <1>3 DEF JoinCancel, Awaits

LEMMA FinalizeReadKeeps == LifecycleInv /\ FinalizeRead => Good
<1> SUFFICES ASSUME LifecycleInv, FinalizeRead PROVE Good
  OBVIOUS
<1>0. /\ TypeOK /\ ProcessInv /\ exe \in ExeRow /\ exe.pc = "finalizeRead"
      /\ UNCHANGED <<aborting, schedule>> /\ UNCHANGED store
      /\ run[TheRun].frozen /\ run[TheRun].status # "absent" /\ aborting = "done"
  BY DEF LifecycleInv, FinalizeRead, At, ProcessInv, ProcessTypeOK, RunAgrees, StopsAgree,
         KeepWork, Reads, Unavailable
<1>1. [Next]_vars /\ StopsKept /\ RunKept /\ control \in Resting
  BY <1>0, StoreStill DEF ProcessInv, PlacesAgree, InSchedule
<1>2. CASE exe' = Failed
  BY <1>0, <1>1, <1>2, Failing, FailsKeep DEF Good, RunKept
<1>3. CASE run[TheRun].status = "canceled" /\ exe' = To("settled")
  <2>1. exe' \in ExeRow /\ exe'.pc = "settled" /\ KeepsExe
    BY <1>0, <1>3, Going DEF Places, Over
  <2>2. /\ ConclusionAgrees' /\ run[TheRun].status \in TerminalRunStatus
        /\ exe'.pc \notin {"absent"} \cup InSchedule \cup AfterSchedule \cup Owning
    BY <1>3, <2>1 DEF ConclusionAgrees, InSchedule, AfterSchedule, Owning, TerminalRunStatus
  <2> QED BY <1>0, <1>1, <1>3, <2>1, <2>2, MainMoves DEF Good, KeepsExe
<1>4. CASE exe' = ToWrite("finalizeWrite", "canceled")
  <2>1. /\ exe' \in ExeRow /\ exe'.pc = "finalizeWrite" /\ exe'.writing = "canceled"
        /\ KeepsExe
    BY <1>0, <1>4, GoingToWrite DEF Places, Executing, Conclusions
  <2>2. /\ ConclusionAgrees'
        /\ exe'.pc \notin {"absent"} \cup InSchedule \cup AfterSchedule \cup Owning
    BY <2>1 DEF ConclusionAgrees, InSchedule, AfterSchedule, Owning
  <2> QED BY <1>0, <1>1, <2>1, <2>2, MainMoves DEF Good, KeepsExe
<1> QED BY <1>2, <1>3, <1>4 DEF FinalizeRead

LEMMA JoinKeeps == LifecycleInv /\ Join => Good
<1> SUFFICES ASSUME LifecycleInv, Join PROVE Good
  OBVIOUS
<1>0. /\ ProcessInv /\ exe \in ExeRow /\ exe.pc = "join" /\ exe.pc \in Owning
      /\ UNCHANGED <<aborting, schedule>> /\ UNCHANGED store
      /\ run[TheRun].status # "absent" /\ Scheduled
  BY DEF LifecycleInv, Join, At, ProcessInv, ProcessTypeOK, RunAgrees, PlacesAgree,
         KeepWork, Reads, Owning, AfterSchedule
<1>1. [Next]_vars /\ StopsKept /\ RunKept /\ control \in Resting
  BY <1>0, StoreStill DEF ProcessInv, PlacesAgree, InSchedule
<1>2. CASE exe' = Failed
  BY <1>0, <1>1, <1>2, Failing, FailsKeep DEF Good, RunKept
<1>3. CASE exe' = To(AfterJoin)
  <2>1. PICK pc \in {"rejoin", "unsettled"} : exe' = To(pc)
    BY <1>3 DEF AfterJoin
  <2>2. exe' \in ExeRow /\ exe'.pc = pc /\ KeepsExe
    BY <1>0, <2>1, Going DEF Places, Executing
  <2>3. ConclusionAgrees' /\ exe'.pc \notin {"absent"} \cup InSchedule
    BY <2>2 DEF ConclusionAgrees, InSchedule
  <2> QED BY <1>0, <1>1, <2>2, <2>3, MainMoves DEF Good, KeepsExe
<1> QED BY <1>2, <1>3 DEF Join, Awaits

LEMMA UnsettledReadKeeps == LifecycleInv /\ UnsettledRead => Good
<1> SUFFICES ASSUME LifecycleInv, UnsettledRead PROVE Good
  OBVIOUS
<1>0. /\ TypeOK /\ ProcessInv /\ exe \in ExeRow /\ exe.pc = "unsettled" /\ exe.pc \in Owning
      /\ UNCHANGED <<aborting, schedule>> /\ UNCHANGED store
      /\ run[TheRun].status # "absent" /\ Scheduled
  BY DEF LifecycleInv, UnsettledRead, At, ProcessInv, ProcessTypeOK, RunAgrees, PlacesAgree,
         KeepWork, Reads, Unavailable, Owning, AfterSchedule
<1>1. [Next]_vars /\ StopsKept /\ RunKept /\ control \in Resting
  BY <1>0, StoreStill DEF ProcessInv, PlacesAgree, InSchedule
<1>2. CASE exe' = Failed
  BY <1>0, <1>1, <1>2, Failing, FailsKeep DEF Good, RunKept
<1>3. CASE exe' = ToWrite("unsettledWrite", None)
  <2>1. exe' \in ExeRow /\ exe'.pc = "unsettledWrite" /\ KeepsExe
    BY <1>0, <1>3, GoingToWrite DEF Places, Executing
  <2>2. ConclusionAgrees' /\ exe'.pc \notin {"absent"} \cup InSchedule
    BY <2>1 DEF ConclusionAgrees, InSchedule
  <2> QED BY <1>0, <1>1, <2>1, <2>2, MainMoves DEF Good, KeepsExe
<1> QED BY <1>2, <1>3 DEF UnsettledRead

LEMMA UnsettledWriteKeeps == LifecycleInv /\ UnsettledWrite => Good
<1> SUFFICES ASSUME LifecycleInv, UnsettledWrite PROVE Good
  OBVIOUS
<1>0. /\ ProcessInv /\ exe \in ExeRow /\ exe.pc = "unsettledWrite" /\ exe.pc \in Owning
      /\ UNCHANGED <<aborting, schedule>> /\ exe.claim \in Claim
      /\ run[TheRun].status # "absent" /\ Scheduled
  BY DEF LifecycleInv, UnsettledWrite, At, ProcessInv, ProcessTypeOK, RunAgrees, PlacesAgree,
         KeepWork, Owning, AfterSchedule
<1>1. control \in Resting /\ \A p \in Phase : execution[p] # "busy"
  BY <1>0 DEF ProcessInv, PlacesAgree, InSchedule, ScheduleOK
<1>2. CASE exe' = To("rejoin") /\ Reads
  <2>1. exe' \in ExeRow /\ exe'.pc = "rejoin" /\ KeepsExe
    BY <1>0, <1>2, Going DEF Places, Executing
  <2>2. ConclusionAgrees' /\ exe'.pc \notin {"absent"} \cup InSchedule
    BY <2>1 DEF ConclusionAgrees, InSchedule
  <2>3. [Next]_vars /\ StopsKept /\ RunKept
    BY <1>2, StoreStill DEF Reads
  <2> QED BY <1>0, <1>1, <2>1, <2>2, <2>3, MainMoves DEF Good, KeepsExe
<1>3. CASE /\ Unrecorded # {}
           /\ LET p == FirstOf(Unrecorded)
              IN \E change \in PhaseTo(p, ResultState(p)) :
                   \/ /\ Writes(change, None)
                      /\ exe' = [exe EXCEPT !.seen = exe.seen + 1]
                   \/ WriteFails(change, None) /\ exe' = Failed
  <2>1. FirstOf(Unrecorded) \in Unrecorded
    BY <1>3, InStateIn, FirstOfIn DEF Unrecorded
  <2>2. PICK p \in Phase : p = FirstOf(Unrecorded)
    BY <2>1, InStateIn DEF Unrecorded
  <2>3. ResultState(p) \in Recordable
    BY <2>1, <2>2 DEF Unrecorded, Recordable
  <2>4. PICK change \in PhaseTo(p, ResultState(p)) :
                   \/ /\ Writes(change, None)
                      /\ exe' = [exe EXCEPT !.seen = exe.seen + 1]
                   \/ WriteFails(change, None) /\ exe' = Failed
    BY <1>3, <2>2
  <2>5. [Next]_vars /\ StopsKept /\ RunKept
    BY <1>0, <2>3, <2>4, PhaseWrite
  <2>6. CASE exe' = [exe EXCEPT !.seen = exe.seen + 1]
    BY <1>0, <1>1, <2>5, <2>6, Advancing, StaysPut DEF Good
  <2>7. CASE exe' = Failed
    BY <1>0, <1>1, <2>5, <2>7, Failing, FailsKeep DEF Good, RunKept
  <2> QED BY <2>4, <2>6, <2>7
<1> QED BY <1>2, <1>3 DEF UnsettledWrite

LEMMA RejoinKeeps == LifecycleInv /\ Rejoin => Good
<1> SUFFICES ASSUME LifecycleInv, Rejoin PROVE Good
  OBVIOUS
<1>0. /\ ProcessInv /\ exe \in ExeRow /\ exe.pc = "rejoin" /\ exe.pc \in Owning
      /\ UNCHANGED <<aborting, schedule>> /\ UNCHANGED store
      /\ run[TheRun].status # "absent" /\ Scheduled
  BY DEF LifecycleInv, Rejoin, At, ProcessInv, ProcessTypeOK, RunAgrees, PlacesAgree,
         KeepWork, Reads, Owning, AfterSchedule
<1>1. [Next]_vars /\ StopsKept /\ RunKept /\ control \in Resting
  BY <1>0, StoreStill DEF ProcessInv, PlacesAgree, InSchedule
<1>2. CASE exe' = Failed
  BY <1>0, <1>1, <1>2, Failing, FailsKeep DEF Good, RunKept
<1>3. CASE /\ aborting \in {"none", "done"}
           /\ exe' = [exe EXCEPT !.pc = "last", !.joined = aborting # "none"]
  <2>1. ASSUME NEW b \in BOOLEAN, exe' = [exe EXCEPT !.pc = "last", !.joined = b]
        PROVE  /\ exe' \in ExeRow /\ exe'.pc = "last" /\ exe'.joined = b
               /\ exe'.claim = exe.claim /\ exe'.outcome = exe.outcome
    BY <1>0, <2>1 DEF ExeRow, Places, Executing
  <2>2. /\ exe' \in ExeRow /\ exe'.pc = "last" /\ exe'.joined = (aborting # "none")
        /\ exe'.claim = exe.claim /\ exe'.outcome = exe.outcome
    BY <1>3, <2>1
  <2>3. ConclusionAgrees' /\ exe'.pc \notin {"absent"} \cup InSchedule
    BY <2>2 DEF ConclusionAgrees, InSchedule
  <2>4. exe'.joined => aborting = "done"
    BY <1>3, <2>2
  <2> QED BY <1>0, <1>1, <2>2, <2>3, <2>4, MainMoves DEF Good
<1> QED BY <1>2, <1>3 DEF Rejoin

\* Without a stop the outcome is that of a schedule nobody aborted.
LEMMA OutcomeFits ==
  ASSUME ProcessInv, Scheduled, exe.pc # "dead"
  PROVE  /\ TerminalOutcome \in Conclusions \cup {"interrupted"}
         /\ TerminalOutcome = "completed" => exe.outcome # "interrupted"
         /\ TerminalOutcome = "canceled" => exe.outcome = "canceled"
<1>1. exe.outcome \in {"interrupted", "canceled"} \cup {None}
  BY DEF ProcessInv, ProcessTypeOK, ExeRow
<1>2. CASE exe.outcome # None
  BY <1>1, <1>2 DEF TerminalOutcome, Conclusions
<1>3. CASE exe.outcome = None
  <2>1. ~aborted /\ control = "returned"
    BY <1>3 DEF ProcessInv, StopsAgree, Scheduled
  <2>2. verdict \in {"completed", "failed"}
    BY <2>1 DEF ProcessInv, ScheduleOK, Conclusions
  <2>3. TerminalOutcome \in {"completed", "failed"}
    BY <1>3, <2>1, <2>2 DEF TerminalOutcome
  <2>4. exe.outcome # "interrupted"
    BY <1>3, NoneAssumption DEF RunStatus
  <2> QED BY <2>3, <2>4 DEF Conclusions
<1> QED BY <1>2, <1>3

LEMMA LastKeeps == LifecycleInv /\ Last => Good
<1> SUFFICES ASSUME LifecycleInv, Last PROVE Good
  OBVIOUS
<1>0. /\ TypeOK /\ ProcessInv /\ exe \in ExeRow /\ exe.pc = "last" /\ exe.pc \in Owning
      /\ UNCHANGED <<aborting, schedule>> /\ UNCHANGED store
      /\ run[TheRun].status # "absent" /\ Scheduled
  BY DEF LifecycleInv, Last, At, ProcessInv, ProcessTypeOK, RunAgrees, PlacesAgree,
         KeepWork, Reads, Unavailable, Owning, AfterSchedule
<1>1. [Next]_vars /\ StopsKept /\ RunKept /\ control \in Resting
  BY <1>0, StoreStill DEF ProcessInv, PlacesAgree, InSchedule
<1>2. CASE exe' = Failed
  BY <1>0, <1>1, <1>2, Failing, FailsKeep DEF Good, RunKept
<1>3. CASE exe' = To("rejoin")
  <2>1. exe' \in ExeRow /\ exe'.pc = "rejoin" /\ KeepsExe
    BY <1>0, <1>3, Going DEF Places, Executing
  <2>2. ConclusionAgrees' /\ exe'.pc \notin {"absent"} \cup InSchedule
    BY <2>1 DEF ConclusionAgrees, InSchedule
  <2> QED BY <1>0, <1>1, <2>1, <2>2, MainMoves DEF Good, KeepsExe
<1>4. CASE /\ exe.joined = (aborting # "none")
           /\ exe' = [ToWrite("finish", TerminalOutcome) EXCEPT !.finalizing = TRUE]
  <2>1. /\ TerminalOutcome \in Conclusions \cup {"interrupted"}
        /\ TerminalOutcome = "completed" => exe.outcome # "interrupted"
        /\ TerminalOutcome = "canceled" => exe.outcome = "canceled"
    BY <1>0, OutcomeFits
  <2>2. ASSUME NEW what \in Conclusions \cup {"interrupted"},
               exe' = [ToWrite("finish", what) EXCEPT !.finalizing = TRUE]
        PROVE  /\ exe' \in ExeRow /\ exe'.pc = "finish" /\ exe'.writing = what
               /\ exe'.finalizing /\ exe'.claim = exe.claim
               /\ exe'.outcome = exe.outcome /\ exe'.joined = exe.joined
    <3>1. log[TheRun].version \in Nat
      BY <1>0, LifecycleAssumption DEF TypeOK, LogRow
    <3> QED BY <1>0, <2>2, <3>1 DEF ExeRow, ToWrite, Places, Executing
  <2>3. /\ exe' \in ExeRow /\ exe'.pc = "finish" /\ exe'.writing = TerminalOutcome
        /\ exe'.finalizing /\ exe'.claim = exe.claim
        /\ exe'.outcome = exe.outcome /\ exe'.joined = exe.joined
    BY <1>4, <2>1, <2>2
  <2>4. exe.outcome = "canceled" => run[TheRun].frozen /\ aborting = "done"
    BY <1>0, <1>4, NoneAssumption DEF ProcessInv, StopsAgree, RunStatus
  <2>5. run[TheRun].frozen => run'[TheRun].frozen
    BY <1>1 DEF RunKept
  <2>6. ConclusionAgrees'
    BY <1>0, <2>1, <2>3, <2>4, <2>5 DEF ConclusionAgrees
  <2>7. exe'.pc \notin {"absent"} \cup InSchedule
    BY <2>3 DEF InSchedule
  <2> QED BY <1>0, <1>1, <2>3, <2>6, <2>7, MainMoves DEF Good
<1> QED BY <1>2, <1>3, <1>4 DEF Last

\* The outcome is recorded, against no stop and after the barrier.
LEMMA FinishKeeps == LifecycleInv /\ Finish => Good
<1> SUFFICES ASSUME LifecycleInv, Finish PROVE Good
  OBVIOUS
<1>0. /\ TypeOK /\ VersionsFit /\ ProcessInv /\ exe \in ExeRow
      /\ exe.pc \in {"finalizeWrite", "finish", "catchFail"}
      /\ UNCHANGED <<aborting, schedule>>
      /\ exe.claim \in Claim /\ run[TheRun].status # "absent"
  BY DEF LifecycleInv, Finish, At, ProcessInv, ProcessTypeOK, RunAgrees, KeepWork
<1>1. control \in Resting /\ \A p \in Phase : execution[p] # "busy"
  BY <1>0 DEF ProcessInv, PlacesAgree, InSchedule, ScheduleOK
<1>2. /\ exe.writing \in Conclusions \cup {"interrupted"}
      /\ exe.writing = "canceled" => run[TheRun].frozen /\ aborting = "done"
      /\ exe.writing = "completed" => exe.outcome # "interrupted"
  BY <1>0 DEF ProcessInv, ConclusionAgrees, StopsAgree, Conclusions
<1>3. ASSUME Commits(None, exe.writing)
      PROVE  Next /\ Concluded(exe.writing) /\ StopsKept
  <2>1. Next /\ Concluded(exe.writing)
    BY <1>0, <1>2, <1>3, StatusCall
  <2>2. exe.writing = "completed" => exe.outcome = None
    BY <1>0, <1>2, <2>1 DEF ProcessInv, ProcessTypeOK, ExeRow, StopsAgree, Concluded
  <2> QED BY <1>2, <2>1, <2>2 DEF Concluded, StopsKept
<1>4. CASE exe' = Failed
  <2>1. CASE Commits(None, exe.writing)
    <3>1. /\ run'[TheRun].status # "absent"
          /\ run[TheRun].frozen => run'[TheRun].frozen
      BY <1>2, <1>3, <2>1 DEF Concluded, Conclusions
    <3> QED BY <1>0, <1>1, <1>3, <1>4, <2>1, <3>1, Failing, FailsKeep DEF Good
  <2>2. CASE UNCHANGED store
    BY <1>0, <1>1, <1>4, <2>2, StoreStill, Failing, FailsKeep DEF Good, RunKept
  <2> QED BY <1>4, <2>1, <2>2 DEF Finish, Writes, WriteFails, Reads, Unavailable
<1>5. CASE Writes(None, exe.writing) /\ exe' = To("settled")
  <2>1. exe' \in ExeRow /\ exe'.pc = "settled" /\ KeepsExe
    BY <1>0, <1>5, Going DEF Places, Over
  <2>2. Next /\ Concluded(exe.writing) /\ StopsKept
    BY <1>3, <1>5 DEF Writes
  <2>3. ScheduleOK' /\ UNCHANGED <<execution, control, at, verdict, aborted, aborting>>
    BY <1>0, ScheduleStill DEF ProcessInv
  <2>4. ProcessTypeOK' /\ PlacesAgree' /\ ConclusionAgrees'
    BY <1>0, <1>1, <2>1, <2>3
       DEF ProcessInv, ProcessTypeOK, PlacesAgree, ConclusionAgrees, InSchedule, AfterSchedule
  <2>5. run'[TheRun].status \in TerminalRunStatus \cup {"interrupted"}
    BY <1>2, <2>2 DEF Concluded, Conclusions, TerminalRunStatus
  <2>6. RunAgrees'
    BY <1>0, <1>1, <2>1, <2>3, <2>5
       DEF RunAgrees, KeepsExe, Owning, InSchedule, TerminalRunStatus
  <2>7. StopsAgree'
    BY <1>0, <2>1, <2>2, <2>3 DEF ProcessInv, StopsAgree, KeepsExe, Concluded
  <2> QED BY <2>2, <2>3, <2>4, <2>6, <2>7 DEF Good, ProcessInv
<1> QED BY <1>4, <1>5 DEF Finish

-----------------------------------------------------------------------------
(* The exception handler *)

LEMMA CaughtKeeps == LifecycleInv /\ Caught => Good
<1> SUFFICES ASSUME LifecycleInv, Caught PROVE Good
  OBVIOUS
<1>0. /\ TypeOK /\ ProcessInv /\ exe \in ExeRow /\ exe.pc = "caught" /\ exe.pc \in Executing
      /\ UNCHANGED store /\ run[TheRun].status # "absent"
  BY DEF LifecycleInv, Caught, At, ProcessInv, ProcessTypeOK, RunAgrees,
         Reads, Unavailable, Executing
<1>1. /\ [Next]_vars /\ StopsKept /\ RunKept /\ control \in Resting
      /\ \A p \in Phase : phase'[TheRun][p] = phase[TheRun][p]
  BY <1>0, StoreStill DEF ProcessInv, PlacesAgree, InSchedule
<1>2. CASE CancelPending /\ StopWork /\ exe' = ToCancel("joinCancel")
  <2>1. "joinCancel" \in Executing /\ run'[TheRun].frozen
    BY <1>1, <1>2 DEF Executing, CancelPending, RunKept
  <2> QED BY <1>0, <1>1, <1>2, <2>1, CancelMoves DEF Good
<1>3. CASE run[TheRun].status = "canceled" /\ StopWork /\ exe' = ToCancel("joinCanceled")
  <2>1. "joinCanceled" \in Executing
    BY DEF Executing
  <2>2. run'[TheRun].frozen
    <3>1. run[TheRun].frozen
      BY <1>3, LifecycleAssumption DEF LifecycleInv, StoreInv, RunColumns
    <3> QED BY <1>1, <3>1 DEF RunKept
  <2> QED BY <1>0, <1>1, <1>3, <2>1, <2>2, CancelMoves DEF Good
<1>4. CASE exe' = ToWrite("catchFail", "failed") /\ KeepWork
  <2>1. /\ exe' \in ExeRow /\ exe'.pc = "catchFail" /\ exe'.writing = "failed"
        /\ KeepsExe
    BY <1>0, <1>4, GoingToWrite DEF Places, Executing, Conclusions
  <2>2. /\ ConclusionAgrees'
        /\ exe'.pc \notin {"absent"} \cup InSchedule \cup AfterSchedule \cup Owning
    BY <2>1 DEF ConclusionAgrees, InSchedule, AfterSchedule, Owning
  <2>3. UNCHANGED <<aborting, schedule>>
    BY <1>4 DEF KeepWork
  <2> QED BY <1>0, <1>1, <2>1, <2>2, <2>3, MainMoves DEF Good, KeepsExe
<1>5. CASE exe' = Failed /\ KeepWork
  <2>1. UNCHANGED <<aborting, schedule>>
    BY <1>5 DEF KeepWork
  <2> QED BY <1>0, <1>1, <1>5, <2>1, Failing, FailsKeep DEF Good, RunKept
<1> QED BY <1>2, <1>3, <1>4, <1>5 DEF Caught

LEMMA JoinCanceledKeeps == LifecycleInv /\ JoinCanceled => Good
<1> SUFFICES ASSUME LifecycleInv, JoinCanceled PROVE Good
  OBVIOUS
<1>0. /\ ProcessInv /\ exe \in ExeRow /\ exe.pc = "joinCanceled"
      /\ UNCHANGED <<aborting, schedule>> /\ UNCHANGED store
      /\ run[TheRun].status = "canceled"
  BY DEF LifecycleInv, JoinCanceled, At, ProcessInv, ProcessTypeOK, RunAgrees,
         KeepWork, Reads
<1>1. [Next]_vars /\ StopsKept /\ RunKept /\ control \in Resting
  BY <1>0, StoreStill DEF ProcessInv, PlacesAgree, InSchedule
<1>2. CASE exe' = Failed
  BY <1>0, <1>1, <1>2, Failing, FailsKeep DEF Good, RunKept
<1>3. CASE exe' = To("settled")
  <2>1. exe' \in ExeRow /\ exe'.pc = "settled" /\ KeepsExe
    BY <1>0, <1>3, Going DEF Places, Over
  <2>2. /\ ConclusionAgrees' /\ run[TheRun].status \in TerminalRunStatus
        /\ exe'.pc \notin {"absent"} \cup InSchedule \cup AfterSchedule \cup Owning
    BY <1>0, <2>1 DEF ConclusionAgrees, InSchedule, AfterSchedule, Owning, TerminalRunStatus
  <2> QED BY <1>0, <1>1, <2>1, <2>2, MainMoves DEF Good, KeepsExe
<1> QED BY <1>2, <1>3 DEF JoinCanceled, Awaits

-----------------------------------------------------------------------------
(* What runs beside the main task *)

LEMMA CancelCall ==
  ASSUME LifecycleInv, CancelRun(TheRun)
  PROVE  /\ Next /\ StopsKept /\ RunKept /\ run'[TheRun].frozen
         /\ \A p \in Phase : phase'[TheRun][p] = phase[TheRun][p]
<1>0. TheRun \in Run /\ TypeOK
  BY LifecycleAssumption DEF LifecycleInv
<1>1. CancelRequested(TheRun)
  BY <1>0, CancelRunEffect
<1>2. Next
  BY <1>0 DEF Next
<1> QED BY <1>1, <1>2 DEF CancelRequested, StopsKept, RunKept

\* The process itself does nothing, while the tables may.
LEMMA IdlesKeep ==
  ASSUME ProcessInv, RunKept, UNCHANGED <<exe, aborting, schedule>>,
         \A p \in Phase : phase'[TheRun][p] = phase[TheRun][p]
  PROVE  ProcessInv'
<1>1. /\ exe' \in ExeRow /\ exe'.pc = exe.pc /\ exe'.writing = exe.writing
      /\ KeepsExe /\ exe'.claims = exe.claims
  BY DEF ProcessInv, ProcessTypeOK, KeepsExe
<1> QED BY <1>1, StaysPut

\* The scheduler moves while the main task awaits it.
LEMMA ScheduleMovesAside ==
  ASSUME ProcessInv, UNCHANGED <<exe, aborting, store>>, PlacesAgree',
         ScheduleOK', NoNewExecutor, aborted' = aborted
  PROVE  ProcessInv'
<1>1. run' = run /\ phase' = phase
  BY DEF store, vars
<1>2. ProcessTypeOK' /\ RunAgrees' /\ StopsAgree' /\ ConclusionAgrees'
  BY <1>1 DEF ProcessInv, ProcessTypeOK, RunAgrees, StopsAgree, ConclusionAgrees, NoNewExecutor
<1> QED BY <1>2 DEF ProcessInv

LEMMA ExecutorKeeps ==
  ASSUME LifecycleInv, NEW p \in Phase, Executor(p)
  PROVE  Good
<1>0. ProcessInv /\ UNCHANGED <<exe, aborting, store>>
  BY DEF LifecycleInv, Executor, Reads
<1>1. PICK result \in Sched!Result : Sched!Execute(p, result)
  BY DEF Executor
<1>2. ScheduleOK' /\ NoNewExecutor /\ UNCHANGED <<control, verdict, aborted>>
  BY <1>0, <1>1, ExecuteKeeps DEF ProcessInv, Sched!Execute
<1>3. PlacesAgree'
  BY <1>0, <1>2 DEF ProcessInv, PlacesAgree, Scheduled
<1> QED BY <1>0, <1>2, <1>3, ScheduleMovesAside, StoreStill DEF Good

LEMMA ScheduleKeeps == LifecycleInv /\ Schedule => Good
<1> SUFFICES ASSUME LifecycleInv, Schedule PROVE Good
  OBVIOUS
<1>0. ProcessInv /\ UNCHANGED <<exe, aborting, store>>
  BY DEF LifecycleInv, Schedule, Reads
<1>1. /\ ScheduleOK' /\ NoNewExecutor /\ aborted' = aborted
      /\ control \in {"racing", "draining"}
  <2>1. CASE Sched!Throw
    BY <1>0, <2>1, ThrowKeeps DEF ProcessInv, Sched!Throw
  <2>2. ASSUME NEW p \in Phase, Sched!Take(p)
        PROVE  /\ ScheduleOK' /\ NoNewExecutor /\ aborted' = aborted
               /\ control = "racing"
    BY <1>0, <2>2, TakeKeeps DEF ProcessInv, Sched!Take
  <2> QED BY <2>1, <2>2 DEF Schedule
<1>2. exe.pc = "schedule"
  BY <1>0, <1>1 DEF ProcessInv, PlacesAgree, Resting, Awaited, InSchedule
<1>3. PlacesAgree'
  BY <1>0, <1>2 DEF PlacesAgree, InSchedule, AfterSchedule
<1> QED BY <1>0, <1>1, <1>3, ScheduleMovesAside, StoreStill DEF Good

LEMMA RecordActivityKeeps == LifecycleInv /\ RecordActivity => Good
<1> SUFFICES ASSUME LifecycleInv, RecordActivity PROVE Good
  OBVIOUS
<1>0. /\ TheRun \in Run /\ TypeOK /\ VersionsFit /\ ProcessInv
      /\ UNCHANGED <<exe, aborting, schedule>>
      /\ RecordEvent(TheRun, log[TheRun].version, exe.claim)
  BY LifecycleAssumption DEF LifecycleInv, RecordActivity, KeepWork
<1>1. exe.claim \in Claim
  BY <1>0 DEF RecordActivity, ProcessInv, RunAgrees, Executing
<1>2. /\ RequireOwnedRun(TheRun, log[TheRun].version, exe.claim, TRUE)
      /\ HasRoom(TheRun) /\ run[TheRun].status = "running"
      /\ run' = run /\ phase' = phase
  BY <1>0 DEF RecordEvent, RequireOwnedRun
<1>3. log[TheRun].version \in 1..MaxVersion
  BY <1>0, <1>2, NextVersion, BoundAssumption DEF VersionsFit
<1>4. Next
  BY <1>0, <1>1, <1>2, <1>3 DEF Next, OwnerOperation
<1>5. StopsKept /\ RunKept
  BY <1>2 DEF StopsKept, RunKept
<1> QED BY <1>0, <1>2, <1>4, <1>5, IdlesKeep DEF Good

LEMMA AbortEndsKeeps == LifecycleInv /\ AbortEnds => Good
<1> SUFFICES ASSUME LifecycleInv, AbortEnds PROVE Good
  OBVIOUS
<1>0. /\ ProcessInv /\ UNCHANGED <<exe, schedule, store>>
      /\ aborting = "busy" /\ aborting' \in {"done", "failed"} /\ exe.pc # "dead"
  BY DEF LifecycleInv, AbortEnds, Reads
<1>1. run' = run /\ phase' = phase
  BY <1>0 DEF store, vars
<1>2. ScheduleOK' /\ UNCHANGED <<execution, control, verdict, aborted>>
  BY <1>0, ScheduleStill DEF ProcessInv
<1>3. ProcessTypeOK' /\ PlacesAgree' /\ RunAgrees'
  BY <1>0, <1>1, <1>2 DEF ProcessInv, ProcessTypeOK, PlacesAgree, RunAgrees, Scheduled
<1>4. StopsAgree' /\ ConclusionAgrees'
  BY <1>0, <1>1, <1>2 DEF ProcessInv, StopsAgree, ConclusionAgrees
<1> QED BY <1>0, <1>2, <1>3, <1>4, StoreStill DEF Good, ProcessInv

\* The main task is told to cancel, wherever it is.
LEMMA ToldToCancel ==
  ASSUME ProcessInv, exe.pc \in Executing, StopWork, exe' = ToCancel(exe.pc), RunKept,
         run'[TheRun].frozen, \A p \in Phase : phase'[TheRun][p] = phase[TheRun][p]
  PROVE  ProcessInv'
BY CancelMoves

LEMMA MonitorKeeps == LifecycleInv /\ Monitor => Good
<1> SUFFICES ASSUME LifecycleInv, Monitor PROVE Good
  OBVIOUS
<1>0. /\ ProcessInv /\ exe \in ExeRow /\ exe.pc \in Executing /\ UNCHANGED store
  BY DEF LifecycleInv, Monitor, Beside, Reads, Unavailable, ProcessInv, ProcessTypeOK
<1>1. /\ [Next]_vars /\ StopsKept /\ RunKept
      /\ \A p \in Phase : phase'[TheRun][p] = phase[TheRun][p]
  BY <1>0, StoreStill
<1>2. CASE CancelPending /\ StopWork /\ exe' = ToCancel(exe.pc)
  <2>1. run'[TheRun].frozen
    BY <1>1, <1>2 DEF CancelPending, RunKept
  <2> QED BY <1>0, <1>1, <1>2, <2>1, ToldToCancel DEF Good
<1>3. CASE exe' = [exe EXCEPT !.monitor = FALSE] /\ KeepWork
  <2>1. /\ exe' \in ExeRow /\ exe'.pc = exe.pc /\ exe'.writing = exe.writing
        /\ KeepsExe /\ exe'.claims = exe.claims
    BY <1>0, <1>3 DEF ExeRow, KeepsExe
  <2> QED BY <1>0, <1>1, <1>3, <2>1, StaysPut DEF Good, KeepWork
<1> QED BY <1>2, <1>3 DEF Monitor

LEMMA SignalKeeps == LifecycleInv /\ Signal => Good
<1> SUFFICES ASSUME LifecycleInv, Signal PROVE Good
  OBVIOUS
<1>1. ProcessInv /\ UNCHANGED <<exe, aborting, schedule>> /\ UNCHANGED store
  BY DEF LifecycleInv, Signal, KeepWork, Reads
<1> QED BY <1>1, StoreStill, IdlesKeep DEF Good

LEMMA CancelKeeps == LifecycleInv /\ Cancel => Good
<1> SUFFICES ASSUME LifecycleInv, Cancel PROVE Good
  OBVIOUS
<1>0. ProcessInv
  BY DEF LifecycleInv
<1>1. /\ [Next]_vars /\ StopsKept /\ RunKept
      /\ \A p \in Phase : phase'[TheRun][p] = phase[TheRun][p]
  <2>1. CASE CancelRun(TheRun)
    BY <2>1, CancelCall
  <2>2. CASE UNCHANGED store
    BY <2>2, StoreStill
  <2> QED BY <2>1, <2>2 DEF Cancel, Reads
<1>2. CASE UNCHANGED exe /\ KeepWork
  BY <1>0, <1>1, <1>2, IdlesKeep DEF Good, KeepWork
<1>3. CASE /\ CancelRun(TheRun) \/ (CancelPending /\ UNCHANGED store)
           /\ exe.pc \in Executing /\ StopWork /\ exe' = ToCancel(exe.pc)
  <2>1. run'[TheRun].frozen
    BY <1>1, <1>3, CancelCall DEF CancelPending, RunKept
  <2> QED BY <1>0, <1>1, <1>3, <2>1, ToldToCancel DEF Good
<1> QED BY <1>2, <1>3 DEF Cancel

LEMMA InterruptKeeps == LifecycleInv /\ Interrupt => Good
<1> SUFFICES ASSUME LifecycleInv, Interrupt PROVE Good
  OBVIOUS
<1>0. ProcessInv /\ exe \in ExeRow /\ UNCHANGED store
  BY DEF LifecycleInv, Interrupt, Reads, Unavailable, ProcessInv, ProcessTypeOK
<1>1. /\ [Next]_vars /\ StopsKept /\ RunKept /\ run' = run
      /\ \A p \in Phase : phase'[TheRun][p] = phase[TheRun][p]
  BY <1>0, StoreStill DEF store, vars
<1>2. CASE UNCHANGED exe /\ KeepWork
  BY <1>0, <1>1, <1>2, IdlesKeep DEF Good, KeepWork
<1>3. CASE /\ exe.pc \in Executing /\ ~exe.finalizing /\ StopWork
           /\ exe' = IF exe.outcome = None
                     THEN [exe EXCEPT !.outcome = "interrupted"] ELSE exe
  <2>1. /\ exe' \in ExeRow /\ exe'.pc = exe.pc /\ exe'.writing = exe.writing
        /\ exe'.claim = exe.claim /\ exe'.joined = exe.joined
        /\ exe'.finalizing = exe.finalizing
        /\ exe'.outcome = IF exe.outcome = None THEN "interrupted" ELSE exe.outcome
    BY <1>0, <1>3 DEF ExeRow
  <2>2. /\ ScheduleOK' /\ aborted' /\ UNCHANGED <<execution, control, at, verdict>>
        /\ aborting' \in {"busy", "done", "failed"}
        /\ aborting # "none" => aborting' = aborting
    BY <1>0, <1>3, StopWorkKeeps
  <2>3. exe.pc # "absent" /\ exe.pc # "finish"
    BY <1>0, <1>3 DEF Executing, ProcessInv, ConclusionAgrees
  <2>4. exe'.outcome # None /\ (exe'.outcome = "canceled" => exe.outcome = "canceled")
    <3>1. None # "interrupted"
      BY NoneAssumption DEF RunStatus
    <3> QED BY <2>1, <3>1
  <2>5. ProcessTypeOK'
    BY <2>1, <2>2 DEF ProcessTypeOK
  <2>6. PlacesAgree'
    BY <1>0, <2>1, <2>2 DEF ProcessInv, PlacesAgree, Scheduled
  <2>7. RunAgrees'
    BY <1>0, <1>1, <2>1, <2>2, <2>3 DEF ProcessInv, RunAgrees
  <2>8. StopsAgree'
    BY <1>0, <1>1, <1>3, <2>1, <2>2, <2>4 DEF ProcessInv, StopsAgree
  <2>9. ConclusionAgrees'
    BY <1>0, <2>1, <2>3 DEF ProcessInv, ConclusionAgrees
  <2> QED BY <1>1, <2>2, <2>5, <2>6, <2>7, <2>8, <2>9 DEF Good, ProcessInv
<1> QED BY <1>2, <1>3 DEF Interrupt

LEMMA CancelElsewhereKeeps == LifecycleInv /\ CancelElsewhere => Good
<1> SUFFICES ASSUME LifecycleInv, CancelElsewhere PROVE Good
  OBVIOUS
<1>1. ProcessInv /\ UNCHANGED <<exe, aborting, schedule>> /\ CancelRun(TheRun)
  BY DEF LifecycleInv, CancelElsewhere
<1> QED BY <1>1, CancelCall, IdlesKeep DEF Good

\* A new or a dead process has no executor.
LEMMA NoScheduleKeeps ==
  ASSUME active' = {}, execution' = [p \in Phase |-> "none"], control' = "idle",
         aborted' \in BOOLEAN
  PROVE  ScheduleOK' /\ \A p \in Phase : execution'[p] # "busy"
BY DEF ScheduleOK, Sched!Control, Awaited, Settling

LEMMA CrashKeeps == LifecycleInv /\ Crash => Good
<1> SUFFICES ASSUME LifecycleInv, Crash PROVE Good
  OBVIOUS
<1>0. /\ ProcessInv /\ exe \in ExeRow /\ UNCHANGED store /\ exe' = To("dead")
      /\ exe.pc \in Executing \cup {"claiming"} /\ aborting' = "none"
      /\ control' = "idle" /\ aborted' = aborted /\ aborted \in BOOLEAN
  BY DEF LifecycleInv, Crash, Reads, ProcessInv, ProcessTypeOK, ScheduleOK
<1>1. [Next]_vars /\ StopsKept /\ run' = run
  BY <1>0, StoreStill DEF store, vars
<1>2. exe' \in ExeRow /\ exe'.pc = "dead" /\ KeepsExe
  BY <1>0, Going DEF Places, Over
<1>3. ScheduleOK' /\ \A p \in Phase : execution'[p] # "busy"
  BY <1>0, NoScheduleKeeps DEF Crash
<1>4. run[TheRun].status # "absent" /\ exe.claim \in Claim
  BY <1>0 DEF ProcessInv, RunAgrees, Executing
<1>5. ProcessTypeOK' /\ PlacesAgree' /\ ConclusionAgrees'
  BY <1>0, <1>2
     DEF ProcessTypeOK, PlacesAgree, ConclusionAgrees, Resting, InSchedule, AfterSchedule
<1>6. RunAgrees'
  BY <1>1, <1>2, <1>3, <1>4 DEF RunAgrees, KeepsExe, Owning, InSchedule
<1>7. StopsAgree'
  BY <1>0, <1>1, <1>2 DEF ProcessInv, StopsAgree, KeepsExe
<1> QED BY <1>1, <1>3, <1>5, <1>6, <1>7 DEF Good, ProcessInv

LEMMA ResumeKeeps == LifecycleInv /\ Resume => Good
<1> SUFFICES ASSUME LifecycleInv, Resume PROVE Good
  OBVIOUS
<1>0. /\ TypeOK /\ ProcessInv /\ exe \in ExeRow /\ UNCHANGED store
      /\ run[TheRun].status = "interrupted"
      /\ aborting' = "none" /\ control' = "idle" /\ ~aborted'
  BY DEF LifecycleInv, Resume, Reads, ProcessInv, ProcessTypeOK
<1>1. [Next]_vars /\ StopsKept /\ run' = run
  BY <1>0, StoreStill DEF store, vars
<1>2. NewClaim \in Claim
  BY DEF Resume, NewClaim
<1>3. /\ exe' \in ExeRow /\ exe'.pc = "claiming" /\ exe'.claim \in Claim
      /\ exe'.outcome = None /\ ~exe'.joined
  <2>1. exe.claims \in SUBSET Claim /\ log[TheRun].version \in Nat
    BY <1>0, LifecycleAssumption DEF ExeRow, TypeOK, LogRow
  <2>2. exe' = [NoExecution EXCEPT !.pc = "claiming", !.claim = NewClaim,
                                   !.claims = exe.claims \cup {NewClaim},
                                   !.seen = log[TheRun].version]
    BY DEF Resume
  <2>3. ASSUME NEW c \in Claim, NEW n \in Nat,
               exe' = [NoExecution EXCEPT !.pc = "claiming", !.claim = c,
                                          !.claims = exe.claims \cup {c}, !.seen = n]
        PROVE  /\ exe' \in ExeRow /\ exe'.pc = "claiming" /\ exe'.claim = c
               /\ exe'.outcome = None /\ ~exe'.joined
    BY <2>1, <2>3 DEF NoExecution, ExeRow, Places
  <2> QED BY <1>2, <2>1, <2>2, <2>3
<1>4. ScheduleOK' /\ \A p \in Phase : execution'[p] # "busy"
  <2>1. aborted' \in BOOLEAN
    BY DEF Resume
  <2> QED BY <2>1, NoScheduleKeeps DEF Resume
<1>5. ProcessTypeOK' /\ PlacesAgree' /\ ConclusionAgrees'
  BY <1>0, <1>3
     DEF ProcessTypeOK, PlacesAgree, ConclusionAgrees, Resting, InSchedule, AfterSchedule
<1>6. RunAgrees'
  BY <1>0, <1>1, <1>3, <1>4 DEF RunAgrees, Owning, InSchedule
<1>7. StopsAgree'
  BY <1>0, <1>3, NoneAssumption DEF StopsAgree, RunStatus
<1> QED BY <1>1, <1>4, <1>5, <1>6, <1>7 DEF Good, ProcessInv

-----------------------------------------------------------------------------
(* Every step *)

LEMMA MainTaskKeeps == LifecycleInv /\ MainTask => Good
BY CreateKeeps, TakeOverKeeps, NormalizeKeeps, CallbackReadKeeps, CallbackJoinKeeps,
   CallbackWriteKeeps, LatestKeeps, JoinCancelKeeps, FinalizeReadKeeps, JoinKeeps,
   UnsettledReadKeeps, UnsettledWriteKeeps, RejoinKeeps, LastKeeps, FinishKeeps,
   CaughtKeeps, JoinCanceledKeeps
   DEF MainTask

LEMMA LifecycleNextKeeps ==
  ASSUME LifecycleInv, [LifecycleNext]_lifecycle
  PROVE  Good
<1>1. CASE UNCHANGED lifecycle
  <2>1. ProcessInv /\ UNCHANGED <<exe, aborting, schedule>> /\ UNCHANGED store
    BY <1>1 DEF LifecycleInv, lifecycle
  <2> QED BY <2>1, StoreStill, IdlesKeep DEF Good
<1>2. ASSUME NEW p \in Phase, Executor(p) PROVE Good
  BY <1>2, ExecutorKeeps
<1> QED
  BY <1>1, <1>2, MainTaskKeeps, ResumeKeeps, ScheduleKeeps, RecordActivityKeeps,
     AbortEndsKeeps, MonitorKeeps, SignalKeeps, CancelKeeps, InterruptKeeps,
     CancelElsewhereKeeps, CrashKeeps
     DEF LifecycleNext

LEMMA LifecycleInvInit == LifecycleInit => LifecycleInv
<1> SUFFICES ASSUME LifecycleInit PROVE LifecycleInv
  OBVIOUS
<1>0. Init /\ TheRun \in Run
  BY LifecycleAssumption DEF LifecycleInit
<1>1. TypeOK
  BY <1>0, TypeInit
<1>2. StoreInv
  BY <1>0, StoreInvInit
<1>3. \A r \in Run : run[r].status = "absent"
  BY <1>0 DEF Init, NoRun
<1>4. VersionsFit
  BY <1>3 DEF VersionsFit
<1>5. exe \in ExeRow /\ exe.pc = "absent" /\ exe.claims = {} /\ exe.outcome = None /\ ~exe.joined
  BY DEF LifecycleInit, NoExecution, ExeRow, Places
<1>6. ScheduleOK /\ control = "idle" /\ ~aborted /\ \A p \in Phase : execution[p] # "busy"
  BY DEF LifecycleInit, Sched!Idle, ScheduleOK, Sched!Control, Awaited, Settling
<1>7. ProcessTypeOK /\ PlacesAgree /\ ConclusionAgrees
  BY <1>5, <1>6
     DEF LifecycleInit, ProcessTypeOK, PlacesAgree, ConclusionAgrees, Resting, InSchedule,
         AfterSchedule
<1>8. RunAgrees
  BY <1>0, <1>3, <1>5, <1>6 DEF RunAgrees, Owning, InSchedule
<1>9. StopsAgree
  BY <1>5, <1>6, NoneAssumption DEF StopsAgree, RunStatus
<1> QED BY <1>1, <1>2, <1>4, <1>6, <1>7, <1>8, <1>9 DEF LifecycleInv, ProcessInv

LEMMA LifecycleInvStep ==
  LifecycleInv /\ [LifecycleNext]_lifecycle => LifecycleInv' /\ Good
<1> SUFFICES ASSUME LifecycleInv, [LifecycleNext]_lifecycle
             PROVE  LifecycleInv' /\ Good
  OBVIOUS
<1>1. Good
  BY LifecycleNextKeeps
<1>2. TypeOK /\ StoreInv /\ VersionsFit /\ [Next]_vars /\ ProcessInv'
  BY <1>1 DEF LifecycleInv, Good
<1>3. TypeOK'
  BY <1>2, TypeStep
<1>4. StoreInv' /\ VersionsFit'
  BY <1>2, <1>3, StoreInvStep, VersionsFitStep
<1> QED BY <1>1, <1>2, <1>3, <1>4 DEF LifecycleInv

-----------------------------------------------------------------------------
(* The theorems *)

\* Throughout every execution the process, its scheduler and the tables
\* agree on who owns the run, what is under way and what may be concluded.
THEOREM LifecycleInvariant == LifecycleSpec => []LifecycleInv
<1>1. LifecycleInv /\ [LifecycleNext]_lifecycle => LifecycleInv'
  BY LifecycleInvStep
<1>2. QED BY <1>1, LifecycleInvInit, PTL DEF LifecycleSpec

\* The process is a client of the tables like any other: its every step is a
\* step of RuntimeState, so what is proved of those tables holds whatever
\* this process does.
THEOREM CallsAreCalls == LifecycleSpec => CallsAreClientCalls
<1>1. LifecycleInit => Init
  BY DEF LifecycleInit
<1>2. LifecycleInv /\ [LifecycleNext]_lifecycle => [Next]_vars
  BY LifecycleInvStep DEF Good
<1>3. QED BY <1>1, <1>2, LifecycleInvariant, PTL DEF LifecycleSpec, CallsAreClientCalls, Spec

\* An executor works only for a running phase of a run this process controls.
THEOREM ExecutorsAreOwned == LifecycleSpec => []ExecutorsOwnTheirPhase
<1>1. LifecycleInv => ExecutorsOwnTheirPhase
  <2> SUFFICES ASSUME LifecycleInv, NEW p \in Phase, execution[p] = "busy"
               PROVE  /\ run[TheRun].status = "running"
                      /\ run[TheRun].controller = exe.claim
                      /\ phase[TheRun][p].state = "running"
    BY DEF ExecutorsOwnTheirPhase
  <2>1. exe.pc \in Owning
    BY DEF LifecycleInv, ProcessInv, ScheduleOK, PlacesAgree, Owning
  <2> QED BY <2>1 DEF LifecycleInv, ProcessInv, RunAgrees
<1>2. QED BY <1>1, LifecycleInvariant, PTL

\* A settled execution has left a run that is over or may be resumed, that
\* nobody controls and nothing works for.
THEOREM SettledIsRecorded == LifecycleSpec => []SettledMeansRecorded
<1>1. LifecycleInv => SettledMeansRecorded
  <2> SUFFICES ASSUME LifecycleInv, exe.pc = "settled"
               PROVE  /\ run[TheRun].status \in TerminalRunStatus \cup {"interrupted"}
                      /\ run[TheRun].controller = None
                      /\ \A p \in Phase : execution[p] # "busy"
    BY DEF SettledMeansRecorded
  <2>1. run[TheRun].status \in TerminalRunStatus \cup {"interrupted"}
    BY DEF LifecycleInv, ProcessInv, RunAgrees
  <2>2. run[TheRun].controller = None
    BY <2>1, LifecycleAssumption DEF LifecycleInv, StoreInv, RunColumns, TerminalRunStatus
  <2>3. \A p \in Phase : execution[p] # "busy"
    BY DEF LifecycleInv, ProcessInv, PlacesAgree, ScheduleOK, InSchedule
  <2> QED BY <2>1, <2>2, <2>3
<1>2. QED BY <1>1, LifecycleInvariant, PTL

\* A stop the process has accepted is honored: no run completes after it.
THEOREM StopsAreHonored == LifecycleSpec => StopIsHonored
<1>1. LifecycleInv /\ [LifecycleNext]_lifecycle =>
        [run'[TheRun].status = "completed" /\ run[TheRun].status # "completed"
           => exe.outcome = None]_lifecycle
  BY LifecycleInvStep DEF Good, StopsKept
<1>2. QED BY <1>1, LifecycleInvariant, PTL DEF LifecycleSpec, StopIsHonored

\* A cancellation is recorded only after every session has been stopped.
THEOREM CancellationsWait == LifecycleSpec => CanceledAfterBarrier
<1>1. LifecycleInv /\ [LifecycleNext]_lifecycle =>
        [run'[TheRun].status = "canceled" /\ run[TheRun].status = "running"
           => aborting = "done"]_lifecycle
  BY LifecycleInvStep DEF Good, StopsKept
<1>2. QED BY <1>1, LifecycleInvariant, PTL DEF LifecycleSpec, CanceledAfterBarrier

-----------------------------------------------------------------------------
(* The loop inside the process *)

\* What is proved of the scheduling loop by itself.
Loop == INSTANCE SchedulingProofs

LEMMA LoopAssumptions ==
  Loop!OrderAssumption /\ Loop!ParallelAssumption /\ Loop!NoPhaseAssumption
BY WorkflowAssumption, LifecycleAssumption, ScheduleAssumption
   DEF Loop!OrderAssumption, Loop!ParallelAssumption, Loop!NoPhaseAssumption

\* The two names of the loop's definitions mean the same.
LEMMA LoopProceeds ==
  ASSUME NEW st, NEW begun
  PROVE  /\ Sched!Proceed(st, begun) <=> Loop!Proceed(st, begun)
         /\ Sched!Continue(st, begun) <=> Loop!Continue(st, begun)
<1>1. \A s : Sched!CancelWaiting(s) = Loop!CancelWaiting(s)
  BY DEF Sched!CancelWaiting, Loop!CancelWaiting
<1>2. \A s : Sched!Refresh(s) = Loop!Refresh(s)
  BY DEF Sched!Refresh, Loop!Refresh, Sched!Update, Loop!Update, Sched!Blocked, Loop!Blocked,
         Sched!Satisfied, Loop!Satisfied, Sched!Blocking, Loop!Blocking
<1>3. \A s, b : Sched!Proceed(s, b) <=> Loop!Proceed(s, b)
  <2>1. \A s : Sched!FirstReady(s) = Loop!FirstReady(s)
    BY DEF Sched!FirstReady, Loop!FirstReady, Sched!Ready, Loop!Ready
  <2>2. \A s, b : Sched!CanDispatch(s, b) <=> Loop!CanDispatch(s, b)
    <3>1. \A s : Sched!Ready(s) = Loop!Ready(s)
      BY DEF Sched!Ready, Loop!Ready
    <3>2. ASSUME NEW s, NEW b
          PROVE  Sched!CanDispatch(s, b) <=> Loop!CanDispatch(s, b)
      <4>1. Sched!Ready(s) = Loop!Ready(s)
        BY <3>1
      <4>2. Sched!Cardinality(b) = Loop!Cardinality(b)
        BY DEF Sched!Cardinality, Loop!Cardinality
      <4> QED BY <4>1, <4>2 DEF Sched!CanDispatch, Loop!CanDispatch
    <3> QED BY <3>2
  <2>3. \A s, b : Sched!Dispatch(s, b) <=> Loop!Dispatch(s, b)
    BY <2>1, <2>2 DEF Sched!Dispatch, Loop!Dispatch
  <2>4. \A s, b : Sched!Race(s, b) <=> Loop!Race(s, b)
    BY <2>2 DEF Sched!Race, Loop!Race
  <2>5. \A s : Sched!Status(s) = Loop!Status(s) /\ Sched!Unfinished(s) = Loop!Unfinished(s)
    BY DEF Sched!Status, Loop!Status, Sched!Unfinished, Loop!Unfinished
  <2>6. \A s, b : Sched!Return(s, b) <=> Loop!Return(s, b)
    BY <1>1, <2>2, <2>5 DEF Sched!Return, Loop!Return
  <2> QED BY <2>3, <2>4, <2>6 DEF Sched!Proceed, Loop!Proceed
<1> QED BY <1>1, <1>2, <1>3 DEF Sched!Continue, Loop!Continue

LEMMA LoopActions ==
  /\ \A done : Sched!Begin(done) <=> Loop!Begin(done)
  /\ Sched!Started <=> Loop!Started
  /\ Sched!Retracted <=> Loop!Retracted
  /\ Sched!Settled <=> Loop!Settled
  /\ Sched!CallbackThrows <=> Loop!CallbackThrows
  /\ \A p : Sched!Take(p) <=> Loop!Take(p)
  /\ \A p, result : Sched!Execute(p, result) <=> Loop!Execute(p, result)
  /\ Sched!Throw <=> Loop!Throw
  /\ Sched!Result = Loop!Result
  /\ Sched!Idle <=> Loop!Idle
<1>1. Sched!Result = Loop!Result
  BY DEF Sched!Result, Loop!Result
<1>2. \A done : Sched!Begin(done) <=> Loop!Begin(done)
  BY LoopProceeds DEF Sched!Begin, Loop!Begin
<1>3. Sched!Started <=> Loop!Started
  BY LoopProceeds DEF Sched!Started, Loop!Started
<1>4. Sched!Retracted <=> Loop!Retracted
  BY LoopProceeds DEF Sched!Retracted, Loop!Retracted
<1>5. Sched!Settled <=> Loop!Settled
  BY LoopProceeds DEF Sched!Settled, Loop!Settled
<1>6. Sched!CallbackThrows <=> Loop!CallbackThrows
  BY DEF Sched!CallbackThrows, Loop!CallbackThrows
<1>7. /\ \A p : Sched!Take(p) <=> Loop!Take(p)
      /\ \A p, result : Sched!Execute(p, result) <=> Loop!Execute(p, result)
      /\ Sched!Throw <=> Loop!Throw
  BY <1>1 DEF Sched!Take, Loop!Take, Sched!Execute, Loop!Execute, Sched!Throw, Loop!Throw
<1>8. Sched!Idle <=> Loop!Idle
  BY DEF Sched!Idle, Loop!Idle
<1> QED BY <1>1, <1>2, <1>3, <1>4, <1>5, <1>6, <1>7, <1>8
\* A process that has not begun to schedule has an idle loop, one that waits for
\* its sessions to be stopped is stopping them, and nothing is ever reused by it.
Early == {"absent", "claiming", "normalize"}

Joins == {"joinCallback", "joinCancel", "join", "joinCanceled"}

LoopAgrees ==
  /\ Loop!LoopTyped /\ Loop!LoopInv
  /\ exe.pc # "dead" => Loop!Tracked
  /\ exe.pc \in Early => control = "idle"
  /\ exe.pc = "schedule" => control # "idle"
  /\ exe.pc \in Joins => aborting # "none"
  /\ \A p \in Phase : phase[TheRun][p].state # "reused"

\* The steps of the main task, by where they lead and what they do to the loop.
TaskStep ==
  /\ exe.pc \notin Over /\ exe'.pc # "dead"
  /\ exe'.pc \in Early => exe.pc \in Early /\ UNCHANGED schedule
  /\ exe'.pc = "schedule" => control' # "idle"
  /\ exe'.pc \in Joins => aborting' # "none"
  /\ [Loop!Next]_schedule

LEMMA LoopSteps ==
  ASSUME \/ UNCHANGED schedule
         \/ Sched!Started \/ Sched!Retracted \/ Sched!Settled \/ Sched!CallbackThrows
         \/ \E p \in Phase : Sched!Take(p)
         \/ \E p \in Phase, result \in Sched!Result : Sched!Execute(p, result)
         \/ Sched!Throw
  PROVE  [Loop!Next]_schedule
BY LoopActions DEF Loop!Next, Loop!Callback

\* The loop begins once.
LEMMA LoopBegins ==
  ASSUME [Loop!Next]_schedule, control' = "idle"
  PROVE  control = "idle"
<1>1. ASSUME NEW st, NEW begun, Loop!Proceed(st, begun) \/ Loop!Continue(st, begun)
      PROVE  FALSE
  BY <1>1, LoopAssumptions, Loop!ProceedEffect, Loop!ContinueEffect
<1>2. ASSUME NEW done, Loop!Begin(done) PROVE FALSE
  BY <1>1, <1>2 DEF Loop!Begin
<1>3. CASE Loop!Callback
  BY <1>1, <1>3
     DEF Loop!Callback, Loop!Started, Loop!Retracted, Loop!Settled, Loop!CallbackThrows
<1>4. CASE Loop!Next
  BY <1>2, <1>3, <1>4 DEF Loop!Next, Loop!Take, Loop!Execute, Loop!Throw, Loop!Abort
<1> QED BY <1>4 DEF schedule

LEMMA StopIsAbort ==
  ASSUME ScheduleOK, StopWork
  PROVE  /\ [Loop!Next]_schedule /\ control' = control /\ aborting' # "none"
<1>1. /\ aborted \in BOOLEAN /\ aborted' = TRUE /\ control' = control /\ aborting' # "none"
      /\ UNCHANGED <<state, active, execution, control, at, verdict>>
  BY DEF StopWork, ScheduleOK
<1>2. CASE aborted
  BY <1>1, <1>2 DEF schedule
<1>3. CASE ~aborted
  BY <1>1, <1>3 DEF Loop!Abort, Loop!Next
<1> QED BY <1>1, <1>2, <1>3

\* What the loop starts with is closed under dependencies.
LEMMA DoneIsPrefix ==
  ASSUME StoreInv, \A p \in Phase : phase[TheRun][p].state # "reused"
  PROVE  InState(Done) \in Loop!Prefix
<1>1. \A p \in Phase : PhaseColumns(TheRun, p) /\ Deps[p] \subseteq Phase
  BY LifecycleAssumption, WorkflowAssumption DEF StoreInv
<1>2. \A p \in InState(Done) : p \in Phase /\ phase[TheRun][p].state = "completed"
  BY DEF InState, Done
<1>3. \A p \in InState(Done) : \A d \in Deps[p] : d \in InState(Done)
  BY <1>1, <1>2 DEF PhaseColumns, InState
<1> QED BY <1>2, <1>3 DEF Loop!Prefix

LEMMA EarlySteps ==
  ASSUME LifecycleInv, LoopAgrees, Create \/ TakeOver \/ Normalize
  PROVE  TaskStep
<1>0. exe \in ExeRow /\ StoreInv /\ ScheduleOK
  BY DEF LifecycleInv, ProcessInv, ProcessTypeOK
<1>1. CASE Create
  BY <1>1 DEF Create, At, KeepWork, TaskStep, NoExecution, Over, Early, Joins, ExeRow
<1>2. CASE TakeOver
  BY <1>0, <1>2 DEF TakeOver, At, KeepWork, TaskStep, Over, Early, Joins, ExeRow, To
<1>3. CASE Normalize
  <2>1. CASE UNCHANGED schedule
    <3>1. exe.pc = "normalize" /\ exe'.pc \in {"normalize", "caught", "rejected"}
      <4>1. ~Sched!Begin(InState(Done))
        BY <2>1, LoopActions, LoopAssumptions, Loop!ContinueEffect DEF Loop!Begin, schedule
      <4> QED BY <1>0, <1>3, <4>1 DEF Normalize, At, ExeRow, Failed, To
    <3> QED BY <2>1, <3>1 DEF TaskStep, Over, Early, Joins
  <2>2. CASE Sched!Begin(InState(Done)) /\ exe' = To("schedule")
    <3>1. exe.pc = "normalize" /\ exe'.pc = "schedule"
      BY <1>0, <1>3, <2>2 DEF Normalize, At, ExeRow, To
    <3>2. InState(Done) \in Loop!Prefix
      BY <1>0, DoneIsPrefix DEF LoopAgrees
    <3>3. Loop!Begin(InState(Done)) /\ Loop!Next
      BY <2>2, <3>2, LoopActions DEF Loop!Next
    <3>4. control' # "idle"
      BY <3>3, LoopAssumptions, Loop!ContinueEffect DEF Loop!Begin
    <3> QED BY <3>1, <3>3, <3>4 DEF TaskStep, Over, Early, Joins
  <2> QED BY <1>3, <2>1, <2>2 DEF Normalize
<1> QED BY <1>1, <1>2, <1>3

LEMMA CallbackSteps ==
  ASSUME LifecycleInv, LoopAgrees, CallbackRead \/ CallbackJoin \/ CallbackWrite
  PROVE  TaskStep
<1>0. exe \in ExeRow /\ ScheduleOK
  BY DEF LifecycleInv, ProcessInv, ProcessTypeOK
<1>1. /\ exe.pc \in InSchedule
      /\ exe'.pc \in {"schedule", "joinCallback", "writeCallback"}
  BY <1>0 DEF CallbackRead, CallbackJoin, CallbackWrite, At, ExeRow, To, ToWrite, ToCancel,
              InSchedule
<1>2. /\ [Loop!Next]_schedule
      /\ exe'.pc = "joinCallback" => aborting' # "none"
  <2>1. CASE CallbackRead
    <3>1. CASE StopWork
      BY <1>0, <3>1, StopIsAbort
    <3>2. CASE exe' = ToWrite("writeCallback", Persisted) /\ KeepWork
      BY <1>0, <3>2, LoopSteps DEF KeepWork, ToWrite, ExeRow
    <3>3. CASE exe.pc = "schedule" /\ Sched!CallbackThrows /\ UNCHANGED <<exe, aborting>>
      BY <3>3, LoopSteps
    <3> QED BY <2>1, <3>1, <3>2, <3>3 DEF CallbackRead, At
  <2>2. CASE CallbackJoin
    <3>1. Sched!CallbackThrows \/ Sched!Retracted \/ Sched!Settled
      BY <2>2 DEF CallbackJoin
    <3>2. aborting' # "none"
      BY <2>2 DEF CallbackJoin
    <3> QED BY <3>1, <3>2, LoopSteps
  <2>3. CASE CallbackWrite
    <3>1. Sched!CallbackThrows \/ Sched!Started \/ Sched!Retracted \/ Sched!Settled
      BY <2>3 DEF CallbackWrite
    <3>2. exe'.pc = "schedule"
      BY <1>0, <2>3 DEF CallbackWrite, ExeRow, To
    <3> QED BY <3>1, <3>2, LoopSteps
  <2> QED BY <2>1, <2>2, <2>3
<1>3. exe'.pc = "schedule" => control' # "idle"
  <2>1. control # "idle"
    BY <1>1 DEF LifecycleInv, ProcessInv, PlacesAgree, LoopAgrees, InSchedule, Awaited
  <2> QED BY <1>2, <2>1, LoopBegins DEF schedule
<1> QED BY <1>1, <1>2, <1>3 DEF TaskStep, InSchedule, Over, Early, Joins

LEMMA LaterSteps ==
  ASSUME LifecycleInv,
         \/ Latest \/ JoinCancel \/ FinalizeRead \/ Join
         \/ UnsettledRead \/ UnsettledWrite \/ Rejoin \/ Last \/ Finish
         \/ Caught \/ JoinCanceled
  PROVE  TaskStep
<1> DEFINE Later == Executing \ ({"normalize"} \cup InSchedule)
<1>0. exe \in ExeRow /\ ScheduleOK
  BY DEF LifecycleInv, ProcessInv, ProcessTypeOK
<1>1. exe.pc \in Executing \ {"normalize"}
  BY DEF Latest, JoinCancel, FinalizeRead, Join, UnsettledRead, UnsettledWrite, Rejoin, Last,
         Finish, Caught, JoinCanceled, At, Executing
<1>2. CASE Latest \/ Caught
  <2>1. CASE StopWork /\ \E pc \in {"joinCancel", "joinCanceled"} : exe' = ToCancel(pc)
    <3>1. exe'.pc \in {"joinCancel", "joinCanceled"}
      BY <1>0, <2>1 DEF ToCancel, ExeRow
    <3> QED BY <1>0, <1>1, <2>1, <3>1, StopIsAbort DEF TaskStep, Over, Early, Executing
  <2>2. CASE KeepWork /\ exe' = Failed
    <3>1. exe'.pc \in {"caught", "rejected"}
      BY <1>0, <2>2, Failing
    <3> QED BY <1>1, <2>2, <3>1 DEF KeepWork, TaskStep, Over, Early, Joins, Executing
  <2>3. CASE KeepWork /\ exe' = To(IF aborting # "none" THEN "join" ELSE AfterJoin)
    <3>1. exe'.pc = IF aborting # "none" THEN "join" ELSE AfterJoin
      BY <1>0, <2>3 DEF To, ExeRow
    <3> QED BY <1>1, <2>3, <3>1 DEF AfterJoin, KeepWork, TaskStep, Over, Early, Joins, Executing
  <2>4. CASE KeepWork /\ exe' = ToWrite("catchFail", "failed")
    <3>1. exe'.pc = "catchFail"
      BY <1>0, <2>4 DEF ToWrite, ExeRow
    <3> QED BY <1>1, <2>4, <3>1 DEF KeepWork, TaskStep, Over, Early, Joins, Executing
  <2> QED BY <1>2, <2>1, <2>2, <2>3, <2>4 DEF Latest, Caught
<1>3. CASE \/ JoinCancel \/ FinalizeRead \/ Join \/ UnsettledRead \/ UnsettledWrite
           \/ Rejoin \/ Last \/ Finish \/ JoinCanceled
  <2>1. UNCHANGED <<aborting, schedule>>
    BY <1>3 DEF KeepWork, JoinCancel, FinalizeRead, Join, UnsettledRead, UnsettledWrite,
                Rejoin, Last, Finish, JoinCanceled
  <2>2. exe'.pc \in {"finalizeRead", "finalizeWrite", "unsettled", "unsettledWrite", "rejoin",
                     "last", "finish", "settled", "caught", "rejected"}
    <3>1. CASE exe' = Failed
      BY <1>0, <3>1, Failing
    <3>2. CASE exe' # Failed
      <4>1. CASE JoinCancel \/ Join \/ JoinCanceled
        BY <1>0, <3>2, <4>1 DEF JoinCancel, Join, JoinCanceled, Awaits, To, AfterJoin, ExeRow
      <4>2. CASE FinalizeRead \/ UnsettledRead
        BY <1>0, <3>2, <4>2 DEF FinalizeRead, UnsettledRead, To, ToWrite, ExeRow
      <4>3. CASE UnsettledWrite
        BY <1>0, <3>2, <4>3 DEF UnsettledWrite, At, To, ExeRow
      <4>4. CASE Rejoin \/ Last \/ Finish
        BY <1>0, <3>2, <4>4 DEF Rejoin, Last, Finish, To, ToWrite, ExeRow
      <4> QED BY <1>3, <4>1, <4>2, <4>3, <4>4
    <3> QED BY <3>1, <3>2
  <2> QED BY <1>1, <2>1, <2>2 DEF TaskStep, Over, Early, Joins, Executing
<1> QED BY <1>2, <1>3

\* What runs beside the main task, while the process lives.
LEMMA AsideSteps ==
  ASSUME LifecycleInv, LoopAgrees,
         \/ \E p \in Phase : Executor(p)
         \/ Schedule \/ RecordActivity \/ AbortEnds \/ Monitor
         \/ Signal \/ Cancel \/ Interrupt \/ CancelElsewhere
  PROVE  /\ [Loop!Next]_schedule /\ exe'.pc = exe.pc
         /\ exe.pc \in Early => control' = control
         /\ aborting # "none" => aborting' # "none"
         /\ exe.pc = "dead" => UNCHANGED schedule
<1>0. /\ exe \in ExeRow /\ ScheduleOK
      /\ exe.pc \in Early => control = "idle"
      /\ \A p \in Phase : execution[p] = "busy" => control # "idle"
  BY DEF LifecycleInv, ProcessInv, ProcessTypeOK, LoopAgrees, ScheduleOK, Resting
<1>1. CASE \E p \in Phase : Executor(p)
  <2>1. PICK p \in Phase, result \in Sched!Result : Sched!Execute(p, result)
    BY <1>1 DEF Executor
  <2>2. exe.pc # "dead" /\ UNCHANGED <<exe, aborting>>
    BY <1>1 DEF Executor, Beside, Executing
  <2>3. control' = control
    BY <2>1 DEF Sched!Execute
  <2> QED BY <2>1, <2>2, <2>3, LoopSteps
<1>2. CASE Schedule
  <2>1. (\E p \in Phase : Sched!Take(p)) \/ Sched!Throw
    BY <1>2 DEF Schedule
  <2>2. exe.pc # "dead" /\ UNCHANGED <<exe, aborting>>
    BY <1>2 DEF Schedule, Beside, Executing
  <2>3. control # "idle"
    BY <2>1 DEF Sched!Take, Sched!Throw
  <2> QED BY <1>0, <2>1, <2>2, <2>3, LoopSteps
<1>3. CASE UNCHANGED <<exe, schedule>> /\ (aborting # "none" => aborting' # "none")
  BY <1>3 DEF schedule
<1>4. CASE exe.pc \in Executing /\ StopWork /\ exe'.pc = exe.pc
  BY <1>0, <1>4, StopIsAbort DEF Executing
<1>5. CASE UNCHANGED <<aborting, schedule>> /\ exe'.pc = exe.pc
  BY <1>5 DEF schedule
<1>6. CASE RecordActivity \/ AbortEnds \/ Signal \/ CancelElsewhere
  BY <1>3, <1>6 DEF RecordActivity, AbortEnds, Signal, CancelElsewhere, KeepWork
<1>7. CASE Monitor
  <2>1. exe.pc \in Executing
    BY <1>7 DEF Monitor, Beside
  <2>2. CASE StopWork /\ exe' = ToCancel(exe.pc)
    BY <1>0, <1>4, <2>1, <2>2 DEF ToCancel, ExeRow
  <2>3. CASE exe' = [exe EXCEPT !.monitor = FALSE] /\ KeepWork
    BY <1>0, <1>5, <2>3 DEF KeepWork, ExeRow
  <2> QED BY <1>7, <2>2, <2>3 DEF Monitor
<1>8. CASE Cancel
  <2>1. CASE exe.pc \in Executing /\ StopWork /\ exe' = ToCancel(exe.pc)
    BY <1>0, <1>4, <2>1 DEF ToCancel, ExeRow
  <2>2. CASE KeepWork /\ UNCHANGED exe
    BY <1>5, <2>2 DEF KeepWork
  <2> QED BY <1>8, <2>1, <2>2 DEF Cancel
<1>9. CASE Interrupt
  <2>1. CASE /\ exe.pc \in Executing /\ StopWork
             /\ exe' = IF exe.outcome = None
                       THEN [exe EXCEPT !.outcome = "interrupted"] ELSE exe
    BY <1>0, <1>4, <2>1 DEF ExeRow
  <2>2. CASE KeepWork /\ UNCHANGED exe
    BY <1>5, <2>2 DEF KeepWork
  <2> QED BY <1>9, <2>1, <2>2 DEF Interrupt
<1> QED BY <1>1, <1>2, <1>6, <1>7, <1>8, <1>9

\* What the process and others do to the phases of its run.
PhasesMove ==
  \/ \A p \in Phase : phase'[TheRun][p].state = phase[TheRun][p].state
  \/ \E p \in Phase, to \in Recordable : Recorded(p, to)
  \/ Created(TheRun) \/ Finished(TheRun)

LEMMA WritesMovePhases ==
  ASSUME LifecycleInv, exe.pc # "absent", NEW p \in Phase, NEW to \in Recordable,
         NEW change \in PhaseTo(p, to),
         Writes(change, None) \/ WriteFails(change, None)
  PROVE  PhasesMove
<1>1. exe.claim \in Claim
  BY DEF LifecycleInv, ProcessInv, RunAgrees
<1>2. UNCHANGED store \/ Recorded(p, to)
  BY <1>1, PhaseWrite
<1> QED BY <1>2 DEF PhasesMove, store, vars

LEMMA PhasesMoveStep ==
  ASSUME LifecycleInv, LifecycleNext
  PROVE  PhasesMove
<1>0. TheRun \in Run /\ TypeOK /\ exe \in ExeRow /\ ScheduleOK
  BY LifecycleAssumption DEF LifecycleInv, ProcessInv, ProcessTypeOK
<1>1. CASE UNCHANGED phase
  BY <1>1 DEF PhasesMove
<1>2. CASE Create
  BY <1>0, <1>2, CreateRunEffect DEF Create, PhasesMove
<1>3. CASE TakeOver
  BY <1>1, <1>3 DEF TakeOver, ClaimRun, Unavailable, store, vars
<1>4. CASE Normalize
  <2>1. CASE Reads
    BY <1>1, <2>1 DEF Reads, store, vars
  <2>2. CASE InState({"running"}) # {} /\ ~Reads
    <3>1. PICK p \in Phase : p = FirstOf(InState({"running"}))
      BY <2>2, InStateIn, FirstOfIn
    <3>2. PICK change \in PhaseTo(p, "interrupted") :
            Writes(change, None) \/ WriteFails(change, None)
      BY <1>4, <2>2, <3>1 DEF Normalize
    <3>3. "interrupted" \in Recordable /\ exe.pc # "absent"
      BY <1>4 DEF Recordable, Normalize, At
    <3> QED BY <3>2, <3>3, WritesMovePhases
  <2> QED BY <1>4, <2>1, <2>2 DEF Normalize
<1>5. CASE CallbackWrite
  <2>1. /\ at \in Phase /\ exe.writing \in Recordable /\ exe.pc # "absent"
    BY <1>0, <1>5 DEF CallbackWrite, At, LifecycleInv, ProcessInv, PlacesAgree, ScheduleOK,
                      ExeRow, Recordable, Conclusions
  <2>2. PICK change \in PhaseTo(at, exe.writing) :
          Writes(change, None) \/ WriteFails(change, None)
    BY <1>5 DEF CallbackWrite
  <2> QED BY <2>1, <2>2, WritesMovePhases
<1>6. CASE UnsettledWrite
  <2>1. CASE Reads
    BY <1>1, <2>1 DEF Reads, store, vars
  <2>2. CASE Unrecorded # {} /\ ~Reads
    <3> DEFINE p == FirstOf(Unrecorded)
    <3>1. p \in Unrecorded /\ Unrecorded \subseteq Phase
      BY <2>2, InStateIn, FirstOfIn DEF Unrecorded
    <3>2. ResultState(p) \in Recordable /\ p \in Phase
      BY <3>1 DEF Unrecorded, Recordable
    <3>3. PICK change \in PhaseTo(p, ResultState(p)) :
            Writes(change, None) \/ WriteFails(change, None)
      BY <1>6, <2>2 DEF UnsettledWrite
    <3>4. exe.pc # "absent"
      BY <1>6 DEF UnsettledWrite, At
    <3> HIDE DEF p
    <3> QED BY <3>2, <3>3, <3>4, WritesMovePhases
  <2> QED BY <1>6, <2>1, <2>2 DEF UnsettledWrite
<1>7. CASE Finish
  <2>1. /\ exe.claim \in Claim /\ exe.writing \in Conclusions \cup {"interrupted"}
        /\ exe.writing = "canceled" => run[TheRun].frozen
    BY <1>7 DEF Finish, LifecycleInv, ProcessInv, RunAgrees, ConclusionAgrees, StopsAgree,
                Conclusions
  <2>2. CASE Commits(None, exe.writing)
    <3>1. exe.writing # None /\ Concludes(exe.writing) = Conclusion(exe.writing)
      BY <2>1, NoneAssumption DEF Conclusions, RunStatus, Concludes, Conclusion
    <3>2. Transition(TheRun, exe.seen, exe.claim, None, exe.writing, Conclusion(exe.writing))
      BY <2>2, <3>1 DEF Commits
    <3>3. Finished(TheRun)
      BY <1>0, <2>1, <3>2, ConclusionEffect DEF Conclusions
    <3> QED BY <3>3 DEF PhasesMove
  <2>3. CASE UNCHANGED store
    BY <1>1, <2>3 DEF store, vars
  <2> QED BY <1>7, <2>2, <2>3 DEF Finish, Writes, WriteFails, Reads, Unavailable
<1>8. CASE \/ CallbackRead \/ CallbackJoin \/ Latest \/ JoinCancel \/ FinalizeRead \/ Join
           \/ UnsettledRead \/ Rejoin \/ Last \/ Caught \/ JoinCanceled \/ Resume
           \/ (\E p \in Phase : Executor(p)) \/ Schedule \/ AbortEnds \/ Monitor \/ Signal
           \/ Interrupt \/ Crash
  BY <1>1, <1>8
     DEF CallbackRead, CallbackJoin, Latest, JoinCancel, FinalizeRead, Join, UnsettledRead,
         Rejoin, Last, Caught, JoinCanceled, Resume, Executor, Schedule, AbortEnds, Monitor,
         Signal, Interrupt, Crash, Reads, Unavailable, store, vars
<1>9. CASE RecordActivity \/ Cancel \/ CancelElsewhere
  BY <1>1, <1>9
     DEF RecordActivity, RecordEvent, Cancel, CancelElsewhere, CancelRun, Reads, store, vars
<1> QED
  BY <1>2, <1>3, <1>4, <1>5, <1>6, <1>7, <1>8, <1>9 DEF LifecycleNext, MainTask

LEMMA NothingIsReused ==
  ASSUME LifecycleInv, PhasesMove, \A p \in Phase : phase[TheRun][p].state # "reused"
  PROVE  \A p \in Phase : phase'[TheRun][p].state # "reused"
<1>0. TheRun \in Run /\ TypeOK /\ phase[TheRun] \in [Phase -> PhaseRow]
  BY LifecycleAssumption DEF LifecycleInv, TypeOK
<1>1. ASSUME NEW p \in Phase, NEW to \in Recordable, Recorded(p, to)
      PROVE  \A q \in Phase : phase'[TheRun][q].state # "reused"
  BY <1>1 DEF Recorded, Recordable
<1>2. CASE Created(TheRun)
  BY <1>2 DEF Created, NewPhase
<1>3. CASE Finished(TheRun)
  <2>1. CASE phase'[TheRun] = phase[TheRun]
    BY <2>1
  <2>2. CASE phase'[TheRun] = SettleCanceledPhases(TheRun)
    <3>1. \A p \in Phase : phase[TheRun][p] \in PhaseRow
      BY <1>0
    <3>2. ASSUME NEW p \in Phase PROVE phase'[TheRun][p].state # "reused"
      <4>1. PICK row \in PhaseRow : row = phase[TheRun][p] /\ row.state # "reused"
        BY <3>1
      <4>2. phase'[TheRun][p] = row
              \/ phase'[TheRun][p] = [row EXCEPT !.state = "canceled",
                                                 !.version = row.version + 1]
        BY <2>2, <4>1 DEF SettleCanceledPhases
      <4> QED BY <4>1, <4>2 DEF PhaseRow
    <3> QED BY <3>2
  <2> QED BY <1>3, <2>1, <2>2 DEF Finished
<1> QED BY <1>1, <1>2, <1>3 DEF PhasesMove

LEMMA LoopInvIdle ==
  ASSUME Loop!Idle
  PROVE  Loop!LoopTyped /\ Loop!LoopInv /\ Loop!Tracked
<1>1. Loop!Justified(state)
  BY DEF Loop!Idle, Loop!Justified, Loop!State
<1>2. Loop!LoopTyped
  BY DEF Loop!Idle, Loop!LoopTyped, Loop!TypeOK, Loop!State, Loop!Control
<1>3. Loop!LoopInv
  BY <1>1 DEF Loop!Idle, Loop!LoopInv, Loop!FailureIsContained
<1> QED BY <1>2, <1>3 DEF Loop!Idle, Loop!Tracked

LEMMA LoopKeeps ==
  ASSUME Loop!LoopTyped, Loop!LoopInv, [Loop!Next]_schedule
  PROVE  Loop!LoopTyped' /\ Loop!LoopInv' /\ (Loop!Tracked => Loop!Tracked')
<1>1. [Loop!Next]_Loop!schedule
  BY DEF Loop!schedule, schedule
<1> QED BY <1>1, LoopAssumptions, Loop!LoopTypedStep, Loop!LoopInvStep, Loop!TrackedStep

LEMMA LoopAgreesInit == LifecycleInit => LoopAgrees
<1> SUFFICES ASSUME LifecycleInit PROVE LoopAgrees
  OBVIOUS
<1>1. Loop!Idle /\ TheRun \in Run
  BY LoopActions, LifecycleAssumption DEF LifecycleInit
<1>2. control = "idle" /\ exe.pc = "absent"
  BY <1>1 DEF LifecycleInit, Loop!Idle, NoExecution
<1>3. \A p \in Phase : phase[TheRun][p].state # "reused"
  BY <1>1 DEF LifecycleInit, Init, NoPhase
<1> QED BY <1>1, <1>2, <1>3, LoopInvIdle DEF LoopAgrees, Joins

LEMMA LoopAgreesStep ==
  ASSUME LifecycleInv, LoopAgrees, [LifecycleNext]_lifecycle
  PROVE  LoopAgrees'
<1>0. Loop!LoopTyped /\ Loop!LoopInv /\ exe \in ExeRow
  BY DEF LoopAgrees, LifecycleInv, ProcessInv, ProcessTypeOK
<1>1. \A p \in Phase : phase'[TheRun][p].state # "reused"
  <2>1. CASE UNCHANGED lifecycle
    BY <2>1 DEF LoopAgrees, lifecycle, store, vars
  <2>2. CASE LifecycleNext
    BY <2>2, PhasesMoveStep, NothingIsReused DEF LoopAgrees
  <2> QED BY <2>1, <2>2
<1>2. CASE MainTask
  <2>1. TaskStep
    BY <1>2, EarlySteps, CallbackSteps, LaterSteps DEF MainTask
  <2>2. exe.pc # "dead" /\ [Loop!Next]_schedule
    BY <2>1 DEF TaskStep, Over
  <2>3. Loop!LoopTyped' /\ Loop!LoopInv' /\ Loop!Tracked'
    BY <1>0, <2>2, LoopKeeps DEF LoopAgrees
  <2>4. exe'.pc \in Early => control' = "idle"
    BY <2>1 DEF TaskStep, schedule, LoopAgrees
  <2> QED BY <1>1, <2>1, <2>3, <2>4 DEF TaskStep, LoopAgrees
<1>3. CASE \/ \E p \in Phase : Executor(p)
           \/ Schedule \/ RecordActivity \/ AbortEnds \/ Monitor
           \/ Signal \/ Cancel \/ Interrupt \/ CancelElsewhere
  <2>1. /\ [Loop!Next]_schedule /\ exe'.pc = exe.pc
        /\ exe.pc \in Early => control' = control
        /\ aborting # "none" => aborting' # "none"
    BY <1>3, AsideSteps
  <2>2. Loop!LoopTyped' /\ Loop!LoopInv' /\ (Loop!Tracked => Loop!Tracked')
    BY <1>0, <2>1, LoopKeeps
  <2>3. control # "idle" => control' # "idle"
    BY <2>1, LoopBegins DEF schedule
  <2> QED BY <1>1, <2>1, <2>2, <2>3 DEF LoopAgrees
<1>4. CASE Resume
  <2>1. Loop!Idle'
    BY <1>4 DEF Resume, Loop!Idle
  <2>2. Loop!LoopTyped' /\ Loop!LoopInv' /\ Loop!Tracked'
    BY <2>1, LoopInvIdle, PTL
  <2>3. exe'.pc = "claiming" /\ control' = "idle"
    BY <1>4 DEF Resume, NoExecution
  <2> QED BY <1>1, <2>2, <2>3 DEF LoopAgrees, Joins
<1>5. CASE Crash
  <2>1. /\ exe'.pc = "dead" /\ active' = {} /\ control' = "idle"
        /\ execution' = [p \in Phase |-> "none"]
        /\ UNCHANGED <<state, at, verdict, aborted>>
    BY <1>0, <1>5 DEF Crash, To, ExeRow
  <2>2. Loop!LoopTyped'
    BY <1>0, <2>1 DEF Loop!LoopTyped, Loop!TypeOK, Loop!Control
  <2>3. Loop!LoopInv'
    <3>1. ~aborted => Loop!Justified(state)'
      BY <1>0, <2>1 DEF Loop!LoopInv, Loop!Justified, Loop!Satisfied
    <3> QED BY <2>1, <3>1 DEF Loop!LoopInv, Loop!FailureIsContained
  <2> QED BY <1>1, <2>1, <2>2, <2>3 DEF LoopAgrees, Early, Joins
<1>6. CASE UNCHANGED lifecycle
  <2>1. UNCHANGED <<schedule, exe, aborting>>
    BY <1>6 DEF lifecycle
  <2>2. [Loop!Next]_schedule
    BY <2>1
  <2>3. Loop!LoopTyped' /\ Loop!LoopInv' /\ (Loop!Tracked => Loop!Tracked')
    BY <1>0, <2>2, LoopKeeps
  <2> QED BY <1>1, <2>1, <2>3 DEF LoopAgrees, schedule
<1> QED BY <1>2, <1>3, <1>4, <1>5, <1>6 DEF LifecycleNext

LEMMA LoopInvariant == LifecycleSpec => [](LifecycleInv /\ LoopAgrees)
<1>1. LifecycleInv /\ LoopAgrees /\ [LifecycleNext]_lifecycle => LoopAgrees'
  BY LoopAgreesStep
<1> QED BY <1>1, LoopAgreesInit, LifecycleInvariant, PTL DEF LifecycleSpec

-----------------------------------------------------------------------------
(* What the loop promises, it promises inside the process *)

\* Whatever is lost, refused, canceled or resumed around the loop: in every run
\* exactly the phases behind a failure are skipped, and the loop never leaves an
\* executor at work when it is over.
THEOREM RunsContainFailure ==
  LifecycleSpec => [](Sched!FailureIsContained /\ Sched!NothingLeftRunning)
<1>1. LifecycleInv /\ LoopAgrees => Sched!FailureIsContained /\ Sched!NothingLeftRunning
  <2> SUFFICES ASSUME LifecycleInv, LoopAgrees
               PROVE  Sched!FailureIsContained /\ Sched!NothingLeftRunning
    OBVIOUS
  <2>1. Sched!FailureIsContained
    BY DEF LoopAgrees, Loop!LoopInv, Loop!FailureIsContained, Sched!FailureIsContained
  <2>2. Sched!NothingLeftRunning
    BY DEF LifecycleInv, ProcessInv, ScheduleOK, Resting, Sched!NothingLeftRunning
  <2> QED BY <2>1, <2>2
<1> QED BY <1>1, LoopInvariant, PTL

\* A phase can be recorded in any state: there is something to record.
LEMMA RowIsAmong ==
  ASSUME NEW Ins, NEW Outs, NEW i \in Ins, NEW o \in Outs,
         NEW p, NEW version, NEW to, NEW row,
         row = [id |-> p, version |-> version, state |-> to, input |-> i, output |-> o]
  PROVE  row \in {[id |-> p, version |-> version, state |-> to, input |-> j, output |-> q] :
                   j \in Ins, q \in Outs}
BY SMT

LEMMA ThereIsAChange ==
  ASSUME NEW p, NEW to
  PROVE  PhaseTo(p, to) # {}
<1> DEFINE Ins == IF to = "running" THEN Input ELSE {None}
           Outs == IF to = "completed" THEN Output ELSE {None}
<1>1. PICK i \in Ins, o \in Outs : TRUE
  BY ScheduleAssumption
<1>2. PICK row : row = [id |-> p, version |-> phase[TheRun][p].version, state |-> to,
                        input |-> i, output |-> o]
  OBVIOUS
<1>3. row \in {[id |-> p, version |-> phase[TheRun][p].version, state |-> to,
                input |-> j, output |-> q] : j \in Ins, q \in Outs}
  <2> HIDE DEF Ins, Outs
  <2> QED BY <1>1, <1>2, RowIsAmong
<1> QED BY <1>3 DEF PhaseTo

\* Where the main task can go on: the helper's answer or failure is all it
\* awaits, or what it awaits has happened.
TaskIsDue ==
  \/ exe.pc \in {"normalize", "finalizeRead", "finalizeWrite", "unsettled",
                 "unsettledWrite", "last", "finish", "caught", "catchFail"}
  \/ exe.pc = "schedule" /\ control \in Awaited \cup {"returned", "threw"}
  \/ /\ exe.pc = "writeCallback" /\ control \in Awaited
     /\ PhaseTo(at, exe.writing) # {}
  \/ exe.pc = "joinCallback" /\ control \in Awaited /\ aborting \in {"done", "failed"}
  \/ exe.pc \in Joins \ {"joinCallback"} /\ aborting \in {"done", "failed"}
  \/ exe.pc = "rejoin" /\ aborting # "busy"

\* An executor is at work, or the loop has what it awaits.
LoopIsDue ==
  \/ \E p \in Phase : execution[p] = "busy"
  \/ control = "racing" /\ \E p \in active : execution[p] \in Sched!Result
  \/ control = "draining" /\ \A p \in active : execution[p] \in Sched!Result

\* An execution is never left waiting for something that nobody owes it: its
\* main task can go on, its sessions are being stopped, an executor is at work,
\* or the loop can go on.  No join awaits sessions that nobody stops, and no
\* race or drain an execution that has not begun (lifecycle.ts:129-204, 409-419;
\* scheduler.ts:181).
THEOREM ExecutionNeverStalls ==
  LifecycleSpec =>
    [](exe.pc \in Executing => TaskIsDue \/ aborting = "busy" \/ LoopIsDue)
<1>1. LifecycleInv /\ LoopAgrees =>
        (exe.pc \in Executing => TaskIsDue \/ aborting = "busy" \/ LoopIsDue)
  <2> SUFFICES ASSUME LifecycleInv, LoopAgrees, exe.pc \in Executing,
                      ~TaskIsDue, aborting # "busy", ~LoopIsDue
               PROVE  FALSE
    OBVIOUS
  <2>0. /\ aborting \in {"none", "done", "failed"} /\ PlacesAgree /\ exe \in ExeRow
        /\ Loop!LoopTyped /\ Loop!Tracked
    BY DEF LifecycleInv, ProcessInv, ProcessTypeOK, LoopAgrees, Executing
  <2>1. CASE exe.pc = "schedule"
    <3>1. control \in {"idle", "racing", "draining"}
      BY <2>0, <2>1 DEF TaskIsDue, Loop!LoopTyped, Loop!TypeOK, Loop!Control, Loop!Tracked,
                        Awaited
    <3>2. control # "idle"
      BY <2>1 DEF LoopAgrees
    <3>3. \A p \in active : execution[p] \in Sched!Result
      <4>1. \A p \in active : p \in Phase /\ execution[p] \in Sched!Result \cup {"busy"}
        BY <2>0, LoopActions DEF Loop!LoopTyped, Loop!TypeOK, Loop!Tracked
      <4> QED BY <4>1 DEF LoopIsDue
    <3>4. control = "racing" /\ active # {}
      BY <2>0, <3>1, <3>2, <3>3 DEF LoopIsDue, Loop!Tracked
    <3> QED BY <3>3, <3>4 DEF LoopIsDue
  <2>2. CASE exe.pc = "writeCallback"
    <3>1. control \in Awaited
      BY <2>0, <2>2 DEF PlacesAgree
    <3>2. PhaseTo(at, exe.writing) # {}
      BY ThereIsAChange
    <3> QED BY <2>2, <3>1, <3>2 DEF TaskIsDue
  <2>3. CASE exe.pc \in Joins
    BY <2>0, <2>3 DEF LoopAgrees, PlacesAgree, TaskIsDue, Joins
  <2> QED BY <2>0, <2>1, <2>2, <2>3 DEF TaskIsDue, Executing, Joins
<1> QED BY <1>1, LoopInvariant, PTL

-----------------------------------------------------------------------------
(* Every step of an execution spends of a budget *)

Count == Cardinality(Phase)

\* How many steps the main task and its loop have left, from a state of the
\* task, of the sessions, of the loop's budget, and from how many phases are
\* still to be interrupted, or to be recorded as the loop left them.
StepsFrom(e, stopping, budget, running, unrecorded) ==
  (IF e.caught THEN 0 ELSE 5) +
  CASE e.pc = "normalize" -> Count + 13 + 3 * budget + running
    [] e.pc = "schedule" -> Count + 12 + 3 * budget
    [] e.pc \in {"joinCallback", "writeCallback"} -> Count + 11 + 3 * budget
    [] e.pc = "join" -> Count + 9
    [] e.pc = "unsettled" -> Count + 8
    [] e.pc = "unsettledWrite" -> unrecorded + 7
    [] e.pc = "rejoin" -> (IF stopping = "none" THEN 6 ELSE 3)
    [] e.pc = "last" -> (IF e.joined THEN 2 ELSE 5)
    [] e.pc = "caught" -> 4
    [] e.pc = "joinCancel" -> 3
    [] e.pc = "finalizeRead" -> 2
    [] OTHER -> 1

Rank ==
  IF exe.pc \in Executing
  THEN StepsFrom(exe, aborting, Loop!Budget, Cardinality(InState({"running"})),
                 Cardinality(Unrecorded))
  ELSE 0

\* Sets of phases are counted.
LEMMA PhaseSets ==
  ASSUME NEW S, S \subseteq Phase
  PROVE  /\ Cardinality(S) \in Nat
         /\ \A p \in S : Cardinality(S \ {p}) < Cardinality(S)
         /\ Cardinality(S) <= Count
<1>1. \A T : Cardinality(T) = Loop!Cardinality(T)
  BY DEF Cardinality, Loop!Cardinality
<1>2. /\ Loop!Cardinality(S) \in Nat
      /\ Loop!Cardinality(S) <= Loop!Cardinality(Phase)
  BY LoopAssumptions, Loop!PhasesCount, Loop!FewerPhases
<1>3. \A p \in S : Loop!Cardinality(S \ {p}) = Loop!Cardinality(S) - 1
  BY LoopAssumptions, Loop!OnePhaseFewer
<1> QED BY <1>1, <1>2, <1>3 DEF Count

LEMMA LoopSpends ==
  ASSUME LoopAgrees, LoopAgrees', exe.pc # "dead", [Loop!Next]_schedule
  PROVE  /\ Loop!Budget \in Nat /\ Loop!Budget' \in Nat
         /\ Loop!Budget' <= Loop!Budget
         /\ Loop!Next => Loop!Budget' < Loop!Budget
<1>0. Loop!LoopTyped /\ Loop!LoopTyped' /\ Loop!Tracked
  BY DEF LoopAgrees
<1>1. Loop!Budget \in Nat
  BY <1>0, LoopAssumptions, Loop!BudgetParts
<1>2. Loop!Next => Loop!Budget' \in Nat /\ Loop!Budget' < Loop!Budget
  BY <1>0, LoopAssumptions, Loop!BudgetStep
<1>3. UNCHANGED schedule => Loop!Budget' = Loop!Budget
  BY DEF schedule, Loop!Budget, Loop!Waiting, Loop!AtWork
<1> QED BY <1>1, <1>2, <1>3

\* What is counted is at most all phases.
Counted ==
  /\ Count \in Nat
  /\ Cardinality(InState({"running"})) \in Nat
  /\ Cardinality(Unrecorded) \in Nat /\ Cardinality(Unrecorded) <= Count

LEMMA RankParts == Counted /\ Counted'
<1>0. Counted
  <2>1. Phase \subseteq Phase /\ InState({"running"}) \subseteq Phase /\ Unrecorded \subseteq Phase
    BY DEF InState, Unrecorded
  <2> QED BY <2>1, PhaseSets DEF Count, Counted
<1> QED BY <1>0, PTL

\* The rank of a state, and of the next one, by where the main task is.
RankedAt(rank, pc, base, stopped, joined, budget, running, unrecorded) ==
  /\ pc = "normalize" => rank = base + Count + 13 + 3 * budget + running
  /\ pc = "schedule" => rank = base + Count + 12 + 3 * budget
  /\ pc \in {"joinCallback", "writeCallback"} => rank = base + Count + 11 + 3 * budget
  /\ pc = "join" => rank = base + Count + 9
  /\ pc = "unsettled" => rank = base + Count + 8
  /\ pc = "unsettledWrite" => rank = base + unrecorded + 7
  /\ pc = "rejoin" => rank = base + (IF stopped THEN 3 ELSE 6)
  /\ pc = "last" => rank = base + (IF joined THEN 2 ELSE 5)
  /\ pc = "caught" => rank = base + 4
  /\ pc = "joinCancel" => rank = base + 3
  /\ pc = "finalizeRead" => rank = base + 2
  /\ pc \in {"finalizeWrite", "finish", "joinCanceled", "catchFail"} => rank = base + 1
  /\ pc \in Over => rank = 0

\* An exception can still be caught.
Base == IF exe.caught THEN 0 ELSE 5

Ranked ==
  RankedAt(Rank, exe.pc, Base, aborting # "none", exe.joined, Loop!Budget,
           Cardinality(InState({"running"})), Cardinality(Unrecorded))

LEMMA RankIs ==
  ASSUME exe \in ExeRow, Loop!Budget \in Nat
  PROVE  Ranked
<1>0. /\ exe.caught \in BOOLEAN /\ exe.joined \in BOOLEAN /\ Base \in Nat
  BY DEF ExeRow, Base
<1> DEFINE r == Cardinality(InState({"running"}))
           u == Cardinality(Unrecorded)
           b == Loop!Budget
<1>1. r \in Nat /\ u \in Nat /\ b \in Nat
  BY RankParts DEF Counted
<1>2. /\ exe.pc \in Executing => Rank = StepsFrom(exe, aborting, b, r, u)
      /\ exe.pc \in Over => Rank = 0
  BY DEF Rank, Over, Executing
<1>3. Count \in Nat
  BY RankParts DEF Counted
<1> DEFINE n == StepsFrom(exe, aborting, b, r, u)
<1> HIDE DEF r, u, b
<1>4. n = Base + CASE exe.pc = "normalize" -> Count + 13 + 3 * b + r
                   [] exe.pc = "schedule" -> Count + 12 + 3 * b
                   [] exe.pc \in {"joinCallback", "writeCallback"} -> Count + 11 + 3 * b
                   [] exe.pc = "join" -> Count + 9
                   [] exe.pc = "unsettled" -> Count + 8
                   [] exe.pc = "unsettledWrite" -> u + 7
                   [] exe.pc = "rejoin" -> (IF aborting = "none" THEN 6 ELSE 3)
                   [] exe.pc = "last" -> (IF exe.joined THEN 2 ELSE 5)
                   [] exe.pc = "caught" -> 4
                   [] exe.pc = "joinCancel" -> 3
                   [] exe.pc = "finalizeRead" -> 2
                   [] OTHER -> 1
  BY DEF StepsFrom, Base
<1> HIDE DEF n
<1>5. exe.pc \in Executing => RankedAt(n, exe.pc, Base, aborting # "none", exe.joined, b, r, u)
  <2>1. CASE exe.pc \in {"normalize", "schedule", "joinCallback", "writeCallback"}
    BY <1>0, <1>1, <1>3, <1>4, <2>1 DEF RankedAt, Over
  <2>2. CASE exe.pc \in {"join", "unsettled", "unsettledWrite", "rejoin", "last"}
    BY <1>0, <1>1, <1>3, <1>4, <2>2 DEF RankedAt, Over
  <2>3. CASE exe.pc \in {"caught", "joinCancel", "finalizeRead", "finalizeWrite", "finish",
                         "joinCanceled", "catchFail"}
    BY <1>0, <1>1, <1>3, <1>4, <2>3 DEF RankedAt, Over
  <2> QED BY <2>1, <2>2, <2>3 DEF Executing
<1>6. CASE exe.pc \in Executing
  <2>1. Rank = n
    BY <1>2, <1>6 DEF n
  <2> QED BY <1>5, <1>6, <2>1 DEF r, u, b, Ranked
<1>7. CASE exe.pc \notin Executing
  BY <1>2, <1>7 DEF RankedAt, Executing, Ranked
<1> QED BY <1>6, <1>7

LEMMA RankIsNext ==
  (exe \in ExeRow /\ Loop!Budget \in Nat => Ranked)'
<1>1. exe \in ExeRow /\ Loop!Budget \in Nat => Ranked
  BY RankIs
<1> QED BY <1>1, PTL

\* Where the main task can be, with what each lemma below supposes of a step.
Ranks ==
  /\ exe \in ExeRow /\ exe' \in ExeRow /\ exe.pc \in Executing
  /\ Loop!Budget \in Nat /\ Loop!Budget' \in Nat /\ Loop!Budget' <= Loop!Budget

\* A failure of the main task is caught once.
LEMMA FailureFalls ==
  ASSUME Ranks, exe' = Failed
  PROVE  Rank' < Rank
<1>1. \/ exe.caught /\ exe'.pc = "rejected"
      \/ ~exe.caught /\ exe'.pc = "caught" /\ exe'.caught
  BY DEF Ranks, ExeRow, Failed, To
<1>2. Ranked /\ Ranked'
  BY RankIs, RankIsNext DEF Ranks
<1>3. Counted /\ Loop!Budget \in Nat
  BY RankParts DEF Ranks
<1>4. Rank \in Nat /\ Rank > Base
  BY <1>2, <1>3 DEF Ranked, Counted, RankedAt, Ranks, Executing, Base
<1>5. CASE exe.caught
  BY <1>1, <1>2, <1>4, <1>5 DEF Ranked, Counted, RankedAt, Over, Base
<1>6. CASE ~exe.caught
  BY <1>1, <1>2, <1>4, <1>6 DEF Ranked, Counted, RankedAt, Base
<1> QED BY <1>5, <1>6

\* The places that are always nearer to the end.
Nearer(pc) ==
  Over \cup CASE pc = "schedule" -> {"joinCallback", "writeCallback", "joinCancel", "join",
                                     "unsettled", "rejoin"}
              [] pc = "join" -> {"unsettled", "rejoin"}
              [] pc = "unsettled" -> {"unsettledWrite"}
              [] pc = "unsettledWrite" -> {"rejoin"}
              [] pc = "last" -> {"finish"}
              [] pc = "caught" -> {"joinCancel", "joinCanceled", "catchFail"}
              [] pc = "joinCancel" -> {"finalizeRead"}
              [] pc = "finalizeRead" -> {"finalizeWrite"}
              [] OTHER -> {}

LEMMA PlaceFalls ==
  ASSUME Ranks, exe'.caught = exe.caught, exe'.pc \in Nearer(exe.pc)
  PROVE  Rank' < Rank
<1>1. Ranked /\ Ranked'
  BY RankIs, RankIsNext DEF Ranks
<1>2. Counted
  BY RankParts
<1>3. Counted'
  BY RankParts
<1>4. Base \in Nat /\ Base' = Base
  BY DEF Ranks, Base
<1>5. CASE exe'.pc \in Over
  BY <1>1, <1>2, <1>4, <1>5 DEF Ranked, Counted, RankedAt, Ranks, Executing
<1>6. CASE exe.pc = "schedule" /\ exe'.pc \in Nearer("schedule") \ Over
  BY <1>1, <1>2, <1>4, <1>6 DEF Ranked, Counted, RankedAt, Ranks, Nearer
<1>7. CASE exe.pc \in {"join", "unsettled", "unsettledWrite"} /\ exe'.pc \notin Over
  BY <1>1, <1>2, <1>3, <1>4, <1>7 DEF Ranked, Counted, RankedAt, Nearer
<1>8. CASE exe.pc \in {"last", "caught", "joinCancel", "finalizeRead"} /\ exe'.pc \notin Over
  BY <1>1, <1>2, <1>4, <1>8 DEF Ranked, Counted, RankedAt, Nearer
<1> QED BY <1>5, <1>6, <1>7, <1>8 DEF Nearer, Ranks, Executing

\* In the schedule every step of the loop counts.
LEMMA LoopFalls ==
  ASSUME Ranks, Loop!Budget' < Loop!Budget, exe'.caught = exe.caught,
         \/ exe.pc \in InSchedule /\ exe'.pc = exe.pc
         \/ exe.pc \in {"normalize", "joinCallback", "writeCallback"} /\ exe'.pc = "schedule"
  PROVE  Rank' < Rank
<1>1. Ranked /\ Ranked'
  BY RankIs, RankIsNext DEF Ranks
<1>2. Counted
  BY RankParts
<1>3. Base \in Nat /\ Base' = Base
  BY DEF Ranks, Base
<1> QED BY <1>1, <1>2, <1>3 DEF Ranked, Counted, RankedAt, Ranks, InSchedule

LEMMA RanksHold ==
  ASSUME LifecycleInv, LoopAgrees, LifecycleInv', LoopAgrees', exe.pc \in Executing,
         [Loop!Next]_schedule
  PROVE  Ranks /\ (Loop!Next => Loop!Budget' < Loop!Budget)
<1>1. exe \in ExeRow /\ exe' \in ExeRow
  BY DEF LifecycleInv, ProcessInv, ProcessTypeOK
<1>2. exe.pc # "dead"
  BY DEF Executing
<1> QED BY <1>1, <1>2, LoopSpends DEF Ranks

\* Of the phases to be recorded, one less is left.
LEMMA RecordedOnce ==
  ASSUME LifecycleInv, exe.pc # "absent", NEW p \in Phase, NEW to \in Recordable,
         NEW change \in PhaseTo(p, to), Writes(change, None)
  PROVE  Recorded(p, to)
<1>1. exe.claim \in Claim
  BY DEF LifecycleInv, ProcessInv, RunAgrees
<1> QED BY <1>1, PhaseCall DEF Writes, LifecycleInv

LEMMA NormalizeFalls ==
  ASSUME LifecycleInv, Ranks, LoopAgrees, Normalize,
         Loop!Next => Loop!Budget' < Loop!Budget
  PROVE  Rank' < Rank
<1>0. exe.pc = "normalize" /\ exe \in ExeRow /\ exe' \in ExeRow
  BY DEF Normalize, At, Ranks
<1>1. CASE exe' = Failed
  BY <1>1, FailureFalls
<1>2. CASE Sched!Begin(InState(Done)) /\ exe' = To("schedule")
  <2>1. exe'.pc = "schedule" /\ exe'.caught = exe.caught
    BY <1>0, <1>2 DEF To, ExeRow
  <2>2. InState(Done) \in Loop!Prefix
    BY DoneIsPrefix DEF LoopAgrees, LifecycleInv
  <2>3. Loop!Next
    BY <1>2, <2>2, LoopActions DEF Loop!Next
  <2> QED BY <1>0, <2>1, <2>3, LoopFalls
<1>3. CASE /\ InState({"running"}) # {} /\ exe' = [exe EXCEPT !.seen = exe.seen + 1]
           /\ \E change \in PhaseTo(FirstOf(InState({"running"})), "interrupted") :
                Writes(change, None)
           /\ UNCHANGED schedule
  <2>1. PICK p \in InState({"running"}) : p = FirstOf(InState({"running"}))
    BY <1>3, InStateIn, FirstOfIn
  <2>2. p \in Phase /\ Recorded(p, "interrupted")
    BY <1>0, <1>3, <2>1, RecordedOnce DEF InState, Recordable
  <2>3. InState({"running"})' = InState({"running"}) \ {p}
    BY <2>2 DEF Recorded, InState
  <2>4. Cardinality(InState({"running"})') < Cardinality(InState({"running"}))
    BY <2>1, <2>3, PhaseSets DEF InState
  <2>5. exe'.pc = "normalize" /\ exe'.caught = exe.caught
    BY <1>0, <1>3 DEF ExeRow
  <2>6. Ranked /\ Ranked' /\ Counted /\ Counted'
    BY RankIs, RankIsNext, RankParts DEF Ranks
  <2>7. Base \in Nat /\ Base' = Base
    BY <1>0, <2>5 DEF ExeRow, Base
  <2> QED BY <1>0, <2>4, <2>5, <2>6, <2>7 DEF Ranks, Ranked, RankedAt, Counted
<1> QED BY <1>1, <1>2, <1>3 DEF Normalize

LEMMA CallbackFalls ==
  ASSUME LifecycleInv, Ranks, Loop!Next => Loop!Budget' < Loop!Budget,
         CallbackRead \/ CallbackJoin \/ CallbackWrite
  PROVE  Rank' < Rank
<1>0. exe \in ExeRow /\ exe' \in ExeRow
  BY DEF Ranks
<1>1. ASSUME Sched!Started \/ Sched!Retracted \/ Sched!Settled \/ Sched!CallbackThrows
      PROVE  Loop!Next
  BY <1>1, LoopActions DEF Loop!Next, Loop!Callback
<1>2. CASE CallbackRead
  <2>1. CASE exe' = ToCancel("joinCallback") \/ exe' = ToWrite("writeCallback", Persisted)
    <3>1. /\ exe'.pc \in {"joinCallback", "writeCallback"}
          /\ exe'.caught = exe.caught /\ exe.pc = "schedule"
      BY <1>0, <1>2, <2>1 DEF ToCancel, ToWrite, ExeRow, CallbackRead, At
    <3> QED BY <3>1, PlaceFalls DEF Nearer
  <2>2. CASE Sched!CallbackThrows /\ UNCHANGED exe
    BY <1>1, <1>2, <2>2, LoopFalls DEF CallbackRead, At, InSchedule
  <2> QED BY <1>2, <2>1, <2>2 DEF CallbackRead
<1>3. CASE CallbackJoin \/ CallbackWrite
  <2>1. /\ exe.pc \in {"joinCallback", "writeCallback"}
        /\ exe'.pc = "schedule" /\ exe'.caught = exe.caught
    BY <1>0, <1>3 DEF CallbackJoin, CallbackWrite, At, To, ExeRow
  <2>2. Loop!Next
    BY <1>1, <1>3 DEF CallbackJoin, CallbackWrite
  <2> QED BY <2>1, <2>2, LoopFalls
<1> QED BY <1>2, <1>3

LEMMA ConcludingFalls ==
  ASSUME LifecycleInv, Ranks, exe' # Failed,
         \/ Latest \/ JoinCancel \/ FinalizeRead \/ Join \/ UnsettledRead
         \/ Finish \/ Caught \/ JoinCanceled
  PROVE  Rank' < Rank
<1>0. exe \in ExeRow /\ exe' \in ExeRow
  BY DEF Ranks
<1>1. exe'.pc \in Nearer(exe.pc) /\ exe'.caught = exe.caught
  <2>1. CASE Latest
    BY <1>0, <2>1
       DEF Latest, At, ToCancel, To, AfterJoin, ExeRow, Nearer
  <2>2. CASE JoinCancel \/ Join \/ JoinCanceled
    BY <1>0, <2>2
       DEF JoinCancel, Join, JoinCanceled, Awaits, At, To, AfterJoin, ExeRow, Nearer, Over
  <2>3. CASE FinalizeRead \/ UnsettledRead \/ Finish
    BY <1>0, <2>3
       DEF FinalizeRead, UnsettledRead, Finish, At, To, ToWrite, ExeRow, Nearer, Over
  <2>4. CASE Caught
    BY <1>0, <2>4 DEF Caught, At, ToCancel, ToWrite, ExeRow, Nearer
  <2> QED BY <2>1, <2>2, <2>3, <2>4
<1> QED BY <1>1, PlaceFalls

LEMMA UnsettledFalls ==
  ASSUME LifecycleInv, Ranks, UnsettledWrite
  PROVE  Rank' < Rank
<1>0. /\ exe.pc = "unsettledWrite" /\ exe \in ExeRow /\ exe' \in ExeRow
      /\ UNCHANGED <<state, control>>
  BY DEF UnsettledWrite, At, Ranks, KeepWork, schedule
<1>1. CASE exe' = Failed
  BY <1>1, FailureFalls
<1>2. CASE exe' = To("rejoin")
  <2>1. exe'.pc = "rejoin" /\ exe'.caught = exe.caught
    BY <1>0, <1>2 DEF To, ExeRow
  <2> QED BY <1>0, <2>1, PlaceFalls DEF Nearer
<1>3. CASE /\ Unrecorded # {} /\ exe' = [exe EXCEPT !.seen = exe.seen + 1]
           /\ \E change \in PhaseTo(FirstOf(Unrecorded), ResultState(FirstOf(Unrecorded))) :
                Writes(change, None)
  <2>1. PICK p \in Unrecorded : p = FirstOf(Unrecorded)
    BY <1>3, InStateIn, FirstOfIn DEF Unrecorded
  <2>2. p \in Phase /\ ResultState(p) \in {"canceled", "skipped"}
    BY DEF Unrecorded, InState
  <2>3. Recorded(p, ResultState(p))
    BY <1>0, <1>3, <2>1, <2>2, RecordedOnce DEF Recordable
  <2>4. \A q \in Phase : ResultState(q)' = ResultState(q)
    BY <1>0 DEF ResultState
  <2>5. Unrecorded' = Unrecorded \ {p}
    BY <2>2, <2>3, <2>4 DEF Recorded, Unrecorded, InState, Unsettled
  <2>6. Cardinality(Unrecorded') < Cardinality(Unrecorded)
    BY <2>5, PhaseSets DEF Unrecorded, InState
  <2>7. exe'.pc = "unsettledWrite" /\ exe'.caught = exe.caught
    BY <1>0, <1>3 DEF ExeRow
  <2>8. Ranked /\ Ranked' /\ Counted /\ Counted'
    BY RankIs, RankIsNext, RankParts DEF Ranks
  <2>9. Base \in Nat /\ Base' = Base
    BY <1>0, <2>7 DEF ExeRow, Base
  <2> QED BY <1>0, <2>6, <2>7, <2>8, <2>9 DEF Ranked, RankedAt, Counted
<1> QED BY <1>1, <1>2, <1>3 DEF UnsettledWrite

\* The last barrier is passed twice at most: what was joined stays joined.
LEMMA BarrierFalls ==
  ASSUME LifecycleInv, Ranks, Rejoin \/ Last
  PROVE  Rank' < Rank
<1>0. exe \in ExeRow /\ exe' \in ExeRow /\ aborting' = aborting
  BY DEF Ranks, Rejoin, Last, KeepWork
<1>1. exe.joined => aborting = "done"
  BY DEF LifecycleInv, ProcessInv, StopsAgree, Ranks, Executing
<1>2. Ranked /\ Ranked' /\ Counted /\ Counted'
  BY RankIs, RankIsNext, RankParts DEF Ranks
<1>3. ASSUME exe'.caught = exe.caught PROVE Base \in Nat /\ Base' = Base
  BY <1>0, <1>3 DEF ExeRow, Base
<1>4. CASE exe' = Failed
  BY <1>4, FailureFalls
<1>5. CASE Rejoin /\ exe' # Failed
  <2>1. /\ exe.pc = "rejoin" /\ exe'.pc = "last" /\ exe'.caught = exe.caught
        /\ exe'.joined <=> aborting # "none"
    BY <1>0, <1>5 DEF Rejoin, At, ExeRow
  <2> QED BY <1>0, <1>2, <1>3, <2>1 DEF Ranked, RankedAt
<1>6. CASE Last /\ exe'.pc = "finish"
  <2>1. exe.pc = "last" /\ exe'.caught = exe.caught
    BY <1>0, <1>6 DEF Last, At, ExeRow, To, ToWrite, Failed
  <2> QED BY <1>6, <2>1, PlaceFalls DEF Nearer
<1>7. CASE Last /\ exe' # Failed /\ exe'.pc # "finish"
  <2>1. /\ exe.pc = "last" /\ exe'.pc = "rejoin" /\ exe'.caught = exe.caught
        /\ exe.joined # (aborting # "none")
    BY <1>0, <1>7 DEF Last, At, ExeRow, To, ToWrite
  <2>2. ~exe.joined /\ aborting # "none"
    BY <1>0, <1>1, <2>1 DEF ExeRow
  <2> QED BY <1>0, <1>2, <1>3, <2>1, <2>2 DEF Ranked, RankedAt
<1> QED BY <1>4, <1>5, <1>6, <1>7

LEMMA LoopStepFalls ==
  ASSUME LifecycleInv, Ranks, Loop!Next => Loop!Budget' < Loop!Budget,
         Schedule \/ \E p \in Phase : Executor(p)
  PROVE  Rank' < Rank
<1>1. exe' = exe
  BY DEF Schedule, Executor
<1>2. /\ PlacesAgree
      /\ \A p \in Phase : execution[p] = "busy" => control \notin Resting
  BY DEF LifecycleInv, ProcessInv, ScheduleOK
<1>3. CASE \E p \in Phase, result \in Sched!Result : Sched!Execute(p, result)
  <2>1. Loop!Next
    BY <1>3, LoopActions DEF Loop!Next
  <2>2. control \notin Resting
    BY <1>2, <1>3 DEF Sched!Execute
  <2> QED BY <1>1, <1>2, <2>1, <2>2, LoopFalls DEF PlacesAgree
<1>4. CASE (\E p \in Phase : Sched!Take(p)) \/ Sched!Throw
  <2>1. Loop!Next
    BY <1>4, LoopActions DEF Loop!Next
  <2>2. control \notin Resting
    BY <1>4 DEF Sched!Take, Sched!Throw, Resting
  <2> QED BY <1>1, <1>2, <2>1, <2>2, LoopFalls DEF PlacesAgree
<1> QED BY <1>3, <1>4 DEF Schedule, Executor

\* What stops the process or records beside it takes it no step back.
LEMMA BesideNeverRises ==
  ASSUME LifecycleInv, LoopAgrees, Ranks, exe'.pc = exe.pc,
         \/ RecordActivity \/ AbortEnds \/ Monitor
         \/ Signal \/ Cancel \/ Interrupt \/ CancelElsewhere
  PROVE  Rank' <= Rank
<1>0. /\ exe \in ExeRow /\ exe' \in ExeRow /\ TheRun \in Run
      /\ run \in [Run -> RunRow] /\ phase \in [Run -> [Phase -> PhaseRow]]
  BY LifecycleAssumption DEF Ranks, LifecycleInv, TypeOK
<1>1. aborting # "none" => aborting' # "none"
  BY AsideSteps
<1>2. UNCHANGED <<state, control>>
  BY DEF RecordActivity, AbortEnds, Monitor, Signal, Cancel, Interrupt, CancelElsewhere,
         KeepWork, StopWork, schedule
<1>3. exe'.caught = exe.caught /\ exe'.joined = exe.joined
  <2>1. \/ exe' = exe \/ exe' = ToCancel(exe.pc) \/ exe' = [exe EXCEPT !.monitor = FALSE]
        \/ exe' = [exe EXCEPT !.outcome = "interrupted"]
    BY DEF RecordActivity, AbortEnds, Monitor, Signal, Cancel, Interrupt, CancelElsewhere
  <2> QED BY <1>0, <2>1 DEF ToCancel, ExeRow
<1>4. UNCHANGED phase
  <2>1. UNCHANGED store => UNCHANGED phase
    BY DEF store, vars
  <2>2. CancelRun(TheRun) => UNCHANGED phase
    BY DEF CancelRun
  <2>3. CASE RecordActivity \/ CancelElsewhere
    BY <2>2, <2>3 DEF RecordActivity, CancelElsewhere, RecordEvent
  <2>4. CASE AbortEnds \/ Monitor \/ Signal \/ Interrupt
    BY <2>1, <2>4 DEF AbortEnds, Monitor, Signal, Interrupt, Reads, Unavailable
  <2>5. CASE Cancel
    BY <2>1, <2>2, <2>5 DEF Cancel, Reads
  <2> QED BY <2>3, <2>4, <2>5
<1>5. /\ Cardinality(InState({"running"}))' = Cardinality(InState({"running"}))
      /\ Cardinality(Unrecorded)' = Cardinality(Unrecorded)
  BY <1>2, <1>4 DEF InState, Unrecorded, ResultState
<1>6. Ranked /\ Ranked' /\ Counted /\ Counted'
  BY RankIs, RankIsNext, RankParts DEF Ranks
<1>7. Base \in Nat /\ Base' = Base
  BY <1>0, <1>3 DEF ExeRow, Base
<1> DEFINE r == Cardinality(InState({"running"}))
           u == Cardinality(Unrecorded)
<1>8. /\ RankedAt(Rank, exe.pc, Base, aborting # "none", exe.joined, Loop!Budget, r, u)
      /\ RankedAt(Rank', exe.pc, Base, aborting' # "none", exe.joined, Loop!Budget', r, u)
  BY <1>3, <1>5, <1>6, <1>7 DEF Ranked, RankedAt
<1>9. /\ r \in Nat /\ u \in Nat /\ Count \in Nat
      /\ Loop!Budget \in Nat /\ Loop!Budget' \in Nat /\ Loop!Budget' <= Loop!Budget
      /\ exe.pc \in Executing
  BY <1>6 DEF Counted, Ranks
<1> HIDE DEF r, u
<1> QED BY <1>1, <1>7, <1>8, <1>9 DEF RankedAt, Executing

LEMMA RankIsNatural ==
  LifecycleInv /\ LoopAgrees => Rank \in Nat
<1> SUFFICES ASSUME LifecycleInv, LoopAgrees PROVE Rank \in Nat
  OBVIOUS
<1>1. Loop!Budget \in Nat /\ exe \in ExeRow
  BY LoopAssumptions, Loop!BudgetParts
     DEF LoopAgrees, LifecycleInv, ProcessInv, ProcessTypeOK
<1>2. Ranked /\ Counted /\ Base \in Nat
  BY <1>1, RankIs, RankParts DEF Base
<1>3. CASE exe.pc \in Executing
  BY <1>1, <1>2, <1>3 DEF Ranked, RankedAt, Counted, Executing
<1>4. CASE exe.pc \notin Executing
  BY <1>4 DEF Rank
<1> QED BY <1>3, <1>4

\* A step never rises, and one of the execution itself falls.
Falls ==
  /\ Rank' <= Rank
  /\ MainTask \/ Schedule \/ (\E p \in Phase : Executor(p)) => Rank' < Rank

LEMMA RankStep ==
  ASSUME LifecycleInv, LoopAgrees, LifecycleInv', LoopAgrees', exe.pc \in Executing,
         Rank \in Nat, Rank' \in Nat, [LifecycleNext]_lifecycle
  PROVE  Falls
<1> DEFINE Moves == MainTask \/ Schedule \/ \E p \in Phase : Executor(p)
<1>1. ASSUME Rank' < Rank PROVE Falls
  BY <1>1 DEF Falls
<1>2. CASE MainTask
  <2>1. TaskStep
    BY <1>2, EarlySteps, CallbackSteps, LaterSteps DEF MainTask
  <2>2. Ranks /\ (Loop!Next => Loop!Budget' < Loop!Budget)
    BY <2>1, RanksHold DEF TaskStep
  <2>3. ~Create /\ ~TakeOver
    BY DEF Create, TakeOver, At, Executing
  <2>4. Rank' < Rank
    <3>1. CASE exe' = Failed
      BY <2>2, <3>1, FailureFalls
    <3>2. CASE exe' # Failed
      BY <1>2, <2>2, <2>3, <3>2, NormalizeFalls, CallbackFalls, ConcludingFalls,
         UnsettledFalls, BarrierFalls DEF MainTask
    <3> QED BY <3>1, <3>2
  <2> QED BY <1>1, <2>4
<1>3. CASE Schedule \/ \E p \in Phase : Executor(p)
  <2>1. Ranks /\ (Loop!Next => Loop!Budget' < Loop!Budget)
    BY <1>3, AsideSteps, RanksHold
  <2>2. Rank' < Rank
    BY <1>3, <2>1, LoopStepFalls
  <2> QED BY <1>1, <2>2
<1>4. CASE ~Moves /\ (\/ RecordActivity \/ AbortEnds \/ Monitor
                      \/ Signal \/ Cancel \/ Interrupt \/ CancelElsewhere)
  <2>1. Ranks /\ exe'.pc = exe.pc
    BY <1>4, AsideSteps, RanksHold
  <2> QED BY <1>4, <2>1, BesideNeverRises DEF Falls
<1>5. CASE ~Moves /\ Resume
  BY <1>5 DEF Resume, Executing, Over
<1>6. CASE ~Moves /\ Crash
  <2>1. exe'.pc = "dead"
    BY <1>6 DEF Crash, To, LifecycleInv, ProcessInv, ProcessTypeOK, ExeRow
  <2>2. Rank' = 0
    BY <2>1 DEF Rank, Executing
  <2> QED BY <1>6, <2>2 DEF Falls
<1>7. CASE ~Moves /\ UNCHANGED lifecycle
  <2>1. [Loop!Next]_schedule /\ UNCHANGED <<exe, aborting, schedule, phase>>
    BY <1>7 DEF lifecycle, store, vars
  <2>2. Rank' = Rank
    BY <2>1 DEF Rank, StepsFrom, Loop!Budget, Loop!Waiting, Loop!AtWork, schedule, InState,
                Unrecorded, ResultState
  <2> QED BY <1>7, <2>2 DEF Falls
<1> QED BY <1>2, <1>3, <1>4, <1>5, <1>6, <1>7 DEF LifecycleNext

\* The budget of the loop of a new process is the whole of it.
Budgeted == Loop!Budget <= 4 * Count + 8

LEMMA BudgetBound == LifecycleSpec => []Budgeted
<1>0. Count = Loop!Cardinality(Phase) /\ Count \in Nat
  BY RankParts DEF Count, Counted, Cardinality, Loop!Cardinality
<1>1. ASSUME LoopAgrees, control = "idle", active = {},
             \A p \in Phase : execution[p] = "none"
      PROVE  Loop!Budget <= 4 * Count + 8
  BY <1>0, <1>1, LoopAssumptions, Loop!BudgetOfIdle DEF LoopAgrees
<1>2. LoopAgrees /\ control = "idle" /\ active = {} /\ (\A p \in Phase : execution[p] = "none")
        => Budgeted
  BY <1>1 DEF Budgeted
<1>3. LifecycleInit /\ LoopAgrees => Budgeted
  BY <1>2 DEF LifecycleInit, Sched!Idle
<1>4. LifecycleInv /\ LoopAgrees /\ LifecycleInv' /\ LoopAgrees' /\ [LifecycleNext]_lifecycle
        /\ Budgeted
        => Budgeted'
  <2> SUFFICES ASSUME LifecycleInv, LoopAgrees, LifecycleInv', LoopAgrees',
                      [LifecycleNext]_lifecycle, Loop!Budget <= 4 * Count + 8
               PROVE  Loop!Budget' <= 4 * Count + 8
    BY DEF Budgeted
  <2>1. ASSUME [Loop!Next]_schedule, exe.pc # "dead" \/ UNCHANGED schedule
        PROVE  Loop!Budget' <= 4 * Count + 8
    <3>1. CASE exe.pc # "dead"
      BY <1>0, <2>1, <3>1, LoopSpends
    <3>2. CASE UNCHANGED schedule
      BY <3>2 DEF schedule, Loop!Budget, Loop!Waiting, Loop!AtWork
    <3> QED BY <2>1, <3>1, <3>2
  <2>2. CASE MainTask
    BY <2>1, <2>2, EarlySteps, CallbackSteps, LaterSteps DEF MainTask, TaskStep, Over
  <2>3. CASE \/ \E p \in Phase : Executor(p)
             \/ Schedule \/ RecordActivity \/ AbortEnds \/ Monitor
             \/ Signal \/ Cancel \/ Interrupt \/ CancelElsewhere
    BY <2>1, <2>3, AsideSteps
  <2>4. CASE Resume \/ Crash
    <3>1. control' = "idle" /\ active' = {} /\ \A p \in Phase : execution'[p] = "none"
      BY <2>4 DEF Resume, Crash
    <3>2. (LoopAgrees /\ control = "idle" /\ active = {}
             /\ (\A p \in Phase : execution[p] = "none")
             => Budgeted)'
      BY <1>2, PTL
    <3> QED BY <3>1, <3>2 DEF Budgeted
  <2>5. CASE UNCHANGED lifecycle
    BY <2>1, <2>5 DEF lifecycle
  <2> QED BY <2>2, <2>3, <2>4, <2>5 DEF LifecycleNext
<1> QED BY <1>3, <1>4, LoopInvariant, LoopAgreesInit, PTL DEF LifecycleSpec

\* From its claim on an execution takes at most 14 * Count + 42 steps of its
\* main task, its loop and its executors, whatever is lost, refused, canceled
\* or signaled meanwhile, and nothing else takes it a step back: no failure is
\* caught again and again, and no barrier passed for ever (lifecycle.ts:129-204,
\* 409-419; scheduler.ts:63-190).
THEOREM ExecutionAdvances ==
  LifecycleSpec =>
    /\ [](Rank \in Nat /\ Rank <= 14 * Count + 42)
    /\ [][exe.pc \in Executing => Falls]_lifecycle
<1> DEFINE InRange == Rank \in Nat /\ Rank <= 14 * Count + 42
<1>1. LifecycleInv /\ LoopAgrees /\ Budgeted => InRange
  <2> SUFFICES ASSUME LifecycleInv, LoopAgrees, Loop!Budget <= 4 * Count + 8
               PROVE  Rank \in Nat /\ Rank <= 14 * Count + 42
    BY DEF Budgeted
  <2>1. Loop!Budget \in Nat /\ exe \in ExeRow
    BY LoopAssumptions, Loop!BudgetParts
       DEF LoopAgrees, LifecycleInv, ProcessInv, ProcessTypeOK
  <2>2. Ranked /\ Counted /\ Base \in {0, 5}
    BY <2>1, RankIs, RankParts DEF Base
  <2>3. Rank \in Nat /\ Cardinality(InState({"running"})) <= Count
    BY RankIsNatural, PhaseSets DEF InState
  <2>4. CASE exe.pc \in Executing
    BY <2>1, <2>2, <2>3, <2>4 DEF Ranked, RankedAt, Counted, Executing
  <2>5. CASE exe.pc \notin Executing
    BY <2>2, <2>5 DEF Rank, Counted
  <2> QED BY <2>3, <2>4, <2>5
<1>2. LifecycleInv /\ LoopAgrees /\ InRange /\ LifecycleInv' /\ LoopAgrees' /\ InRange'
        /\ [LifecycleNext]_lifecycle
        => [exe.pc \in Executing => Falls]_lifecycle
  BY RankStep
<1> HIDE DEF InRange
<1>3. InRange <=> (Rank \in Nat /\ Rank <= 14 * Count + 42)
  BY DEF InRange
<1> QED BY <1>1, <1>2, <1>3, LoopInvariant, BudgetBound, PTL DEF LifecycleSpec

=============================================================================
