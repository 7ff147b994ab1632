---------------------------- MODULE RuntimeState ----------------------------
(***************************************************************************)
(* The durable state of canonical workflow runs: the tables workflow_runs, *)
(* workflow_phases, workflow_logical_agents, workflow_attempts and the     *)
(* tail of workflow_events, with the operations of                         *)
(* scripts/runtime_state.py.  Every operation there runs inside one        *)
(* BEGIN IMMEDIATE transaction of SQLite, so every operation here is one   *)
(* action; a rejected call (SystemExit, then rollback) changes nothing and *)
(* is no step.                                                             *)
(*                                                                         *)
(* The callers are the most general ones: any controller may issue any     *)
(* operation of the repository client at any time, with any expected       *)
(* version.  Calls that arrive late, out of order or twice are therefore   *)
(* all included.  The payload shapes are those that src/runtime and        *)
(* src/rpc send (see PhaseChange and StatusTransition).                    *)
(***************************************************************************)
EXTENDS Naturals, Sequences, FiniteSets

CONSTANTS
  Run,          \* run identifiers
  Phase,        \* phase identifiers of the workflow
  Deps,         \* Deps[p]: the phases p depends on
  PhaseType,    \* PhaseType[p]: the type and version of p
  Publication,  \* the type of a publication phase
  Claim,        \* (controllerId, claimToken) pairs
  Agent,        \* logical agent identifiers
  Session,      \* Pi session identifiers
  Input,        \* input digests
  Output,       \* output digests
  Target,       \* target path, target revision and policy digest of a run
  MaxVersion,   \* bound: versions a run may reach
  MaxAttempts,  \* bound: attempts of one logical agent
  None          \* the NULL of a column

ASSUME WorkflowAssumption ==
  /\ Deps \in [Phase -> SUBSET Phase]
  /\ PhaseType \in [Phase -> {PhaseType[p] : p \in Phase}]

ASSUME BoundAssumption == MaxVersion \in Nat /\ MaxAttempts \in Nat

VARIABLES
  run,    \* workflow_runs
  log,    \* the version of a run, the sequence and kind of its last event
  phase,  \* workflow_phases
  agent   \* workflow_logical_agents, each with its workflow_attempts

vars == <<run, log, phase, agent>>

-----------------------------------------------------------------------------
(* Statuses and their transitions *)

RunStatus == {"created", "running", "interrupted", "completed", "failed",
              "canceled"}

TerminalRunStatus == {"completed", "failed", "canceled"}

PhaseState == {"pending", "ready", "running", "completed", "failed",
               "interrupted", "canceled", "skipped", "reused"}

AttemptStatus == {"starting", "running", "completed", "failed",
                  "interrupted", "canceled"}

RunTransitions ==
  [created     |-> {"running", "failed", "canceled"},
   running     |-> {"interrupted", "completed", "failed", "canceled"},
   interrupted |-> {"running", "failed", "canceled"},
   completed   |-> {},
   failed      |-> {},
   canceled    |-> {}]

PhaseTransitions ==
  [pending     |-> {"ready", "running", "skipped", "canceled"},
   ready       |-> {"ready", "running", "skipped", "canceled"},
   running     |-> {"completed", "failed", "interrupted", "canceled"},
   interrupted |-> {"running", "failed", "canceled"},
   failed      |-> {},
   completed   |-> {},
   canceled    |-> {},
   skipped     |-> {},
   reused      |-> {}]

AttemptTransitions ==
  [starting    |-> {"running", "failed", "interrupted", "canceled"},
   running     |-> {"completed", "failed", "interrupted", "canceled"},
   completed   |-> {},
   failed      |-> {},
   interrupted |-> {},
   canceled    |-> {}]

Done == {"completed", "reused"}            \* a phase whose output counts
Active == {"starting", "running"}          \* an attempt still under way
Unsettled == {"pending", "ready", "running", "interrupted"}

Coverage == {"unset", "inconclusive", "complete"}

\* Kinds of the last event; every phase, agent and activity event is "other".
EventKind == {"created", "started", "resumed", "cancel_requested",
              "interrupted", "completed", "failed", "canceled", "other"}

ASSUME NoneAssumption ==
  /\ None \notin Claim \cup Session \cup Input \cup Output \cup Target
  /\ None \notin Run \X Phase
  /\ None \notin RunStatus \cup PhaseState \cup AttemptStatus \cup Coverage

-----------------------------------------------------------------------------
(* Rows *)

RunRow ==
  [status     : RunStatus \cup {"absent"},
   controller : Claim \cup {None},
   frozen     : BOOLEAN,
   coverage   : Coverage,
   target     : Target \cup {None}]

LogRow ==
  [version : Nat, sequence : Nat, event : EventKind \cup {None}]

PhaseRow ==
  [state   : PhaseState \cup {"absent"},
   input   : Input \cup {None},
   output  : Output \cup {None},
   source  : (Run \X Phase) \cup {None},
   version : Nat]

AttemptRow == [status : AttemptStatus, session : Session \cup {None}]

AgentRow ==
  [home     : (Run \X Phase) \cup {None},
   status   : AttemptStatus \cup {"absent"},
   attempts : Seq(AttemptRow)]

NoRun == [status |-> "absent", controller |-> None, frozen |-> FALSE,
          coverage |-> "unset", target |-> None]

NoLog == [version |-> 0, sequence |-> 0, event |-> None]

NoPhase == [state |-> "absent", input |-> None, output |-> None,
            source |-> None, version |-> 0]

NewPhase(p) == [state |-> IF Deps[p] = {} THEN "ready" ELSE "pending",
                input |-> None, output |-> None, source |-> None,
                version |-> 1]

NoAgent == [home |-> None, status |-> "absent", attempts |-> <<>>]

TypeOK ==
  /\ run \in [Run -> RunRow]
  /\ log \in [Run -> LogRow]
  /\ phase \in [Run -> [Phase -> PhaseRow]]
  /\ agent \in [Agent -> AgentRow]

Init ==
  /\ run = [r \in Run |-> NoRun]
  /\ log = [r \in Run |-> NoLog]
  /\ phase = [r \in Run |-> [p \in Phase |-> NoPhase]]
  /\ agent = [a \in Agent |-> NoAgent]

-----------------------------------------------------------------------------
(* Helpers of the operations *)

\* BOUND: a run whose version has reached MaxVersion admits no more changes.
HasRoom(r) == log[r].version < MaxVersion

\* append_event: the event inserted by the transaction has the sequence
\* MAX(sequence) + 1; every transaction but the creation raises the version.
AppendEvent(r, version, kind) ==
  log' = [log EXCEPT ![r] = [version  |-> version,
                             sequence |-> @.sequence + 1,
                             event    |-> kind]]

Commit(r, kind) == AppendEvent(r, log[r].version + 1, kind)

\* MUTANT: the frozen flag is not consulted.
RequireOwnedRunWhileFrozen(r, version, claim, cancellationFinalization) ==
  /\ log[r].version = version
  /\ run[r].controller = claim
  /\ run[r].status = "running"

RequireOwnedRun(r, version, claim, cancellationFinalization) ==
  /\ log[r].version = version
  /\ run[r].controller = claim
  /\ run[r].status = "running"
  /\ run[r].frozen => cancellationFinalization

\* MUTANT: the conclusion is believed without reading the phases.
OutcomeAllowedUnread(phases, next, coverage) ==
  next = "completed" => coverage = "complete"

\* validate_run_outcome: what a run needs to be completed, and the coverage
\* a run that is not completed keeps.
OutcomeAllowed(phases, next, coverage) ==
  next = "completed" =>
    /\ \A p \in Phase : phases[p].state \in Done
    /\ \E p \in Phase : /\ PhaseType[p] = Publication
                        /\ phases[p].state \in Done
    /\ coverage = "complete"

OutcomeCoverage(next, coverage) ==
  IF next # "completed" /\ coverage = "complete" THEN "inconclusive"
                                                 ELSE coverage

Released(status) == status \in TerminalRunStatus \cup {"interrupted"}

DependenciesDone(r, p) == \A d \in Deps[p] : phase[r][d].state \in Done

UpdatePhaseAllowed(r, change) ==
  /\ ~run[r].frozen
  /\ phase[r][change.id].version = change.version
  /\ change.state \in PhaseTransitions[phase[r][change.id].state]
  /\ change.state = "running" => DependenciesDone(r, change.id)
  /\ change.state \in Done => change.output # None

UpdatePhase(r, change) ==
  LET row == phase[r][change.id]
  IN [phase[r] EXCEPT ![change.id] =
        [state   |-> change.state,
         input   |-> IF change.input = None THEN row.input ELSE change.input,
         output  |-> change.output,
         source  |-> row.source,
         version |-> row.version + 1]]

SettleCanceledPhases(r) ==
  [p \in Phase |->
     IF phase[r][p].state \in Unsettled
     THEN [phase[r][p] EXCEPT !.state = "canceled",
                              !.version = phase[r][p].version + 1]
     ELSE phase[r][p]]

BelongsTo(a, r) == \E p \in Phase : agent[a].home = <<r, p>>

SettleRunningAttempt(t) ==                    \* MUTANT: forgets "starting"
  IF t.status = "running" THEN [t EXCEPT !.status = "canceled"] ELSE t

SettleAttempt(t) ==
  IF t.status \in Active THEN [t EXCEPT !.status = "canceled"] ELSE t

SettleCanceledAgents(r) ==
  [a \in Agent |->
     IF BelongsTo(a, r)
     THEN [agent[a] EXCEPT
             !.attempts = [k \in 1..Len(agent[a].attempts) |->
                             SettleAttempt(agent[a].attempts[k])],
             !.status = IF agent[a].status = "running"
                        THEN "canceled" ELSE agent[a].status]
     ELSE agent[a]]

-----------------------------------------------------------------------------
(* Operations *)

\* create_run: the run, its phases and run.created in one transaction.
CreateRun(r, t) ==
  /\ run[r].status = "absent"
  /\ HasRoom(r)
  /\ run' = [run EXCEPT ![r] =
       [NoRun EXCEPT !.status = "created", !.target = t]]
  /\ AppendEvent(r, 1, "created")
  /\ phase' = [phase EXCEPT ![r] = [p \in Phase |-> NewPhase(p)]]
  /\ UNCHANGED agent

\* cancel_run: freezes admission and asks the owner to cancel.  Anyone may
\* call it.  A canceled run, or one already frozen, is returned unchanged
\* (no step); a run that is not running is refused.
CancelRun(r) ==
  /\ run[r].status = "running"
  /\ ~run[r].frozen
  /\ HasRoom(r)
  /\ run' = [run EXCEPT ![r] =
       [run[r] EXCEPT !.coverage = "inconclusive", !.frozen = TRUE]]
  /\ Commit(r, "cancel_requested")
  /\ UNCHANGED <<phase, agent>>

\* claim_run: starts a created run or resumes an interrupted one.
ClaimRun(r, version, claim) ==
  /\ log[r].version = version
  /\ run[r].status \in {"created", "interrupted"}
  /\ run[r].controller = None
  /\ HasRoom(r)
  /\ run' = [run EXCEPT ![r] =
       [run[r] EXCEPT !.status = "running",
                      !.controller = claim,
                      !.coverage = OutcomeCoverage("running",
                                                   run[r].coverage)]]
  /\ Commit(r, IF run[r].status = "created" THEN "started" ELSE "resumed")
  /\ UNCHANGED <<phase, agent>>

PhasesAfter(r, change) ==
  IF run[r].frozen THEN SettleCanceledPhases(r)
  ELSE IF change = None THEN phase[r]
  ELSE UpdatePhase(r, change)

StatusAfter(r, next) == IF next = None THEN run[r].status ELSE next

ProgressAfter(r, coverage) ==
  IF coverage = None THEN run[r].coverage ELSE coverage

\* What transition checks before it commits.
TransitionAllowed(r, version, claim, change, next, coverage) ==
  /\ RequireOwnedRun(r, version, claim, next = "canceled" /\ change = None)
  /\ change # None => UpdatePhaseAllowed(r, change)
  /\ coverage = "complete" => next = "completed"
  /\ next # None => next \in RunTransitions[run[r].status]
  /\ OutcomeAllowed(PhasesAfter(r, change), StatusAfter(r, next),
                    ProgressAfter(r, coverage))

\* transition: an optional phase change, an optional status and an optional
\* coverage conclusion (None: not given).  A frozen run admits only the
\* finalization of its cancellation, which first settles every row.
Transition(r, version, claim, change, next, coverage) ==
  LET status == StatusAfter(r, next)
  IN /\ TransitionAllowed(r, version, claim, change, next, coverage)
     /\ HasRoom(r)
     /\ run' = [run EXCEPT ![r] =
          [run[r] EXCEPT
             !.status = status,
             !.controller = IF Released(status) THEN None ELSE run[r].controller,
             !.frozen = run[r].frozen \/ next = "canceled",
             !.coverage = OutcomeCoverage(status, ProgressAfter(r, coverage))]]
     /\ Commit(r, IF next = None THEN "other" ELSE next)
     /\ phase' = [phase EXCEPT ![r] = PhasesAfter(r, change)]
     /\ agent' = IF run[r].frozen THEN SettleCanceledAgents(r) ELSE agent

\* record_event: an event of the owner that changes no other row.
RecordEvent(r, version, claim) ==
  /\ RequireOwnedRun(r, version, claim, FALSE)
  /\ HasRoom(r)
  /\ Commit(r, "other")
  /\ UNCHANGED <<run, phase, agent>>

StartAttemptAllowed(r, version, claim, p, a, ordinal) ==
  /\ RequireOwnedRun(r, version, claim, FALSE)
  /\ phase[r][p].state \in {"ready", "running"}
  /\ ordinal = Len(agent[a].attempts) + 1
  /\ \/ agent[a].home = None
     \/ /\ agent[a].home = <<r, p>>
        /\ \A k \in DOMAIN agent[a].attempts :
             agent[a].attempts[k].status \notin Active

\* start_attempt: ordinal is the caller's, and must follow the last attempt.
StartAttempt(r, version, claim, p, a, ordinal) ==
  /\ StartAttemptAllowed(r, version, claim, p, a, ordinal)
  /\ HasRoom(r)
  /\ ordinal <= MaxAttempts                                    \* BOUND
  /\ agent' = [agent EXCEPT ![a] =
       [home     |-> <<r, p>>,
        status   |-> "running",
        attempts |-> Append(agent[a].attempts,
                            [status |-> "starting", session |-> None])]]
  /\ Commit(r, "other")
  /\ UNCHANGED <<run, phase>>

UpdateAttemptAllowed(r, version, claim, a, k, next, session) ==
  LET t == agent[a].attempts[k]
  IN /\ RequireOwnedRun(r, version, claim, FALSE)
     /\ BelongsTo(a, r)
     /\ k \in DOMAIN agent[a].attempts
     /\ session # None /\ t.session # None => session = t.session
     /\ next \in AttemptTransitions[t.status]

\* update_attempt of attempt k of agent a; session None is not given.
UpdateAttempt(r, version, claim, a, k, next, session) ==
  LET t == agent[a].attempts[k]
  IN /\ UpdateAttemptAllowed(r, version, claim, a, k, next, session)
     /\ HasRoom(r)
     /\ agent' = [agent EXCEPT ![a] =
          [agent[a] EXCEPT
             !.attempts = [agent[a].attempts EXCEPT ![k] =
                [status  |-> next,
                 session |-> IF session = None THEN t.session ELSE session]],
             !.status = IF next = "running" THEN agent[a].status ELSE next]]
     /\ Commit(r, "other")
     /\ UNCHANGED <<run, phase>>

\* What entitles a phase to the output of another.
SameWorkForAnyTarget(r, p, source, sourcePhase) ==             \* MUTANT
  /\ PhaseType[p] = PhaseType[sourcePhase]
  /\ phase[r][p].input # None
  /\ phase[r][p].input = phase[source][sourcePhase].input

SameWork(r, p, source, sourcePhase) ==
  /\ PhaseType[p] = PhaseType[sourcePhase]
  /\ phase[r][p].input # None
  /\ phase[r][p].input = phase[source][sourcePhase].input
  /\ run[r].target = run[source].target

\* reuse_output: copies the output of a done phase, of this run or another.
ReuseOutput(r, version, claim, p, source, sourcePhase, digest) ==
  LET from == phase[source][sourcePhase]
  IN /\ RequireOwnedRun(r, version, claim, FALSE)
     /\ HasRoom(r)
     /\ run[source].status # "absent"
     /\ from.state \in Done
     /\ from.output = digest
     /\ SameWork(r, p, source, sourcePhase)
     /\ phase[r][p].state \in {"pending", "ready"}
     /\ phase' = [phase EXCEPT ![r] = [phase[r] EXCEPT ![p] =
          [phase[r][p] EXCEPT !.state = "reused",
                              !.output = digest,
                              !.source = <<source, sourcePhase>>,
                              !.version = phase[r][p].version + 1]]]
     /\ Commit(r, "other")
     /\ UNCHANGED <<run, agent>>

-----------------------------------------------------------------------------
(* The calls the clients make *)

\* The phase changes of src/runtime/lifecycle.ts: a phase is started or
\* rebound with an input digest, completed with an output, and settled
\* otherwise with neither.
PhaseChange ==
  [id : Phase, version : 1..MaxVersion, state : {"running", "ready"},
   input : Input, output : {None}]
  \cup
  [id : Phase, version : 1..MaxVersion, state : {"completed"},
   input : {None}, output : Output]
  \cup
  [id : Phase, version : 1..MaxVersion,
   state : {"failed", "interrupted", "canceled", "skipped"},
   input : {None}, output : {None}]

\* A phase change that is not given is no phase change.
ASSUME ChangeAssumption == None \notin PhaseChange

PhaseTransition(r, version, claim) ==
  \E change \in PhaseChange :
    Transition(r, version, claim, change, None, None)

\* A status is sent with a coverage conclusion that is complete exactly for
\* a completed run, and "canceled" only after the caller has read that the
\* run is frozen, which it then stays.
StatusTransition(r, version, claim) ==
  \E next \in {"interrupted", "completed", "failed", "canceled"} :
    /\ next = "canceled" => run[r].frozen
    /\ Transition(r, version, claim, None, next,
         IF next = "completed" THEN "complete" ELSE "inconclusive")

AttemptStart(r, version, claim) ==
  \E p \in Phase, a \in Agent, ordinal \in 1..MaxAttempts :
    StartAttempt(r, version, claim, p, a, ordinal)

AttemptUpdate(r, version, claim) ==
  \E a \in Agent, next \in AttemptStatus, session \in Session \cup {None} :
    \E k \in DOMAIN agent[a].attempts :
      UpdateAttempt(r, version, claim, a, k, next, session)

OutputReuse(r, version, claim) ==
  \E p, sourcePhase \in Phase, source \in Run, digest \in Output :
    ReuseOutput(r, version, claim, p, source, sourcePhase, digest)

\* Every operation repeats this guard; stating it here first lets TLC skip
\* the calls that are refused for their version or their claim.
OwnerOperation(r, version, claim) ==
  /\ RequireOwnedRun(r, version, claim, TRUE)
  /\ \/ PhaseTransition(r, version, claim)
     \/ StatusTransition(r, version, claim)
     \/ RecordEvent(r, version, claim)
     \/ AttemptStart(r, version, claim)
     \/ AttemptUpdate(r, version, claim)
     \/ OutputReuse(r, version, claim)

Next ==
  \E r \in Run :
    \/ \E t \in Target : CreateRun(r, t)
    \/ CancelRun(r)
    \/ \E version \in 1..MaxVersion, claim \in Claim :
         \/ ClaimRun(r, version, claim)
         \/ OwnerOperation(r, version, claim)

Spec == Init /\ [][Next]_vars

-----------------------------------------------------------------------------
(* Properties *)

\* A completed run is one whose every phase is done with an output, whose
\* publication phase is among them, and whose coverage is complete; complete
\* coverage is claimed by no other run (validate_run_outcome, :917-951, over
\* every later operation on the same rows).
CompletedRunIsWhole ==
  \A r \in Run :
    /\ run[r].status = "completed" =>
         /\ \A p \in Phase : /\ phase[r][p].state \in Done
                             /\ phase[r][p].output # None
         /\ \E p \in Phase : PhaseType[p] = Publication
         /\ ~run[r].frozen
    /\ run[r].coverage = "complete" <=> run[r].status = "completed"

\* A canceled run keeps nothing under way: no phase that could still change,
\* no attempt and no logical agent that still counts as active (cancel_run
\* and settle_canceled_rows, :171-258).
CanceledRunIsSettled ==
  \A r \in Run :
    run[r].status = "canceled" =>
      /\ run[r].frozen
      /\ \A p \in Phase : phase[r][p].state \notin Unsettled
      /\ \A a \in Agent : BelongsTo(a, r) =>
           /\ agent[a].status # "running"
           /\ \A k \in DOMAIN agent[a].attempts :
                agent[a].attempts[k].status \notin Active

\* A run has a controller exactly while it is running, whoever claims,
\* interrupts, cancels or finishes it (claim_run :261, transition :369-375).
ControllerWhileRunning ==
  \A r \in Run : run[r].controller # None <=> run[r].status = "running"

\* The output of a phase was computed from dependencies that are done: what
\* has ever run rests on done dependencies, although ready and reused are
\* entered without the check of update_phase (:878-885).
RanAfterDependencies ==
  \A r \in Run, p \in Phase :
    phase[r][p].state \in {"running", "interrupted", "failed", "completed"}
      => \A d \in Deps[p] : phase[r][d].state \in Done

\* A phase has an output exactly when it is done (update_phase :886-911
\* overwrites output_json on every change).
OutputWhenDone ==
  \A r \in Run, p \in Phase :
    phase[r][p].output # None <=> phase[r][p].state \in Done

\* Every reused output goes back to a phase that really computed it, of the
\* same type, from the same input and for the same target, however many
\* reuses lie between (reuse_output :681).
ReuseIsGrounded ==
  \A r \in Run, p \in Phase :
    phase[r][p].state = "reused" =>
      \E s \in Run, q \in Phase :
        /\ phase[s][q].state = "completed"
        /\ phase[s][q].output = phase[r][p].output
        /\ phase[s][q].input = phase[r][p].input
        /\ PhaseType[q] = PhaseType[p]
        /\ run[s].target = run[r].target

\* The event log tells how a run stands: it has one event per version, and
\* its last event is the request while a cancellation is pending and the
\* outcome once the run is over (append_event :954).
LogTellsOutcome ==
  \A r \in Run :
    /\ log[r].sequence = log[r].version
    /\ run[r].status = "running" /\ run[r].frozen =>
         log[r].event = "cancel_requested"
    /\ run[r].status \in TerminalRunStatus => log[r].event = run[r].status

\* A terminal run is immutable: neither it nor its phases, attempts or events
\* change again (RUN_TRANSITIONS :15-22, require_owned_run :1046).
TerminalRunIsImmutable ==
  [][\A r \in Run :
       run[r].status \in TerminalRunStatus =>
         /\ <<run[r], log[r], phase[r]>>' = <<run[r], log[r], phase[r]>>
         /\ \A a \in Agent : BelongsTo(a, r) => agent'[a] = agent[a]]_vars

\* Once its cancellation is requested a run admits no output and no attempt:
\* the next change of the run or of anything in it is its cancellation
\* (cancel_run :171, require_owned_run :1048).
FrozenRunOnlyCancels ==
  [][\A r \in Run :
       run[r].frozen /\ log'[r] # log[r] =>
         /\ run[r].status = "running" /\ run'[r].status = "canceled"
         /\ \A p \in Phase : phase'[r][p].output = phase[r][p].output]_vars

\* The history of a logical agent only grows: an agent stays in its phase,
\* and a settled attempt and a bound session never change
\* (update_attempt :583-596).
AttemptHistoryOnlyGrows ==
  [][\A a \in Agent :
       agent[a].home # None =>
         /\ agent'[a].home = agent[a].home
         /\ Len(agent'[a].attempts) >= Len(agent[a].attempts)
         /\ \A k \in DOMAIN agent[a].attempts :
              LET t == agent[a].attempts[k]
                  u == agent'[a].attempts[k]
              IN /\ t.status \notin Active => u = t
                 /\ t.session # None => u.session = t.session]_vars

=============================================================================
