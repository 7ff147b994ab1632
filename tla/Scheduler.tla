------------------------------ MODULE Scheduler ------------------------------
(***************************************************************************)
(* scheduleWorkflow of src/workflow/scheduler.ts: one asynchronous loop    *)
(* that dispatches ready phases to their executors, at most MaxParallel at *)
(* a time, and settles them one by one.                                    *)
(*                                                                         *)
(* An action is the code between two awaits.  control tells which await    *)
(* the loop is at; the callbacks onPhaseStarted and onPhaseSettled may     *)
(* return or throw, executors settle in any order, and the signal of the   *)
(* caller may be aborted at any moment.                                    *)
(***************************************************************************)
EXTENDS Naturals, Sequences, FiniteSets

CONSTANTS
  Phase,        \* phase identifiers
  Deps,         \* Deps[p]: the dependencies of p
  Order,        \* the topological order of validateWorkflow
  MaxParallel,  \* executions under way at a time
  None          \* no phase

ASSUME OrderAssumption ==
  /\ Deps \in [Phase -> SUBSET Phase]
  /\ Order \in Seq(Phase)
  /\ \A p \in Phase : \E k \in DOMAIN Order : Order[k] = p
  /\ \A j, k \in DOMAIN Order : Order[j] \in Deps[Order[k]] => j < k

ASSUME ParallelAssumption == MaxParallel \in Nat \ {0}

ASSUME NoPhaseAssumption == None \notin Phase

VARIABLES
  state,      \* states
  active,     \* the keys of running: executions not yet settled
  execution,  \* the promise of each execution
  control,    \* where the loop awaits
  at,         \* the phase whose callback is awaited
  verdict,    \* what the awaited callback is told; at the end, the status
  aborted     \* options.signal.aborted

schedule == <<state, active, execution, control, at, verdict, aborted>>

State == {"pending", "ready", "running", "completed", "failed", "canceled",
          "skipped"}

\* An execution yields an admissible result, an inadmissible one, or throws.
Result == {"good", "bad", "error"}

Control == {"idle", "starting", "retracting", "racing", "settling",
            "draining", "returned", "threw", "stalled"}

TypeOK ==
  /\ state \in [Phase -> State]
  /\ active \subseteq Phase
  /\ execution \in [Phase -> Result \cup {"none", "busy"}]
  /\ control \in Control
  /\ at \in Phase \cup {None}
  /\ verdict \in {"none", "completed", "failed", "canceled"}
  /\ aborted \in BOOLEAN

Idle ==
  /\ state = [p \in Phase |-> "pending"]
  /\ active = {}
  /\ execution = [p \in Phase |-> "none"]
  /\ control = "idle"
  /\ at = None
  /\ verdict = "none"
  /\ aborted = FALSE

-----------------------------------------------------------------------------
(* The synchronous parts of the loop *)

\* A dependency in one of these states will never be completed.
BlockingUnlessSkipped == {"failed", "canceled"}                \* MUTANT

Blocking == {"failed", "skipped", "canceled"}

BlockedByAny(st, p) == \E d \in Phase : st[d] \in Blocking     \* MUTANT

Blocked(st, p) == \E d \in Deps[p] : st[d] \in Blocking

Satisfied(st, p) == \A d \in Deps[p] : st[d] = "completed"

Update(st, p) ==
  IF st[p] # "pending" THEN st
  ELSE IF Blocked(st, p) THEN [st EXCEPT ![p] = "skipped"]
  ELSE IF Satisfied(st, p) THEN [st EXCEPT ![p] = "ready"]
  ELSE st

\* updateReadyAndSkipped: one pass in topological order, so that skipping
\* reaches every phase behind a failure.
Refresh(st) ==
  LET pass[k \in 0..Len(Order)] ==
        IF k = 0 THEN st ELSE Update(pass[k - 1], Order[k])
  IN [p \in Phase |-> pass[Len(Order)][p]]

CancelWaiting(st) ==
  [p \in Phase |-> IF st[p] \in {"pending", "ready"} THEN "canceled" ELSE st[p]]

Unfinished(st) == {p \in Phase : st[p] \in {"pending", "ready", "running"}}

Ready(st) == {p \in Phase : st[p] = "ready"}

FirstReady(st) ==
  CHOOSE p \in Ready(st) :
    \E k \in DOMAIN Order :
      /\ Order[k] = p
      /\ \A j \in 1..(k - 1) : Order[j] \notin Ready(st)

Status(st) ==
  IF aborted THEN "canceled"
  ELSE IF \E p \in Phase : st[p] = "failed" THEN "failed" ELSE "completed"

CanDispatch(st, started) ==
  /\ ~aborted
  /\ Cardinality(started) < MaxParallel
  /\ Ready(st) # {}

\* The for loop takes the next ready phase and awaits onPhaseStarted.
Dispatch(st, started) ==
  /\ CanDispatch(st, started)
  /\ at' = FirstReady(st)
  /\ state' = [st EXCEPT ![FirstReady(st)] = "running"]
  /\ control' = "starting"
  /\ UNCHANGED verdict

\* Nothing more to start: await Promise.race.
Race(st, started) ==
  /\ ~CanDispatch(st, started)
  /\ started # {}
  /\ state' = st
  /\ control' = "racing"
  /\ at' = None
  /\ UNCHANGED verdict

\* Nothing is running: the loop ends, or it finds itself stalled.
Return(st, started) ==
  /\ ~CanDispatch(st, started)
  /\ started = {}
  /\ state' = IF aborted THEN CancelWaiting(st) ELSE st
  /\ verdict' = Status(st)
  /\ control' = IF aborted \/ Unfinished(st) = {} THEN "returned" ELSE "stalled"
  /\ at' = None

\* From anywhere in the for loop to the next await.
Proceed(st, started) ==
  /\ active' = started
  /\ \/ Dispatch(st, started)
     \/ Race(st, started)
     \/ Return(st, started)

\* From the head of the outer loop to the next await.
Continue(st, started) ==
  Proceed(IF aborted THEN CancelWaiting(st) ELSE Refresh(st), started)

-----------------------------------------------------------------------------
(* Actions *)

\* The call, with the phases the caller already has outputs of.
Begin(completed) ==
  /\ control = "idle"
  /\ Continue([p \in Phase |-> IF p \in completed THEN "completed" ELSE "pending"],
              {})
  /\ UNCHANGED <<execution, aborted>>

\* onPhaseStarted returns.
Started ==
  /\ control = "starting"
  /\ IF aborted
     THEN /\ control' = "retracting"
          /\ verdict' = "canceled"
          /\ UNCHANGED <<state, active, execution, at>>
     ELSE /\ execution' = [execution EXCEPT ![at] = "busy"]
          /\ Proceed(state, active \cup {at})
  /\ UNCHANGED aborted

\* onPhaseSettled returns for a phase canceled before its execution.
Retracted ==
  /\ control = "retracting"
  /\ Proceed([state EXCEPT ![at] = "canceled"], active)
  /\ UNCHANGED <<execution, aborted>>

\* An executor returns or throws.
Execute(p, result) ==
  /\ execution[p] = "busy"
  /\ execution' = [execution EXCEPT ![p] = result]
  /\ UNCHANGED <<state, active, control, at, verdict, aborted>>

\* Promise.race yields p, one of the executions that have settled.
Take(p) ==
  /\ control = "racing"
  /\ p \in active
  /\ execution[p] \in Result
  /\ active' = active \ {p}
  /\ at' = p
  /\ verdict' = IF aborted THEN "canceled"
                ELSE IF execution[p] = "good" THEN "completed" ELSE "failed"
  /\ state' = IF ~aborted /\ execution[p] = "bad"
              THEN [state EXCEPT ![p] = "failed"] ELSE state
  /\ control' = "settling"
  /\ UNCHANGED <<execution, aborted>>

\* onPhaseSettled returns.
Settled ==
  /\ control = "settling"
  /\ Continue([state EXCEPT ![at] = verdict], active)
  /\ UNCHANGED <<execution, aborted>>

\* A callback throws: the loop aborts its executions and awaits them all.
CallbackThrows ==
  /\ control \in {"starting", "retracting", "settling"}
  /\ control' = "draining"
  /\ at' = None
  /\ UNCHANGED <<state, active, execution, verdict, aborted>>

ThrowAtOnce ==                      \* MUTANT: the executions are left alone
  /\ control = "draining"
  /\ control' = "threw"
  /\ UNCHANGED <<state, active, execution, at, verdict, aborted>>

Throw ==
  /\ control = "draining"
  /\ \A p \in active : execution[p] \in Result
  /\ control' = "threw"
  /\ UNCHANGED <<state, active, execution, at, verdict, aborted>>

\* The caller aborts its signal.
Abort ==
  /\ ~aborted
  /\ aborted' = TRUE
  /\ UNCHANGED <<state, active, execution, control, at, verdict>>

\* What the caller has outputs of: phases completed after their dependencies
\* (update_phase) or reused with them (lifecycle.ts:341).
Prefix == {s \in SUBSET Phase : \A p \in s : Deps[p] \subseteq s}

Callback == Started \/ Retracted \/ Settled \/ CallbackThrows

Next ==
  \/ \E completed \in Prefix : Begin(completed)
  \/ Callback
  \/ \E p \in Phase : Take(p)
  \/ \E p \in Phase, result \in Result : Execute(p, result)
  \/ Throw
  \/ Abort

\* Callbacks are calls that end, executors settle, and the event loop runs
\* what is due; nobody has to abort.
Fairness ==
  /\ WF_schedule(\E completed \in Prefix : Begin(completed))
  /\ WF_schedule(Callback)
  /\ WF_schedule(\E p \in Phase : Take(p))
  /\ WF_schedule(Throw)
  /\ \A p \in Phase : WF_schedule(\E result \in Result : Execute(p, result))

Spec == Idle /\ [][Next]_schedule /\ Fairness

-----------------------------------------------------------------------------
(* Properties *)

\* Failure is contained: after an unaborted schedule exactly the phases
\* behind a failure are skipped and every other one was run to its end
\* (updateReadyAndSkipped, scheduler.ts:254-269).
FailureIsContained ==
  control = "returned" /\ verdict = "failed" =>
    \A p \in Phase :
      state[p] = "skipped" <=> \E d \in Deps[p] : state[d] \in {"failed", "skipped"}

\* When the call is over, by return or by throw, none of its executors is
\* still at work (scheduler.ts:240-244).
NothingLeftRunning ==
  control \in {"returned", "threw"} =>
    \A p \in Phase : execution[p] # "busy"

\* Once the signal is aborted no further executor is started, wherever the
\* loop was when it happened (scheduler.ts:130, 141, 150).
AbortStopsDispatch ==
  [][aborted => \A p \in Phase : execution'[p] = "busy" => execution[p] = "busy"]_schedule

\* The call ends: with callbacks and executors that end, it returns or throws
\* what one of them threw, and never finds itself with nothing running and
\* something unfinished (scheduler.ts:129-239, the error of :181).
Ends == <>(control \in {"returned", "threw"})

=============================================================================
