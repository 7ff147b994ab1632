---------------------------- MODULE RunLifecycle ----------------------------
(***************************************************************************)
(* One foreground process executing one run: CanonicalRunLifecycle of      *)
(* src/runtime/lifecycle.ts over the tables of RuntimeState, with the      *)
(* scheduler of Scheduler inside it, the signal handlers of                *)
(* src/runtime/default-gateway.ts, cancel requests of other processes,     *)
(* crashes and resumption.                                                 *)
(*                                                                         *)
(* exe.pc tells what the main task awaits: a call of the helper process    *)
(* that holds the tables, the scheduler, or the abortion of its sessions.  *)
(* A read and the code after it are one step; a write commits in a step of *)
(* its own, and is refused when anything has changed since the read.       *)
(***************************************************************************)
EXTENDS RuntimeState

CONSTANTS
  TheRun,        \* the run that is executed
  Order,         \* the order of its phases
  MaxParallel,   \* execution.maxParallel
  MaxMishaps,    \* bound: calls of the helper that fail or lose their answer, and
                 \* activity events recorded by sessions, together
  AbortFailure   \* whether stopping the sessions may fail

ASSUME LifecycleAssumption ==
  /\ TheRun \in Run /\ Claim # {}
  /\ Order \in Seq(Phase)
  /\ \A p \in Phase : \E k \in DOMAIN Order : Order[k] = p
  /\ MaxMishaps \in Nat
  /\ AbortFailure \in BOOLEAN

\* What the order and the options of scheduleWorkflow are validated to be; a
\* phase has inputs to start from and an output to complete with.
ASSUME ScheduleAssumption ==
  /\ \A j, k \in DOMAIN Order : Order[j] \in Deps[Order[k]] => j < k
  /\ MaxParallel \in Nat \ {0}
  /\ None \notin Phase
  /\ Input # {} /\ Output # {}

VARIABLES
  exe,       \* the main task and the ActiveExecution of the run
  aborting,  \* abortAttempts: "none", "busy", "done" or "failed"
  stop,      \* the stopping call of a signal handler
  losses,    \* helper calls lost so far
  activity,  \* activity events recorded so far
  state, active, execution, control, at, verdict, aborted  \* Scheduler

Sched == INSTANCE Scheduler

schedule == <<state, active, execution, control, at, verdict, aborted>>
store == vars

Over == {"settled", "rejected", "dead"}

Executing == {"normalize", "schedule", "joinCallback", "writeCallback",
              "joinCancel", "finalizeRead", "finalizeWrite", "join",
              "unsettled", "unsettledWrite", "rejoin", "last", "finish",
              "caught", "joinCanceled", "catchFail"}

-----------------------------------------------------------------------------
(* Helpers *)

NoExecution ==
  [pc |-> "absent", claim |-> None, claims |-> {}, seen |-> 0,
   writing |-> None, outcome |-> None, finalizing |-> FALSE,
   joined |-> FALSE, caught |-> FALSE, monitor |-> TRUE]

To(pc) == [exe EXCEPT !.pc = pc]

ToWrite(pc, what) ==
  [exe EXCEPT !.pc = pc, !.seen = log[TheRun].version, !.writing = what]

ToCancel(pc) == [exe EXCEPT !.pc = pc, !.outcome = "canceled"]

\* An exception of the main task: caught once; what fails in the handler
\* rejects the execution.
Failed ==
  IF exe.caught THEN To("rejected")
  ELSE [exe EXCEPT !.pc = "caught", !.caught = TRUE]

\* The main task awaits the sessions being stopped, and goes on to pc.
Awaits(pc) ==
  /\ aborting \in {"done", "failed"}
  /\ exe' = IF aborting = "done" THEN To(pc) ELSE Failed

At(pc) == exe.pc = pc /\ UNCHANGED <<stop, activity>>

KeepWork == UNCHANGED <<aborting, schedule>>

\* abortActiveAttempts, once, and abort.abort for the scheduler.
StopWork ==
  /\ aborting' = IF aborting = "none" THEN "busy" ELSE aborting
  /\ aborted' = TRUE
  /\ UNCHANGED <<state, active, execution, control, at, verdict>>

CancelPending == run[TheRun].status = "running" /\ run[TheRun].frozen

\* A call of the helper process that reads and is answered ...
Reads == UNCHANGED <<store, losses>>

\* ... or that fails before it has done anything.
Lose == losses + activity < MaxMishaps /\ losses' = losses + 1              \* BOUND

Unavailable == UNCHANGED store /\ Lose

Concludes(status) ==
  IF status = None THEN None
  ELSE IF status = "completed" THEN "complete" ELSE "inconclusive"

Commits(change, status) ==
  Transition(TheRun, exe.seen, exe.claim, change, status, Concludes(status))

\* A transition commits and is answered ...
Writes(change, status) == Commits(change, status) /\ UNCHANGED losses

\* ... or is refused, or fails, or commits and its answer is lost.
WriteFails(change, status) ==
  \/ /\ ~TransitionAllowed(TheRun, exe.seen, exe.claim, change, status,
                           Concludes(status))
     /\ Reads
  \/ Unavailable
  \/ (Commits(change, status) /\ Lose)

PhaseTo(p, to) ==
  {[id |-> p, version |-> phase[TheRun][p].version, state |-> to,
    input |-> i, output |-> o] :
     i \in IF to = "running" THEN Input ELSE {None},
     o \in IF to = "completed" THEN Output ELSE {None}}

FirstOf(phases) ==
  CHOOSE p \in phases :
    \E k \in DOMAIN Order :
      Order[k] = p /\ \A j \in 1..(k - 1) : Order[j] \notin phases

InState(states) == {p \in Phase : phase[TheRun][p].state \in states}

-----------------------------------------------------------------------------
(* Claiming *)

NewClaim == CHOOSE c \in Claim \ exe.claims : TRUE

\* createRun of createAndClaim.
Create ==
  /\ At("absent") /\ KeepWork /\ UNCHANGED losses
  /\ \E t \in Target : CreateRun(TheRun, t)
  /\ exe' = [exe EXCEPT !.pc = "claiming", !.claim = NewClaim,
                        !.claims = {NewClaim}, !.seen = 1]

\* resumeAndClaim by a new process reads an interrupted run.
Resume ==
  /\ exe.pc \in Over /\ Reads
  /\ run[TheRun].status = "interrupted"
  /\ Claim \ exe.claims # {}                                  \* BOUND
  /\ exe' = [NoExecution EXCEPT !.pc = "claiming", !.claim = NewClaim,
                                !.claims = exe.claims \cup {NewClaim},
                                !.seen = log[TheRun].version]
  /\ stop' = "none" /\ aborting' = "none"
  /\ state' = [p \in Phase |-> "pending"] /\ active' = {}
  /\ execution' = [p \in Phase |-> "none"]
  /\ control' = "idle" /\ at' = None /\ verdict' = "none" /\ aborted' = FALSE
  /\ UNCHANGED activity

\* claimRun, after which execute starts at once.
TakeOver ==
  /\ At("claiming") /\ KeepWork
  /\ \/ /\ ClaimRun(TheRun, exe.seen, exe.claim)
        /\ exe' = [exe EXCEPT !.pc = "normalize", !.seen = exe.seen + 1]
        /\ UNCHANGED losses
     \/ /\ ClaimRun(TheRun, exe.seen, exe.claim) /\ Lose
        /\ exe' = To("rejected")
     \/ Unavailable /\ exe' = To("rejected")

-----------------------------------------------------------------------------
(* executeClaimed *)

\* normalizeRunningPhases, then the call of scheduleWorkflow.
Normalize ==
  /\ At("normalize") /\ UNCHANGED aborting
  /\ \/ /\ InState({"running"}) # {}
        /\ \E change \in PhaseTo(FirstOf(InState({"running"})), "interrupted") :
             \/ /\ Writes(change, None)
                /\ exe' = [exe EXCEPT !.seen = exe.seen + 1]
             \/ WriteFails(change, None) /\ exe' = Failed
        /\ UNCHANGED schedule
     \/ /\ InState({"running"}) = {}
        /\ Sched!Begin(InState(Done))
        /\ exe' = To("schedule") /\ Reads

\* The state a callback of the scheduler records for its phase.
Persisted ==
  IF control = "starting" THEN "running"
  ELSE IF verdict = "canceled" /\ exe.outcome = "interrupted"
       THEN "interrupted" ELSE verdict

Awaited == {"starting", "retracting", "settling"}

\* onPhaseStarted and onPhaseSettled read the run ...
CallbackRead ==
  /\ At("schedule") /\ control \in Awaited
  /\ \/ /\ run[TheRun].frozen
        /\ StopWork /\ exe' = ToCancel("joinCallback") /\ Reads
     \/ /\ ~run[TheRun].frozen
        /\ exe' = ToWrite("writeCallback", Persisted) /\ KeepWork /\ Reads
     \/ /\ Unavailable
        /\ Sched!CallbackThrows /\ UNCHANGED <<exe, aborting>>

\* ... wait for the sessions of a canceled run ...
CallbackJoin ==
  /\ At("joinCallback") /\ UNCHANGED aborting /\ Reads
  /\ aborting \in {"done", "failed"}
  /\ exe' = To("schedule")
  /\ IF aborting = "failed" \/ control = "starting"
     THEN Sched!CallbackThrows
     ELSE Sched!Retracted \/ Sched!Settled

CallbackWriteUnchecked ==       \* MUTANT: a refused write does not matter
  /\ At("writeCallback") /\ UNCHANGED aborting
  /\ exe' = To("schedule")
  /\ \E change \in PhaseTo(at, exe.writing) :
       /\ Writes(change, None) \/ WriteFails(change, None)
       /\ Sched!Started \/ Sched!Retracted \/ Sched!Settled

\* ... or record the state of the phase.
CallbackWrite ==
  /\ At("writeCallback") /\ UNCHANGED aborting
  /\ exe' = To("schedule")
  /\ \E change \in PhaseTo(at, exe.writing) :
       \/ /\ Writes(change, None)
          /\ Sched!Started \/ Sched!Retracted \/ Sched!Settled
       \/ WriteFails(change, None) /\ Sched!CallbackThrows

\* The scheduler took part in an abort, or decided the run.
Scheduled == control = "returned" \/ (control = "threw" /\ aborted)

\* persistUnsettledStates reads the outcome when it is called.
AfterJoin == IF exe.outcome = "interrupted" THEN "rejoin" ELSE "unsettled"

\* scheduleWorkflow is over and the run is read again.
Latest ==
  /\ At("schedule") /\ control \in {"returned", "threw"}
  /\ \/ /\ ~Scheduled
        /\ exe' = Failed /\ KeepWork /\ Reads
     \/ /\ Scheduled /\ CancelPending
        /\ StopWork /\ exe' = ToCancel("joinCancel") /\ Reads
     \/ /\ Scheduled /\ ~CancelPending
        /\ exe' = To(IF aborting # "none" THEN "join" ELSE AfterJoin)
        /\ KeepWork /\ Reads
     \/ Scheduled /\ Unavailable /\ exe' = Failed /\ KeepWork

JoinCancelAtOnce ==               \* MUTANT: the sessions are not waited for
  At("joinCancel") /\ KeepWork /\ Reads /\ exe' = To("finalizeRead")

\* The sessions have been stopped before the run is canceled ...
JoinCancel ==
  At("joinCancel") /\ KeepWork /\ Reads /\ Awaits("finalizeRead")

FinalizeRead ==
  /\ At("finalizeRead") /\ KeepWork
  /\ \/ /\ exe' = IF run[TheRun].status = "canceled" THEN To("settled")
                  ELSE ToWrite("finalizeWrite", "canceled")
        /\ Reads
     \/ Unavailable /\ exe' = Failed

\* ... or before any other outcome is recorded.
Join ==
  At("join") /\ KeepWork /\ Reads /\ Awaits(AfterJoin)

ResultState(p) == IF control = "threw" THEN "canceled" ELSE state[p]

Unrecorded ==
  {p \in InState(Unsettled) : ResultState(p) \in {"canceled", "skipped"}}

UnsettledRead ==
  /\ At("unsettled") /\ KeepWork
  /\ \/ exe' = ToWrite("unsettledWrite", None) /\ Reads
     \/ Unavailable /\ exe' = Failed

\* persistUnsettledStates records what the scheduler left undone.
UnsettledWrite ==
  /\ At("unsettledWrite") /\ KeepWork
  /\ \/ Unrecorded = {} /\ exe' = To("rejoin") /\ Reads
     \/ /\ Unrecorded # {}
        /\ LET p == FirstOf(Unrecorded)
           IN \E change \in PhaseTo(p, ResultState(p)) :
                \/ /\ Writes(change, None)
                   /\ exe' = [exe EXCEPT !.seen = exe.seen + 1]
                \/ WriteFails(change, None) /\ exe' = Failed

RejoinForgetful ==            \* MUTANT: what was joined is not remembered
  /\ At("rejoin") /\ KeepWork /\ Reads
  /\ \/ /\ aborting \in {"none", "done"}
        /\ exe' = [exe EXCEPT !.pc = "last", !.joined = FALSE]
     \/ aborting = "failed" /\ exe' = Failed

\* The last barrier: no session may be stopped after the run is read.
Rejoin ==
  /\ At("rejoin") /\ KeepWork /\ Reads
  /\ \/ /\ aborting \in {"none", "done"}
        /\ exe' = [exe EXCEPT !.pc = "last", !.joined = aborting # "none"]
     \/ aborting = "failed" /\ exe' = Failed

Complete ==
  /\ control = "returned" /\ verdict = "completed"
  /\ InState(Done) = Phase
  /\ \E p \in InState(Done) : PhaseType[p] = Publication

TerminalOutcomeOfResult ==             \* MUTANT: only the schedule counts
  IF Complete THEN "completed"
  ELSE IF control = "threw" THEN "canceled"
  ELSE IF verdict = "completed" THEN "failed" ELSE verdict

TerminalOutcome ==
  IF exe.outcome # None THEN exe.outcome
  ELSE IF Complete THEN "completed"
  ELSE IF control = "threw" THEN "canceled"
  ELSE IF verdict = "completed" THEN "failed" ELSE verdict

Last ==
  /\ At("last") /\ KeepWork
  /\ \/ /\ exe.joined = (aborting # "none")
        /\ exe' = [ToWrite("finish", TerminalOutcome) EXCEPT !.finalizing = TRUE]
        /\ Reads
     \/ /\ exe.joined # (aborting # "none")
        /\ exe' = To("rejoin") /\ Reads
     \/ Unavailable /\ exe' = Failed

FinishRegardless ==     \* MUTANT: settled whether the outcome is recorded
  /\ exe.pc \in {"finalizeWrite", "finish", "catchFail"}
  /\ At(exe.pc) /\ KeepWork
  /\ Writes(None, exe.writing) \/ WriteFails(None, exe.writing)
  /\ exe' = To("settled")

\* The outcome is recorded: by finalizeCancellation, by the last step of
\* executeClaimed, or by the handler of its exceptions.
Finish ==
  /\ exe.pc \in {"finalizeWrite", "finish", "catchFail"}
  /\ At(exe.pc) /\ KeepWork
  /\ \/ Writes(None, exe.writing) /\ exe' = To("settled")
     \/ WriteFails(None, exe.writing) /\ exe' = Failed

-----------------------------------------------------------------------------
(* The exception handler of executeActive *)

Caught ==
  /\ At("caught")
  /\ \/ /\ CancelPending
        /\ StopWork /\ exe' = ToCancel("joinCancel") /\ Reads
     \/ /\ run[TheRun].status = "canceled"
        /\ StopWork /\ exe' = ToCancel("joinCanceled") /\ Reads
     \/ /\ run[TheRun].status = "running" /\ ~run[TheRun].frozen
        /\ exe' = ToWrite("catchFail", "failed") /\ KeepWork /\ Reads
     \/ /\ run[TheRun].status \notin {"running", "canceled"}
        /\ exe' = Failed /\ KeepWork /\ Reads
     \/ Unavailable /\ exe' = Failed /\ KeepWork

JoinCanceled ==
  At("joinCanceled") /\ KeepWork /\ Reads /\ Awaits("settled")

-----------------------------------------------------------------------------
(* What runs beside the main task *)

MainTask ==
  \/ Create \/ TakeOver \/ Normalize
  \/ CallbackRead \/ CallbackJoin \/ CallbackWrite
  \/ Latest \/ JoinCancel \/ FinalizeRead \/ Join
  \/ UnsettledRead \/ UnsettledWrite \/ Rejoin \/ Last \/ Finish
  \/ Caught \/ JoinCanceled

Beside == exe.pc \in Executing /\ UNCHANGED activity

\* The steps of scheduleWorkflow between its callbacks, and its executors.
Executor(p) ==
  /\ Beside /\ Reads /\ UNCHANGED <<exe, aborting, stop>>
  /\ \E result \in Sched!Result : Sched!Execute(p, result)

Schedule ==
  /\ Beside /\ Reads /\ UNCHANGED <<exe, aborting, stop>>
  /\ (\E p \in Phase : Sched!Take(p)) \/ Sched!Throw

\* A session records activity: while its executor is at work, while it is
\* being stopped, or when a failed executor has left it bound.
RecordActivity ==
  /\ exe.pc \in Executing
  /\ losses + activity < MaxMishaps /\ activity' = activity + 1   \* BOUND
  /\ \/ aborting = "busy"
     \/ \E p \in Phase : execution[p] \in {"busy", "error"}
  /\ RecordEvent(TheRun, log[TheRun].version, exe.claim)
  /\ KeepWork /\ UNCHANGED <<exe, stop, losses>>

\* abortRun of the supervisor ends.
AbortEnds ==
  /\ aborting = "busy" /\ exe.pc # "dead"
  /\ aborting' \in {"done"} \cup (IF AbortFailure THEN {"failed"} ELSE {})
  /\ UNCHANGED <<exe, stop, schedule, activity>> /\ Reads

MonitorTheStatus ==    \* MUTANT: looks for the outcome, not for the request
  /\ Beside /\ exe.monitor /\ ~aborted /\ UNCHANGED stop
  /\ \/ /\ run[TheRun].status = "canceled"
        /\ StopWork /\ exe' = ToCancel(exe.pc) /\ Reads
     \/ Unavailable /\ exe' = [exe EXCEPT !.monitor = FALSE] /\ KeepWork

\* monitorDurableCancellation, until it fails once.
Monitor ==
  /\ Beside /\ exe.monitor /\ ~aborted /\ UNCHANGED stop
  /\ \/ CancelPending /\ StopWork /\ exe' = ToCancel(exe.pc) /\ Reads
     \/ Unavailable /\ exe' = [exe EXCEPT !.monitor = FALSE] /\ KeepWork

\* The first handled signal calls cancel (SIGINT) or interrupt.
Signal ==
  /\ Beside /\ stop = "none"
  /\ stop' \in {"interrupt",
                IF exe.finalizing \/ exe.outcome = "interrupted"
                THEN "ended" ELSE "cancel"}
  /\ KeepWork /\ Reads /\ UNCHANGED exe

CancelAtOnce ==       \* MUTANT: stops before the request is durable
  /\ stop = "cancel" /\ exe.pc \in Executing /\ UNCHANGED activity
  /\ stop' = "ended" /\ Reads
  /\ StopWork /\ exe' = ToCancel(exe.pc)

\* cancel: the request is durable before anything is stopped.
Cancel ==
  /\ stop = "cancel" /\ exe.pc # "dead" /\ UNCHANGED activity
  /\ stop' = "ended"
  /\ \/ /\ CancelRun(TheRun) \/ (CancelPending /\ UNCHANGED store)
        /\ UNCHANGED losses
        /\ IF exe.pc \in Executing THEN StopWork /\ exe' = ToCancel(exe.pc)
                                   ELSE KeepWork /\ UNCHANGED exe
     \/ run[TheRun].status # "running" /\ Reads /\ KeepWork /\ UNCHANGED exe
     \/ /\ CancelRun(TheRun) \/ UNCHANGED store
        /\ Lose /\ KeepWork /\ UNCHANGED exe

\* interrupt: refused once the outcome is being recorded.
Interrupt ==
  /\ stop = "interrupt" /\ exe.pc # "dead" /\ UNCHANGED activity
  /\ stop' = "ended"
  /\ \/ /\ exe.pc \in Executing /\ ~exe.finalizing
        /\ run[TheRun].status = "running"
        /\ run[TheRun].controller = exe.claim
        /\ exe' = IF exe.outcome = None
                  THEN [exe EXCEPT !.outcome = "interrupted"] ELSE exe
        /\ StopWork /\ Reads
     \/ /\ \/ exe.pc \notin Executing \/ exe.finalizing
           \/ run[TheRun].status # "running"
           \/ run[TheRun].controller # exe.claim
        /\ KeepWork /\ Reads /\ UNCHANGED exe
     \/ Unavailable /\ KeepWork /\ UNCHANGED exe

\* Another process cancels the run.
CancelElsewhere ==
  CancelRun(TheRun) /\ UNCHANGED <<exe, aborting, stop, losses, activity, schedule>>

\* The process dies with its executors and sessions.
Crash ==
  /\ exe.pc \in Executing \cup {"claiming"}
  /\ exe' = To("dead") /\ aborting' = "none"
  /\ active' = {} /\ execution' = [p \in Phase |-> "none"] /\ control' = "idle"
  /\ UNCHANGED <<stop, activity, state, at, verdict, aborted>> /\ Reads

-----------------------------------------------------------------------------
lifecycle == <<store, exe, aborting, stop, losses, activity, schedule>>

LifecycleInit ==
  /\ Init
  /\ exe = NoExecution
  /\ aborting = "none" /\ stop = "none"
  /\ losses = 0 /\ activity = 0
  /\ Sched!Idle

LifecycleNext ==
  \/ MainTask \/ Resume
  \/ \E p \in Phase : Executor(p)
  \/ Schedule \/ RecordActivity \/ AbortEnds \/ Monitor
  \/ Signal \/ Cancel \/ Interrupt \/ CancelElsewhere \/ Crash

\* The event loop runs what is due, the helper answers or fails, and sessions
\* stop or fail to.  A session may work for hours: only an aborted executor
\* must end.  The monitor polls again and again, so a poll of it is answered
\* unless one fails before.  Nobody has to signal, cancel or resume, and the
\* process may die.
LifecycleFairness ==
  /\ WF_lifecycle(MainTask)
  /\ WF_lifecycle(Schedule)
  /\ \A p \in Phase : WF_lifecycle(aborted /\ Executor(p))
  /\ WF_lifecycle(AbortEnds)
  /\ WF_lifecycle(Monitor /\ UNCHANGED losses)
  /\ WF_lifecycle(Cancel)
  /\ WF_lifecycle(Interrupt)

LifecycleSpec == LifecycleInit /\ [][LifecycleNext]_lifecycle /\ LifecycleFairness

-----------------------------------------------------------------------------
(* Properties *)

\* An executor is at work only for a phase that the tables say is running,
\* in a run this process controls: nothing works on behalf of a run that is
\* over or that another controller may claim (lifecycle.ts:501-629).
ExecutorsOwnTheirPhase ==
  \A p \in Phase :
    execution[p] = "busy" =>
      /\ run[TheRun].status = "running"
      /\ run[TheRun].controller = exe.claim
      /\ phase[TheRun][p].state = "running"

\* A settled execution left a run that is over or may be resumed, without a
\* controller and without an executor at work (executeActive,
\* lifecycle.ts:129-204).
SettledMeansRecorded ==
  exe.pc = "settled" =>
    /\ run[TheRun].status \in TerminalRunStatus \cup {"interrupted"}
    /\ run[TheRun].controller = None
    /\ \A p \in Phase : execution[p] # "busy"

\* A stop that was accepted is honored: the run does not complete after its
\* owner has been told to cancel or to interrupt it, whatever the executors
\* deliver meanwhile (lifecycle.ts:206-242, 609-616).
StopIsHonored ==
  [][run'[TheRun].status = "completed" /\ run[TheRun].status # "completed"
       => exe.outcome = None]_lifecycle

\* Canceled by the owner means stopped first: when the cancellation is
\* recorded every session has been stopped (lifecycle.ts:409-419, 603-606).
CanceledAfterBarrier ==
  [][run'[TheRun].status = "canceled" /\ run[TheRun].status = "running"
       => aborting = "done"]_lifecycle

\* The process is one of the general clients of RuntimeState: what is shown
\* of those holds of it.  In particular it never records a cancellation
\* nobody requested, which the store alone would accept (transition,
\* runtime_state.py:376, and the callers in lifecycle.ts).
CallsAreClientCalls == Spec

\* No executor works for ever.
ExecutorsEnd == \A p \in Phase : []<>(execution[p] # "busy")

\* Whatever is lost, refused or stopped: if its executors end, every execution
\* settles or is rejected (lifecycle.ts:160-204).
ExecutionEnds == ExecutorsEnd => (exe.pc \in Executing ~> exe.pc \in Over)

\* A cancellation that is requested while a process executes the run is
\* finished by that process, without waiting for executors to end by
\* themselves, unless the process dies, fails in doing so, or has lost a call
\* of the helper and with it perhaps its monitor
\* (monitorDurableCancellation, lifecycle.ts:421-442).
CancelIsFinished ==
  CancelPending /\ exe.pc \in Executing
    ~> \/ run[TheRun].status = "canceled"
       \/ exe.pc \in {"rejected", "dead"} \/ losses > 0


=============================================================================
