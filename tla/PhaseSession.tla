----------------------------- MODULE PhaseSession -----------------------------
(***************************************************************************)
(* The supervisor of the sessions of one run (src/rpc/phase-session.ts)    *)
(* with the executors that use it (modelRunner of default-gateway.ts): an  *)
(* executor launches an attempt of its agent in a child process, waits for *)
(* it and completes it; abortRun brings all of them down.  Writes go       *)
(* through one queue per run, each at a version that was read before it,   *)
(* while other processes commit.  The store is that of RuntimeState, seen  *)
(* as a version, a flag and the attempts; a client is that of JsonlRpc,    *)
(* whose stop always ends.  Controls, which nothing calls, are left out.   *)
(***************************************************************************)
EXTENDS Naturals, Sequences, SequencesExt

CONSTANTS
  Agents,            \* logical agents, one for each phase at work
  MaxAttempts,       \* maxAttempts of the role of each
  MaxDisturbances    \* bound: exits and events of children beyond the last, requests
                     \* to them and calls of the helper that fail, commits of others

ASSUME SessionAssumption ==
  /\ IsFiniteSet(Agents) /\ MaxAttempts \in [Agents -> Nat \ {0}]
  /\ MaxDisturbances \in Nat

VARIABLES
  stored,     \* the run: version, frozen, and the attempts of each agent
  known,      \* the version in #runStates, 0 before there is one
  queue,      \* the operations in the run's queue
  step,       \* how far its head has come, and the version it has read
  task,       \* the executor of each agent
  launch,     \* #launches: "none", "live" or "canceled"
  session,    \* #sessions
  binding,    \* what else the binding of each agent says
  process,    \* its child: "none", "alive" or "exited"
  settled,    \* agentSettled
  abort,      \* abortRun and what it found
  disturbed,  \* disturbances so far
  lost        \* whether a call of the helper has failed or lost its answer

supervisor == <<known, queue, step, launch, session, binding, abort>>
sessionVars == <<stored, supervisor, task, process, settled, disturbed, lost>>

-----------------------------------------------------------------------------
(* The store *)

Attempt(a) == IF stored.attempts[a] = <<>> THEN "none" ELSE Last(stored.attempts[a])
IsActive(a) == Attempt(a) \in {"starting", "running"}

Owned(version) == ~stored.frozen /\ stored.version = version

Committed == [stored EXCEPT !.version = stored.version + 1]
Moved(a, to) ==
  [Committed EXCEPT !.attempts[a] = Append(Front(stored.attempts[a]), to)]

May(a, to) ==
  CASE to = "running"   -> Attempt(a) = "starting"
    [] to = "completed" -> Attempt(a) = "running"
    [] OTHER            -> IsActive(a)

Disturbs == disturbed < MaxDisturbances /\ disturbed' = disturbed + 1   \* BOUND

\* A call that reads, with and without an answer.
Read == UNCHANGED <<stored, lost, disturbed>>
Loses == lost' = TRUE /\ Disturbs
Unread == Loses /\ UNCHANGED stored

\* A call that writes: it is done, or it fails since the store refuses it or
\* the helper does not answer, whether it has committed or not.
Call(allowed, after, done) ==
  \/ done /\ allowed /\ stored' = after /\ UNCHANGED <<lost, disturbed>>
  \/ ~done /\ ~allowed /\ Read
  \/ ~done /\ Loses /\ (UNCHANGED stored \/ (allowed /\ stored' = after))

UpdateAttempt(a, version, to, done) ==
  Call(Owned(version) /\ May(a, to), Moved(a, to), done)

-----------------------------------------------------------------------------
(* What the operations share *)

AbortCalled == abort.at # "no"

\* #advanceRunState: whoever asked for authority at an older version lost it.
Known(version) == IF version > known THEN version ELSE known
Outdated(rows, version) ==
  IF version > known
  THEN [a \in Agents |-> [rows[a] EXCEPT !.stale = @ \/ task[a].at = "admitting"]]
  ELSE rows
AdvanceWith(rows, version) ==
  known' = Known(version) /\ binding' = Outdated(rows, version)
Advance(version) == AdvanceWith(binding, version)

Gone == [accepts |-> FALSE, completing |-> FALSE, stale |-> FALSE]
Deaf(a) == [binding EXCEPT ![a] = Gone]

\* Who is at the head of the queue, unless an abort keeps it.  MUTANT
InTurnUnlessAborting(name, a, at) ==
  /\ queue # <<>> /\ Head(queue) = <<name, a>> /\ step.at = at
  /\ abort.at # "waiting"

\* queueRun: the operation at the head, and how far it is.
InTurn(name, a, at) ==
  queue # <<>> /\ Head(queue) = <<name, a>> /\ step.at = at

Enqueue(name, a) == queue' = Append(queue, <<name, a>>) /\ UNCHANGED step
Idle == [at |-> "first", saw |-> 0]
Pop == queue' = Tail(queue) /\ step' = Idle
NextStep(at, version) == step' = [at |-> at, saw |-> version] /\ UNCHANGED queue
ReadOn(at) == NextStep(at, stored.version)

Rest(at) == [at |-> at, saw |-> 0, error |-> "other"]   \* with nothing to remember
Goes(a, at) == task' = [task EXCEPT ![a].at = at]
Over(a) == task' = [task EXCEPT ![a] = Rest("over")]

\* The catch of launchSession: the binding goes, and the client is stopped.
Fails(a, error) ==
  /\ task' = [task EXCEPT ![a] = [at |-> "stopping", saw |-> 0, error |-> error]]
  /\ session' = [session EXCEPT ![a] = FALSE]

\* A request to the child fails: since it is down, or for a reason of its own.
MayFail(a, error) ==
  \/ error = "rpc" /\ process[a] = "exited" /\ UNCHANGED disturbed
  \/ Disturbs

FailsOf(a, error) == Fails(a, error) /\ MayFail(a, error)

\* Only what looks like the fault of the transport or the provider is tried
\* again.
Again(a) ==
  /\ task[a].error = "rpc" /\ ~AbortCalled
  /\ Len(stored.attempts[a]) < MaxAttempts[a]

-----------------------------------------------------------------------------
(* launch, from the executor's first read to the registered launch *)

Begin(a) ==
  /\ task[a].at \in {"idle", "again"}
  /\ IF AbortCalled \/ session[a]
     THEN Over(a) /\ UNCHANGED launch
     ELSE /\ task' = [task EXCEPT ![a] =
               [at |-> "start", saw |-> stored.version, error |-> "other"]]
          /\ launch' = [launch EXCEPT ![a] = "live"]
  /\ Read /\ UNCHANGED <<known, queue, step, session, binding, abort, process, settled>>

\* The launch has read the run, and looks whether it was canceled meanwhile.
CheckOwner(a) ==
  /\ task[a].at = "start" /\ launch[a] = "canceled"
  /\ Over(a) /\ launch' = [launch EXCEPT ![a] = "none"]
  /\ Read /\ UNCHANGED <<known, queue, step, session, binding, abort, process, settled>>

\* A read of the executor that fails is its end; what it launched stays.
ReadFails(a) ==
  /\ task[a].at \in {"again", "start", "reread"}
  /\ Unread
  /\ Over(a) /\ launch' = [launch EXCEPT ![a] = "none"]
  /\ UNCHANGED <<known, queue, step, session, binding, abort, process, settled>>

NewBinding(a) ==
  [binding EXCEPT ![a] = [accepts |-> TRUE, completing |-> FALSE, stale |-> FALSE]]

\* startAttempt; the client is started at once unless the launch was canceled.
StartAttempt(a) ==
  /\ task[a].at = "start"
  /\ \E done \in BOOLEAN :
       /\ Call(Owned(task[a].saw) /\ ~IsActive(a),
               [Committed EXCEPT !.attempts[a] = Append(stored.attempts[a], "starting")], done)
       /\ IF ~done
          THEN /\ Over(a) /\ launch' = [launch EXCEPT ![a] = "none"]
               /\ UNCHANGED <<known, session, binding, process, settled>>
          ELSE /\ AdvanceWith(NewBinding(a), task[a].saw + 1)
               /\ settled' = [settled EXCEPT ![a] = FALSE]
               /\ UNCHANGED launch
               /\ IF launch[a] = "canceled"
                  THEN Fails(a, "other") /\ process' = [process EXCEPT ![a] = "none"]
                  ELSE /\ task' = [task EXCEPT ![a] = Rest("connect")]
                       /\ process' = [process EXCEPT ![a] = "alive"]
                       /\ UNCHANGED session
  /\ UNCHANGED <<queue, step, abort>>

\* start, get_commands and get_state: answered, or failed for any reason.
Connect(a) ==
  /\ task[a].at = "connect"
  /\ \/ /\ process[a] = "alive"
        /\ Goes(a, "binding") /\ Enqueue("bind", a) /\ UNCHANGED <<session, binding>>
        /\ UNCHANGED disturbed
     \/ /\ \E error \in {"rpc", "other"} : FailsOf(a, error)
        /\ binding' = Deaf(a) /\ UNCHANGED <<queue, step>>
  /\ UNCHANGED <<stored, lost, known, launch, abort, process, settled>>

\* The session is bound at the version the supervisor knows.
BeginBind(a) ==
  /\ InTurn("bind", a, "first")
  /\ NextStep("write", known)
  /\ Read /\ UNCHANGED <<known, launch, session, binding, abort, task, process, settled>>

Bind(a) ==
  /\ InTurn("bind", a, "write")
  /\ \E done \in BOOLEAN :
       /\ UpdateAttempt(a, step.saw, "running", done)
       /\ LET rows == IF launch[a] = "canceled" THEN Deaf(a) ELSE binding
          IN IF done THEN AdvanceWith(rows, step.saw + 1)
                     ELSE binding' = Deaf(a) /\ UNCHANGED known
       /\ IF done /\ launch[a] # "canceled"
          THEN Goes(a, "work") /\ session' = [session EXCEPT ![a] = TRUE]
          ELSE Fails(a, "other")
  /\ Pop /\ UNCHANGED <<launch, abort, process, settled>>

\* waitForAgent; then the operations queued so far are waited for.
Work(a) ==
  /\ task[a].at = "work"
  /\ \/ /\ settled[a] /\ ~AbortCalled
        /\ Goes(a, "drain") /\ Enqueue("drained", a) /\ UNCHANGED <<session, binding>>
     \/ /\ process[a] = "exited" /\ Fails(a, "rpc")
        /\ binding' = Deaf(a) /\ UNCHANGED <<queue, step>>
     \/ /\ AbortCalled /\ Fails(a, "other")
        /\ binding' = Deaf(a) /\ UNCHANGED <<queue, step>>
  /\ Read /\ UNCHANGED <<known, launch, abort, process, settled>>

\* The prompt is refused, or not answered in time.
PromptFails(a) ==
  /\ task[a].at = "work"
  /\ FailsOf(a, "rpc") /\ binding' = Deaf(a)
  /\ UNCHANGED <<stored, lost, known, queue, step, launch, abort, process, settled>>

Launched(a) ==
  /\ InTurn("drained", a, "first") /\ Pop
  /\ IF launch[a] = "canceled"
     THEN Fails(a, "other") /\ binding' = Deaf(a) /\ UNCHANGED launch
     ELSE /\ Goes(a, "reread") /\ launch' = [launch EXCEPT ![a] = "none"]
          /\ UNCHANGED <<session, binding>>
  /\ Read /\ UNCHANGED <<known, abort, process, settled>>

StopChild(a) ==
  /\ task[a].at = "stopping"
  /\ process' = [process EXCEPT ![a] = IF process[a] = "alive" THEN "exited" ELSE process[a]]
  /\ Goes(a, "failed") /\ Enqueue("fail", a)
  /\ Read /\ UNCHANGED <<known, launch, session, binding, abort, settled>>

\* The launch is over; another attempt follows, or the error is thrown.
LaunchEnds(a, again) ==
  /\ launch' = [launch EXCEPT ![a] = "none"]
  /\ LET replaced == again /\ launch[a] = "live" /\ Again(a)
     IN task' = [task EXCEPT ![a] = Rest(IF replaced THEN "again" ELSE "over")]
  /\ Pop

ReadFailure(a) ==
  /\ InTurn("fail", a, "first")
  /\ \/ Read /\ ~stored.frozen /\ ReadOn("write") /\ UNCHANGED <<task, launch>>
     \/ Read /\ stored.frozen /\ LaunchEnds(a, TRUE)
     \/ Unread /\ LaunchEnds(a, TRUE)
  /\ UNCHANGED <<known, session, binding, abort, process, settled>>

FailureStatus(a) == IF launch[a] = "canceled" THEN "canceled" ELSE "failed"

\* MUTANT: a refused settlement is swallowed, as that of an exited child is.
WriteFailureQuietly(a) ==
  /\ InTurn("fail", a, "write")
  /\ \E done \in BOOLEAN :
       /\ UpdateAttempt(a, step.saw, FailureStatus(a), done)
       /\ LaunchEnds(a, done \/ stored'.frozen)
       /\ IF done THEN Advance(step.saw + 1) ELSE UNCHANGED <<known, binding>>
  /\ UNCHANGED <<session, abort, process, settled>>

\* A settlement that is refused is an error, of the abortion too if there is
\* one, unless the run is frozen, which settles everything.
WriteFailure(a) ==
  /\ InTurn("fail", a, "write")
  /\ \E done \in BOOLEAN :
       /\ UpdateAttempt(a, step.saw, FailureStatus(a), done)
       /\ LaunchEnds(a, done \/ stored'.frozen)
       /\ IF done THEN Advance(step.saw + 1) ELSE UNCHANGED <<known, binding>>
       /\ abort' = [abort EXCEPT
            !.failed = @ \/ (~done /\ ~stored'.frozen /\ launch[a] = "canceled")]
  /\ UNCHANGED <<session, process, settled>>

-----------------------------------------------------------------------------
(* complete *)

Reread(a) ==
  /\ task[a].at = "reread"
  /\ IF session[a] /\ known <= stored.version
     THEN /\ task' = [task EXCEPT ![a].at = "admitting", ![a].saw = stored.version]
          /\ binding' = [binding EXCEPT ![a].stale = FALSE]
          /\ Enqueue("admit", a)
     ELSE Over(a) /\ UNCHANGED <<queue, step, binding>>
  /\ Read /\ UNCHANGED <<known, launch, session, abort, process, settled>>

\* authorize, up to its read of the run and after it
MayAct(a) == session[a] /\ binding[a].accepts /\ ~AbortCalled

AdmitReads(a) ==
  /\ InTurn("admit", a, "first")
  /\ LET admitted == /\ ~binding[a].stale /\ ~binding[a].completing /\ MayAct(a)
                     /\ Owned(IF known > task[a].saw THEN known ELSE task[a].saw)
     IN \/ Read /\ admitted /\ NextStep("attempt", 0) /\ UNCHANGED task
        \/ ((Read /\ ~admitted) \/ Unread) /\ Over(a) /\ Pop
  /\ UNCHANGED <<known, launch, session, binding, abort, process, settled>>

Admit(a) ==
  /\ InTurn("admit", a, "attempt")
  /\ LET admitted == Attempt(a) = "running" /\ session[a] /\ ~binding[a].stale
     IN \/ /\ Read /\ admitted /\ task' = [task EXCEPT ![a] = Rest("closing")]
           /\ binding' = [binding EXCEPT ![a].completing = TRUE]
        \/ ((Read /\ ~admitted) \/ Unread) /\ Over(a) /\ UNCHANGED binding
  /\ Pop /\ UNCHANGED <<known, launch, session, abort, process, settled>>

\* get_messages and the validation of the transcript; its error is kept
Fetched(a) ==
  \/ /\ process[a] = "alive" /\ ~AbortCalled /\ UNCHANGED disturbed
     /\ task' = [task EXCEPT ![a].at = "halting", ![a].error = "none"]
  \/ /\ AbortCalled /\ UNCHANGED disturbed
     /\ task' = [task EXCEPT ![a].at = "halting", ![a].error = "other"]
  \/ \E error \in {"rpc", "other"} :
       /\ MayFail(a, error)
       /\ task' = [task EXCEPT ![a].at = "halting", ![a].error = error]

Fetch(a) ==
  /\ task[a].at = "closing" /\ Fetched(a)
  /\ UNCHANGED <<stored, lost, supervisor, process, settled>>

Halt(a) ==
  /\ task[a].at = "halting"
  /\ process' = [process EXCEPT ![a] = "exited"]
  /\ Goes(a, "finishing") /\ Enqueue("finish", a)
  /\ Read /\ UNCHANGED <<known, launch, session, binding, abort, settled>>

\* The finally of the last operation.
Release(a) ==
  /\ session' = [session EXCEPT ![a] = FALSE]
  /\ Pop

FinishFails(a) ==
  Over(a) /\ Release(a) /\ binding' = Deaf(a) /\ UNCHANGED known

FinishReads(a) ==
  /\ InTurn("finish", a, "first")
  /\ \/ /\ Read /\ ~AbortCalled /\ ~stored.frozen /\ ReadOn("authorize")
        /\ UNCHANGED <<task, session, binding, known>>
     \/ ((Read /\ (AbortCalled \/ stored.frozen)) \/ Unread) /\ FinishFails(a)
  /\ UNCHANGED <<launch, abort, process, settled>>

FinishAuthorizes(a) ==
  /\ InTurn("finish", a, "authorize")
  /\ LET authorized == MayAct(a) /\ Owned(step.saw) /\ Attempt(a) = "running"
     IN \/ /\ Read /\ authorized /\ ReadOn("write")
           /\ UNCHANGED <<task, session, binding, known>>
        \/ ((Read /\ ~authorized) \/ Unread) /\ FinishFails(a)
  /\ UNCHANGED <<launch, abort, process, settled>>

FinishWrites(a) ==
  /\ InTurn("finish", a, "write")
  /\ \E done \in BOOLEAN :
       /\ UpdateAttempt(a, step.saw, IF task[a].error = "none" THEN "completed" ELSE "failed", done)
       /\ IF done
          THEN /\ AdvanceWith(Deaf(a), step.saw + 1)
               /\ task' = [task EXCEPT ![a] = Rest(IF Again(a) THEN "again" ELSE "over")]
               /\ Release(a)
          ELSE FinishFails(a)
  /\ UNCHANGED <<launch, abort, process, settled>>

-----------------------------------------------------------------------------
(* monitorExit and recordActivity *)

\* A child that exits while nobody waits for it interrupts its attempt.
NoticeExit(a) ==
  /\ process[a] = "exited" /\ launch[a] = "none"
  /\ \A i \in DOMAIN queue : queue[i][2] # a
  /\ session[a] /\ binding[a].accepts /\ ~binding[a].completing
  /\ session' = [session EXCEPT ![a] = FALSE] /\ binding' = Deaf(a)
  /\ Enqueue("exited", a)
  /\ Read /\ UNCHANGED <<known, launch, abort, task, process, settled>>

ExitedReads(a) ==
  /\ InTurn("exited", a, "first")
  /\ \/ Read /\ ~stored.frozen /\ ReadOn("write")
     \/ ((Read /\ stored.frozen) \/ Unread) /\ Pop
  /\ UNCHANGED <<known, launch, session, binding, abort, task, process, settled>>

ExitedWrites(a) ==
  /\ InTurn("exited", a, "write")
  /\ \E done \in BOOLEAN :
       /\ UpdateAttempt(a, step.saw, "interrupted", done)
       /\ IF done THEN Advance(step.saw + 1) ELSE UNCHANGED <<known, binding>>
  /\ Pop /\ UNCHANGED <<launch, session, abort, task, process, settled>>

\* recordActivity takes over the version it reads, and forgets its errors.
ActivityReads(a) ==
  /\ InTurn("activity", a, "first")
  /\ \/ /\ Read /\ binding[a].accepts /\ ~stored.frozen
        /\ ReadOn("write") /\ Advance(stored.version)
     \/ /\ \/ Read /\ ~(binding[a].accepts /\ ~stored.frozen)
           \/ Unread /\ binding[a].accepts
        /\ Pop /\ UNCHANGED <<known, binding>>
  /\ UNCHANGED <<launch, session, abort, task, process, settled>>

ActivityWrites(a) ==
  /\ InTurn("activity", a, "write")
  /\ \E done \in BOOLEAN :
       /\ Call(Owned(step.saw), Committed, done)
       /\ known' = IF done THEN Known(step.saw + 1) ELSE known
  /\ Pop /\ UNCHANGED <<launch, session, binding, abort, task, process, settled>>

-----------------------------------------------------------------------------
(* abortRun *)

Found == abort.bound \cup abort.launching

CallAbort ==
  /\ ~AbortCalled
  /\ LET launching == {a \in Agents : launch[a] # "none"}
         bound     == {a \in Agents : session[a]}
     IN /\ abort' = [at |-> "stopping", bound |-> bound, launching |-> launching, failed |-> FALSE]
        /\ launch' = [a \in Agents |-> IF a \in launching THEN "canceled" ELSE "none"]
        /\ binding' = [a \in Agents |->
             IF a \in bound THEN Gone ELSE binding[a]]
        /\ session' = [a \in Agents |-> FALSE]
  /\ Read /\ UNCHANGED <<known, queue, step, task, process, settled>>

AbortStops ==
  /\ abort.at = "stopping"
  /\ process' = [a \in Agents |->
       IF a \in Found /\ process[a] = "alive" THEN "exited" ELSE process[a]]
  /\ abort' = [abort EXCEPT !.at = "waiting"]
  /\ Read /\ UNCHANGED <<known, queue, step, launch, session, binding, task, settled>>

Completing == {"admitting", "closing", "halting", "finishing"}

\* Launches and completions that were under way are over; what they do not
\* settle is queued.
AbortWaits ==
  /\ abort.at = "waiting"
  /\ \A a \in abort.launching : launch[a] = "none"
  /\ \A a \in abort.bound : task[a].at \notin Completing
  /\ LET rest == SetToSeq(abort.bound \ abort.launching)
     IN queue' = queue \o [i \in DOMAIN rest |-> <<"settle", rest[i]>>]
  /\ abort' = [abort EXCEPT !.at = "settling"]
  /\ Read /\ UNCHANGED <<known, step, launch, session, binding, task, process, settled>>

SettleReads(a) ==
  /\ InTurn("settle", a, "first")
  /\ \/ /\ Read /\ ~stored.frozen /\ IsActive(a)
        /\ ReadOn("write") /\ UNCHANGED abort
     \/ /\ Read /\ (stored.frozen \/ ~IsActive(a))
        /\ Pop /\ UNCHANGED abort
     \/ Unread /\ Pop /\ abort' = [abort EXCEPT !.failed = TRUE]
  /\ UNCHANGED <<known, launch, session, binding, task, process, settled>>

SettleWrites(a) ==
  /\ InTurn("settle", a, "write")
  /\ \E done \in BOOLEAN :
       /\ UpdateAttempt(a, step.saw, "canceled", done)
       /\ IF done THEN Advance(step.saw + 1) ELSE UNCHANGED <<known, binding>>
       /\ abort' = [abort EXCEPT !.failed = @ \/ (~done /\ ~stored'.frozen)]
  /\ Pop /\ UNCHANGED <<launch, session, task, process, settled>>

AbortEnds ==
  /\ abort.at = "settling"
  /\ \A i \in DOMAIN queue : queue[i][1] # "settle"
  /\ abort' = [abort EXCEPT !.at = "over"]
  /\ Read /\ UNCHANGED <<known, queue, step, launch, session, binding, task, process, settled>>

-----------------------------------------------------------------------------
(* The children, and the other clients of the run *)

Surroundings == UNCHANGED <<known, step, launch, session, binding, abort, task>>

\* An event that is worth recording; the last one settles the agent.
Emit(a) ==
  /\ process[a] = "alive" /\ session[a]
  /\ queue' = Append(queue, <<"activity", a>>)
  /\ \/ Disturbs /\ UNCHANGED settled
     \/ ~settled[a] /\ settled' = [settled EXCEPT ![a] = TRUE] /\ UNCHANGED disturbed
  /\ UNCHANGED <<stored, lost, process>> /\ Surroundings

Exits(a) ==
  /\ process[a] = "alive" /\ process' = [process EXCEPT ![a] = "exited"] /\ Disturbs
  /\ UNCHANGED <<stored, lost, queue, settled>> /\ Surroundings

\* The lifecycle moves another phase; anybody requests the cancellation.
OthersCommit ==
  /\ ~stored.frozen /\ Disturbs
  /\ stored' \in {Committed, [Committed EXCEPT !.frozen = TRUE]}
  /\ UNCHANGED <<queue, process, settled, lost>> /\ Surroundings

-----------------------------------------------------------------------------
SessionInit ==
  /\ stored = [version |-> 1, frozen |-> FALSE, attempts |-> [a \in Agents |-> <<>>]]
  /\ known = 0 /\ queue = <<>> /\ step = Idle
  /\ task = [a \in Agents |-> Rest("idle")]
  /\ launch = [a \in Agents |-> "none"] /\ session = [a \in Agents |-> FALSE]
  /\ binding = [a \in Agents |-> Gone]
  /\ process = [a \in Agents |-> "none"] /\ settled = [a \in Agents |-> FALSE]
  /\ abort = [at |-> "no", bound |-> {}, launching |-> {}, failed |-> FALSE]
  /\ disturbed = 0 /\ lost = FALSE

Executes(a) ==
  \/ task[a].at = "again" /\ Begin(a)
  \/ CheckOwner(a) \/ StartAttempt(a) \/ Connect(a) \/ Work(a) \/ StopChild(a)
  \/ Reread(a) \/ Fetch(a) \/ Halt(a)

QueueRuns ==
  \E a \in Agents :
    \/ BeginBind(a) \/ Bind(a) \/ Launched(a) \/ ReadFailure(a) \/ WriteFailure(a)
    \/ AdmitReads(a) \/ Admit(a) \/ FinishReads(a) \/ FinishAuthorizes(a) \/ FinishWrites(a)
    \/ ExitedReads(a) \/ ExitedWrites(a) \/ ActivityReads(a) \/ ActivityWrites(a)
    \/ SettleReads(a) \/ SettleWrites(a)

Aborts == AbortStops \/ AbortWaits \/ AbortEnds

SessionNext ==
  \/ \E a \in Agents :
       \/ task[a].at = "idle" /\ Begin(a)
       \/ Executes(a) \/ ReadFails(a) \/ PromptFails(a) \/ NoticeExit(a) \/ Emit(a) \/ Exits(a)
  \/ QueueRuns \/ CallAbort \/ Aborts \/ OthersCommit

\* Code runs when it can, a helper and a request to a child end by their time
\* limits, and a stopped child exits (StopEnds of JsonlRpc).  An agent may work
\* for ever, and nobody has to start a phase or to abort the run.
SessionFairness ==
  /\ \A a \in Agents : WF_sessionVars(Executes(a))
  /\ WF_sessionVars(QueueRuns)
  /\ WF_sessionVars(Aborts)

SessionSpec == SessionInit /\ [][SessionNext]_sessionVars /\ SessionFairness

-----------------------------------------------------------------------------
(* Properties *)

\* When abortRun has ended, none of the run's children is alive, no launch is
\* under way and no session is bound, whichever of them were just being
\* launched, completed or given up; and if it ended without an error, in a run
\* that still admits writes and with a helper that answers, all the attempts
\* it found are settled (phase-session.ts:176-232, 361-398, 454-505).
AbortIsThorough ==
  abort.at = "over" =>
    /\ \A a \in Agents : process[a] # "alive" /\ launch[a] = "none" /\ ~session[a]
    /\ ~abort.failed /\ ~stored.frozen /\ ~lost => \A a \in Found : ~IsActive(a)

\* abortRun ends, and with it every executor of the run, although all of them
\* write through the queue that the abort settles with, and the abort waits for
\* their launches and completions (phase-session.ts:193-196, 648-655): what
\* RunLifecycle assumes of sessions and executors.
AbortedWorkEnds ==
  AbortCalled ~> abort.at = "over" /\ \A a \in Agents : task[a].at \in {"idle", "over"}

=============================================================================
