------------------------------- MODULE JsonlRpc -------------------------------
(***************************************************************************)
(* JsonlRpcClient of src/rpc/jsonl-client.ts: one child process, requests  *)
(* that are correlated with its answers, and the ways it ends.  The child  *)
(* is external.  It answers late, twice, never or with anything else,      *)
(* ignores SIGTERM, exits when it likes and may leave its pipes to a       *)
(* process of its own.                                                     *)
(***************************************************************************)
EXTENDS Integers, Sequences

CONSTANTS
  Request,   \* the requests of the client's user
  Event,     \* a record that is no response
  Garbage,   \* a record that is not a valid message
  MaxWire    \* bound: records the child has written and nobody has read

ASSUME RpcAssumption ==
  /\ Event \notin Request /\ Garbage \notin Request /\ Event # Garbage
  /\ MaxWire \in Nat

VARIABLES
  started,   \* start: "idle", "spawning", "up" or "refused"
  failed, closed,
  stopping,  \* stopProcess: "none", "grace", "forced" or "stopped"
  timer,     \* closeTimer: "off", "armed" or "over"
  pending,   \* the pending requests
  outcome,   \* of the promise of each: "none", "open", "answered", "rejected"
  child,     \* "none", "unborn", "alive", "killed" or "exited"
  pipes,     \* who holds them: "own", "shared" or "ended"
  wire,      \* records in its stdout
  answered   \* the requests it has answered

client == <<started, failed, closed, stopping, timer, pending, outcome>>
world == <<child, pipes, wire, answered>>
rpcVars == <<client, world>>

RpcTypeOK ==
  /\ started \in {"idle", "spawning", "up", "refused"}
  /\ failed \in BOOLEAN /\ closed \in BOOLEAN
  /\ stopping \in {"none", "grace", "forced", "stopped"}
  /\ timer \in {"off", "armed", "over"}
  /\ pending \subseteq {r \in Request : outcome[r] = "open"}
  /\ outcome \in [Request -> {"none", "open", "answered", "rejected"}]
  /\ child \in {"none", "unborn", "alive", "killed", "exited"}
  /\ pipes \in {"own", "shared", "ended"}
  /\ wire \in Seq(Request \cup {Event, Garbage})
  /\ answered \in SUBSET Request

RpcInit ==
  /\ started = "idle" /\ failed = FALSE /\ closed = FALSE
  /\ stopping = "none" /\ timer = "off"
  /\ pending = {} /\ outcome = [r \in Request |-> "none"]
  /\ child = "none" /\ pipes = "own" /\ wire = <<>> /\ answered = {}

-----------------------------------------------------------------------------
(* What the handlers share *)

Rejected == [r \in Request |-> IF r \in pending THEN "rejected" ELSE outcome[r]]

RejectPending == pending' = {} /\ outcome' = Rejected

\* stop, unless it has been called: SIGTERM, and a while to comply.
BeginStop ==
  stopping' = IF stopping # "none" THEN stopping
              ELSE IF started = "idle" \/ closed THEN "stopped" ELSE "grace"

\* handleProcessError: without a process there is nothing to stop.
ProcessError ==
  /\ failed' = TRUE /\ RejectPending
  /\ IF child \in {"none", "unborn"}
     THEN closed' = TRUE /\ UNCHANGED <<stopping, timer>>
     ELSE BeginStop /\ UNCHANGED <<closed, timer>>

\* failProtocol
FailProtocol == failed' = TRUE /\ RejectPending /\ BeginStop

-----------------------------------------------------------------------------
(* start, request, stop *)

\* start: the child has a process at once, or never, or spawn throws.
Start ==
  /\ started = "idle" /\ ~closed /\ stopping = "none"
  /\ \/ /\ child' \in {"unborn", "alive"} /\ started' = "spawning"
        /\ UNCHANGED <<failed, closed, stopping, timer, pending, outcome>>
     \/ started' = "refused" /\ ProcessError /\ UNCHANGED child
  /\ UNCHANGED <<pipes, wire, answered>>

\* spawn, or the error of a child that has none.
Spawned ==
  /\ started = "spawning"
  /\ \/ /\ child # "unborn" /\ started' = "up"
        /\ UNCHANGED <<failed, closed, stopping, timer, pending, outcome>>
     \/ /\ child = "unborn" /\ started' = "refused"
        /\ ProcessError
  /\ UNCHANGED world

\* request, which is refused by a client that is not up.
Ask(r) ==
  /\ started = "up" /\ ~closed /\ ~failed /\ stopping = "none"
  /\ outcome[r] = "none"
  /\ pending' = pending \cup {r}
  /\ outcome' = [outcome EXCEPT ![r] = "open"]
  /\ UNCHANGED <<started, failed, closed, stopping, timer, world>>

TimeoutOfTheLast(r) ==  \* MUTANT: a timer waits for the other requests
  /\ pending = {r}
  /\ failed' = TRUE /\ RejectPending /\ BeginStop
  /\ UNCHANGED <<started, closed, timer, world>>

\* One request without an answer is the end of the process.
Timeout(r) ==
  /\ r \in pending
  /\ failed' = TRUE /\ RejectPending /\ BeginStop
  /\ UNCHANGED <<started, closed, timer, world>>

\* stop, called by the user.
Stop ==
  /\ stopping = "none"
  /\ BeginStop
  /\ IF started = "idle" \/ closed THEN UNCHANGED <<pending, outcome>>
                                   ELSE RejectPending
  /\ UNCHANGED <<started, failed, closed, timer, world>>

EscalateGently ==           \* MUTANT: SIGKILL is left out
  /\ stopping = "grace" /\ ~closed
  /\ stopping' = "forced" /\ pipes' = "ended" /\ wire' = <<>>
  /\ UNCHANGED <<started, failed, closed, timer, pending, outcome, child, answered>>

\* cleanupTimeoutMs after SIGTERM.
Escalate ==
  /\ stopping = "grace" /\ ~closed
  /\ stopping' = "forced"
  /\ child' = IF child = "alive" THEN "killed" ELSE child
  /\ pipes' = "ended" /\ wire' = <<>>
  /\ UNCHANGED <<started, failed, closed, timer, pending, outcome, answered>>

Stopped ==
  /\ stopping \in {"grace", "forced"} /\ closed
  /\ stopping' = "stopped"
  /\ UNCHANGED <<started, failed, closed, timer, pending, outcome, world>>

-----------------------------------------------------------------------------
(* The handlers of the child's events *)

\* The request that a record answers.
Correlated(record) == record

\* acceptRecord, for the next record unless the client has failed.
Accept ==
  /\ wire # <<>> /\ pipes # "ended"
  /\ wire' = Tail(wire)
  /\ LET record == Correlated(Head(wire)) IN
     \/ /\ closed \/ failed \/ record = Event
        /\ UNCHANGED <<failed, stopping, pending, outcome>>
     \/ /\ ~closed /\ ~failed /\ record \in pending
        /\ pending' = pending \ {record}
        /\ outcome' = [outcome EXCEPT ![record] = "answered"]
        /\ UNCHANGED <<failed, stopping>>
     \/ /\ ~closed /\ ~failed /\ record \notin pending \cup {Event}
        /\ FailProtocol
  /\ UNCHANGED <<started, closed, timer, child, pipes, answered>>

\* An error of the process or of one of its pipes.
Broken ==
  /\ child \in {"alive", "killed", "exited"} /\ ~closed /\ ~failed
  /\ ProcessError
  /\ UNCHANGED <<started, world>>

\* exit: the final records may still come, for a while.
Exit ==
  /\ child = "exited" /\ timer = "off" /\ timer' = "armed"
  /\ UNCHANGED <<started, failed, closed, stopping, pending, outcome, world>>

DestroyPipes ==
  /\ timer = "armed" /\ ~closed /\ timer' = "over"
  /\ pipes' = "ended" /\ wire' = <<>>
  /\ UNCHANGED <<started, failed, closed, stopping, pending, outcome, child, answered>>

\* close: the child has exited, and its pipes have ended.
Close ==
  /\ timer # "off" /\ ~closed
  /\ pipes = "ended" \/ (pipes = "own" /\ wire = <<>>)
  /\ closed' = TRUE /\ timer' = "over"
  /\ RejectPending
  /\ UNCHANGED <<started, failed, stopping, world>>

-----------------------------------------------------------------------------
(* The child *)

Write(record) ==
  /\ child = "alive" /\ started = "up" /\ pipes # "ended"
  /\ Len(wire) < MaxWire                                        \* BOUND
  /\ wire' = Append(wire, record)
  /\ answered' = answered \cup ({record} \cap Request)
  /\ UNCHANGED <<client, child, pipes>>

Answer(r) == outcome[r] # "none" /\ Write(r)

\* A process of the child's holds its pipes, and may let go of them.
Share ==
  /\ child = "alive" /\ pipes = "own" /\ pipes' = "shared"
  /\ UNCHANGED <<client, child, wire, answered>>

LetGo ==
  /\ pipes = "shared" /\ pipes' = "own"
  /\ UNCHANGED <<client, child, wire, answered>>

Die ==
  /\ child \in {"alive", "killed"} /\ started = "up" /\ child' = "exited"
  /\ UNCHANGED <<client, pipes, wire, answered>>

-----------------------------------------------------------------------------
Handlers == Spawned \/ Stopped \/ Accept \/ Exit \/ Close

RpcNext ==
  \/ Start \/ Stop \/ Escalate \/ Handlers \/ DestroyPipes \/ Broken
  \/ \E r \in Request : Ask(r) \/ Timeout(r) \/ Answer(r)
  \/ \E record \in {Event, Garbage} : Write(record)
  \/ Share \/ LetGo \/ Die

\* The event loop runs what is due, timers fire, and a killed child exits.
\* Nobody has to answer, to exit on SIGTERM or to let go of the pipes.
RpcFairness ==
  /\ WF_rpcVars(Spawned) /\ WF_rpcVars(Stopped) /\ WF_rpcVars(Accept)
  /\ WF_rpcVars(Exit) /\ WF_rpcVars(Close)
  /\ WF_rpcVars(Escalate) /\ WF_rpcVars(DestroyPipes)
  /\ \A r \in Request : WF_rpcVars(Timeout(r))
  /\ WF_rpcVars(child = "killed" /\ Die)

RpcSpec == RpcInit /\ [][RpcNext]_rpcVars /\ RpcFairness

-----------------------------------------------------------------------------
(* Properties *)

\* A request whose promise is open is still waited for, by a client that
\* can still receive its answer: no failure, stop or exit forgets one
\* (rejectPending and its callers, jsonl-client.ts:147-157, 280-327).
OpenRequestsAreHeld ==
  \A r \in Request :
    outcome[r] = "open" =>
      r \in pending /\ ~failed /\ ~closed /\ stopping = "none"

\* A request is settled with an answer only when the child has answered that
\* very request, whatever arrives late or twice (acceptResponse,
\* jsonl-client.ts:258-278).
AnswersAreCorrelated ==
  \A r \in Request : outcome[r] = "answered" => r \in answered

\* A client that gave up on its child is stopping it, and one that is closed
\* has no living child: a phase session that has ended leaves no process
\* behind (jsonl-client.ts:147-157, 184-210, 280-311).
NoChildIsLeft ==
  /\ failed => closed \/ stopping # "none"
  /\ closed => child \notin {"alive", "killed"}

\* Every request is settled: answered, timed out, or rejected with the
\* process (jsonl-client.ts:130-169).
EveryRequestSettles ==
  \A r \in Request : outcome[r] = "open" ~> outcome[r] \in {"answered", "rejected"}

\* stop ends, with the client closed, even for a child that ignores SIGTERM
\* and has left its pipes to another process (jsonl-client.ts:179-210).
StopEnds ==
  stopping # "none" ~> stopping = "stopped" /\ (closed \/ started = "idle")

=============================================================================
