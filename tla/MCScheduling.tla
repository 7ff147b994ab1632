----------------------------- MODULE MCScheduling -----------------------------
(***************************************************************************)
(* The loop that starts executors, and the client an executor has of its   *)
(* child: in a behaviour one of the two is at work, and the other is at    *)
(* rest.                                                                   *)
(*                                                                         *)
(* Loop: four phases in two branches that join, b after a, d after b and   *)
(* c.                                                                      *)
(*                                                                         *)
(* Client: two requests in flight, and two unread records.                 *)
(***************************************************************************)
EXTENDS Scheduler, JsonlRpc

CONSTANTS a, b, c, d, get, prompt

VARIABLE working  \* the component at work

Phases == {a, b, c, d}

Branches == [p \in Phases |-> IF p = b THEN {a} ELSE IF p = d THEN {b, c} ELSE {}]

Topological == <<a, c, b, d>>

Requests == {get, prompt}

\* A loop that is over, every phase canceled: it takes no step.
Over ==
  /\ state = [p \in Phase |-> "canceled"]
  /\ active = {}
  /\ execution = [p \in Phase |-> "none"]
  /\ control = "returned"
  /\ at = None
  /\ verdict = "canceled"
  /\ aborted = TRUE

SchedulingInit ==
  /\ RpcInit
  /\ \/ working = "loop" /\ Idle
     \/ working = "client" /\ Over

SchedulingNext ==
  /\ UNCHANGED working
  /\ \/ working = "loop" /\ Next /\ UNCHANGED rpcVars
     \/ working = "client" /\ RpcNext /\ UNCHANGED schedule

SchedulingSpec ==
  /\ SchedulingInit /\ [][SchedulingNext]_<<working, schedule, rpcVars>>
  /\ Fairness /\ RpcFairness

=============================================================================
