----------------------------- MODULE RunContract -----------------------------
(***************************************************************************)
(* What the durable store promises its clients about a workflow run,       *)
(* without versions, claims, attempts or events.                           *)
(*                                                                         *)
(* A run delivers results, one per phase, and each at most once.  It does  *)
(* so only while it is running and no cancellation is pending; a request   *)
(* to cancel is irrevocable and leaves cancellation as the only outcome;   *)
(* a run completes only with all its results; nothing follows a terminal   *)
(* status.                                                                 *)
(***************************************************************************)
CONSTANTS Run, Phase, Output, None

VARIABLES
  status,    \* status[r]: the status of run r
  stopping,  \* stopping[r]: a cancellation of r has been requested
  result     \* result[r][p]: the output admitted for phase p, or None

contractVars == <<status, stopping, result>>

ContractInit ==
  /\ status = [r \in Run |-> "absent"]
  /\ stopping = [r \in Run |-> FALSE]
  /\ result = [r \in Run |-> [p \in Phase |-> None]]

Working(r) == status[r] = "running" /\ ~stopping[r]

MoveTo(r, next) == status' = [status EXCEPT ![r] = next]

Submit(r) ==
  /\ status[r] = "absent"
  /\ MoveTo(r, "created")
  /\ UNCHANGED <<stopping, result>>

Start(r) ==
  /\ status[r] \in {"created", "interrupted"}
  /\ MoveTo(r, "running")
  /\ UNCHANGED <<stopping, result>>

Deliver(r, p, output) ==
  /\ Working(r)
  /\ result[r][p] = None
  /\ result' = [result EXCEPT ![r][p] = output]
  /\ UNCHANGED <<status, stopping>>

Complete(r) ==
  /\ Working(r)
  /\ \A p \in Phase : result[r][p] # None
  /\ MoveTo(r, "completed")
  /\ UNCHANGED <<stopping, result>>

GiveUp(r) ==
  /\ Working(r)
  /\ \E next \in {"failed", "interrupted"} : MoveTo(r, next)
  /\ UNCHANGED <<stopping, result>>

RequestCancel(r) ==
  /\ Working(r)
  /\ stopping' = [stopping EXCEPT ![r] = TRUE]
  /\ UNCHANGED <<status, result>>

Cancel(r) ==
  /\ status[r] = "running"
  /\ stopping[r]
  /\ MoveTo(r, "canceled")
  /\ UNCHANGED <<stopping, result>>

ContractNext ==
  \E r \in Run :
    \/ Submit(r)
    \/ Start(r)
    \/ \E p \in Phase, output \in Output : Deliver(r, p, output)
    \/ Complete(r)
    \/ GiveUp(r)
    \/ RequestCancel(r)
    \/ Cancel(r)

ContractSpec == ContractInit /\ [][ContractNext]_contractVars

=============================================================================
