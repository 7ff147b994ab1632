--------------------------- MODULE RuntimeContract ---------------------------
(***************************************************************************)
(* The tables of RuntimeState implement RunContract: a pending             *)
(* cancellation is the frozen flag, and the result of a phase is its       *)
(* output column.                                                          *)
(***************************************************************************)
EXTENDS RuntimeState

Contract == INSTANCE RunContract WITH
  status   <- [r \in Run |-> run[r].status],
  stopping <- [r \in Run |-> run[r].frozen],
  result   <- [r \in Run |-> [p \in Phase |-> phase[r][p].output]]

\* Every history of the store is a history of the contract: each operation
\* of runtime_state.py is one step of the contract or changes nothing the
\* contract shows (openspec canonical-scan-execution, spec.md:18-75).
ImplementsContract == Contract!ContractSpec

=============================================================================
