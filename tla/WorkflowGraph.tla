---------------------------- MODULE WorkflowGraph ----------------------------
(***************************************************************************)
(* The two readers of a workflow's dependency graph.  validateWorkflow     *)
(* (src/workflow/registry.ts) compiles it into the order the scheduler     *)
(* dispatches in, one round of ready phases after the other; create_run    *)
(* (scripts/runtime_state.py) admits it to the tables by counting down the *)
(* dependencies of each phase.  Both read any graph: with cycles, with     *)
(* unknown or repeated dependencies, with bindings to any phase.           *)
(***************************************************************************)
EXTENDS Integers, FiniteSets, Functions, Sequences

CONSTANTS
  Phase,      \* the phases, distinct by their identity
  Position,   \* their positions in the declaration
  Expects,    \* the contract of a phase's input, or None
  Offers,     \* the contract of a phase's output
  Stray,      \* an identity that no phase has
  Uses,       \* how often phases may list their dependencies
  Sources,    \* which phases their inputs may be bound to
  None

ASSUME GraphAssumption ==
  /\ IsFiniteSet(Phase) /\ Stray \notin Phase /\ None \notin Phase
  /\ Position \in [Phase -> Nat]
  /\ \A p, q \in Phase : Position[p] = Position[q] => p = q
  /\ Uses \subseteq [Phase -> [Phase \cup {Stray} -> Nat]]
  /\ Sources \subseteq [Phase -> Phase \cup {None}]

VARIABLES
  uses,      \* how often a phase lists a dependency
  source,    \* the phase its input is bound to, or None
  compiled,  \* validateWorkflow: "unread", "ordering", "accepted", "rejected"
  waiting,   \* pendingDependencies
  ready,     \* what is left of this round
  order,     \* the compiled order
  stored,    \* create_run: "unread", "counting", "accepted", "rejected"
  left,      \* pending_dependencies, as counts
  queued,    \* the list ready, as a set
  handled    \* the part of it that the loop has passed

workflow == <<uses, source>>
compiler == <<compiled, waiting, ready, order>>
admission == <<stored, left, queued, handled>>
vars == <<workflow, compiler, admission>>

Verdict == {"accepted", "rejected"}

Dependencies(p) == {d \in Phase \cup {Stray} : uses[p][d] > 0}

CompilerTypeOK ==
  /\ uses \in [Phase -> [Phase \cup {Stray} -> Nat]]
  /\ source \in [Phase -> Phase \cup {None}]
  /\ compiled \in {"unread", "ordering"} \cup Verdict
  /\ waiting \in [Phase -> SUBSET Phase]
  /\ ready \in SUBSET Phase
  /\ order \in Seq(Phase)

TypeOK ==
  /\ CompilerTypeOK
  /\ stored \in {"unread", "counting"} \cup Verdict
  /\ left \in [Phase -> Nat]
  /\ queued \in SUBSET Phase /\ handled \in SUBSET queued

Init ==
  /\ uses \in Uses
  /\ source \in Sources
  /\ compiled = "unread" /\ stored = "unread"
  /\ waiting = [p \in Phase |-> {}] /\ ready = {} /\ order = <<>>
  /\ left = [p \in Phase |-> 0] /\ queued = {} /\ handled = {}

-----------------------------------------------------------------------------
(* validateWorkflow *)

DependsOnOthers(p) == Dependencies(p) \subseteq Phase \ {p}

\* The input is bound, to a dependency that offers what is expected.
Bound(p) ==
  IF source[p] = None THEN Expects[p] = None
  ELSE source[p] \in Dependencies(p) /\ Expects[p] = Offers[source[p]]

ReadWorkflow ==
  /\ compiled = "unread"
  /\ IF \A p \in Phase : DependsOnOthers(p) /\ Bound(p)
     THEN /\ compiled' = "ordering"
          /\ waiting' = [p \in Phase |-> Dependencies(p)]
     ELSE compiled' = "rejected" /\ UNCHANGED waiting
  /\ UNCHANGED <<workflow, ready, order, admission>>

Ordered == {order[i] : i \in 1..Len(order)}

Ready == {p \in Phase \ Ordered : waiting[p] = {}}

Round ==
  /\ compiled = "ordering" /\ ready = {} /\ Len(order) < Cardinality(Phase)
  /\ ready' = Ready
  /\ compiled' = IF Ready = {} THEN "rejected" ELSE compiled
  /\ UNCHANGED <<workflow, waiting, order, admission>>

FirstDeclared(S) == {p \in S : \A q \in S : Position[p] <= Position[q]}

Place(p) ==
  /\ compiled = "ordering" /\ p \in FirstDeclared(ready)
  /\ order' = Append(order, p)
  /\ waiting' = [q \in Phase |-> waiting[q] \ {p}]
  /\ ready' = ready \ {p}
  /\ UNCHANGED <<workflow, compiled, admission>>

Accept ==
  /\ compiled = "ordering" /\ ready = {} /\ Len(order) >= Cardinality(Phase)
  /\ compiled' = "accepted"
  /\ UNCHANGED <<workflow, waiting, ready, order, admission>>

-----------------------------------------------------------------------------
(* create_run *)

Listed(p) == SumFunction(uses[p])

ReadPhases ==
  /\ stored = "unread" /\ compiled \in Verdict
  /\ IF \E p \in Phase : uses[p][Stray] > 0
     THEN stored' = "rejected" /\ UNCHANGED <<left, queued>>
     ELSE /\ stored' = "counting"
          /\ left' = [p \in Phase |-> Listed(p)]
          /\ queued' = {p \in Phase : Listed(p) = 0}
  /\ UNCHANGED <<workflow, compiler, handled>>

\* A dependent is queued when its count comes down to zero.
CountDown(p) ==
  /\ stored = "counting" /\ p \in queued \ handled
  /\ left' = [q \in Phase |-> left[q] - uses[q][p]]
  /\ queued' = queued \cup {q \in Phase : uses[q][p] > 0 /\ left'[q] = 0}
  /\ handled' = handled \cup {p}
  /\ UNCHANGED <<workflow, compiler, stored>>

\* MUTANT: a graph of which something could be ordered is good enough.
AdmitPartly ==
  /\ stored = "counting" /\ queued = handled
  /\ stored' = IF queued = {} THEN "rejected" ELSE "accepted"
  /\ UNCHANGED <<workflow, compiler, left, queued, handled>>

Admit ==
  /\ stored = "counting" /\ queued = handled
  /\ stored' = IF Cardinality(queued) = Cardinality(Phase)
               THEN "accepted" ELSE "rejected"
  /\ UNCHANGED <<workflow, compiler, left, queued, handled>>

-----------------------------------------------------------------------------
Next ==
  \/ ReadWorkflow \/ Round \/ Accept \/ \E p \in Phase : Place(p)
  \/ ReadPhases \/ Admit \/ \E p \in Phase : CountDown(p)

Spec == Init /\ [][Next]_vars /\ WF_vars(Next)

-----------------------------------------------------------------------------
(* Properties *)

\* No set of phases in which every one waits for another.
Acyclic ==
  \A S \in SUBSET Phase : S # {} => \E p \in S : Dependencies(p) \cap S = {}

\* validateWorkflow neither lets a cycle or an unknown dependency through
\* nor refuses a graph without one: it accepts exactly the well-formed
\* acyclic graphs (registry.ts:117-162).
CompilesExactly ==
  /\ compiled = "accepted" =>
       Acyclic /\ \A p \in Phase : DependsOnOthers(p) /\ Bound(p)
  /\ compiled = "rejected" =>
       ~Acyclic \/ \E p \in Phase : ~DependsOnOthers(p) \/ ~Bound(p)

\* A compiled workflow holds every phase, after all its dependencies and
\* after the phase its input comes from (registry.ts:131-162): its executor
\* can be handed what it needs.
InputsComeFirst ==
  compiled = "accepted" =>
    \A p \in Phase : \E i \in 1..Len(order) :
      /\ order[i] = p
      /\ Dependencies(p) \cup ({source[p]} \ {None})
           \subseteq {order[j] : j \in 1..(i - 1)}

\* create_run admits exactly the acyclic graphs, however often a dependency
\* is listed: in particular whatever validateWorkflow compiled
\* (runtime_state.py:83-103).
AdmitsExactly ==
  /\ stored = "accepted" =>
       Acyclic /\ \A p \in Phase : uses[p][Stray] = 0
  /\ stored = "rejected" =>
       compiled = "rejected" /\ (~Acyclic \/ \E p \in Phase : uses[p][Stray] > 0)

=============================================================================
