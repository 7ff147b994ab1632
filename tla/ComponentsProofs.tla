--------------------------- MODULE ComponentsProofs ---------------------------
(***************************************************************************)
(* Proofs about the components that are checked together (MCComponents):   *)
(* the two readers of a workflow's dependency graph, the findings          *)
(* workflow, the published issues, the comparison of scans, the pool of    *)
(* rankers and the draft of a scan over its cost limit, for every finite   *)
(* workflow and any number of scans, findings, files and candidates; and   *)
(* the migrations of the workbench, for every database.                    *)
(***************************************************************************)
EXTENDS WorkflowGraph, Migrations, FindingWorkflow, Publication, ScanComparison, RankPool,
        BudgetDraft, FiniteSetTheorems, WellFoundedInduction, TLAPS

-----------------------------------------------------------------------------
(* The compiler: what validateWorkflow guarantees of every workflow.  It   *)
(* accepts exactly the well-formed acyclic graphs, and the order it        *)
(* returns hands every phase what it depends on.                           *)

Place1(i) == {order[j] : j \in 1..(i - 1)}

\* What has been ordered is acyclic and closed under dependencies, and the
\* round holds phases of which everything has been ordered.
InOrder ==
  /\ \A i \in 1..Len(order) : Dependencies(order[i]) \subseteq Place1(i)
  /\ \A S \in SUBSET Ordered :
       S # {} => \E p \in S : Dependencies(p) \cap S = {}
  /\ Cardinality(Ordered) = Len(order)

WellFormedGraph == \A p \in Phase : DependsOnOthers(p) /\ Bound(p)

CompilerInv ==
  /\ CompilerTypeOK
  /\ InOrder
  /\ compiled = "unread" => order = <<>> /\ ready = {}
  /\ compiled \in {"ordering", "accepted"} => WellFormedGraph
  /\ compiled = "ordering" =>
       /\ waiting = [p \in Phase |-> Dependencies(p) \ Ordered]
       /\ \A p \in ready : p \notin Ordered /\ Dependencies(p) \subseteq Ordered
  /\ compiled = "accepted" => Ordered = Phase
  /\ compiled = "rejected" => ~WellFormedGraph \/ ~Acyclic

-----------------------------------------------------------------------------
(* Ordered, as a set *)

\* Appending a phase adds it to what is ordered, at the end.
LEMMA OrderedAppend ==
  ASSUME order \in Seq(Phase), NEW p \in Phase, order' = Append(order, p)
  PROVE  /\ Ordered' = Ordered \cup {p}
         /\ Len(order') = Len(order) + 1
         /\ order'[Len(order) + 1] = p
         /\ \A i \in 1..Len(order) : order'[i] = order[i]
         /\ {order'[j] : j \in 1..Len(order)} = Ordered
         /\ \A i \in 1..Len(order) : Place1(i)' = Place1(i)
<1>1. /\ Len(order) \in Nat
      /\ Len(order') = Len(order) + 1
      /\ order'[Len(order) + 1] = p
      /\ \A i \in 1..Len(order) : order'[i] = order[i]
  OBVIOUS
<1>2. Ordered' = Ordered \cup {p}
  <2>1. ASSUME NEW x \in Ordered' PROVE x \in Ordered \cup {p}
    <3>1. PICK i \in 1..(Len(order) + 1) : x = order'[i]
      BY <1>1, <2>1 DEF Ordered
    <3>2. CASE i = Len(order) + 1
      BY <1>1, <3>1, <3>2
    <3>3. CASE i \in 1..Len(order)
      BY <1>1, <3>1, <3>3 DEF Ordered
    <3> QED BY <1>1, <3>2, <3>3
  <2>2. ASSUME NEW x \in Ordered \cup {p} PROVE x \in Ordered'
    <3>1. CASE x = p
      BY <1>1, <3>1 DEF Ordered
    <3>2. CASE x \in Ordered
      <4>1. PICK i \in 1..Len(order) : x = order[i]
        BY <3>2 DEF Ordered
      <4>2. i \in 1..Len(order') /\ x = order'[i]
        BY <1>1, <4>1
      <4> QED BY <4>2 DEF Ordered
    <3> QED BY <2>2, <3>1, <3>2
  <2> QED BY <2>1, <2>2
<1>3. {order'[j] : j \in 1..Len(order)} = Ordered
  BY <1>1 DEF Ordered
<1>4. ASSUME NEW i \in 1..Len(order) PROVE Place1(i)' = Place1(i)
  BY <1>1 DEF Place1
<1> QED BY <1>1, <1>2, <1>3, <1>4

\* What is ordered is a finite set of phases.
LEMMA OrderedFinite ==
  ASSUME order \in Seq(Phase)
  PROVE  Ordered \subseteq Phase /\ IsFiniteSet(Ordered)
<1>1. Ordered \subseteq Phase
  BY DEF Ordered
<1> QED BY <1>1, GraphAssumption, FS_Subset DEF GraphAssumption

\* What is said of the graph and of the order depends on nothing else.
LEMMA Unchanged ==
  ASSUME UNCHANGED <<uses, source, order>>
  PROVE  /\ Ordered' = Ordered
         /\ \A p : Dependencies(p)' = Dependencies(p)
         /\ InOrder' = InOrder
         /\ WellFormedGraph' = WellFormedGraph
         /\ Acyclic' = Acyclic
<1>1. Ordered' = Ordered
  BY DEF Ordered
<1>2. \A p : Dependencies(p)' = Dependencies(p)
  BY DEF Dependencies
<1>3. \A i : Place1(i)' = Place1(i)
  BY DEF Place1
<1>4. InOrder' = InOrder
  <2>1. (\A i \in 1..Len(order) : Dependencies(order[i]) \subseteq Place1(i))'
          = (\A i \in 1..Len(order) : Dependencies(order[i]) \subseteq Place1(i))
    BY <1>2, <1>3
  <2>2. (\A S \in SUBSET Ordered :
           S # {} => \E p \in S : Dependencies(p) \cap S = {})'
          = (\A S \in SUBSET Ordered :
               S # {} => \E p \in S : Dependencies(p) \cap S = {})
    BY <1>1, <1>2
  <2>3. (Cardinality(Ordered) = Len(order))' = (Cardinality(Ordered) = Len(order))
    BY <1>1
  <2> QED BY <2>1, <2>2, <2>3 DEF InOrder
<1>5. WellFormedGraph' = WellFormedGraph
  BY <1>2 DEF WellFormedGraph, DependsOnOthers, Bound
<1>6. Acyclic' = Acyclic
  BY <1>2 DEF Acyclic
<1> QED BY <1>1, <1>2, <1>4, <1>5, <1>6

-----------------------------------------------------------------------------
(* The steps *)

LEMMA InitCompiler == Init => CompilerInv
<1> SUFFICES ASSUME Init PROVE CompilerInv
  OBVIOUS
<1>1. CompilerTypeOK
  <2>1. uses \in [Phase -> [Phase \cup {Stray} -> Nat]]
    BY GraphAssumption, Zenon DEF Init, GraphAssumption
  <2>2. source \in [Phase -> Phase \cup {None}]
    BY GraphAssumption, Zenon DEF Init, GraphAssumption
  <2>3. waiting \in [Phase -> SUBSET Phase]
    BY DEF Init
  <2>4. order \in Seq(Phase) /\ ready \in SUBSET Phase
    BY DEF Init
  <2>5. compiled \in {"unread", "ordering"} \cup Verdict
    BY DEF Init
  <2> QED BY <2>1, <2>2, <2>3, <2>4, <2>5 DEF CompilerTypeOK
<1>2. Ordered = {} /\ Len(order) = 0
  BY DEF Init, Ordered
<1>3. InOrder
  BY <1>2, FS_EmptySet DEF InOrder, Init
<1> QED BY <1>1, <1>3 DEF Init, CompilerInv, Verdict

\* The step that reads the definition.
LEMMA ReadWorkflowStep == CompilerInv /\ ReadWorkflow => CompilerInv'
<1> SUFFICES ASSUME CompilerInv, ReadWorkflow PROVE CompilerInv'
  OBVIOUS
<1>0. /\ CompilerTypeOK /\ InOrder /\ order = <<>> /\ ready = {}
      /\ UNCHANGED <<uses, source, order, ready>>
  BY DEF CompilerInv, ReadWorkflow, workflow
<1>1. InOrder' /\ Ordered' = Ordered /\ Ordered = {}
  BY <1>0, Unchanged DEF Ordered
<1>2. WellFormedGraph' = WellFormedGraph /\ (\A p : Dependencies(p)' = Dependencies(p))
  BY <1>0, Unchanged
<1>3. CASE WellFormedGraph
  <2>1. compiled' = "ordering" /\ waiting' = [p \in Phase |-> Dependencies(p)]
    BY <1>3 DEF ReadWorkflow, WellFormedGraph
  <2>2. \A p \in Phase : Dependencies(p) \subseteq Phase
    BY <1>3 DEF WellFormedGraph, DependsOnOthers
  <2>3. CompilerTypeOK'
    BY <1>0, <2>1, <2>2 DEF CompilerTypeOK
  <2>4. waiting' = [p \in Phase |-> Dependencies(p) \ Ordered]'
    BY <1>1, <1>2, <2>1
  <2> QED BY <1>0, <1>1, <1>2, <1>3, <2>1, <2>3, <2>4 DEF CompilerInv
<1>4. CASE ~WellFormedGraph
  <2>1. compiled' = "rejected" /\ UNCHANGED waiting
    BY <1>4 DEF ReadWorkflow, WellFormedGraph
  <2>2. CompilerTypeOK'
    BY <1>0, <2>1 DEF CompilerTypeOK, Verdict
  <2> QED BY <1>0, <1>1, <1>2, <1>4, <2>1, <2>2 DEF CompilerInv
<1> QED BY <1>3, <1>4

\* A round: when nothing is ready, what is left is a cycle.
LEMMA RoundStep == CompilerInv /\ Round => CompilerInv'
<1> SUFFICES ASSUME CompilerInv, Round PROVE CompilerInv'
  OBVIOUS
<1>0. /\ CompilerTypeOK /\ InOrder /\ WellFormedGraph
      /\ waiting = [p \in Phase |-> Dependencies(p) \ Ordered]
      /\ compiled = "ordering" /\ Len(order) < Cardinality(Phase)
      /\ UNCHANGED <<uses, source, order, waiting>>
      /\ ready' = Ready
  BY DEF CompilerInv, Round, workflow
<1>1. /\ InOrder' /\ Ordered' = Ordered /\ WellFormedGraph' /\ Acyclic' = Acyclic
      /\ \A p : Dependencies(p)' = Dependencies(p)
  BY <1>0, Unchanged
<1>2. \A p \in Ready : p \in Phase /\ p \notin Ordered /\ Dependencies(p) \subseteq Ordered
  BY <1>0 DEF Ready
<1>3. waiting' = [p \in Phase |-> Dependencies(p) \ Ordered]'
  BY <1>0, <1>1
<1>4. CASE Ready # {}
  <2>1. compiled' = "ordering"
    BY <1>0, <1>4 DEF Round
  <2>2. CompilerTypeOK'
    BY <1>0, <1>2, <2>1 DEF CompilerTypeOK
  <2> QED BY <1>0, <1>1, <1>2, <1>3, <2>1, <2>2 DEF CompilerInv
<1>5. CASE Ready = {}
  <2>1. compiled' = "rejected"
    BY <1>5 DEF Round
  <2>2. CompilerTypeOK'
    BY <1>0, <1>2, <2>1 DEF CompilerTypeOK, Verdict
  <2>3. Ordered \subseteq Phase /\ Ordered # Phase
    BY <1>0, OrderedFinite DEF CompilerTypeOK, InOrder
  <2>4. \A p \in Phase \ Ordered : Dependencies(p) \cap (Phase \ Ordered) # {}
    BY <1>0, <1>5 DEF Ready, WellFormedGraph, DependsOnOthers
  <2>5. ~Acyclic
    BY <2>3, <2>4 DEF Acyclic
  <2> QED BY <1>0, <1>1, <2>1, <2>2, <2>5 DEF CompilerInv
<1> QED BY <1>4, <1>5

\* Placing a phase keeps what is ordered acyclic: a set that holds another
\* ordered phase has one without dependencies in it already, and that one
\* does not depend on the new phase.
LEMMA PlaceStep ==
  ASSUME CompilerInv, NEW p \in Phase, Place(p)
  PROVE  CompilerInv'
<1>0. /\ CompilerTypeOK /\ InOrder /\ WellFormedGraph
      /\ compiled = "ordering" /\ compiled' = compiled
      /\ UNCHANGED <<uses, source>>
      /\ order' = Append(order, p)
      /\ p \in ready /\ p \notin Ordered /\ Dependencies(p) \subseteq Ordered
      /\ ready' = ready \ {p}
      /\ waiting = [q \in Phase |-> Dependencies(q) \ Ordered]
      /\ waiting' = [q \in Phase |-> waiting[q] \ {p}]
      /\ \A q \in ready : q \notin Ordered /\ Dependencies(q) \subseteq Ordered
  BY DEF CompilerInv, Place, FirstDeclared, workflow
<1>1. order \in Seq(Phase) /\ Len(order) \in Nat
  BY <1>0 DEF CompilerTypeOK
<1>2. /\ Ordered' = Ordered \cup {p}
      /\ Len(order') = Len(order) + 1
      /\ order'[Len(order) + 1] = p
      /\ \A i \in 1..Len(order) : order'[i] = order[i]
      /\ {order'[j] : j \in 1..Len(order)} = Ordered
      /\ \A i \in 1..Len(order) : Place1(i)' = Place1(i)
  BY <1>0, <1>1, OrderedAppend
<1>3. WellFormedGraph' /\ (\A q : Dependencies(q)' = Dependencies(q))
  BY <1>0 DEF WellFormedGraph, DependsOnOthers, Bound, Dependencies
<1>4. CompilerTypeOK'
  <2>1. order' \in Seq(Phase)
    BY <1>0, <1>1
  <2>2. waiting' \in [Phase -> SUBSET Phase]
    BY <1>0 DEF CompilerTypeOK
  <2> QED BY <1>0, <2>1, <2>2 DEF CompilerTypeOK
<1>5. waiting' = [q \in Phase |-> Dependencies(q) \ Ordered]'
  BY <1>0, <1>2, <1>3
<1>6. \A q \in ready' : q \notin Ordered' /\ Dependencies(q)' \subseteq Ordered'
  BY <1>0, <1>2, <1>3
<1>7. InOrder'
  <2>1. ASSUME NEW i \in 1..Len(order')
        PROVE  (Dependencies(order[i]) \subseteq Place1(i))'
    <3>1. CASE i = Len(order) + 1
      <4>1. i - 1 = Len(order)
        BY <1>1, <3>1
      <4>2. Place1(i)' = Ordered
        BY <1>2, <4>1 DEF Place1
      <4> QED BY <1>0, <1>2, <1>3, <3>1, <4>2
    <3>2. CASE i \in 1..Len(order)
      BY <1>0, <1>2, <1>3, <3>2 DEF InOrder
    <3> QED BY <1>1, <1>2, <3>1, <3>2
  <2>2. ASSUME NEW S \in SUBSET (Ordered \cup {p}), S # {}
        PROVE  \E q \in S : Dependencies(q) \cap S = {}
    <3>1. CASE S \cap Ordered = {}
      BY <1>0, <2>2, <3>1
    <3>2. CASE S \cap Ordered # {}
      <4>1. PICK q \in S \cap Ordered : Dependencies(q) \cap (S \cap Ordered) = {}
        BY <1>0, <3>2 DEF InOrder
      <4>2. PICK i \in 1..Len(order) : q = order[i]
        BY <4>1 DEF Ordered
      <4>3. Dependencies(q) \subseteq Ordered
        <5>1. Dependencies(q) \subseteq Place1(i)
          BY <1>0, <4>2 DEF InOrder
        <5>2. Place1(i) \subseteq Ordered
          BY <1>1, <4>2 DEF Place1, Ordered
        <5> QED BY <5>1, <5>2
      <4> QED BY <1>0, <2>2, <4>1, <4>3
    <3> QED BY <3>1, <3>2
  <2>3. Cardinality(Ordered') = Len(order')
    <3>1. IsFiniteSet(Ordered)
      BY <1>1, OrderedFinite
    <3>2. Cardinality(Ordered \cup {p}) = Cardinality(Ordered) + 1
      BY <1>0, <3>1, FS_AddElement
    <3> QED BY <1>0, <1>2, <3>2 DEF InOrder
  <2>4. (\A i \in 1..Len(order) : Dependencies(order[i]) \subseteq Place1(i))'
    BY <2>1
  <2>5. (\A S \in SUBSET Ordered : S # {} => \E q \in S : Dependencies(q) \cap S = {})'
    BY <1>2, <1>3, <2>2
  <2> QED BY <2>3, <2>4, <2>5 DEF InOrder
<1> QED BY <1>0, <1>3, <1>4, <1>5, <1>6, <1>7 DEF CompilerInv

\* As many phases ordered as there are: all of them are.
LEMMA AcceptStep == CompilerInv /\ Accept => CompilerInv'
<1> SUFFICES ASSUME CompilerInv, Accept PROVE CompilerInv'
  OBVIOUS
<1>0. /\ CompilerTypeOK /\ InOrder /\ WellFormedGraph
      /\ compiled' = "accepted" /\ Len(order) >= Cardinality(Phase)
      /\ UNCHANGED <<uses, source, order, ready, waiting>>
  BY DEF CompilerInv, Accept, workflow
<1>1. /\ InOrder' /\ Ordered' = Ordered /\ WellFormedGraph'
  BY <1>0, Unchanged
<1>2. CompilerTypeOK'
  BY <1>0 DEF CompilerTypeOK, Verdict
<1>3. Ordered = Phase
  <2>1. Ordered \subseteq Phase /\ IsFiniteSet(Phase)
    BY <1>0, OrderedFinite, GraphAssumption DEF CompilerTypeOK, GraphAssumption
  <2>2. /\ Cardinality(Ordered) <= Cardinality(Phase)
        /\ Cardinality(Phase) = Cardinality(Ordered) => Phase = Ordered
        /\ Cardinality(Phase) \in Nat
    BY <2>1, FS_Subset, FS_CardinalityType
  <2> QED BY <1>0, <2>2 DEF InOrder, CompilerTypeOK
<1> QED BY <1>0, <1>1, <1>2, <1>3 DEF CompilerInv

\* The store only reads the graph, and a stuttering step changes nothing.
LEMMA StoreStep ==
  CompilerInv /\ UNCHANGED <<workflow, compiler>> => CompilerInv'
<1> SUFFICES ASSUME CompilerInv, UNCHANGED <<workflow, compiler>>
             PROVE  CompilerInv'
  OBVIOUS
<1>0. UNCHANGED <<uses, source, order, compiled, waiting, ready>>
  BY DEF workflow, compiler
<1>1. /\ Ordered' = Ordered
      /\ \A p : Dependencies(p)' = Dependencies(p)
      /\ InOrder' = InOrder
      /\ WellFormedGraph' = WellFormedGraph
      /\ Acyclic' = Acyclic
  BY <1>0, Unchanged
<1>2. CompilerTypeOK' = CompilerTypeOK
  BY <1>0 DEF CompilerTypeOK
<1> QED BY <1>0, <1>1, <1>2 DEF CompilerInv

\* The invariant of the compiler (validateWorkflow, registry.ts:94-165).
THEOREM CompilerInvariant == Spec => []CompilerInv
<1>1. CompilerInv /\ [Next]_vars => CompilerInv'
  <2> SUFFICES ASSUME CompilerInv, [Next]_vars PROVE CompilerInv'
    OBVIOUS
  <2>1. CASE ReadWorkflow
    BY <2>1, ReadWorkflowStep
  <2>2. CASE Round
    BY <2>2, RoundStep
  <2>3. CASE Accept
    BY <2>3, AcceptStep
  <2>4. ASSUME NEW p \in Phase, Place(p) PROVE CompilerInv'
    BY <2>4, PlaceStep
  <2>5. CASE ReadPhases \/ Admit \/ \E p \in Phase : CountDown(p)
    BY <2>5, StoreStep DEF ReadPhases, Admit, CountDown
  <2>6. CASE UNCHANGED vars
    BY <2>6, StoreStep DEF vars
  <2> QED BY <2>1, <2>2, <2>3, <2>4, <2>5, <2>6 DEF Next
<1> QED BY <1>1, InitCompiler, PTL DEF Spec

-----------------------------------------------------------------------------
(* The theorems *)

\* For every finite workflow: what is accepted is well formed and acyclic,
\* and what is rejected is not (registry.ts:117-162).
THEOREM CompilerExact == Spec => []CompilesExactly
<1>1. CompilerInv => CompilesExactly
  BY DEF CompilerInv, CompilesExactly, InOrder, Acyclic, WellFormedGraph
<1> QED BY <1>1, CompilerInvariant, PTL

\* For every finite workflow: an accepted order holds each phase, after its
\* dependencies and after the source of its input (registry.ts:131-162).
THEOREM CompiledOrder == Spec => []InputsComeFirst
<1>1. CompilerInv => InputsComeFirst
  <2> SUFFICES ASSUME CompilerInv, compiled = "accepted", NEW p \in Phase
               PROVE  \E i \in 1..Len(order) :
                        /\ order[i] = p
                        /\ Dependencies(p) \cup ({source[p]} \ {None})
                             \subseteq {order[j] : j \in 1..(i - 1)}
    BY DEF InputsComeFirst
  <2>1. PICK i \in 1..Len(order) : order[i] = p
    BY DEF CompilerInv, Ordered
  <2>2. Dependencies(p) \subseteq Place1(i)
    BY <2>1 DEF CompilerInv, InOrder
  <2>3. source[p] # None => source[p] \in Dependencies(p)
    BY DEF CompilerInv, WellFormedGraph, Bound
  <2> QED BY <2>1, <2>2, <2>3 DEF Place1
<1> QED BY <1>1, CompilerInvariant, PTL
-----------------------------------------------------------------------------
(* Sums over finite sets *)

\* Every set of natural numbers has a least one.
LEMMA LeastNatural ==
  ASSUME NEW T, T \subseteq Nat, T # {}
  PROVE  \E m \in T : \A k \in T : m <= k
<1> DEFINE R == {ss \in Nat \X Nat : ss[1] < ss[2]}
<1>1. IsWellFoundedOn(R, Nat)
  BY NatLessThanWellFounded DEF OpToRel
<1>2. PICK m \in T : \A k \in T : ~(<<k, m>> \in R)
  <2> HIDE DEF R
  <2> QED BY <1>1, WFMin
<1>3. ASSUME NEW k \in T PROVE m <= k
  <2>1. ~(<<k, m>> \in R)
    BY <1>2
  <2> QED BY <2>1
<1> QED BY <1>3

\* What the empty set has, and every subset whose smaller subsets have it,
\* every subset of a finite set has.
LEMMA SubsetInduction ==
  ASSUME NEW D, IsFiniteSet(D), NEW C, {} \in C,
         \A S \in SUBSET D : S # {} /\ (\A x \in S : S \ {x} \in C) => S \in C
  PROVE  SUBSET D \subseteq C
<1> DEFINE T == {Cardinality(S) : S \in (SUBSET D) \ C}
<1>1. \A S \in SUBSET D : IsFiniteSet(S) /\ Cardinality(S) \in Nat
  BY FS_Subset, FS_CardinalityType
<1>2. SUFFICES ASSUME T # {} PROVE FALSE
  OBVIOUS
<1>3. PICK m \in T : \A k \in T : m <= k
  <2>1. T \subseteq Nat
    BY <1>1
  <2> HIDE DEF T
  <2> QED BY <1>2, <2>1, LeastNatural
<1>4. PICK S \in (SUBSET D) \ C : m = Cardinality(S)
  OBVIOUS
<1>5. ASSUME NEW x \in S PROVE S \ {x} \in C
  <2>1. Cardinality(S \ {x}) = Cardinality(S) - 1
    BY <1>1, FS_RemoveElement
  <2>2. SUFFICES ASSUME S \ {x} \notin C PROVE FALSE
    OBVIOUS
  <2>3. Cardinality(S \ {x}) \in T
    BY <2>2
  <2>4. m <= Cardinality(S \ {x})
    BY <1>3, <2>3
  <2> QED BY <1>1, <1>4, <2>1, <2>4
<1> QED BY <1>4, <1>5

Pick(S) == CHOOSE x \in S : TRUE

Rest(S) == S \ {Pick(S)}

\* g gives the sum of f over every subset of D.
Sums(g, f, D) ==
  g = [S \in SUBSET D |-> IF S = {} THEN 0 ELSE f[Pick(S)] + g[Rest(S)]]

LEMMA RestIsLess ==
  ASSUME NEW D, IsFiniteSet(D), NEW S \in SUBSET D, S # {}
  PROVE  /\ Pick(S) \in S /\ Rest(S) \in SUBSET D
         /\ Cardinality(S) \in Nat /\ Cardinality(Rest(S)) = Cardinality(S) - 1
<1>1. Pick(S) \in S
  BY DEF Pick
<1>2. IsFiniteSet(S) /\ Cardinality(S) \in Nat
  BY FS_Subset, FS_CardinalityType
<1> QED BY <1>1, <1>2, FS_RemoveElement DEF Rest

\* Sums are well defined: those of the subsets with at most n elements
\* extend to those with n + 1.
LEMMA SumsExist ==
  ASSUME NEW D, IsFiniteSet(D), NEW f \in [D -> Nat]
  PROVE  \E g : Sums(g, f, D) /\ g \in [SUBSET D -> Nat]
<1> DEFINE
      Upto(g, n) == \A S \in SUBSET D :
        Cardinality(S) <= n => g[S] = IF S = {} THEN 0 ELSE f[Pick(S)] + g[Rest(S)]
      N == {n \in Nat : \E g \in [SUBSET D -> Nat] : Upto(g, n)}
<1>0. \A S \in SUBSET D : Cardinality(S) \in Nat
  BY FS_Subset, FS_CardinalityType
<1>1. 0 \in N
  <2> DEFINE g == [S \in SUBSET D |-> 0]
  <2>1. ASSUME NEW S \in SUBSET D, Cardinality(S) <= 0 PROVE S = {}
    BY <1>0, <2>1, FS_Subset, FS_EmptySet
  <2>2. g \in [SUBSET D -> Nat] /\ Upto(g, 0)
    BY <2>1
  <2> QED BY <2>2
<1>2. ASSUME NEW n \in N PROVE n + 1 \in N
  <2>1. PICK g \in [SUBSET D -> Nat] : Upto(g, n)
    OBVIOUS
  <2> DEFINE h == [S \in SUBSET D |->
                     IF Cardinality(S) <= n THEN g[S] ELSE f[Pick(S)] + g[Rest(S)]]
  <2>2. ASSUME NEW S \in SUBSET D, Cardinality(S) > n
        PROVE  S # {} /\ Pick(S) \in S /\ Rest(S) \in SUBSET D
    <3>0. n \in Nat
      OBVIOUS
    <3> HIDE DEF h, N, Upto
    <3>1. S = {} => Cardinality(S) = 0
      BY FS_EmptySet, Zenon
    <3>2. S # {}
      BY <2>2, <3>0, <3>1
    <3> QED BY <3>2, RestIsLess
  <2>3. h \in [SUBSET D -> Nat]
    BY <1>0, <2>2
  <2>4. ASSUME NEW S \in SUBSET D, S # {}, Cardinality(S) <= n + 1
        PROVE  h[Rest(S)] = g[Rest(S)]
    <3>1. Rest(S) \in SUBSET D /\ Cardinality(Rest(S)) <= n
      BY <2>4, RestIsLess
    <3> QED BY <3>1
  <2>5. ASSUME NEW S \in SUBSET D, Cardinality(S) <= n + 1
        PROVE  h[S] = IF S = {} THEN 0 ELSE f[Pick(S)] + h[Rest(S)]
    <3>1. CASE Cardinality(S) <= n
      <4>1. h[S] = g[S] /\ g[S] = IF S = {} THEN 0 ELSE f[Pick(S)] + g[Rest(S)]
        BY <2>1, <3>1
      <4> HIDE DEF h
      <4> QED BY <2>4, <2>5, <4>1
    <3>2. CASE ~(Cardinality(S) <= n)
      <4>1. S # {}
        BY <1>0, <2>2, <3>2
      <4>2. h[S] = f[Pick(S)] + g[Rest(S)]
        BY <3>2
      <4> HIDE DEF h
      <4> QED BY <2>4, <2>5, <4>1, <4>2
    <3> QED BY <3>1, <3>2
  <2>6. Upto(h, n + 1)
    <3> HIDE DEF h
    <3> QED BY <2>5
  <2> HIDE DEF h, Upto
  <2> QED BY <2>3, <2>6
<1>3. Cardinality(D) \in N
  <2>1. SUFFICES ASSUME Nat \ N # {} PROVE FALSE
    BY <1>0
  <2>2. PICK m \in Nat \ N : \A k \in Nat \ N : m <= k
    <3> HIDE DEF N
    <3> QED BY <2>1, LeastNatural
  <2>3. m - 1 \in N
    <3> HIDE DEF N
    <3> QED BY <1>1, <2>2
  <2>4. (m - 1) + 1 \in N
    <3> HIDE DEF N
    <3> QED BY <1>2, <2>3
  <2> HIDE DEF N
  <2> QED BY <2>2, <2>4
<1>4. PICK g \in [SUBSET D -> Nat] : Upto(g, Cardinality(D))
  BY <1>3
<1>5. \A S \in SUBSET D : Cardinality(S) <= Cardinality(D)
  BY FS_Subset
<1>6. \A S \in SUBSET D : g[S] = IF S = {} THEN 0 ELSE f[Pick(S)] + g[Rest(S)]
  BY <1>4, <1>5
<1>7. Sums(g, f, D)
  BY <1>6 DEF Sums
<1> QED BY <1>7

\* Any element may be taken out of a sum, whichever the definition picks.
Splits(g, f, D) == \A S \in SUBSET D : \A p \in S : g[S] = f[p] + g[S \ {p}]

LEMMA SumsSplit ==
  ASSUME NEW D, IsFiniteSet(D), NEW f \in [D -> Nat], NEW g \in [SUBSET D -> Nat],
         Sums(g, f, D)
  PROVE  Splits(g, f, D)
<1> DEFINE C == {X \in SUBSET D : \A x \in X : g[X] = f[x] + g[X \ {x}]}
<1>1. ASSUME NEW X \in SUBSET D, X # {}, \A x \in X : X \ {x} \in C
      PROVE  X \in C
  <2>1. /\ Pick(X) \in X /\ Rest(X) \in SUBSET D
        /\ g[X] = f[Pick(X)] + g[Rest(X)] /\ Rest(X) = X \ {Pick(X)}
    BY <1>1, RestIsLess DEF Sums, Rest
  <2>2. ASSUME NEW x \in X PROVE g[X] = f[x] + g[X \ {x}]
    <3>1. CASE x = Pick(X)
      BY <2>1, <3>1
    <3>2. CASE x # Pick(X)
      <4>1. g[Rest(X)] = f[x] + g[Rest(X) \ {x}]
        BY <1>1, <2>1, <3>2
      <4>2. g[X \ {x}] = f[Pick(X)] + g[(X \ {x}) \ {Pick(X)}]
        BY <1>1, <2>1, <3>2
      <4>3. (X \ {x}) \ {Pick(X)} = Rest(X) \ {x}
        BY <2>1
      <4>4. f[x] \in Nat /\ f[Pick(X)] \in Nat /\ g[Rest(X) \ {x}] \in Nat
        BY <2>1
      <4>5. g[X \ {x}] = f[Pick(X)] + g[Rest(X) \ {x}]
        BY <4>2, <4>3, Zenon
      <4>6. g[X] = f[Pick(X)] + (f[x] + g[Rest(X) \ {x}])
        BY <2>1, <4>1, Zenon
      <4> HIDE DEF C
      <4> QED BY <4>4, <4>5, <4>6
    <3> QED BY <3>1, <3>2
  <2> QED BY <2>2
<1>2. {} \in C
  OBVIOUS
<1>3. SUBSET D \subseteq C
  <2> HIDE DEF C
  <2> QED BY <1>1, <1>2, SubsetInduction
<1> QED BY <1>3 DEF Splits

\* A sum of counts is zero exactly when there is nothing to count.
LEMMA SumsZero ==
  ASSUME NEW D, IsFiniteSet(D), NEW f \in [D -> Nat], NEW g \in [SUBSET D -> Nat],
         Sums(g, f, D), NEW S \in SUBSET D
  PROVE  g[S] = 0 <=> \A p \in S : f[p] = 0
<1> DEFINE C == {X \in SUBSET D : g[X] = 0 <=> \A x \in X : f[x] = 0}
<1>1. ASSUME NEW X \in SUBSET D, X # {}, \A x \in X : X \ {x} \in C
      PROVE  X \in C
  <2>1. PICK x \in X : TRUE
    BY <1>1
  <2>2. g[X] = f[x] + g[X \ {x}]
    BY SumsSplit DEF Splits
  <2>3. g[X \ {x}] = 0 <=> \A y \in X \ {x} : f[y] = 0
    BY <1>1
  <2>4. f[x] \in Nat /\ g[X \ {x}] \in Nat
    OBVIOUS
  <2>5. g[X] = 0 <=> f[x] = 0 /\ g[X \ {x}] = 0
    BY <2>2, <2>4
  <2> QED BY <2>3, <2>5
<1>2. {} \in C
  BY DEF Sums
<1>3. SUBSET D \subseteq C
  <2> HIDE DEF C
  <2> QED BY <1>1, <1>2, SubsetInduction
<1> QED BY <1>3

\* SumFunction adds up all values of a function.
LEMMA SumFunctionSums ==
  ASSUME NEW D, IsFiniteSet(D), NEW f \in [D -> Nat]
  PROVE  \E g \in [SUBSET D -> Nat] : Sums(g, f, D) /\ SumFunction(f) = g[D]
<1> DEFINE iter == CHOOSE g : Sums(g, f, D)
<1>1. PICK g : Sums(g, f, D) /\ g \in [SUBSET D -> Nat]
  BY SumsExist
<1>2. Sums(iter, f, D)
  BY <1>1
<1>3. SumFunction(f) = iter[D]
  <2>1. DOMAIN f = D
    OBVIOUS
  <2> QED BY <2>1, Zenon
       DEF SumFunction, SumFunctionOnSet, FoldFunctionOnSet, MapThenFoldSet, Pick, Rest, Sums
<1>4. iter = g
  <2>0. \A S \in SUBSET D : iter[S] = IF S = {} THEN 0 ELSE f[Pick(S)] + iter[Rest(S)]
    <3> HIDE DEF iter
    <3> QED BY <1>2 DEF Sums
  <2>1. \A S \in SUBSET D : g[S] = IF S = {} THEN 0 ELSE f[Pick(S)] + g[Rest(S)]
    BY <1>1 DEF Sums
  <2> DEFINE C == {X \in SUBSET D : iter[X] = g[X]}
  <2>2. ASSUME NEW X \in SUBSET D, X # {}, \A x \in X : X \ {x} \in C
        PROVE  X \in C
    <3>1. Pick(X) \in X /\ Rest(X) = X \ {Pick(X)}
      BY <2>2, RestIsLess DEF Rest
    <3> HIDE DEF iter
    <3> QED BY <2>0, <2>1, <2>2, <3>1
  <2>3. {} \in C
    <3> HIDE DEF iter
    <3> QED BY <2>0, <2>1
  <2>4. SUBSET D \subseteq C
    <3> HIDE DEF C
    <3> QED BY <2>2, <2>3, SubsetInduction
  <2>5. \A X \in SUBSET D : iter[X] = g[X]
    BY <2>4
  <2>6. iter = [X \in SUBSET D |-> iter[X]] /\ g = [X \in SUBSET D |-> g[X]]
    <3>1. DOMAIN iter = SUBSET D
      <4> HIDE DEF iter
      <4> QED BY <1>2 DEF Sums
    <3>2. iter = [S \in SUBSET D |-> IF S = {} THEN 0 ELSE f[Pick(S)] + iter[Rest(S)]]
      <4> HIDE DEF iter
      <4> QED BY <1>2 DEF Sums
    <3> HIDE DEF iter
    <3> QED BY <1>1, <3>1, <3>2
  <2> HIDE DEF iter
  <2> QED BY <2>5, <2>6
<1> HIDE DEF iter
<1> QED BY <1>1, <1>3, <1>4

-----------------------------------------------------------------------------
(* The admission by create_run *)

\* What a phase may list, itself and strays included.
Listing == Phase \cup {Stray}

\* How often a phase lists what has not been handled.
Left(q, n) ==
  \E g \in [SUBSET Listing -> Nat] :
    Sums(g, uses[q], Listing) /\ n = g[Listing \ handled]

\* What is queued waits for nothing more, and what has been handled is closed
\* under dependencies and acyclic.
Counted ==
  /\ left \in [Phase -> Nat]
  /\ \A q \in Phase : Left(q, left[q])
  /\ queued = {q \in Phase : Dependencies(q) \subseteq handled}
  /\ handled \subseteq queued
  /\ \A S \in SUBSET handled : S # {} => \E p \in S : Dependencies(p) \cap S = {}

NoStray == \A p \in Phase : uses[p][Stray] = 0

AdmissionInv ==
  /\ stored \in {"unread", "counting"} \cup Verdict
  /\ stored = "unread" => handled = {} /\ queued = {}
  /\ stored # "unread" => compiled \in Verdict
  /\ stored = "counting" => NoStray /\ Counted
  /\ stored = "accepted" => NoStray /\ Acyclic
  /\ stored = "rejected" => compiled = "rejected" /\ ~(NoStray /\ Acyclic)

LEMMA ListingFinite == IsFiniteSet(Listing)
BY GraphAssumption, FS_Union, FS_Singleton DEF Listing, GraphAssumption

LEMMA UsesCount ==
  ASSUME CompilerTypeOK, NEW q \in Phase
  PROVE  uses[q] \in [Listing -> Nat] /\ Dependencies(q) = {d \in Listing : uses[q][d] # 0}
<1>1. uses[q] \in [Listing -> Nat]
  BY DEF CompilerTypeOK, Listing
<1>2. \A d \in Listing : uses[q][d] > 0 <=> uses[q][d] # 0
  <2> SUFFICES ASSUME NEW d \in Listing PROVE uses[q][d] > 0 <=> uses[q][d] # 0
    OBVIOUS
  <2>1. uses[q][d] \in Nat
    BY <1>1
  <2> QED BY <2>1
<1> QED BY <1>1, <1>2 DEF Listing, Dependencies

\* What the sums say of the subsets of a listing.
LEMMA ListingSums ==
  ASSUME CompilerTypeOK, NEW q \in Phase, NEW g \in [SUBSET Listing -> Nat],
         Sums(g, uses[q], Listing)
  PROVE  /\ \A S \in SUBSET Listing : g[S] = 0 <=> \A d \in S : uses[q][d] = 0
         /\ \A S \in SUBSET Listing : \A p \in S : g[S] = uses[q][p] + g[S \ {p}]
<1> DEFINE f == uses[q]
<1>1. f \in [Listing -> Nat] /\ Sums(g, f, Listing)
  BY UsesCount
<1> HIDE DEF f
<1>2. ASSUME NEW S \in SUBSET Listing PROVE g[S] = 0 <=> \A d \in S : f[d] = 0
  BY <1>1, ListingFinite, SumsZero
<1>3. Splits(g, f, Listing)
  BY <1>1, ListingFinite, SumsSplit
<1>4. \A X \in SUBSET Listing : \A x \in X : g[X] = f[x] + g[X \ {x}]
  BY <1>3 DEF Splits
<1> QED BY <1>2, <1>4 DEF f

\* What validateWorkflow accepts has no stray dependency and no cycle.
LEMMA AcceptedIsAcyclic ==
  ASSUME CompilerInv, compiled = "accepted"
  PROVE  NoStray /\ Acyclic
<1>1. /\ WellFormedGraph /\ Ordered = Phase
      /\ \A S \in SUBSET Ordered : S # {} => \E p \in S : Dependencies(p) \cap S = {}
      /\ CompilerTypeOK
  BY DEF CompilerInv, InOrder
<1>2. NoStray
  <2> SUFFICES ASSUME NEW p \in Phase PROVE uses[p][Stray] = 0
    BY DEF NoStray
  <2>1. Stray \notin Dependencies(p)
    BY <1>1, GraphAssumption DEF WellFormedGraph, DependsOnOthers, GraphAssumption
  <2> QED BY <1>1, <2>1, UsesCount DEF Listing
<1> QED BY <1>1, <1>2 DEF Acyclic

LEMMA InitAdmission == Init => AdmissionInv
BY DEF Init, AdmissionInv, Verdict

\* The graph does not change, and the compiler keeps its verdict.
LEMMA AdmissionStays ==
  ASSUME AdmissionInv, UNCHANGED <<uses, source, stored, left, queued, handled>>,
         compiled \in Verdict => compiled' = compiled
  PROVE  AdmissionInv'
<1>1. \A p : Dependencies(p)' = Dependencies(p)
  BY DEF Dependencies
<1>2. NoStray' = NoStray /\ Acyclic' = Acyclic
  BY <1>1 DEF NoStray, Acyclic
<1>3. Counted' = Counted
  BY <1>1 DEF Counted, Left
<1> QED BY <1>2, <1>3 DEF AdmissionInv

LEMMA CompilerKeepsAdmission ==
  ASSUME AdmissionInv, ReadWorkflow \/ Round \/ Accept \/ (\E p \in Phase : Place(p))
  PROVE  AdmissionInv'
<1>1. UNCHANGED <<uses, source, stored, left, queued, handled>>
  BY DEF ReadWorkflow, Round, Accept, Place, workflow, admission
<1>2. compiled \notin Verdict
  BY DEF ReadWorkflow, Round, Accept, Place, Verdict
<1> QED BY <1>1, <1>2, AdmissionStays

LEMMA ReadPhasesStep == CompilerInv /\ AdmissionInv /\ ReadPhases => AdmissionInv'
<1> SUFFICES ASSUME CompilerInv, AdmissionInv, ReadPhases PROVE AdmissionInv'
  OBVIOUS
<1>0. /\ CompilerTypeOK /\ compiled \in Verdict /\ handled = {}
      /\ UNCHANGED <<uses, source, compiled, handled>>
  BY DEF CompilerInv, AdmissionInv, ReadPhases, workflow, compiler
<1>1. /\ \A p : Dependencies(p)' = Dependencies(p)
      /\ NoStray' = NoStray /\ Acyclic' = Acyclic
  BY <1>0 DEF Dependencies, NoStray, Acyclic
<1>2. \A p \in Phase : uses[p][Stray] \in Nat
  BY <1>0 DEF CompilerTypeOK
<1>3. CASE \E p \in Phase : uses[p][Stray] > 0
  <2>1. stored' = "rejected" /\ ~NoStray
    BY <1>2, <1>3 DEF ReadPhases, NoStray
  <2>2. compiled = "rejected"
    BY <1>0, <2>1, AcceptedIsAcyclic DEF Verdict
  <2> QED BY <1>0, <1>1, <2>1, <2>2 DEF AdmissionInv, Verdict
<1>4. CASE ~\E p \in Phase : uses[p][Stray] > 0
  <2>1. /\ stored' = "counting"
        /\ left' = [p \in Phase |-> Listed(p)]
        /\ queued' = {p \in Phase : Listed(p) = 0}
    BY <1>4 DEF ReadPhases
  <2>2. NoStray
    BY <1>2, <1>4 DEF NoStray
  <2>3. ASSUME NEW q \in Phase
        PROVE  /\ Listed(q) \in Nat
               /\ \E g \in [SUBSET Listing -> Nat] :
                    Sums(g, uses[q], Listing) /\ Listed(q) = g[Listing]
               /\ Listed(q) = 0 <=> Dependencies(q) \subseteq {}
    <3>1. uses[q] \in [Listing -> Nat] /\ Dependencies(q) = {d \in Listing : uses[q][d] # 0}
      BY <1>0, UsesCount
    <3>2. PICK g \in [SUBSET Listing -> Nat] :
            Sums(g, uses[q], Listing) /\ Listed(q) = g[Listing]
      BY <3>1, ListingFinite, SumFunctionSums DEF Listed
    <3>3. g[Listing] \in Nat
      BY <3>2
    <3>4. g[Listing] = 0 <=> \A d \in Listing : uses[q][d] = 0
      BY <3>1, <3>2, ListingFinite, SumsZero
    <3> QED BY <3>1, <3>2, <3>3, <3>4
  <2>4. Listing \ handled = Listing
    BY <1>0
  <2>5. \A q \in Phase : Left(q, left[q])'
    BY <1>0, <2>1, <2>3, <2>4 DEF Left
  <2>6. queued' = {q \in Phase : Dependencies(q) \subseteq handled}
    BY <1>0, <2>1, <2>3
  <2>7. Counted'
    <3>1. left' \in [Phase -> Nat]
      BY <2>1, <2>3
    <3> QED BY <1>0, <1>1, <2>5, <2>6, <3>1 DEF Counted
  <2> QED BY <1>0, <1>1, <2>1, <2>2, <2>7 DEF AdmissionInv
<1> QED BY <1>3, <1>4

\* Handling a phase takes what others list of it out of their counts.
LEMMA CountDownStep ==
  ASSUME CompilerInv, AdmissionInv, NEW p \in Phase, CountDown(p)
  PROVE  AdmissionInv'
<1>0. /\ CompilerTypeOK /\ compiled \in Verdict /\ NoStray /\ Counted
      /\ stored = "counting" /\ stored' = stored
      /\ p \in queued \ handled /\ handled' = handled \cup {p}
      /\ left' = [q \in Phase |-> left[q] - uses[q][p]]
      /\ queued' = queued \cup {q \in Phase : uses[q][p] > 0 /\ left'[q] = 0}
      /\ UNCHANGED <<uses, source, compiled>>
  BY DEF CompilerInv, AdmissionInv, CountDown, workflow, compiler
<1>1. /\ \A q : Dependencies(q)' = Dependencies(q)
      /\ NoStray' = NoStray
  BY <1>0 DEF Dependencies, NoStray
<1>2. /\ handled \subseteq Phase /\ p \in Listing \ handled
      /\ Listing \ handled' = (Listing \ handled) \ {p}
      /\ Listing \ handled \in SUBSET Listing
      /\ Listing \ handled' \in SUBSET Listing
  BY <1>0 DEF Counted, Listing
<1>3. ASSUME NEW q \in Phase
      PROVE  /\ left[q] = uses[q][p] + left'[q]
             /\ uses[q][p] \in Nat /\ left'[q] \in Nat
             /\ \E g \in [SUBSET Listing -> Nat] :
                  Sums(g, uses[q], Listing) /\ left'[q] = g[Listing \ handled']
             /\ left'[q] = 0 <=> Dependencies(q) \subseteq handled'
  <2>1. uses[q] \in [Listing -> Nat] /\ Dependencies(q) = {d \in Listing : uses[q][d] # 0}
    BY <1>0, UsesCount
  <2>2. PICK g \in [SUBSET Listing -> Nat] :
          Sums(g, uses[q], Listing) /\ left[q] = g[Listing \ handled]
    BY <1>0 DEF Counted, Left
  <2>3. g[Listing \ handled] = uses[q][p] + g[(Listing \ handled) \ {p}]
    <3>1. \A S \in SUBSET Listing : \A x \in S : g[S] = uses[q][x] + g[S \ {x}]
      BY <1>0, <2>2, ListingSums
    <3> QED BY <1>2, <3>1
  <2>4. g[Listing \ handled'] = 0 <=> \A d \in Listing \ handled' : uses[q][d] = 0
    <3>1. \A S \in SUBSET Listing : g[S] = 0 <=> \A d \in S : uses[q][d] = 0
      BY <1>0, <2>2, ListingSums
    <3> QED BY <1>2, <3>1
  <2>5. uses[q][p] \in Nat /\ g[Listing \ handled'] \in Nat
    BY <1>2, <2>1, <2>2
  <2>6. left[q] = uses[q][p] + g[Listing \ handled']
    BY <1>2, <2>2, <2>3, Zenon
  <2>7. left'[q] = left[q] - uses[q][p]
    BY <1>0
  <2>8. left'[q] = g[Listing \ handled']
    BY <2>5, <2>6, <2>7
  <2>9. left[q] = uses[q][p] + left'[q]
    BY <2>6, <2>8
  <2>10. left'[q] = 0 <=> Dependencies(q) \subseteq handled'
    BY <2>1, <2>4, <2>8
  <2> QED BY <2>2, <2>5, <2>8, <2>9, <2>10
<1>4. left' \in [Phase -> Nat] /\ \A q \in Phase : Left(q, left[q])'
  <2>1. left' \in [Phase -> Nat]
    BY <1>0, <1>3
  <2>2. \A q \in Phase : Left(q, left[q])'
    BY <1>0, <1>3 DEF Left
  <2> QED BY <2>1, <2>2
<1>5. queued' = {q \in Phase : Dependencies(q) \subseteq handled'}
  <2>1. ASSUME NEW q \in Phase
        PROVE  q \in queued' <=> Dependencies(q) \subseteq handled'
    <3>1. q \in queued <=> left[q] = 0
      <4>1. q \in queued <=> Dependencies(q) \subseteq handled
        BY <1>0 DEF Counted
      <4>2. uses[q] \in [Listing -> Nat] /\ Dependencies(q) = {d \in Listing : uses[q][d] # 0}
        BY <1>0, UsesCount
      <4>3. PICK g \in [SUBSET Listing -> Nat] :
              Sums(g, uses[q], Listing) /\ left[q] = g[Listing \ handled]
        BY <1>0 DEF Counted, Left
      <4>4. g[Listing \ handled] = 0 <=> \A d \in Listing \ handled : uses[q][d] = 0
        <5>1. \A S \in SUBSET Listing : g[S] = 0 <=> \A d \in S : uses[q][d] = 0
          BY <1>0, <4>3, ListingSums
        <5> QED BY <1>2, <5>1
      <4> QED BY <4>1, <4>2, <4>3, <4>4
    <3>2. q \in queued' <=> q \in queued \/ (uses[q][p] > 0 /\ left'[q] = 0)
      BY <1>0
    <3> QED BY <1>3, <3>1, <3>2
  <2>2. queued' \subseteq Phase
    BY <1>0 DEF Counted
  <2> QED BY <2>1, <2>2
<1>6. handled' \subseteq queued'
  BY <1>0 DEF Counted
<1>7. ASSUME NEW S \in SUBSET (handled \cup {p}), S # {}
      PROVE  \E q \in S : Dependencies(q) \cap S = {}
  <2>1. \A q \in handled \cup {p} : Dependencies(q) \subseteq handled
    BY <1>0 DEF Counted
  <2>2. CASE S \cap handled = {}
    BY <1>0, <1>7, <2>1, <2>2
  <2>3. CASE S \cap handled # {}
    <3>1. PICK q \in S \cap handled : Dependencies(q) \cap (S \cap handled) = {}
      BY <1>0, <2>3 DEF Counted
    <3> QED BY <2>1, <3>1
  <2> QED BY <2>2, <2>3
<1>8. Counted'
  BY <1>0, <1>1, <1>4, <1>5, <1>6, <1>7 DEF Counted
<1> QED BY <1>0, <1>1, <1>8 DEF AdmissionInv, Verdict

\* Everything handled: no cycle.  Nothing more to handle: what is left
\* depends on what is left.
LEMMA AdmitStep == CompilerInv /\ AdmissionInv /\ Admit => AdmissionInv'
<1> SUFFICES ASSUME CompilerInv, AdmissionInv, Admit PROVE AdmissionInv'
  OBVIOUS
<1>0. /\ CompilerTypeOK /\ compiled \in Verdict /\ NoStray /\ Counted
      /\ queued = handled /\ UNCHANGED <<uses, source, compiled, left, queued, handled>>
      /\ stored' = IF Cardinality(queued) = Cardinality(Phase)
                   THEN "accepted" ELSE "rejected"
  BY DEF CompilerInv, AdmissionInv, Admit, workflow, compiler
<1>1. NoStray' = NoStray /\ Acyclic' = Acyclic
  BY <1>0 DEF Dependencies, NoStray, Acyclic
<1>2. /\ queued \subseteq Phase
      /\ Cardinality(queued) = Cardinality(Phase) <=> queued = Phase
  <2>1. queued \subseteq Phase /\ IsFiniteSet(Phase)
    BY <1>0, GraphAssumption DEF Counted, GraphAssumption
  <2> QED BY <2>1, FS_Subset
<1>3. CASE queued = Phase
  <2>1. stored' = "accepted" /\ Acyclic
    BY <1>0, <1>2, <1>3 DEF Counted, Acyclic
  <2> QED BY <1>0, <1>1, <2>1 DEF AdmissionInv, Verdict
<1>4. CASE queued # Phase
  <2>1. stored' = "rejected"
    BY <1>0, <1>2, <1>4
  <2>2. ~Acyclic
    <3> DEFINE S == Phase \ queued
    <3>1. S # {} /\ S \in SUBSET Phase
      BY <1>2, <1>4
    <3>2. ASSUME NEW q \in S PROVE Dependencies(q) \cap S # {}
      <4>1. Dependencies(q) \subseteq Phase
        BY <1>0, UsesCount DEF NoStray, Listing
      <4>2. ~(Dependencies(q) \subseteq handled)
        BY <1>0 DEF Counted
      <4> QED BY <1>0, <4>1, <4>2
    <3> HIDE DEF S
    <3> QED BY <3>1, <3>2 DEF Acyclic
  <2>3. compiled = "rejected"
    BY <1>0, <2>2, AcceptedIsAcyclic DEF Verdict
  <2> QED BY <1>0, <1>1, <2>1, <2>2, <2>3 DEF AdmissionInv, Verdict
<1> QED BY <1>3, <1>4

\* create_run admits exactly the acyclic graphs without a stray dependency,
\* for every finite workflow and however often a dependency is listed, and in
\* particular all that validateWorkflow has compiled (runtime_state.py:83-103).
THEOREM AdmissionExact == Spec => []AdmitsExactly
<1>1. CompilerInv /\ AdmissionInv => AdmitsExactly
  <2> SUFFICES ASSUME CompilerTypeOK, AdmissionInv PROVE AdmitsExactly
    BY DEF CompilerInv
  <2>1. \A p \in Phase : uses[p][Stray] \in Nat
    BY DEF CompilerTypeOK
  <2> QED BY <2>1 DEF AdmissionInv, AdmitsExactly, NoStray
<1>2. CompilerInv /\ AdmissionInv /\ [Next]_vars => AdmissionInv'
  <2> SUFFICES ASSUME CompilerInv, AdmissionInv, [Next]_vars PROVE AdmissionInv'
    OBVIOUS
  <2>1. ASSUME NEW p \in Phase, CountDown(p) PROVE AdmissionInv'
    BY <2>1, CountDownStep
  <2>2. CASE UNCHANGED vars
    BY <2>2, AdmissionStays DEF vars, workflow, compiler, admission
  <2> QED BY <2>1, <2>2, CompilerKeepsAdmission, ReadPhasesStep, AdmitStep DEF Next
<1>3. QED BY <1>1, <1>2, InitAdmission, CompilerInvariant, PTL DEF Spec

-----------------------------------------------------------------------------
(* The durable records of findings: the findings workflow and the published *)
(* issues.                                                                  *)

FlowSpec == FlowInit /\ [][FlowNext]_flowVars

StageRow ==
  [status : {"pending", "running", "failed", "completed"}, error : BOOLEAN,
   result : Values \cup {Nothing}]

FlowTypeOK ==
  /\ exists \in BOOLEAN
  /\ bound \in Bindings
  /\ stage \in [Stages -> StageRow]
  /\ pending \in Values \cup {Nothing}
  /\ review \in Values \cup {Nothing}
  /\ scanStatus \in [Scans -> {"none", "running", "complete", "failed"}]

\* What dedupe has prepared includes its result.
FlowInv == FlowTypeOK /\ (pending # Nothing => stage["dedupe"].result # Nothing)

\* What a step of the workflow may not do to its stages.
StagesKept ==
  /\ \A s \in Stages : Finished(s) => stage'[s] = stage[s]
  /\ pending # Nothing => pending' # Nothing \/ stage'["dedupe"].status = "completed"
  /\ pending' # Nothing => stage'["dedupe"].result # Nothing

\* What it may not do to its bindings and its review.
BindingsKept ==
  /\ review # Nothing => review' = review
  /\ bound.artifact # Nothing => bound'.artifact = bound.artifact
  /\ bound'.scan # bound.scan /\ bound.scan \in Scans =>
       scanStatus[bound.scan] # "complete" /\ ~Finished("scan")

LEMMA FlowStarts == FlowInit => FlowInv
<1> SUFFICES ASSUME FlowInit PROVE FlowInv
  OBVIOUS
<1>1. exists \in BOOLEAN /\ pending = Nothing /\ review = Nothing
  BY DEF FlowInit
<1>2. bound \in Bindings
  BY DEF FlowInit, Bindings
<1>3. stage \in [Stages -> StageRow]
  BY DEF FlowInit, StageRow, Fresh
<1>4. scanStatus \in [Scans -> {"none", "running", "complete", "failed"}]
  BY DEF FlowInit
<1> QED BY <1>1, <1>2, <1>3, <1>4 DEF FlowInv, FlowTypeOK

\* An action on one stage.
LEMMA UpdateKeeps ==
  ASSUME FlowInv, NEW s \in Stages, NEW record \in StageRow, NEW write \in Values \cup {Nothing},
         Update(s, record, write),
         s = "dedupe" /\ write # Nothing => record.result # Nothing,
         s = "dedupe" /\ pending # Nothing => write # Nothing \/ record.status = "completed"
  PROVE  /\ stage' \in [Stages -> StageRow] /\ pending' \in Values \cup {Nothing}
         /\ StagesKept
<1>1. stage \in [Stages -> StageRow] /\ "dedupe" \in Stages
  BY StageAssumption DEF FlowInv, FlowTypeOK
<1>2. CASE Finished(s) \/ s # "dedupe"
  BY <1>1, <1>2 DEF Update, Finished, FlowInv, FlowTypeOK, StagesKept
<1>3. CASE ~Finished(s) /\ s = "dedupe"
  BY <1>1, <1>3 DEF Update, Finished, FlowInv, FlowTypeOK, StagesKept
<1> QED BY <1>2, <1>3

\* A call that brings bindings.
LEMMA BindKeeps ==
  ASSUME FlowInv, NEW binding \in Bindings, Bind(binding)
  PROVE  /\ exists' \in BOOLEAN /\ bound' \in Bindings
         /\ bound.artifact # Nothing => bound'.artifact = bound.artifact
         /\ bound.scan \in Scans => bound'.scan = bound.scan
         /\ UNCHANGED <<review, scanStatus>>
<1>1. /\ bound \in Bindings /\ DOMAIN bound = {"scan", "artifact"}
      /\ DOMAIN binding = {"scan", "artifact"}
  BY DEF FlowInv, FlowTypeOK, Bindings
<1>2. /\ binding.scan # Nothing => bound.scan \in {Nothing, binding.scan}
      /\ binding.artifact # Nothing => bound.artifact \in {Nothing, binding.artifact}
      /\ bound' = [f \in {"scan", "artifact"} |->
                     IF binding[f] = Nothing THEN bound[f] ELSE binding[f]]
  BY <1>1 DEF Bind
<1>3. bound'.scan = (IF binding.scan = Nothing THEN bound.scan ELSE binding.scan)
      /\ bound'.artifact = (IF binding.artifact = Nothing THEN bound.artifact ELSE binding.artifact)
  BY <1>2
<1>4. bound' = [scan |-> bound'.scan, artifact |-> bound'.artifact]
  BY <1>2
<1>5. bound' \in Bindings
  BY <1>1, <1>3, <1>4 DEF Bindings
<1>6. bound.scan \in Scans => bound'.scan = bound.scan
  BY <1>2, <1>3, StageAssumption
<1>7. bound.artifact # Nothing => bound'.artifact = bound.artifact
  BY <1>2, <1>3
<1> QED BY <1>5, <1>6, <1>7 DEF Bind

LEMMA StageStep ==
  ASSUME FlowInv,
         \/ UNCHANGED <<stage, pending>>
         \/ \E s \in Stages : Begin(s) \/ Fail(s)
         \/ \E s \in Stages, v \in Values : Complete(s, v)
         \/ \E s \in Stages, v, w \in Values : Prepare(s, v, w)
  PROVE  /\ stage' \in [Stages -> StageRow] /\ pending' \in Values \cup {Nothing}
         /\ StagesKept
<1>1. CASE UNCHANGED <<stage, pending>>
  BY <1>1 DEF FlowInv, FlowTypeOK, StagesKept
<1>2. ASSUME NEW s \in Stages
      PROVE  /\ stage[s] \in StageRow /\ pending \in Values \cup {Nothing}
             /\ s = "dedupe" /\ pending # Nothing => stage[s].result # Nothing
  BY DEF FlowInv, FlowTypeOK
<1>3. ASSUME NEW s \in Stages, Begin(s)
      PROVE  /\ stage' \in [Stages -> StageRow] /\ pending' \in Values \cup {Nothing}
             /\ StagesKept
  <2> DEFINE record == [stage[s] EXCEPT !.status = "running"]
  <2>1. record \in StageRow /\ record.result = stage[s].result
    BY <1>2 DEF StageRow
  <2>2. Update(s, record, pending)
    BY <1>3 DEF Begin
  <2> HIDE DEF record
  <2> QED BY <1>2, <2>1, <2>2, UpdateKeeps
<1>4. ASSUME NEW s \in Stages, Fail(s)
      PROVE  /\ stage' \in [Stages -> StageRow] /\ pending' \in Values \cup {Nothing}
             /\ StagesKept
  <2> DEFINE record == [stage[s] EXCEPT !.status = "failed", !.error = TRUE]
  <2>1. record \in StageRow /\ record.result = stage[s].result
    BY <1>2 DEF StageRow
  <2>2. Update(s, record, pending)
    BY <1>4 DEF Fail
  <2> HIDE DEF record
  <2> QED BY <1>2, <2>1, <2>2, UpdateKeeps
<1>5. ASSUME NEW s \in Stages, NEW v \in Values, Complete(s, v)
      PROVE  /\ stage' \in [Stages -> StageRow] /\ pending' \in Values \cup {Nothing}
             /\ StagesKept
  <2> DEFINE record == [status |-> "completed", error |-> FALSE, result |-> v]
  <2>1. record \in StageRow /\ record.status = "completed"
    BY DEF StageRow
  <2>2. Update(s, record, Nothing)
    BY <1>5 DEF Complete
  <2> HIDE DEF record
  <2> QED BY <2>1, <2>2, UpdateKeeps
<1>6. ASSUME NEW s \in Stages, NEW v \in Values, NEW w \in Values, Prepare(s, v, w)
      PROVE  /\ stage' \in [Stages -> StageRow] /\ pending' \in Values \cup {Nothing}
             /\ StagesKept
  <2> DEFINE record == [stage[s] EXCEPT !.result = v]
  <2>1. record \in StageRow /\ record.result # Nothing /\ w # Nothing
    BY <1>2, StageAssumption DEF StageRow
  <2>2. Update(s, record, w)
    BY <1>6 DEF Prepare
  <2> HIDE DEF record
  <2> QED BY <2>1, <2>2, UpdateKeeps
<1> QED BY <1>1, <1>3, <1>4, <1>5, <1>6

LEMMA FlowStep == FlowInv /\ [FlowNext]_flowVars => FlowInv' /\ StagesKept /\ BindingsKept
<1> SUFFICES ASSUME FlowInv, [FlowNext]_flowVars
             PROVE  FlowInv' /\ StagesKept /\ BindingsKept
  OBVIOUS
<1>1. ASSUME NEW binding \in Bindings, Bind(binding),
             \/ UNCHANGED <<stage, pending>>
             \/ \E s \in Stages : Begin(s) \/ Fail(s)
             \/ \E s \in Stages, v \in Values : Complete(s, v)
             \/ \E s \in Stages, v, w \in Values : Prepare(s, v, w)
      PROVE  FlowInv' /\ StagesKept /\ BindingsKept
  <2>1. /\ stage' \in [Stages -> StageRow] /\ pending' \in Values \cup {Nothing}
        /\ StagesKept
    BY <1>1, StageStep
  <2>2. /\ exists' \in BOOLEAN /\ bound' \in Bindings
        /\ bound.artifact # Nothing => bound'.artifact = bound.artifact
        /\ bound.scan \in Scans => bound'.scan = bound.scan
        /\ UNCHANGED <<review, scanStatus>>
    BY <1>1, BindKeeps
  <2> QED BY <2>1, <2>2 DEF FlowInv, FlowTypeOK, StagesKept, BindingsKept
<1>2. ASSUME NEW scan \in Scans, RegisterScan(scan)
      PROVE  FlowInv' /\ StagesKept /\ BindingsKept
  BY <1>2 DEF RegisterScan, FlowInv, FlowTypeOK, Bindings, StagesKept, BindingsKept
<1>3. ASSUME NEW v \in Values, SaveReview(v)
      PROVE  FlowInv' /\ StagesKept /\ BindingsKept
  BY <1>3 DEF SaveReview, FlowInv, FlowTypeOK, StagesKept, BindingsKept
<1>4. ASSUME NEW scan \in Scans, NEW status \in {"complete", "failed"}, ScanEnds(scan, status)
      PROVE  FlowInv' /\ StagesKept /\ BindingsKept
  BY <1>4 DEF ScanEnds, FlowInv, FlowTypeOK, StagesKept, BindingsKept
<1>5. CASE UNCHANGED flowVars
  BY <1>5 DEF flowVars, FlowInv, FlowTypeOK, StagesKept, BindingsKept, Finished
<1> QED BY <1>1, <1>2, <1>3, <1>4, <1>5 DEF FlowNext

\* The workflow's rows keep their types, and a prepared write its result.
THEOREM FlowInvariant == FlowSpec => []FlowInv
BY FlowStarts, FlowStep, PTL DEF FlowSpec

\* No call undoes what a workflow has done (finding_workflow, bind_workflow,
\* register_workflow_scan).
THEOREM WorkflowKeepsWork == FlowSpec => WorkIsKept
<1>1. StagesKept /\ BindingsKept =>
        /\ \A s \in Stages : Finished(s) => stage'[s] = stage[s]
        /\ review # Nothing => review' = review
        /\ pending # Nothing => pending' # Nothing \/ stage'["dedupe"].status = "completed"
        /\ pending' # Nothing => stage'["dedupe"].result # Nothing
        /\ bound.artifact # Nothing => bound'.artifact = bound.artifact
        /\ bound'.scan # bound.scan /\ bound.scan \in Scans =>
             scanStatus[bound.scan] # "complete" /\ ~Finished("scan")
  BY DEF StagesKept, BindingsKept
<1> QED BY <1>1, FlowInvariant, FlowStep, PTL DEF FlowSpec, WorkIsKept

-----------------------------------------------------------------------------

PublicationSpec == PublicationInit /\ [][PublicationNext]_publicationVars

\* A call adds rows for issues that have none, each for another issue.
LEMMA RecordKeeps ==
  ASSUME RecordedAsReported, NEW c, NEW publications, Record(c, publications)
  PROVE  RecordedAsReported'
<1> DEFINE new == {p \in publications : ~\E r \in rows : SameIssue(r, p)}
<1>1. rows' = rows \cup new /\ reported' = reported \cup publications
  BY DEF Record
<1>2. ASSUME NEW p \in reported'
      PROVE  \E r \in rows' :
               SameIssue(r, p) /\ r.occurrence = p.occurrence /\ (p.url # NoUrl => r.url = p.url)
  <2>1. CASE p \in reported
    BY <1>1, <2>1 DEF RecordedAsReported
  <2>2. CASE p \in publications
    <3>1. CASE \E r \in rows : SameIssue(r, p)
      BY <1>1, <2>2, <3>1 DEF Record, Conflicts
    <3>2. CASE ~\E r \in rows : SameIssue(r, p)
      BY <1>1, <2>2, <3>2 DEF SameIssue
    <3> QED BY <3>1, <3>2
  <2> QED BY <1>1, <1>2, <2>1, <2>2
<1>3. ASSUME NEW r \in rows', NEW s \in rows', SameIssue(r, s) PROVE r = s
  <2>1. SameIssue(s, r)
    BY <1>3 DEF SameIssue
  <2>2. CASE r \in rows /\ s \in rows
    BY <1>3, <2>2 DEF RecordedAsReported
  <2>3. CASE r \in new /\ s \in new
    BY <1>3, <2>3 DEF Record, WellFormed, SameIssue
  <2> QED BY <1>1, <1>3, <2>1, <2>2, <2>3
<1> QED BY <1>2, <1>3 DEF RecordedAsReported

\* What callers were told is recorded stays recorded (record_linear_publications).
THEOREM RecordsStay == PublicationSpec => []RecordedAsReported
<1>1. PublicationInit => RecordedAsReported
  BY DEF PublicationInit, RecordedAsReported
<1>2. ASSUME RecordedAsReported, [PublicationNext]_publicationVars
      PROVE  RecordedAsReported'
  <2>1. CASE UNCHANGED <<rows, reported>>
    BY <2>1, <1>2 DEF RecordedAsReported, SameIssue
  <2>2. ASSUME NEW c \in Callers, NEW publications, Record(c, publications)
        PROVE  RecordedAsReported'
    BY <1>2, <2>2, RecordKeeps
  <2> QED BY <1>2, <2>1, <2>2 DEF PublicationNext, publicationVars, Inspect, CreateIssue
<1> QED BY <1>1, <1>2, PTL DEF PublicationSpec

-----------------------------------------------------------------------------
(* The comparison of scans *)

ComparisonSpec == ComparisonInit /\ [][ComparisonNext]_comparisonVars

Group == [before : SUBSET Before, after : SUBSET After]

\* What is saved has passed the checks of save_scan_comparison.
AccountedOnce(s) ==
  /\ s.matches \subseteq Group /\ Distinct(s.matches)
  /\ s.uncertain \subseteq Before \X After
  /\ \A pair \in s.uncertain : /\ pair[1] \notin Matched(s.matches, "before")
                               /\ pair[2] \notin Matched(s.matches, "after")

SavedOK == \A s \in saved : AccountedOnce(s)

LEMMA PayloadsAreGroups == \A matches \in Payloads : matches \subseteq Group
BY DEF Payloads, kSubset, Group

LEMMA SavedStep == SavedOK /\ [ComparisonNext]_comparisonVars => SavedOK'
<1> SUFFICES ASSUME SavedOK, [ComparisonNext]_comparisonVars PROVE SavedOK'
  OBVIOUS
<1>1. ASSUME NEW matches \in Payloads, NEW uncertain \in SUBSET (Before \X After),
             SaveComparison(matches, uncertain)
      PROVE  SavedOK'
  <2>1. saved' = {[matches |-> matches, uncertain |-> uncertain]} /\ Distinct(matches)
    BY <1>1 DEF SaveComparison
  <2>2. \A pair \in uncertain : /\ pair[1] \notin Matched(matches, "before")
                                /\ pair[2] \notin Matched(matches, "after")
    BY <1>1 DEF SaveComparison
  <2>3. matches \subseteq Group
    BY PayloadsAreGroups
  <2>4. AccountedOnce([matches |-> matches, uncertain |-> uncertain])
    BY <2>1, <2>2, <2>3 DEF AccountedOnce
  <2> QED BY <2>1, <2>4 DEF SavedOK, AccountedOnce
<1>2. CASE UNCHANGED saved
  BY <1>2 DEF SavedOK, AccountedOnce
<1> QED BY <1>1, <1>2 DEF ComparisonNext, SetTriage, comparisonVars

\* The groups of a comparison are sets of findings, none of them empty.
LEMMA GroupsAreGroups ==
  ASSUME NEW s, AccountedOnce(s)
  PROVE  \A g \in Groups(s) : g \in Group /\ g.before \cup g.after # {}
BY DEF AccountedOnce, Groups, Group, Distinct

\* Each finding of the earlier scan is in one group, and so is each finding
\* of the later one.
LEMMA OneGroupBefore ==
  ASSUME NEW s, AccountedOnce(s), NEW o \in Before
  PROVE  \E g \in Groups(s) :
           \A h \in Groups(s) : o \in h.before \cup h.after <=> h = g
<1>0. \A h \in Groups(s) : o \in h.before \cup h.after <=> o \in h.before
  BY GroupsAreGroups, ComparisonAssumption DEF Group
<1>1. CASE o \in Matched(s.matches, "before")
  <2>1. PICK m \in s.matches : o \in m.before
    BY <1>1 DEF Matched
  <2>2. m \in Groups(s)
    BY <2>1 DEF Groups
  <2>3. ASSUME NEW h \in Groups(s), o \in h.before PROVE h = m
    <3>1. h \in s.matches
      BY <1>1, <2>3 DEF Groups
    <3> QED BY <2>1, <2>3, <3>1 DEF AccountedOnce, Distinct
  <2> QED BY <1>0, <2>1, <2>2, <2>3
<1>2. CASE o \notin Matched(s.matches, "before")
  <2> DEFINE g == [before |-> {o}, after |-> {}]
  <2>1. g \in Groups(s) /\ o \in g.before
    BY <1>2 DEF Groups
  <2>2. ASSUME NEW h \in Groups(s), o \in h.before PROVE h = g
    <3>1. h \notin s.matches
      BY <1>2, <2>2 DEF Matched
    <3> QED BY <2>2, <3>1 DEF Groups
  <2> QED BY <1>0, <2>1, <2>2
<1> QED BY <1>1, <1>2

LEMMA OneGroupAfter ==
  ASSUME NEW s, AccountedOnce(s), NEW o \in After
  PROVE  \E g \in Groups(s) :
           \A h \in Groups(s) : o \in h.before \cup h.after <=> h = g
<1>0. \A h \in Groups(s) : o \in h.before \cup h.after <=> o \in h.after
  BY GroupsAreGroups, ComparisonAssumption DEF Group
<1>1. CASE o \in Matched(s.matches, "after")
  <2>1. PICK m \in s.matches : o \in m.after
    BY <1>1 DEF Matched
  <2>2. m \in Groups(s)
    BY <2>1 DEF Groups
  <2>3. ASSUME NEW h \in Groups(s), o \in h.after PROVE h = m
    <3>1. h \in s.matches
      BY <1>1, <2>3 DEF Groups
    <3> QED BY <2>1, <2>3, <3>1 DEF AccountedOnce, Distinct
  <2> QED BY <1>0, <2>1, <2>2, <2>3
<1>2. CASE o \notin Matched(s.matches, "after")
  <2> DEFINE g == [before |-> {}, after |-> {o}]
  <2>1. g \in Groups(s) /\ o \in g.after
    BY <1>2 DEF Groups
  <2>2. ASSUME NEW h \in Groups(s), o \in h.after PROVE h = g
    <3>1. h \notin s.matches
      BY <1>2, <2>2 DEF Matched
    <3> QED BY <2>2, <3>1 DEF Groups
  <2> QED BY <1>0, <2>1, <2>2
<1> QED BY <1>1, <1>2

LEMMA OneItem ==
  ASSUME NEW s, AccountedOnce(s), NEW o \in Before \cup After
  PROVE  Cardinality({i \in Items(s) : o \in i.group.before \cup i.group.after}) = 1
<1>1. PICK g \in Groups(s) :
        \A h \in Groups(s) : o \in h.before \cup h.after <=> h = g
  BY OneGroupBefore, OneGroupAfter
<1>2. {i \in Items(s) : o \in i.group.before \cup i.group.after}
        = {[group |-> g, status |-> Status(s, g)]}
  BY <1>1 DEF Items
<1> QED BY <1>2, FS_Singleton

\* A group that is called resolved was looked for, and nothing seen in the
\* later scan may be it.
LEMMA ResolvedIsCovered ==
  ASSUME NEW s, AccountedOnce(s), NEW g \in Groups(s), Status(s, g) = "resolved"
  PROVE  complete /\ g.before \subseteq covered /\ g.after = {}
<1>1. g.before # {}
  BY DEF Status
<1>2. g.after = {}
  BY <1>1 DEF Status
<1>3. \A o \in g.before : Covers(o)
  BY <1>1, <1>2 DEF Status
<1> QED BY <1>1, <1>2, <1>3 DEF Covers

LEMMA UncertainIsUnknown ==
  ASSUME NEW s, AccountedOnce(s), NEW g \in Groups(s), NEW pair \in s.uncertain,
         g.before \cup g.after \subseteq {pair[1], pair[2]}
  PROVE  Status(s, g) = "unknown"
<1>1. /\ pair[1] \in Before /\ pair[2] \in After
      /\ pair[1] \notin Matched(s.matches, "before")
      /\ g \in Group /\ g.before \cup g.after # {}
  BY GroupsAreGroups DEF AccountedOnce
<1>2. IsUncertain(s, pair[1]) /\ IsUncertain(s, pair[2])
  BY DEF IsUncertain
<1>3. g.before \subseteq {pair[1]} /\ g.after \subseteq {pair[2]}
  BY <1>1, ComparisonAssumption DEF Group
<1>4. g \notin s.matches
  <2>1. g \in s.matches => g.before # {}
    BY DEF AccountedOnce, Distinct
  <2>2. g \in s.matches => g.before \subseteq Matched(s.matches, "before")
    BY DEF Matched
  <2> QED BY <1>1, <1>3, <2>1, <2>2
<1>5. CASE g.before = {}
  <2>1. pair[2] \in g.after
    BY <1>1, <1>3, <1>5
  <2> QED BY <1>2, <1>5, <2>1 DEF Status
<1>6. CASE g.before # {}
  <2>1. pair[1] \in g.before
    BY <1>3, <1>6
  <2>2. g.after = {}
    BY <1>4, <1>6 DEF Groups
  <2> QED BY <1>2, <1>6, <2>1, <2>2 DEF Status
<1> QED BY <1>5, <1>6

\* In every comparison each finding of the two scans is in one item, and an
\* item is called resolved only when the later scan looked and saw nothing
\* that may be it, for any two scans and any matches an agent has saved
\* (save_scan_comparison, compare_scans, _finding_groups).
THEOREM ComparisonsAreWhole == ComparisonSpec => []EveryFindingAccounted
<1>1. ComparisonInit => SavedOK
  BY DEF ComparisonInit, SavedOK
<1>2. SavedOK => EveryFindingAccounted
  <2> SUFFICES ASSUME NEW s, AccountedOnce(s)
      PROVE  /\ \A o \in Before \cup After :
                  Cardinality({i \in Items(s) : o \in i.group.before \cup i.group.after}) = 1
             /\ \A i \in Items(s) :
                  /\ i.status = "resolved" =>
                       complete /\ i.group.before \subseteq covered /\ i.group.after = {}
                  /\ i.status \in {"persisting", "reopened"} =>
                       i.group.before # {} /\ i.group.after # {}
                  /\ i.status = "reopened" =>
                       /\ \E o \in i.group.before : triage[o] = "fixed"
                       /\ \E o \in i.group.after : triage[o] = "open"
                  /\ \A pair \in s.uncertain :
                       i.group.before \cup i.group.after \subseteq {pair[1], pair[2]} =>
                         i.status = "unknown"
    BY DEF SavedOK, EveryFindingAccounted
  <2>1. ASSUME NEW i \in Items(s)
        PROVE  \E g \in Groups(s) : i.group = g /\ i.status = Status(s, g)
    BY <2>1 DEF Items
  <2>2. ASSUME NEW i \in Items(s)
        PROVE  /\ i.status = "resolved" =>
                    complete /\ i.group.before \subseteq covered /\ i.group.after = {}
               /\ i.status \in {"persisting", "reopened"} =>
                    i.group.before # {} /\ i.group.after # {}
               /\ i.status = "reopened" =>
                    /\ \E o \in i.group.before : triage[o] = "fixed"
                    /\ \E o \in i.group.after : triage[o] = "open"
               /\ \A pair \in s.uncertain :
                    i.group.before \cup i.group.after \subseteq {pair[1], pair[2]} =>
                      i.status = "unknown"
    <3>1. PICK g \in Groups(s) : i.group = g /\ i.status = Status(s, g)
      BY <2>1
    <3>2. i.status = "resolved" =>
            complete /\ i.group.before \subseteq covered /\ i.group.after = {}
      BY <3>1, ResolvedIsCovered
    <3>3. ASSUME NEW pair \in s.uncertain,
                 i.group.before \cup i.group.after \subseteq {pair[1], pair[2]}
          PROVE  i.status = "unknown"
      BY <3>1, <3>3, UncertainIsUnknown
    <3>4. i.status \in {"persisting", "reopened"} =>
            i.group.before # {} /\ i.group.after # {}
      BY <3>1 DEF Status
    <3>5. i.status = "reopened" =>
            /\ \E o \in i.group.before : triage[o] = "fixed"
            /\ \E o \in i.group.after : triage[o] = "open"
      BY <3>1 DEF Status
    <3> QED BY <3>2, <3>3, <3>4, <3>5
  <2> QED BY <2>2, OneItem
<1>3. QED BY <1>1, <1>2, SavedStep, PTL DEF ComparisonSpec

-----------------------------------------------------------------------------
(* Sequences of sequences, flattened *)

LEMMA NumbersInduction ==
  ASSUME NEW C, 0 \in C, \A n \in Nat : n \in C => n + 1 \in C
  PROVE  Nat \subseteq C
<1> SUFFICES ASSUME Nat \ C # {} PROVE FALSE
  OBVIOUS
<1>1. PICK m \in Nat \ C : \A k \in Nat \ C : m <= k
  BY LeastNatural
<1>2. m - 1 \in Nat /\ m - 1 \in C /\ (m - 1) + 1 = m
  BY <1>1
<1> QED BY <1>1, <1>2

LEMMA ToSetOfBoth ==
  ASSUME NEW X, NEW s \in Seq(X), NEW t \in Seq(X), NEW x
  PROVE  x \in ToSet(s \o t) <=> x \in ToSet(s) \/ x \in ToSet(t)
<1>1. /\ Len(s) \in Nat /\ Len(t) \in Nat /\ Len(s \o t) = Len(s) + Len(t)
      /\ DOMAIN s = 1..Len(s) /\ DOMAIN t = 1..Len(t) /\ DOMAIN (s \o t) = 1..(Len(s) + Len(t))
  OBVIOUS
<1>2. /\ \A i \in 1..Len(s) : (s \o t)[i] = s[i]
      /\ \A i \in 1..Len(t) : (s \o t)[Len(s) + i] = t[i]
  OBVIOUS
<1>3. ASSUME NEW i \in 1..(Len(s) + Len(t))
      PROVE  i \in 1..Len(s) \/ (i - Len(s) \in 1..Len(t) /\ Len(s) + (i - Len(s)) = i)
  BY <1>1
<1>4. ASSUME NEW i \in 1..Len(t) PROVE Len(s) + i \in 1..(Len(s) + Len(t))
  BY <1>1
<1>5. \A i \in 1..Len(s) : i \in 1..(Len(s) + Len(t))
  BY <1>1
<1> DEFINE st == s \o t  ls == Len(s)  lt == Len(t)
<1> HIDE DEF st, ls, lt
<1>6. x \in {st[i] : i \in DOMAIN st} <=> x \in {s[i] : i \in 1..ls} \/ x \in {t[i] : i \in 1..lt}
  <2>1. ASSUME NEW i \in DOMAIN st, x = st[i]
        PROVE  x \in {s[j] : j \in 1..ls} \/ x \in {t[j] : j \in 1..lt}
    <3>1. i \in 1..ls \/ (i - ls \in 1..lt /\ ls + (i - ls) = i)
      BY <1>1, <1>3 DEF st, ls, lt
    <3>2. CASE i \in 1..ls
      BY <1>2, <2>1, <3>2 DEF st, ls
    <3>3. CASE i - ls \in 1..lt /\ ls + (i - ls) = i
      <4>1. st[ls + (i - ls)] = t[i - ls]
        BY <1>2, <3>3 DEF st, ls, lt
      <4>2. x = t[i - ls]
        BY <2>1, <3>3, <4>1
      <4> QED BY <3>3, <4>2
    <3> QED BY <3>1, <3>2, <3>3
  <2>2. ASSUME NEW i \in 1..ls, x = s[i] PROVE x \in {st[j] : j \in DOMAIN st}
    <3>1. i \in DOMAIN st /\ st[i] = s[i]
      BY <1>1, <1>2, <1>5 DEF st, ls, lt
    <3> QED BY <2>2, <3>1
  <2>3. ASSUME NEW i \in 1..lt, x = t[i] PROVE x \in {st[j] : j \in DOMAIN st}
    <3>1. ls + i \in DOMAIN st /\ st[ls + i] = t[i]
      BY <1>1, <1>2, <1>4 DEF st, ls, lt
    <3> QED BY <2>3, <3>1
  <2> QED BY <2>1, <2>2, <2>3
<1> QED BY <1>1, <1>6 DEF ToSet, st, ls, lt

\* f gives the first i sequences of ss in one, for every i up to n.
Flattens(f, ss, n) ==
  f = [i \in 1..n |-> IF i = 1 THEN ss[i] ELSE f[i - 1] \o ss[i]]

LEMMA FlattensExists ==
  ASSUME NEW ss, NEW n \in Nat
  PROVE  \E f : Flattens(f, ss, n)
<1> DEFINE N == {k \in Nat : \E f : Flattens(f, ss, k)}
<1>1. 0 \in N
  <2>1. Flattens(<<>>, ss, 0)
    BY DEF Flattens
  <2> QED BY <2>1
<1>2. ASSUME NEW k \in Nat, k \in N PROVE k + 1 \in N
  <2>1. PICK f : Flattens(f, ss, k)
    BY <1>2
  <2> DEFINE g == [i \in 1..(k + 1) |->
                     IF i = 1 THEN ss[i] ELSE f[i - 1] \o ss[i]]
  <2>2. ASSUME NEW i \in 1..k PROVE f[i] = g[i]
    <3>1. f[i] = IF i = 1 THEN ss[i] ELSE f[i - 1] \o ss[i]
      BY <2>1, Zenon DEF Flattens
    <3>2. i \in 1..(k + 1)
      OBVIOUS
    <3>3. g[i] = IF i = 1 THEN ss[i] ELSE f[i - 1] \o ss[i]
      BY <3>2, Zenon
    <3> HIDE DEF g
    <3> QED BY <3>1, <3>3
  <2>3. \A i \in 1..(k + 1) : i # 1 => f[i - 1] = g[i - 1]
    <3> SUFFICES ASSUME NEW i \in 1..(k + 1), i # 1 PROVE f[i - 1] = g[i - 1]
      OBVIOUS
    <3>1. i - 1 \in 1..k
      OBVIOUS
    <3> HIDE DEF g
    <3> QED BY <2>2, <3>1
  <2>4. g = [i \in 1..(k + 1) |-> IF i = 1 THEN ss[i] ELSE g[i - 1] \o ss[i]]
    <3>1. \A i \in 1..(k + 1) : g[i] = IF i = 1 THEN ss[i] ELSE g[i - 1] \o ss[i]
      <4> SUFFICES ASSUME NEW i \in 1..(k + 1)
                   PROVE  g[i] = IF i = 1 THEN ss[i] ELSE g[i - 1] \o ss[i]
        OBVIOUS
      <4>1. g[i] = IF i = 1 THEN ss[i] ELSE f[i - 1] \o ss[i]
        OBVIOUS
      <4> HIDE DEF g
      <4> QED BY <2>3, <4>1
    <3>2. g = [i \in 1..(k + 1) |-> g[i]]
      OBVIOUS
    <3> HIDE DEF g
    <3> QED BY <3>1, <3>2
  <2>5. Flattens(g, ss, k + 1)
    BY <2>4 DEF Flattens
  <2> QED BY <2>5
<1>3. Nat \subseteq N
  <2> HIDE DEF N
  <2> QED BY <1>1, <1>2, NumbersInduction
<1> QED BY <1>3

\* FlattenSeq keeps every element, and adds none.
LEMMA FlattenSeqKeeps ==
  ASSUME NEW X, NEW ss \in Seq(Seq(X))
  PROVE  /\ FlattenSeq(ss) \in Seq(X)
         /\ \A x : x \in ToSet(FlattenSeq(ss)) <=> \E n \in DOMAIN ss : x \in ToSet(ss[n])
<1>0. Len(ss) \in Nat /\ DOMAIN ss = 1..Len(ss)
  OBVIOUS
<1>1. CASE Len(ss) = 0
  <2>1. ss = <<>> /\ FlattenSeq(ss) = ss
    BY <1>1 DEF FlattenSeq
  <2>2. <<>> \in Seq(X) /\ ToSet(<<>>) = {} /\ DOMAIN ss = {}
    BY <1>0, <1>1 DEF ToSet
  <2> QED BY <2>1, <2>2
<1>2. CASE Len(ss) # 0
  <2> DEFINE flatten == CHOOSE f : Flattens(f, ss, Len(ss))
  <2>1. Flattens(flatten, ss, Len(ss))
    BY <1>0, FlattensExists
  <2>2. FlattenSeq(ss) = flatten[Len(ss)]
    BY <1>2, SMT DEF FlattenSeq, Flattens
  <2> HIDE DEF flatten
  <2> DEFINE Exact(n) ==
        /\ flatten[n] \in Seq(X)
        /\ \A x : x \in ToSet(flatten[n]) <=> \E i \in 1..n : x \in ToSet(ss[i])
      N == {n \in Nat : n + 1 <= Len(ss) => Exact(n + 1)}
  <2>3. 0 \in N
    <3>1. flatten[1] = ss[1]
      BY <1>0, <1>2, <2>1 DEF Flattens
    <3> QED BY <1>0, <1>2, <3>1
  <2>4. ASSUME NEW n \in Nat, n \in N PROVE n + 1 \in N
    <3> SUFFICES ASSUME (n + 1) + 1 <= Len(ss) PROVE Exact((n + 1) + 1)
      OBVIOUS
    <3> DEFINE m == n + 1
    <3>0. m \in 1..Len(ss) /\ m + 1 \in 1..Len(ss) /\ (m + 1) - 1 = m /\ m + 1 # 1
      BY <1>0
    <3>1. Exact(m)
      BY <2>4, <1>0
    <3> HIDE DEF m
    <3>2. flatten[m + 1] = flatten[m] \o ss[m + 1]
      <4>1. flatten[m + 1] = IF m + 1 = 1 THEN ss[m + 1] ELSE flatten[(m + 1) - 1] \o ss[m + 1]
        BY <3>0, <2>1, Zenon DEF Flattens
      <4> QED BY <3>0, <4>1
    <3>3. ss[m + 1] \in Seq(X)
      BY <3>0, <1>0
    <3>4. flatten[m + 1] \in Seq(X)
      BY <3>1, <3>2, <3>3
    <3>5. ASSUME NEW x
          PROVE  x \in ToSet(flatten[m + 1])
                   <=> x \in ToSet(flatten[m]) \/ x \in ToSet(ss[m + 1])
      <4> DEFINE s == flatten[m]  t == ss[m + 1]
      <4>1. s \in Seq(X) /\ t \in Seq(X) /\ flatten[m + 1] = s \o t
        BY <3>1, <3>2, <3>3
      <4> HIDE DEF s, t
      <4>2. x \in ToSet(s \o t) <=> x \in ToSet(s) \/ x \in ToSet(t)
        BY <4>1, ToSetOfBoth
      <4>3. x \in ToSet(flatten[m + 1]) <=> x \in ToSet(s) \/ x \in ToSet(t)
        BY <4>1, <4>2
      <4> QED BY <4>3 DEF s, t
    <3>6. 1..(m + 1) = 1..m \cup {m + 1}
      BY <3>0
    <3>7. Exact(m + 1)
      BY <3>1, <3>4, <3>5, <3>6
    <3> QED BY <3>7 DEF m
  <2>5. Nat \subseteq N
    <3> HIDE DEF N
    <3> QED BY <2>3, <2>4, NumbersInduction
  <2>6. Exact(Len(ss))
    <3>1. Len(ss) - 1 \in Nat /\ (Len(ss) - 1) + 1 = Len(ss)
      BY <1>0, <1>2
    <3>2. Len(ss) - 1 \in N
      BY <2>5, <3>1
    <3> HIDE DEF Exact
    <3>3. Exact((Len(ss) - 1) + 1)
      BY <3>1, <3>2
    <3> QED BY <3>1, <3>3
  <2> QED BY <1>0, <2>2, <2>6
<1> QED BY <1>1, <1>2

-----------------------------------------------------------------------------
(* The pool of rankers *)

RankSpec == RankInit /\ [][RankNext]_rankVars

File == UNION {ToSet(listing) : listing \in Inputs}

Row == UNION {ToSet(text) : text \in Answers}

\* What the commands leave behind: shards that share no file, a plan that is a
\* list of sets of shards, and answers to shards alone.
RankInv ==
  /\ input \in Inputs
  /\ shards \in Seq(Seq(File))
  /\ \A m, n \in DOMAIN shards : m # n => ToSet(shards[m]) \cap ToSet(shards[n]) = {}
  /\ plan \in Seq(SUBSET Nat)
  /\ DOMAIN answers \subseteq DOMAIN shards
  /\ \A n \in DOMAIN answers : answers[n] \in Answers
  /\ [i \in DOMAIN merged.rows |-> merged.rows[i].file] = merged.of

LEMMA ListingsAreLists == Inputs \subseteq Seq(File) /\ Answers \subseteq Seq(Row)
<1>1. ASSUME NEW listing \in Inputs PROVE listing \in Seq(File)
  <2>1. listing \in Seq(ToSet(listing)) /\ ToSet(listing) \subseteq File
    BY PoolAssumption DEF PoolAssumption, File
  <2> HIDE DEF File
  <2> QED BY <2>1
<1>2. ASSUME NEW text \in Answers PROVE text \in Seq(Row)
  <2>1. text \in Seq(ToSet(text)) /\ ToSet(text) \subseteq Row
    BY PoolAssumption DEF PoolAssumption, Row
  <2> HIDE DEF Row
  <2> QED BY <2>1
<1> QED BY <1>1, <1>2

LEMMA RankStarts == RankInit => RankInv
<1> SUFFICES ASSUME RankInit PROVE RankInv
  OBVIOUS
<1>1. DOMAIN shards = {} /\ DOMAIN answers = {} /\ DOMAIN merged.rows = {}
  BY DEF RankInit
<1>2. shards \in Seq(Seq(File)) /\ plan \in Seq(SUBSET Nat)
  BY DEF RankInit
<1>3. [i \in DOMAIN merged.rows |-> merged.rows[i].file] = merged.of
  BY DEF RankInit
<1> QED BY <1>1, <1>2, <1>3 DEF RankInit, RankInv

\* The shards of a listing without repetition share no file.
LEMMA ShardsAreApart ==
  ASSUME RankInv, MakeShards
  PROVE  RankInv'
<1>1. /\ input \in Seq(File) /\ Len(input) \in Nat /\ DOMAIN input = 1..Len(input)
      /\ \A i, j \in DOMAIN input : input[i] = input[j] => i = j
      /\ MaxRows \in Nat \ {0}
  BY ListingsAreLists, PoolAssumption DEF RankInv, PoolAssumption
<1> DEFINE
      count == (Len(input) + MaxRows - 1) \div MaxRows
      first(n) == (n - 1) * MaxRows + 1
      last(n) == IF n * MaxRows < Len(input) THEN n * MaxRows ELSE Len(input)
<1>2. count \in Nat
  BY <1>1
<1>3. ASSUME NEW n \in 1..count
      PROVE  /\ first(n) \in Nat \ {0} /\ last(n) \in Nat
             /\ last(n) <= n * MaxRows /\ last(n) <= Len(input)
  <2> HIDE DEF count
  <2>1. n \in Nat \ {0} /\ n - 1 \in Nat
    BY <1>2
  <2>2. (n - 1) * MaxRows \in Nat /\ n * MaxRows \in Nat
    BY <1>1, <2>1
  <2> QED BY <1>1, <2>2
<1>4. ASSUME NEW n \in 1..count
      PROVE  /\ SubSeq(input, first(n), last(n)) \in Seq(File)
             /\ \A x \in ToSet(SubSeq(input, first(n), last(n))) :
                  \E i \in DOMAIN input : x = input[i] /\ first(n) <= i /\ i <= last(n)
  <2> DEFINE lo == first(n)  hi == last(n)
  <2>1. lo \in Nat \ {0} /\ hi \in Nat /\ hi <= Len(input)
    BY <1>3
  <2> HIDE DEF lo, hi, File
  <2>2. /\ SubSeq(input, lo, hi) \in Seq(File)
        /\ \A i \in DOMAIN SubSeq(input, lo, hi) :
             /\ lo + i - 1 \in lo..hi
             /\ SubSeq(input, lo, hi)[i] = input[lo + i - 1]
    BY <1>1, <2>1
  <2>3. ASSUME NEW x \in ToSet(SubSeq(input, lo, hi))
        PROVE  \E i \in DOMAIN input : x = input[i] /\ lo <= i /\ i <= hi
    <3>1. PICK i \in DOMAIN SubSeq(input, lo, hi) : x = SubSeq(input, lo, hi)[i]
      BY <2>3 DEF ToSet
    <3>2. lo + i - 1 \in lo..hi /\ x = input[lo + i - 1]
      BY <2>2, <3>1
    <3>3. lo + i - 1 \in DOMAIN input
      BY <1>1, <2>1, <3>2
    <3> QED BY <2>1, <3>2, <3>3
  <2>4. /\ SubSeq(input, lo, hi) \in Seq(File)
        /\ \A x \in ToSet(SubSeq(input, lo, hi)) :
             \E i \in DOMAIN input : x = input[i] /\ lo <= i /\ i <= hi
    BY <2>2, <2>3
  <2> QED BY <2>4 DEF lo, hi
<1>5. shards' = [n \in 1..count |-> SubSeq(input, first(n), last(n))]
  BY DEF MakeShards
<1>6. DOMAIN shards' = 1..count
  BY <1>5
<1>7. shards' \in Seq(Seq(File))
  <2> HIDE DEF first, last, count, File
  <2> QED BY <1>2, <1>4, <1>5
<1>8. ASSUME NEW m \in 1..count, NEW n \in 1..count, m < n
      PROVE  ToSet(shards'[m]) \cap ToSet(shards'[n]) = {}
  <2>1. last(m) < first(n)
    <3>1. m \in Nat /\ n \in Nat /\ n - 1 - m \in Nat
      <4> HIDE DEF count
      <4> QED BY <1>2, <1>8
    <3> DEFINE k == n - 1 - m
    <3>2. n - 1 = m + k /\ k \in Nat
      BY <3>1
    <3>3. (n - 1) * MaxRows = m * MaxRows + k * MaxRows
      <4> HIDE DEF k
      <4> QED BY <1>1, <3>1, <3>2
    <3>4. k * MaxRows \in Nat /\ m * MaxRows \in Nat
      <4> HIDE DEF k
      <4> QED BY <1>1, <3>1, <3>2
    <3>5. last(m) <= m * MaxRows /\ last(m) \in Nat
      BY <1>3
    <3> HIDE DEF last, k
    <3> QED BY <3>3, <3>4, <3>5
  <2>2. SUFFICES ASSUME NEW x \in ToSet(shards'[m]), x \in ToSet(shards'[n]) PROVE FALSE
    OBVIOUS
  <2>3. /\ shards'[m] = SubSeq(input, first(m), last(m))
        /\ shards'[n] = SubSeq(input, first(n), last(n))
    BY <1>5, Zenon
  <2>4. PICK i \in DOMAIN input : x = input[i] /\ i <= last(m)
    BY <1>4, <2>2, <2>3, Zenon
  <2>5. PICK j \in DOMAIN input : x = input[j] /\ first(n) <= j
    BY <1>4, <2>2, <2>3, Zenon
  <2>6. i = j
    BY <1>1, <2>4, <2>5
  <2>7. last(m) \in Nat /\ first(n) \in Nat /\ i \in Nat /\ j \in Nat
    BY <1>1, <1>3
  <2> HIDE DEF first, last
  <2> QED BY <2>1, <2>4, <2>5, <2>6, <2>7
<1>9. \A m, n \in DOMAIN shards' : m # n => ToSet(shards'[m]) \cap ToSet(shards'[n]) = {}
  <2> HIDE DEF count
  <2>1. ASSUME NEW m \in 1..count, NEW n \in 1..count, m # n PROVE m < n \/ n < m
    BY <1>2, <2>1
  <2> QED BY <1>6, <1>8, <2>1
<1>10. /\ input' = input /\ plan' = plan /\ answers' = answers /\ merged' = merged
       /\ DOMAIN answers' = {}
  BY DEF MakeShards
<1> HIDE DEF count, first, last
<1> QED BY <1>7, <1>9, <1>10 DEF RankInv

LEMMA PlanStays ==
  ASSUME RankInv, MakePlan
  PROVE  RankInv'
<1> DEFINE S == {Len(shards), Slots, WorkerCap}
           count == Smallest(S)
<1>1. S \subseteq Nat /\ S # {}
  BY PoolAssumption DEF PoolAssumption, RankInv
<1>2. \E n \in S : \A other \in S : n <= other
  <2> HIDE DEF S
  <2> QED BY <1>1, LeastNatural
<1>3. count \in Nat
  <2> HIDE DEF S
  <2> QED BY <1>1, <1>2 DEF Smallest
<1>4. plan' = [worker \in 1..count |-> Dealt(worker, count)]
  BY DEF MakePlan
<1>5. \A worker : Dealt(worker, count) \subseteq Nat
  <2>1. DOMAIN shards \subseteq Nat
    BY DEF RankInv
  <2> QED BY <2>1 DEF Dealt
<1>6. plan' \in Seq(SUBSET Nat)
  <2> HIDE DEF count
  <2> QED BY <1>3, <1>4, <1>5
<1> QED BY <1>6 DEF MakePlan, RankInv

LEMMA AnswersStay ==
  ASSUME RankInv, NEW worker \in DOMAIN plan, NEW n \in DOMAIN shards, NEW text \in Answers,
         Answer(worker, n, text)
  PROVE  RankInv'
<1>1. answers' = [m \in DOMAIN answers \cup {n} |-> IF m = n THEN text ELSE answers[m]]
  BY DEF Answer
<1>2. DOMAIN answers' \subseteq DOMAIN shards /\ \A m \in DOMAIN answers' : answers'[m] \in Answers
  BY <1>1 DEF RankInv
<1> QED BY <1>2 DEF Answer, RankInv

\* Every file of the listing has an answer, which the ranking takes.
LEMMA MergeIsWhole ==
  ASSUME RankInv, Merge
  PROVE  RankInv'
<1> DEFINE given == [n \in DOMAIN shards |-> answers[n]]
<1>1. /\ DOMAIN answers = DOMAIN shards /\ FlattenSeq(shards) = input
      /\ \A n \in DOMAIN shards : Files(answers[n]) = ToSet(shards[n])
      /\ merged' = [of |-> input, rows |-> Ranking]
      /\ UNCHANGED <<input, shards, plan, answers>>
  BY DEF Merge, Mergeable, ValidShard
<1>2. given \in Seq(Seq(Row)) /\ DOMAIN given = DOMAIN shards
  <2>1. DOMAIN shards = 1..Len(shards) /\ Len(shards) \in Nat
    BY DEF RankInv
  <2>2. \A n \in DOMAIN shards : answers[n] \in Seq(Row)
    BY <1>1, ListingsAreLists DEF RankInv
  <2> HIDE DEF Row
  <2> QED BY <2>1, <2>2
<1>3. ASSUME NEW i \in DOMAIN input
      PROVE  \E row \in ToSet(Answered) : row.file = input[i]
  <2>1. input[i] \in ToSet(FlattenSeq(shards))
    BY <1>1 DEF ToSet
  <2>2. PICK n \in DOMAIN shards : input[i] \in ToSet(shards[n])
    BY <2>1, FlattenSeqKeeps DEF RankInv
  <2>3. input[i] \in Files(answers[n])
    BY <1>1, <2>2
  <2>4. PICK row \in ToSet(answers[n]) : row.file = input[i]
    BY <2>3 DEF Files, ToSet
  <2>5. given[n] = answers[n]
    OBVIOUS
  <2> HIDE DEF given, Row
  <2>6. row \in ToSet(FlattenSeq(given))
    BY <1>2, <2>4, <2>5, FlattenSeqKeeps
  <2> QED BY <2>4, <2>6 DEF given, Answered
<1>4. \A i \in DOMAIN input : Ranking[i].file = input[i]
  BY <1>3 DEF Ranking
<1>5. DOMAIN Ranking = DOMAIN input
  BY DEF Ranking
<1>6. input = [i \in DOMAIN input |-> input[i]]
  <2>1. input \in Seq(File)
    BY ListingsAreLists DEF RankInv
  <2> QED BY <2>1
<1>7. [i \in DOMAIN Ranking |-> Ranking[i].file] = input
  BY <1>4, <1>5, <1>6
<1>8. merged'.rows = Ranking /\ merged'.of = input
  BY <1>1
<1>9. [i \in DOMAIN merged'.rows |-> merged'.rows[i].file] = merged'.of
  BY <1>7, <1>8, Zenon
<1> QED BY <1>1, <1>9 DEF RankInv

LEMMA RankStep == RankInv /\ [RankNext]_rankVars => RankInv'
<1> SUFFICES ASSUME RankInv, [RankNext]_rankVars PROVE RankInv'
  OBVIOUS
<1>1. CASE ListAgain
  BY <1>1 DEF ListAgain, RankInv
<1>2. ASSUME NEW other \in Plans, RewritePlan(other) PROVE RankInv'
  <2>1. plan' \in Seq(SUBSET Nat)
    BY <1>2, PoolAssumption DEF RewritePlan, PoolAssumption
  <2> QED BY <1>2, <2>1 DEF RewritePlan, RankInv
<1>3. CASE Select
  BY <1>3 DEF Select, RankInv
<1>4. CASE UNCHANGED rankVars
  BY <1>4 DEF rankVars, RankInv
<1> QED BY <1>1, <1>2, <1>3, <1>4, ShardsAreApart, PlanStays, AnswersStay, MergeIsWhole
        DEF RankNext

\* A worker's receipt holds for its own shards; as a valid plan deals every
\* shard to some worker, the receipts together make the pool valid and the
\* answers mergeable, for every number of files, shards and workers, whatever
\* the workers wrote and however often the target was listed anew; and a ranking
\* holds every file of its listing once, in the listing's order
\* (validate_rank_worker_command, validate_rank_pool_command, merge_rank_outputs).
THEOREM RankingsAreExact == RankSpec => []RankingIsExact
<1>1. RankInv => RankingIsExact
  <2> SUFFICES ASSUME RankInv, plan # <<>>, \A worker \in DOMAIN plan : ValidWorker(worker)
               PROVE  ValidPool /\ (FlattenSeq(shards) = input => Mergeable)
    BY DEF RankInv, RankingIsExact
  <2>1. ValidPlan
    <3>1. 1 \in DOMAIN plan
      BY DEF RankInv
    <3> QED BY <3>1 DEF ValidWorker
  <2>2. ASSUME NEW n \in DOMAIN shards PROVE ValidShard(n)
    <3>1. n \in UNION ToSet(plan)
      BY <2>1 DEF ValidPlan
    <3>2. PICK worker \in DOMAIN plan : n \in plan[worker]
      BY <3>1 DEF ToSet
    <3> QED BY <3>2 DEF ValidWorker
  <2>3. DOMAIN answers = DOMAIN shards
    BY <2>2 DEF RankInv, ValidShard
  <2>4. \A m, n \in DOMAIN shards : m # n => Files(answers[m]) \cap Files(answers[n]) = {}
    BY <2>2 DEF RankInv, ValidShard
  <2> QED BY <2>1, <2>2, <2>3, <2>4 DEF ValidPool, Mergeable
<1> QED BY <1>1, RankStarts, RankStep, PTL DEF RankSpec

-----------------------------------------------------------------------------
(* The draft of a scan that reached its cost limit *)

BudgetSpec == BudgetInit /\ [][BudgetNext]_budgetVars

Names == {row.id : row \in UNION {ToSet(list) : list \in Ledgers}}

Added == {[id |-> name, cost |-> TRUE] : name \in Names \cup {"scan-cost-limit"}}

CoverageItems == (UNION {ToSet(d.coverage.deferred) : d \in Saved}) \cup Added

\* No candidate is deferred twice.
Once(coverage) ==
  \A i, j \in DOMAIN coverage.deferred :
    /\ coverage.deferred[i].id = coverage.deferred[j].id
    /\ coverage.deferred[i].id \in Names
    => i = j

\* What an agent leaves defers no candidate twice, and no candidate has the name
\* of the item that only says why.
DraftsDeferOnce ==
  /\ \A d \in Saved : Once(d.coverage)
  /\ "scan-cost-limit" \notin Names

Coverage(coverage) ==
  /\ coverage = [surfaces |-> coverage.surfaces, deferred |-> coverage.deferred]
  /\ coverage.deferred \in Seq(CoverageItems)
  /\ Once(coverage)

\* The first n candidates of the ledger have been dealt with.
DealtWith(findings, coverage, n) ==
  \A i \in 1..n :
    \/ ledger[i].id \in findings \cup DeferredIds(coverage)
    \/ ledger[i].id \in DOMAIN coverage.surfaces /\ Disposition(ledger[i]) # "needs_follow_up"

WholeDraft(findings, coverage) ==
  /\ Coverage(coverage)
  /\ DealtWith(findings, coverage, Len(ledger))
  /\ SaysWhy(coverage)

BudgetInv ==
  /\ ledger \in Ledgers
  /\ draft = [findings |-> draft.findings, coverage |-> draft.coverage,
              manifest |-> draft.manifest]
  /\ draft.coverage # Missing => Coverage(draft.coverage)
  /\ writing \in {"idle", "findings", "coverage", "manifest", "written"}
  /\ writing # "idle" => WholeDraft(intended.findings, intended.coverage)
  /\ writing \in {"coverage", "manifest", "written"} => draft.findings = intended.findings
  /\ writing \in {"manifest", "written"} => draft.coverage = intended.coverage

LEMMA LedgerIsAList ==
  ASSUME BudgetInv
  PROVE  /\ Len(ledger) \in Nat /\ DOMAIN ledger = 1..Len(ledger)
         /\ \A i \in DOMAIN ledger : ledger[i].id \in Names
<1>1. ledger \in Seq(ToSet(ledger))
  BY BudgetAssumption DEF BudgetInv, BudgetAssumption
<1>2. Len(ledger) \in Nat /\ DOMAIN ledger = 1..Len(ledger)
  <2> DEFINE S == ToSet(ledger)
  <2> HIDE DEF S
  <2>1. ledger \in Seq(S)
    BY <1>1 DEF S
  <2> QED BY <2>1
<1>3. \A i \in DOMAIN ledger : ledger[i] \in ToSet(ledger)
  BY DEF ToSet
<1> QED BY <1>2, <1>3 DEF BudgetInv, Names

\* The loop over the ledger.
Loops(f, dealt, start, n) ==
  f = [k \in 0..n |-> IF k = 0 THEN start ELSE Account(dealt, f[k - 1], ledger[k])]

LEMMA LoopExists ==
  ASSUME NEW dealt, NEW start, NEW n \in Nat
  PROVE  \E f : Loops(f, dealt, start, n)
<1> DEFINE N == {k \in Nat : \E f : Loops(f, dealt, start, k)}
<1>1. 0 \in N
  <2> DEFINE f == [k \in 0..0 |-> start]
  <2>1. \A k \in 0..0 : k = 0
    OBVIOUS
  <2>2. f = [k \in 0..0 |-> IF k = 0 THEN start ELSE Account(dealt, f[k - 1], ledger[k])]
    BY <2>1, Zenon
  <2>3. Loops(f, dealt, start, 0)
    BY <2>2, Zenon DEF Loops
  <2> HIDE DEF f
  <2> QED BY <2>3
<1>2. ASSUME NEW k \in Nat, k \in N PROVE k + 1 \in N
  <2>1. PICK f : Loops(f, dealt, start, k)
    BY <1>2
  <2> DEFINE g == [i \in 0..(k + 1) |->
                     IF i = 0 THEN start ELSE Account(dealt, f[i - 1], ledger[i])]
  <2>2. ASSUME NEW i \in 0..k PROVE f[i] = g[i]
    <3>1. f[i] = IF i = 0 THEN start ELSE Account(dealt, f[i - 1], ledger[i])
      BY <2>1, Zenon DEF Loops
    <3>2. i \in 0..(k + 1)
      OBVIOUS
    <3>3. g[i] = IF i = 0 THEN start ELSE Account(dealt, f[i - 1], ledger[i])
      BY <3>2, Zenon
    <3> HIDE DEF g
    <3> QED BY <3>1, <3>3
  <2>3. ASSUME NEW i \in 0..(k + 1)
        PROVE  g[i] = IF i = 0 THEN start ELSE Account(dealt, g[i - 1], ledger[i])
    <3>1. g[i] = IF i = 0 THEN start ELSE Account(dealt, f[i - 1], ledger[i])
      BY Zenon
    <3> HIDE DEF g
    <3>2. CASE i = 0
      BY <3>1, <3>2, Zenon
    <3>3. CASE i # 0
      <4>1. i - 1 \in 0..k
        BY <3>3
      <4>2. f[i - 1] = g[i - 1]
        BY <2>2, <4>1, Zenon
      <4> QED BY <3>1, <3>3, <4>2, Zenon
    <3> QED BY <3>2, <3>3
  <2>4. g = [i \in 0..(k + 1) |-> IF i = 0 THEN start ELSE Account(dealt, g[i - 1], ledger[i])]
    <3>1. g = [i \in 0..(k + 1) |-> g[i]]
      BY Zenon
    <3> HIDE DEF g
    <3> QED BY <2>3, <3>1, Zenon
  <2>5. Loops(g, dealt, start, k + 1)
    BY <2>4, Zenon DEF Loops
  <2> HIDE DEF g
  <2> QED BY <2>5
<1>3. Nat \subseteq N
  <2> HIDE DEF N
  <2> QED BY <1>1, <1>2, NumbersInduction
<1> QED BY <1>3

LEMMA ItemsOfNames ==
  \A name \in Names \cup {"scan-cost-limit"} : [id |-> name, cost |-> TRUE] \in CoverageItems
<1>1. \A name \in Names \cup {"scan-cost-limit"} : [id |-> name, cost |-> TRUE] \in Added
  BY DEF Added
<1>2. Added \subseteq CoverageItems
  BY DEF CoverageItems
<1> QED BY <1>1, <1>2

\* One more item, for a candidate that had none or for none of them.
LEMMA OnceMore ==
  ASSUME NEW coverage, Coverage(coverage), NEW surfaces, NEW name,
         [id |-> name, cost |-> TRUE] \in CoverageItems,
         name \in Names => name \notin DeferredIds(coverage)
  PROVE  LET more == [surfaces |-> surfaces,
                      deferred |-> Append(coverage.deferred, [id |-> name, cost |-> TRUE])]
         IN /\ Coverage(more)
            /\ DeferredIds(more) = DeferredIds(coverage) \cup {name}
            /\ SaysWhy(more)
<1> DEFINE item == [id |-> name, cost |-> TRUE]
           s == coverage.deferred
           t == Append(s, item)
           more == [surfaces |-> surfaces, deferred |-> t]
<1>1. item.id = name /\ item.cost = TRUE /\ item \in CoverageItems
  OBVIOUS
<1>2. s \in Seq(CoverageItems)
  BY DEF Coverage
<1>3. more.deferred = t /\ more = [surfaces |-> more.surfaces, deferred |-> more.deferred]
  OBVIOUS
<1>4. /\ DeferredIds(coverage) = {x.id : x \in ToSet(s)}
      /\ DeferredIds(more) = {x.id : x \in ToSet(t)}
      /\ Once(coverage) <=> \A i, j \in DOMAIN s : s[i].id = s[j].id /\ s[i].id \in Names => i = j
      /\ Once(more) <=> \A i, j \in DOMAIN t : t[i].id = t[j].id /\ t[i].id \in Names => i = j
      /\ SaysWhy(more) <=> \E x \in ToSet(t) : x.cost
  BY DEF DeferredIds, Once, SaysWhy
<1>5. Once(coverage)
  BY DEF Coverage
<1> HIDE DEF item, s, more
<1>6. /\ Len(s) \in Nat /\ DOMAIN s = 1..Len(s) /\ DOMAIN t = 1..(Len(s) + 1)
      /\ t[Len(s) + 1] = item /\ \A i \in 1..Len(s) : t[i] = s[i]
      /\ t \in Seq(CoverageItems)
  BY <1>1, <1>2
<1> DEFINE n == Len(s)
<1> HIDE DEF t, n
<1>7. n \in Nat /\ DOMAIN s = 1..n /\ DOMAIN t = 1..(n + 1) /\ t[n + 1] = item
      /\ \A i \in 1..n : t[i] = s[i]
  BY <1>6 DEF n
<1>8. DOMAIN t = DOMAIN s \cup {n + 1} /\ n + 1 \notin DOMAIN s
  BY <1>7
<1>9. ToSet(t) = ToSet(s) \cup {item}
  <2>1. \A i \in DOMAIN s : t[i] = s[i]
    BY <1>7
  <2> QED BY <1>7, <1>8, <2>1 DEF ToSet
<1>10. DeferredIds(more) = DeferredIds(coverage) \cup {name}
  BY <1>1, <1>4, <1>9
<1>11. SaysWhy(more)
  BY <1>1, <1>4, <1>9
<1>12. Once(more)
  <2>1. \A i \in DOMAIN s : t[i] = s[i] /\ s[i].id \in DeferredIds(coverage)
    BY <1>4, <1>7 DEF ToSet
  <2>2. ASSUME NEW i \in DOMAIN t, NEW j \in DOMAIN t, t[i].id = t[j].id, t[i].id \in Names
        PROVE  i = j
    <3>1. CASE i \in DOMAIN s /\ j \in DOMAIN s
      BY <1>4, <1>5, <2>1, <2>2, <3>1
    <3>2. CASE i = n + 1 /\ j \in DOMAIN s
      BY <1>1, <1>7, <2>1, <2>2, <3>2
    <3>3. CASE i \in DOMAIN s /\ j = n + 1
      BY <1>1, <1>7, <2>1, <2>2, <3>3
    <3> QED BY <1>8, <3>1, <3>2, <3>3
  <2> QED BY <1>4, <2>2
<1>13. Coverage(more)
  BY <1>3, <1>6, <1>12 DEF Coverage
<1> QED BY <1>10, <1>11, <1>13 DEF more, t, s, item

\* Accounting for one candidate that neither a finding nor an item stands for.
LEMMA AccountKeeps ==
  ASSUME NEW coverage, Coverage(coverage), NEW dealt, NEW row, row.id \in Names,
         row.id \notin dealt => row.id \notin DeferredIds(coverage)
  PROVE  LET next == Account(dealt, coverage, row)
         IN /\ Coverage(next)
            /\ DeferredIds(coverage) \subseteq DeferredIds(next)
            /\ DeferredIds(next) \subseteq DeferredIds(coverage) \cup {row.id}
            /\ DOMAIN coverage.surfaces \subseteq DOMAIN next.surfaces
            /\ row.id \notin dealt =>
                 \/ row.id \in DeferredIds(next)
                 \/ row.id \in DOMAIN next.surfaces /\ Disposition(row) # "needs_follow_up"
<1> DEFINE next == Account(dealt, coverage, row)
           wider == Surfaced(coverage.surfaces, row)
<1>1. CASE row.id \in dealt
  <2>1. next = coverage
    BY <1>1 DEF Account
  <2> HIDE DEF next
  <2> QED BY <1>1, <2>1 DEF next
<1>2. CASE row.id \notin dealt
  <2>1. DOMAIN coverage.surfaces \subseteq DOMAIN wider /\ row.id \in DOMAIN wider
    BY DEF Surfaced
  <2>2. CASE Disposition(row) = "needs_follow_up"
    <3>1. next = [surfaces |-> wider,
                  deferred |-> Append(coverage.deferred, [id |-> row.id, cost |-> TRUE])]
      BY <1>2, <2>2 DEF Account
    <3>2. [id |-> row.id, cost |-> TRUE] \in CoverageItems
      BY ItemsOfNames
    <3> HIDE DEF wider, next
    <3>3. Coverage(next) /\ DeferredIds(next) = DeferredIds(coverage) \cup {row.id}
      BY <1>2, <3>1, <3>2, OnceMore
    <3>4. next.surfaces = wider
      BY <3>1
    <3> QED BY <2>1, <3>3, <3>4 DEF next
  <2>3. CASE Disposition(row) # "needs_follow_up"
    <3>1. next = [surfaces |-> wider, deferred |-> coverage.deferred]
      BY <1>2, <2>3 DEF Account
    <3> HIDE DEF wider, next
    <3>2. next.surfaces = wider /\ next.deferred = coverage.deferred
      BY <3>1
    <3>3. DeferredIds(next) = DeferredIds(coverage)
      BY <3>2 DEF DeferredIds
    <3>4. Coverage(next)
      BY <3>1, <3>2 DEF Coverage, Once
    <3> QED BY <2>1, <2>3, <3>2, <3>3, <3>4 DEF next
  <2> QED BY <2>2, <2>3
<1> QED BY <1>1, <1>2

\* The loop leaves no candidate out.
LEMMA AccountedIsWhole ==
  ASSUME DraftsDeferOnce, BudgetInv, ValidLedger, NEW d, Coverage(d.coverage)
  PROVE  WholeDraft(d.findings, Accounted(d))
<1> DEFINE dealt == d.findings \cup DeferredIds(d.coverage)
           L == Len(ledger)
           after == CHOOSE f : Loops(f, dealt, d.coverage, L)
<1>0. /\ L \in Nat /\ DOMAIN ledger = 1..L
      /\ \A i \in 1..L : ledger[i].id \in Names
      /\ \A i, j \in 1..L : ledger[i].id = ledger[j].id => i = j
  BY LedgerIsAList DEF ValidLedger
<1>1. Loops(after, dealt, d.coverage, L)
  <2> HIDE DEF dealt, L
  <2>1. \E f : Loops(f, dealt, d.coverage, L)
    BY <1>0, LoopExists
  <2> QED BY <2>1
<1> DEFINE all == after[L]
<1>2. Accounted(d) = IF SaysWhy(all) THEN all
                     ELSE [all EXCEPT !.deferred =
                             Append(@, [id |-> "scan-cost-limit", cost |-> TRUE])]
  BY Zenon DEF Accounted, Loops
<1> DEFINE
      Sound(n) ==
        /\ Coverage(after[n])
        /\ DeferredIds(d.coverage) \subseteq DeferredIds(after[n])
        /\ DealtWith(d.findings, after[n], n)
        /\ \A i \in 1..L :
             i > n /\ ledger[i].id \in DeferredIds(after[n])
             => ledger[i].id \in DeferredIds(d.coverage)
      N == {n \in Nat : n <= L => Sound(n)}
<1> HIDE DEF after, L
<1>3. 0 \in N
  <2>1. after[0] = d.coverage
    <3>1. 0 \in 0..L
      BY <1>0
    <3> QED BY <1>1, <3>1 DEF Loops
  <2> QED BY <2>1 DEF DealtWith
<1>4. ASSUME NEW n \in Nat, n \in N PROVE n + 1 \in N
  <2> SUFFICES ASSUME n + 1 <= L PROVE Sound(n + 1)
    OBVIOUS
  <2> DEFINE m == n + 1  row == ledger[m]  next == after[m]  last == after[n]
  <2>1. m \in 1..L /\ m \in 0..L /\ m # 0 /\ m - 1 = n /\ n <= L
    BY <1>0
  <2>2. Sound(n)
    BY <1>4, <2>1
  <2>3. next = Account(dealt, last, row)
    <3>1. after[m] = IF m = 0 THEN d.coverage ELSE Account(dealt, after[m - 1], ledger[m])
      BY <1>1, <2>1, Zenon DEF Loops
    <3> HIDE DEF m
    <3> QED BY <2>1, <3>1
  <2>4. row.id \in Names
    BY <1>0, <2>1
  <2>5. row.id \notin dealt => row.id \notin DeferredIds(last)
    <3>1. m > n
      OBVIOUS
    <3> QED BY <2>1, <2>2, <3>1
  <2>6. /\ Coverage(next)
        /\ DeferredIds(last) \subseteq DeferredIds(next)
        /\ DeferredIds(next) \subseteq DeferredIds(last) \cup {row.id}
        /\ DOMAIN last.surfaces \subseteq DOMAIN next.surfaces
        /\ row.id \notin dealt =>
             \/ row.id \in DeferredIds(next)
             \/ row.id \in DOMAIN next.surfaces /\ Disposition(row) # "needs_follow_up"
    <3>1. Coverage(last)
      BY <2>2
    <3> HIDE DEF last, next, row, dealt
    <3> QED BY <2>3, <2>4, <2>5, <3>1, AccountKeeps
  <2>7. DeferredIds(d.coverage) \subseteq DeferredIds(next)
    BY <2>2, <2>6
  <2>8. DealtWith(d.findings, next, m)
    <3> SUFFICES ASSUME NEW i \in 1..m
                 PROVE  \/ ledger[i].id \in d.findings \cup DeferredIds(next)
                        \/ /\ ledger[i].id \in DOMAIN next.surfaces
                           /\ Disposition(ledger[i]) # "needs_follow_up"
      BY DEF DealtWith
    <3>1. CASE i = m
      <4> HIDE DEF next, last
      <4> QED BY <2>6, <2>7, <3>1
    <3>2. CASE i # m
      <4>1. i \in 1..n
        BY <3>2
      <4>2. \/ ledger[i].id \in d.findings \cup DeferredIds(last)
            \/ /\ ledger[i].id \in DOMAIN last.surfaces
               /\ Disposition(ledger[i]) # "needs_follow_up"
        BY <2>2, <4>1 DEF DealtWith
      <4> HIDE DEF next, last
      <4> QED BY <2>6, <4>2
    <3> QED BY <3>1, <3>2
  <2>9. ASSUME NEW i \in 1..L, i > m, ledger[i].id \in DeferredIds(next)
        PROVE  ledger[i].id \in DeferredIds(d.coverage)
    <3>1. ledger[i].id # row.id
      <4>1. i # m
        BY <2>1, <2>9
      <4> QED BY <1>0, <2>1, <4>1
    <3>2. ledger[i].id \in DeferredIds(last)
      BY <2>6, <2>9, <3>1
    <3>3. i > n
      BY <1>0, <2>1, <2>9
    <3> QED BY <2>2, <3>2, <3>3
  <2> QED BY <2>6, <2>7, <2>8, <2>9
<1>5. Nat \subseteq N
  <2> HIDE DEF N
  <2> QED BY <1>3, <1>4, NumbersInduction
<1>6. Sound(L)
  <2>1. L \in N /\ L <= L
    BY <1>0, <1>5
  <2> QED BY <2>1
<1> HIDE DEF dealt
<1>7. CASE SaysWhy(all)
  <2>1. Accounted(d) = all
    BY <1>2, <1>7
  <2> QED BY <1>6, <1>7, <2>1 DEF WholeDraft, L
<1>8. CASE ~SaysWhy(all)
  <2> DEFINE limit == [id |-> "scan-cost-limit", cost |-> TRUE]
             more == [surfaces |-> all.surfaces, deferred |-> Append(all.deferred, limit)]
  <2>1. all = [surfaces |-> all.surfaces, deferred |-> all.deferred]
    BY <1>6 DEF Coverage
  <2>2. Accounted(d) = more
    <3> HIDE DEF all
    <3>1. Accounted(d) = [all EXCEPT !.deferred = Append(@, limit)]
      BY <1>2, <1>8
    <3> QED BY <2>1, <3>1
  <2>3. limit \in CoverageItems /\ "scan-cost-limit" \notin Names
    BY ItemsOfNames DEF DraftsDeferOnce
  <2>4. Coverage(all)
    BY <1>6
  <2>5. more.surfaces = all.surfaces
    OBVIOUS
  <2> HIDE DEF all
  <2>6. Coverage(more) /\ DeferredIds(all) \subseteq DeferredIds(more) /\ SaysWhy(more)
    <3> DEFINE surfaces == all.surfaces  name == "scan-cost-limit"
    <3>1. /\ Coverage([surfaces |-> surfaces,
                       deferred |-> Append(all.deferred, [id |-> name, cost |-> TRUE])])
          /\ DeferredIds([surfaces |-> surfaces,
                          deferred |-> Append(all.deferred, [id |-> name, cost |-> TRUE])])
               = DeferredIds(all) \cup {name}
          /\ SaysWhy([surfaces |-> surfaces,
                      deferred |-> Append(all.deferred, [id |-> name, cost |-> TRUE])])
      <4>1. [id |-> name, cost |-> TRUE] \in CoverageItems /\ name \notin Names
        BY <2>3
      <4> HIDE DEF surfaces, name
      <4> QED BY <2>4, <4>1, OnceMore
    <3> QED BY <3>1
  <2> HIDE DEF more
  <2>7. DealtWith(d.findings, all, L)
    BY <1>6 DEF all
  <2>8. DealtWith(d.findings, more, L)
    BY <2>5, <2>6, <2>7 DEF DealtWith
  <2> QED BY <2>2, <2>6, <2>8 DEF WholeDraft, L
<1> QED BY <1>7, <1>8

LEMMA BudgetStarts == DraftsDeferOnce /\ BudgetInit => BudgetInv
<1> SUFFICES ASSUME DraftsDeferOnce, BudgetInit PROVE BudgetInv
  OBVIOUS
<1>1. CASE draft = [findings |-> Missing, coverage |-> Missing, manifest |-> Missing]
  BY <1>1 DEF BudgetInit, BudgetInv
<1>2. ASSUME NEW d \in Saved,
             draft = [findings |-> d.findings, coverage |-> d.coverage, manifest |-> "draft"]
      PROVE  BudgetInv
  <2>1. Coverage(d.coverage)
    <3>1. d.coverage.deferred \in Seq(ToSet(d.coverage.deferred))
          /\ ToSet(d.coverage.deferred) \subseteq CoverageItems
      BY BudgetAssumption DEF BudgetAssumption, CoverageItems
    <3>2. d.coverage.deferred \in Seq(CoverageItems)
      <4> HIDE DEF CoverageItems
      <4> DEFINE S == ToSet(d.coverage.deferred)  s == d.coverage.deferred
      <4> HIDE DEF S, s
      <4>1. s \in Seq(S) /\ S \subseteq CoverageItems
        BY <3>1 DEF S, s
      <4>2. s \in Seq(CoverageItems)
        BY <4>1
      <4> QED BY <4>2 DEF s
    <3> QED BY <3>2, BudgetAssumption DEF BudgetAssumption, DraftsDeferOnce, Coverage
  <2>2. draft.coverage = d.coverage
    BY <1>2
  <2> QED BY <1>2, <2>1, <2>2 DEF BudgetInit, BudgetInv
<1> QED BY <1>1, <1>2 DEF BudgetInit

LEMMA BeginKeeps ==
  ASSUME DraftsDeferOnce, BudgetInv, BeginDraft
  PROVE  BudgetInv'
<1> DEFINE d == IF draft.findings = Missing THEN NoDraft
                ELSE [findings |-> draft.findings, coverage |-> draft.coverage]
<1>1. /\ ValidLedger /\ intended' = [d EXCEPT !.coverage = Accounted(d)]
      /\ writing' = "findings" /\ UNCHANGED <<ledger, draft>>
  BY DEF BeginDraft
<1>2. Coverage(d.coverage)
  <2>1. CASE draft.findings = Missing
    <3>1. d.coverage = [deferred |-> <<>>, surfaces |-> <<>>]
      BY <2>1 DEF NoDraft
    <3>2. d.coverage.deferred = <<>> /\ d.coverage.surfaces = <<>>
      BY <3>1
    <3> HIDE DEF d
    <3>3. <<>> \in Seq(CoverageItems)
      OBVIOUS
    <3> QED BY <3>1, <3>2, <3>3 DEF Coverage, Once
  <2>2. CASE draft.findings # Missing
    <3>1. {"findings", "coverage"} \subseteq Documents
      <4>1. DOMAIN draft = {"findings", "coverage", "manifest"}
        BY DEF BudgetInv
      <4> QED BY <4>1 DEF Documents
    <3>2. draft.coverage # Missing
      BY <2>2, <3>1 DEF BeginDraft
    <3> QED BY <2>2, <3>2 DEF BudgetInv
  <2> QED BY <2>1, <2>2
<1>3. intended'.findings = d.findings /\ intended'.coverage = Accounted(d)
  <2>1. d = [findings |-> d.findings, coverage |-> d.coverage]
    BY DEF NoDraft
  <2> HIDE DEF d
  <2> QED BY <1>1, <2>1
<1> HIDE DEF d
<1>4. WholeDraft(d.findings, Accounted(d))
  BY <1>1, <1>2, AccountedIsWhole
<1>5. WholeDraft(intended'.findings, intended'.coverage)
  BY <1>3, <1>4
<1>6. WholeDraft(intended.findings, intended.coverage)'
  BY <1>1, <1>5 DEF WholeDraft, DealtWith, Disposition
<1> QED BY <1>1, <1>6 DEF BudgetInv

LEMMA WriteKeeps == BudgetInv /\ WriteDocument => BudgetInv'
<1> SUFFICES ASSUME BudgetInv, WriteDocument PROVE BudgetInv'
  OBVIOUS
<1>1. /\ ledger' = ledger /\ intended' = intended /\ writing # "idle"
      /\ draft = [findings |-> draft.findings, coverage |-> draft.coverage,
                  manifest |-> draft.manifest]
  BY DEF WriteDocument, BudgetInv, Documents
<1>2. WholeDraft(intended.findings, intended.coverage)'
  BY <1>1 DEF BudgetInv, WholeDraft, DealtWith, Disposition
<1>3. CASE writing = "findings"
  <2>1. draft' = [draft EXCEPT !.findings = intended.findings] /\ writing' = "coverage"
    BY <1>3 DEF WriteDocument
  <2>2. /\ draft' = [findings |-> intended.findings, coverage |-> draft.coverage,
                     manifest |-> draft.manifest]
    BY <1>1, <2>1
  <2> QED BY <1>1, <1>2, <2>1, <2>2 DEF BudgetInv
<1>4. CASE writing = "coverage"
  <2>1. draft' = [draft EXCEPT !.coverage = intended.coverage] /\ writing' = "manifest"
    BY <1>4 DEF WriteDocument
  <2>2. /\ draft' = [findings |-> draft.findings, coverage |-> intended.coverage,
                     manifest |-> draft.manifest]
    BY <1>1, <2>1
  <2>3. Coverage(intended.coverage)
    BY <1>1 DEF BudgetInv, WholeDraft
  <2> QED BY <1>1, <1>2, <1>4, <2>1, <2>2, <2>3 DEF BudgetInv
<1>5. CASE writing = "manifest"
  <2>1. draft' = [draft EXCEPT !.manifest = "draft"] /\ writing' = "written"
    BY <1>5 DEF WriteDocument
  <2>2. /\ draft' = [findings |-> draft.findings, coverage |-> draft.coverage,
                     manifest |-> "draft"]
    BY <1>1, <2>1
  <2> QED BY <1>1, <1>2, <1>5, <2>1, <2>2 DEF BudgetInv
<1> QED BY <1>3, <1>4, <1>5 DEF WriteDocument

LEMMA BudgetStep == DraftsDeferOnce /\ BudgetInv /\ [BudgetNext]_budgetVars => BudgetInv'
<1> SUFFICES ASSUME DraftsDeferOnce, BudgetInv, [BudgetNext]_budgetVars PROVE BudgetInv'
  OBVIOUS
<1>1. CASE WriterStops
  BY <1>1 DEF WriterStops, BudgetInv
<1>2. CASE UNCHANGED budgetVars
  <2>1. WholeDraft(intended.findings, intended.coverage)'
          = WholeDraft(intended.findings, intended.coverage)
    BY <1>2 DEF budgetVars, WholeDraft, DealtWith
  <2> QED BY <1>2, <2>1 DEF budgetVars, BudgetInv
<1> QED BY <1>1, <1>2, BeginKeeps, WriteKeeps DEF BudgetNext

\* However often the command is cut and given again, and whatever the ledger,
\* a written draft accounts for every candidate exactly once and says that the
\* cost limit is why, if the draft the agent left deferred none of them twice:
\* the loop never adds an item for a candidate that has one
\* (budget_exhausted_draft).
THEOREM CandidatesAreAccountedFor ==
  ASSUME DraftsDeferOnce
  PROVE  BudgetSpec => []NoCandidateIsLost
<1>1. BudgetInv => NoCandidateIsLost
  <2> SUFFICES ASSUME BudgetInv, writing = "written"
               PROVE  /\ \A i \in DOMAIN ledger :
                           LET id == ledger[i].id
                           IN \/ id \in draft.findings
                              \/ Cardinality({n \in DOMAIN draft.coverage.deferred :
                                                draft.coverage.deferred[n].id = id}) = 1
                              \/ /\ id \in DOMAIN draft.coverage.surfaces
                                 /\ Disposition(ledger[i]) # "needs_follow_up"
                      /\ SaysWhy(draft.coverage)
    BY DEF NoCandidateIsLost
  <2>1. WholeDraft(draft.findings, draft.coverage)
    BY DEF BudgetInv
  <2>2. ASSUME NEW i \in DOMAIN ledger, ledger[i].id \in DeferredIds(draft.coverage)
        PROVE  Cardinality({n \in DOMAIN draft.coverage.deferred :
                              draft.coverage.deferred[n].id = ledger[i].id}) = 1
    <3> DEFINE s == draft.coverage.deferred  id == ledger[i].id
               At == {n \in DOMAIN s : s[n].id = id}
    <3>1. PICK n \in DOMAIN s : s[n].id = id
      BY <2>2 DEF DeferredIds, ToSet
    <3>2. id \in Names
      BY LedgerIsAList
    <3>3. \A k \in DOMAIN s : s[k].id = id => k = n
      BY <2>1, <3>1, <3>2 DEF WholeDraft, Coverage, Once
    <3>4. At = {n}
      BY <3>1, <3>3
    <3> QED BY <3>4, FS_Singleton, Zenon
  <2> QED BY <2>1, <2>2, LedgerIsAList DEF WholeDraft, DealtWith
<1>2. BudgetInit => BudgetInv
  BY BudgetStarts
<1>3. BudgetInv /\ [BudgetNext]_budgetVars => BudgetInv'
  BY BudgetStep
<1> QED BY <1>1, <1>2, <1>3, PTL DEF BudgetSpec

-----------------------------------------------------------------------------
(* The database of the workbench: which databases open, and with what      *)
(* schema.                                                                 *)

\* What one operation does to a database.
LEMMA MoveFields ==
  ASSUME NEW db \in Database, NEW old \in Versions, NEW new \in Versions, old # new
  PROVE  LET d == Move(db, old, new)
         IN /\ d \in Database
            /\ d.names[old] = NoName /\ d.names[new] = db.names[old]
            /\ \A v \in Versions \ {old, new} : d.names[v] = db.names[v]
            /\ d.has = db.has /\ d.owner = db.owner /\ d.profile = db.profile
            /\ d.fine = db.fine
<1> USE DEF Versions, Latest
<1> QED BY DEF Move, Database, NoName

LEMMA RequireFields ==
  ASSUME NEW db \in Database, NEW condition \in BOOLEAN
  PROVE  LET d == Require(db, condition)
         IN /\ d \in Database
            /\ d.names = db.names
            /\ d.has = db.has /\ d.owner = db.owner /\ d.profile = db.profile
            /\ d.fine = (db.fine /\ condition)
BY DEF Require, Database

LEMMA EnsureFields ==
  ASSUME NEW db \in Database, NEW features \in SUBSET Versions
  PROVE  LET d == Ensure(db, features)
         IN /\ d \in Database
            /\ d.names = db.names
            /\ d.has = db.has \cup features /\ d.owner = db.owner /\ d.profile = db.profile
            /\ d.fine = db.fine
BY DEF Ensure, Database

-----------------------------------------------------------------------------
(* The pass over the migrations. *)

\* Migration v, which is not recorded, can be applied.
Clear(db, v) ==
  /\ v \in db.has => v \in {6, 16, 18}
  /\ v = 11 => ~db.owner
  /\ v = 25 => ~db.profile

\* The database after migrations 1..n.
Through(db, n) ==
  [names |-> [v \in Versions |-> IF v <= n /\ ~Recorded(db, v) THEN v ELSE db.names[v]],
   has |-> db.has \cup {v \in Versions :
                          v <= n /\ (Recorded(db, v) => v \in Repaired \cup {11})},
   owner |-> (db.owner \/ n >= 11),
   profile |-> db.profile,
   fine |-> (db.fine /\ \A v \in Versions : v <= n => Recorded(db, v) \/ Clear(db, v))]

\* A database is its five fields.
LEMMA SameDatabase ==
  ASSUME NEW d \in Database, NEW e \in Database,
         \A v \in Versions : d.names[v] = e.names[v],
         d.has = e.has, d.owner = e.owner, d.profile = e.profile, d.fine = e.fine
  PROVE  d = e
<1>1. /\ d = [names |-> d.names, has |-> d.has, owner |-> d.owner, profile |-> d.profile,
              fine |-> d.fine]
      /\ e = [names |-> e.names, has |-> e.has, owner |-> e.owner, profile |-> e.profile,
              fine |-> e.fine]
  BY DEF Database
<1>2. d.names = e.names
  BY DEF Database
<1> QED BY <1>1, <1>2

LEMMA ThroughFields ==
  ASSUME NEW db \in Database, NEW n \in 0..Latest
  PROVE  /\ Through(db, n) \in Database
         /\ \A v \in Versions :
              Through(db, n).names[v]
                = IF v <= n /\ ~Recorded(db, v) THEN v ELSE db.names[v]
         /\ \A v \in Versions :
              v \in Through(db, n).has
                <=> v \in db.has \/ (v <= n /\ (Recorded(db, v) => v \in Repaired \cup {11}))
         /\ Through(db, n).owner = (db.owner \/ n >= 11)
         /\ Through(db, n).profile = db.profile
         /\ Through(db, n).fine
              = (db.fine /\ \A v \in Versions : v <= n => Recorded(db, v) \/ Clear(db, v))
<1>1. [v \in Versions |-> IF v <= n /\ ~Recorded(db, v) THEN v ELSE db.names[v]]
        \in [Versions -> Nat]
  BY DEF Database, Versions, Latest
<1>2. db.has \cup {v \in Versions : v <= n /\ (Recorded(db, v) => v \in Repaired \cup {11})}
        \in SUBSET Versions
  BY DEF Database
<1>3. db.owner \in BOOLEAN /\ db.profile \in BOOLEAN /\ db.fine \in BOOLEAN
  BY DEF Database
<1> DEFINE names == [v \in Versions |-> IF v <= n /\ ~Recorded(db, v) THEN v ELSE db.names[v]]
           has == db.has \cup {v \in Versions :
                                v <= n /\ (Recorded(db, v) => v \in Repaired \cup {11})}
           owner == (db.owner \/ n >= 11)
           fine == (db.fine /\ \A v \in Versions : v <= n => Recorded(db, v) \/ Clear(db, v))
<1>4. owner \in BOOLEAN /\ fine \in BOOLEAN
  BY <1>3
<1>5. Through(db, n) = [names |-> names, has |-> has, owner |-> owner, profile |-> db.profile,
                        fine |-> fine]
  BY DEF Through
<1>6. /\ \A v \in Versions : names[v] = IF v <= n /\ ~Recorded(db, v) THEN v ELSE db.names[v]
      /\ \A v \in Versions :
           v \in has <=> v \in db.has \/ (v <= n /\ (Recorded(db, v) => v \in Repaired \cup {11}))
  OBVIOUS
<1>7. /\ owner = (db.owner \/ n >= 11)
      /\ fine = (db.fine /\ \A v \in Versions : v <= n => Recorded(db, v) \/ Clear(db, v))
  OBVIOUS
<1> HIDE DEF names, has, owner, fine
<1>8. /\ Through(db, n).names = names /\ Through(db, n).has = has
      /\ Through(db, n).owner = owner /\ Through(db, n).profile = db.profile
      /\ Through(db, n).fine = fine
  BY <1>5
<1>9. Through(db, n) \in Database
  BY <1>1, <1>2, <1>3, <1>4, <1>5 DEF Database, names, has
<1> QED BY <1>6, <1>7, <1>8, <1>9

LEMMA RepairFields ==
  ASSUME NEW d \in Database, NEW v \in Versions
  PROVE  /\ Repair(d, v) \in Database
         /\ Repair(d, v).names = d.names
         /\ Repair(d, v).has = d.has \cup ({v} \cap (Repaired \cup {11}))
         /\ Repair(d, v).owner = (d.owner \/ v = 11)
         /\ Repair(d, v).profile = d.profile
         /\ Repair(d, v).fine = d.fine
<1>1. CASE v = 11
  <2> DEFINE e == Ensure(d, {11})
  <2>1. /\ e \in Database /\ e.names = d.names /\ e.has = d.has \cup {11}
        /\ e.profile = d.profile /\ e.fine = d.fine
    BY <1>1, EnsureFields
  <2>2. Repair(d, v) = [e EXCEPT !.owner = TRUE]
    BY <1>1 DEF Repair, RepairDeepScan
  <2> HIDE DEF e
  <2> QED BY <1>1, <2>1, <2>2 DEF Database
<1>2. CASE v # 11 /\ v \in Repaired
  <2>1. Repair(d, v) = Ensure(d, {v})
    BY <1>2 DEF Repair
  <2> QED BY <1>2, <2>1, EnsureFields DEF Database
<1>3. CASE v # 11 /\ v \notin Repaired
  BY <1>3 DEF Repair, Database
<1> QED BY <1>1, <1>2, <1>3

LEMMA ApplyFields ==
  ASSUME NEW d \in Database, NEW v \in Versions, v \in DeepAlterations => 11 \in d.has
  PROVE  /\ Apply(d, v) \in Database
         /\ Apply(d, v).names[v] = v
         /\ \A u \in Versions \ {v} : Apply(d, v).names[u] = d.names[u]
         /\ Apply(d, v).has = d.has \cup {v}
         /\ Apply(d, v).owner = (d.owner \/ v = 11)
         /\ Apply(d, v).profile = d.profile
         /\ Apply(d, v).fine = (d.fine /\ Clear(d, v))
<1> DEFINE possible == /\ v \notin {6, 16, 18} => v \notin d.has
                       /\ v = 11 => ~d.owner
                       /\ v = 25 => ~d.profile
                       /\ v \in DeepAlterations => 11 \in d.has
           r == Require(d, possible)
           e == Ensure(r, {v})
<1>1. possible <=> Clear(d, v)
  BY DEF Clear
<1>2. Apply(d, v) = [e EXCEPT !.owner = @ \/ v = 11, !.names[v] = v]
  BY DEF Apply
<1>3. possible \in BOOLEAN
  OBVIOUS
<1> HIDE DEF possible
<1>4. /\ r \in Database /\ r.names = d.names /\ r.has = d.has /\ r.owner = d.owner
      /\ r.profile = d.profile /\ r.fine = (d.fine /\ possible)
  BY <1>3, RequireFields
<1> HIDE DEF r
<1>5. /\ e \in Database /\ e.names = d.names /\ e.has = d.has \cup {v} /\ e.owner = d.owner
      /\ e.profile = d.profile /\ e.fine = (d.fine /\ possible)
  BY <1>4, EnsureFields
<1> HIDE DEF e
<1> DEFINE f == [e EXCEPT !.owner = @ \/ v = 11]
           known == (e.owner \/ v = 11)
<1>8. known \in BOOLEAN
  OBVIOUS
<1>9. f = [e EXCEPT !.owner = known]
  OBVIOUS
<1>10. Apply(d, v) = [f EXCEPT !.names[v] = v]
  BY <1>2
<1> HIDE DEF known, f
<1>11. /\ f \in Database /\ f.names = e.names /\ f.has = e.has /\ f.owner = known
       /\ f.profile = e.profile /\ f.fine = e.fine
  BY <1>5, <1>8, <1>9 DEF Database
<1>6. /\ Apply(d, v) \in Database
      /\ Apply(d, v).names = [d.names EXCEPT ![v] = v]
      /\ Apply(d, v).has = e.has /\ Apply(d, v).owner = known
      /\ Apply(d, v).profile = e.profile /\ Apply(d, v).fine = e.fine
  BY <1>5, <1>10, <1>11 DEF Database, Versions, Latest
<1>7. d.names \in [Versions -> Nat] /\ d.fine \in BOOLEAN
  BY DEF Database
<1> QED BY <1>1, <1>5, <1>6, <1>7, <1>3 DEF known

LEMMA ThroughStep ==
  ASSUME NEW db \in Database, NEW n \in Versions
  PROVE  Through(db, n) = IF Recorded(db, n) THEN Repair(Through(db, n - 1), n)
                          ELSE Apply(Through(db, n - 1), n)
<1> DEFINE d == Through(db, n - 1)
           e == Through(db, n)
<1>1. n \in 0..Latest /\ n - 1 \in 0..Latest /\ n \in Nat /\ Versions \subseteq Nat
  BY DEF Versions, Latest
<1>2. /\ d \in Database
      /\ \A v \in Versions :
           d.names[v] = IF v <= n - 1 /\ ~Recorded(db, v) THEN v ELSE db.names[v]
      /\ \A v \in Versions :
           v \in d.has <=> \/ v \in db.has
                           \/ v <= n - 1 /\ (Recorded(db, v) => v \in Repaired \cup {11})
      /\ d.owner = (db.owner \/ n - 1 >= 11)
      /\ d.profile = db.profile
      /\ d.fine = (db.fine /\ \A v \in Versions : v <= n - 1 => Recorded(db, v) \/ Clear(db, v))
  BY <1>1, ThroughFields
<1>3. /\ e \in Database
      /\ \A v \in Versions :
           e.names[v] = IF v <= n /\ ~Recorded(db, v) THEN v ELSE db.names[v]
      /\ \A v \in Versions :
           v \in e.has <=> v \in db.has \/ (v <= n /\ (Recorded(db, v) => v \in Repaired \cup {11}))
      /\ e.owner = (db.owner \/ n >= 11)
      /\ e.profile = db.profile
      /\ e.fine = (db.fine /\ \A v \in Versions : v <= n => Recorded(db, v) \/ Clear(db, v))
  BY <1>1, ThroughFields
<1> HIDE DEF d, e
<1>4. \A v \in Versions : v <= n <=> v <= n - 1 \/ v = n
  BY <1>1
<1>5. e.owner = (d.owner \/ n = 11)
  <2>1. (n >= 11) <=> (n - 1 >= 11 \/ n = 11)
    BY <1>1
  <2>2. e.owner = (db.owner \/ n >= 11) /\ d.owner = (db.owner \/ n - 1 >= 11)
    BY <1>2, <1>3
  <2>3. e.owner <=> (d.owner \/ n = 11)
    BY <2>1, <2>2
  <2>4. e.owner \in BOOLEAN
    BY <1>3 DEF Database
  <2> QED BY <2>3, <2>4
<1>6. d.has \subseteq Versions /\ e.has \subseteq Versions
  BY <1>2, <1>3 DEF Database
<1>7. CASE Recorded(db, n)
  <2> DEFINE g == Repair(d, n)
  <2>1. /\ g \in Database /\ g.names = d.names
        /\ g.has = d.has \cup ({n} \cap (Repaired \cup {11}))
        /\ g.owner = (d.owner \/ n = 11) /\ g.profile = d.profile /\ g.fine = d.fine
    BY <1>2, RepairFields
  <2> HIDE DEF g
  <2>2. \A v \in Versions : g.names[v] = e.names[v]
    BY <1>2, <1>3, <1>4, <1>7, <2>1
  <2>3. g.has = e.has
    BY <1>2, <1>3, <1>4, <1>6, <1>7, <2>1
  <2>4. g.fine = e.fine
    BY <1>2, <1>3, <1>4, <1>7, <2>1
  <2>5. e = g
    BY <1>2, <1>3, <1>5, <2>1, <2>2, <2>3, <2>4, SameDatabase
  <2> QED BY <1>7, <2>5 DEF g, e, d
<1>8. CASE ~Recorded(db, n)
  <2> DEFINE g == Apply(d, n)
  <2>1. n \in DeepAlterations => 11 \in d.has
    BY <1>1, <1>2 DEF DeepAlterations, Versions, Latest
  <2>2. /\ g \in Database /\ g.names[n] = n
        /\ \A u \in Versions \ {n} : g.names[u] = d.names[u]
        /\ g.has = d.has \cup {n}
        /\ g.owner = (d.owner \/ n = 11) /\ g.profile = d.profile
        /\ g.fine = (d.fine /\ Clear(d, n))
    BY <1>2, <2>1, ApplyFields
  <2> HIDE DEF g
  <2>3. \A v \in Versions : g.names[v] = e.names[v]
    BY <1>1, <1>2, <1>3, <1>4, <1>8, <2>2
  <2>4. g.has = e.has
    BY <1>2, <1>3, <1>4, <1>6, <1>8, <2>2
  <2>5. Clear(d, n) <=> Clear(db, n)
    <3>1. n \in d.has <=> n \in db.has
      BY <1>1, <1>2
    <3>2. n = 11 => (d.owner <=> db.owner)
      <4>1. n = 11 => ~(n - 1 >= 11)
        BY <1>1
      <4>2. d.owner = (db.owner \/ n - 1 >= 11)
        BY <1>2
      <4> QED BY <4>1, <4>2
    <3> QED BY <1>2, <3>1, <3>2 DEF Clear
  <2>6. g.fine = e.fine
    BY <1>2, <1>3, <1>4, <1>8, <2>2, <2>5
  <2>7. e = g
    BY <1>2, <1>3, <1>5, <2>2, <2>3, <2>4, <2>6, SameDatabase
  <2> QED BY <1>8, <2>7 DEF g, e, d
<1> QED BY <1>7, <1>8 DEF d, e

LEMMA ThroughNone ==
  ASSUME NEW db \in Database
  PROVE  Through(db, 0) = db
<1> DEFINE d == Through(db, 0)
<1>1. 0 \in 0..Latest /\ \A v \in Versions : ~(v <= 0)
  BY DEF Versions, Latest
<1>2. /\ d \in Database
      /\ \A v \in Versions :
           d.names[v] = IF v <= 0 /\ ~Recorded(db, v) THEN v ELSE db.names[v]
      /\ \A v \in Versions :
           v \in d.has <=> v \in db.has \/ (v <= 0 /\ (Recorded(db, v) => v \in Repaired \cup {11}))
      /\ d.owner = (db.owner \/ 0 >= 11)
      /\ d.profile = db.profile
      /\ d.fine = (db.fine /\ \A v \in Versions : v <= 0 => Recorded(db, v) \/ Clear(db, v))
  BY <1>1, ThroughFields
<1> HIDE DEF d
<1>3. \A v \in Versions : d.names[v] = db.names[v]
  BY <1>1, <1>2
<1>4. d.has = db.has
  BY <1>1, <1>2 DEF Database
<1>5. db.owner \in BOOLEAN /\ db.fine \in BOOLEAN
  BY DEF Database
<1>6. d.owner = db.owner /\ d.fine = db.fine
  BY <1>1, <1>2, <1>5
<1>7. d = db
  BY <1>2, <1>3, <1>4, <1>6, SameDatabase
<1> QED BY <1>7 DEF d

\* The pass computes it, whatever the database.
LEMMA MigratedIs ==
  ASSUME NEW db \in Database
  PROVE  Migrated(db) = Through(db, Latest)
<1> DEFINE Pass(f) ==
             f = [v \in 0..Latest |->
                    IF v = 0 THEN db
                    ELSE IF Recorded(db, v) THEN Repair(f[v - 1], v)
                    ELSE Apply(f[v - 1], v)]
           all == [v \in 0..Latest |-> Through(db, v)]
           after == CHOOSE f : Pass(f)
<1>1. Pass(all)
  <2>1. ASSUME NEW v \in 0..Latest
        PROVE  all[v] = IF v = 0 THEN db
                        ELSE IF Recorded(db, v) THEN Repair(all[v - 1], v)
                        ELSE Apply(all[v - 1], v)
    <3>1. CASE v = 0
      BY <3>1, ThroughNone
    <3>2. CASE v # 0
      <4>1. v \in Versions /\ v - 1 \in 0..Latest
        BY <3>2 DEF Versions, Latest
      <4>2. all[v] = Through(db, v) /\ all[v - 1] = Through(db, v - 1)
        BY <4>1
      <4> HIDE DEF all
      <4> QED BY <3>2, <4>1, <4>2, ThroughStep
    <3> QED BY <3>1, <3>2
  <2>2. all = [v \in 0..Latest |-> all[v]]
    OBVIOUS
  <2> HIDE DEF all
  <2> QED BY <2>1, <2>2
<1>2. Pass(after)
  <2> HIDE DEF all
  <2> QED BY <1>1
<1>3. Migrated(db) = after[Latest]
  BY Zenon DEF Migrated
<1>4. \A v \in 0..Latest :
        after[v] = IF v = 0 THEN db
                   ELSE IF Recorded(db, v) THEN Repair(after[v - 1], v)
                   ELSE Apply(after[v - 1], v)
  <2> HIDE DEF after
  <2> QED BY <1>2
<1> HIDE DEF after, all
<1> DEFINE N == {n \in 0..Latest : after[n] # Through(db, n)}
<1>5. SUFFICES ASSUME N # {} PROVE FALSE
  <2>1. Latest \in 0..Latest
    BY DEF Latest
  <2> QED BY <1>3, <2>1
<1>6. PICK m \in N : \A k \in N : m <= k
  <2>1. N \subseteq Nat
    OBVIOUS
  <2> HIDE DEF N
  <2> QED BY <1>5, <2>1, LeastNatural
<1>7. m # 0
  <2>1. 0 \in 0..Latest
    BY DEF Latest
  <2> QED BY <1>4, <1>6, <2>1, ThroughNone
<1>8. m \in Versions /\ m - 1 \in 0..Latest /\ ~(m <= m - 1) /\ m \in 0..Latest
  BY <1>6, <1>7 DEF Versions, Latest
<1>9. after[m - 1] = Through(db, m - 1)
  BY <1>6, <1>8
<1>10. after[m] = Through(db, m)
  BY <1>4, <1>7, <1>8, <1>9, ThroughStep
<1> QED BY <1>6, <1>10

-----------------------------------------------------------------------------
(* The lineages of earlier builds. *)

LEMMA RenumberFields ==
  ASSUME NEW db \in Database, NEW old \in Versions, NEW new \in Versions, old # new
  PROVE  LET d == Renumber(db, old, new)
         IN /\ d \in Database
            /\ db.names[old] # new => d = db
            /\ db.names[old] = new => d.names[old] = NoName /\ d.names[new] = new
            /\ \A v \in Versions \ {old, new} : d.names[v] = db.names[v]
            /\ d.has = db.has /\ d.owner = db.owner /\ d.profile = db.profile
            /\ d.fine <=> db.fine /\ (db.names[old] = new => ~Recorded(db, new))
<1>1. CASE db.names[old] = new
  <2> DEFINE free == ~Recorded(db, new)
             r == Require(db, free)
             d == Move(r, old, new)
  <2>1. free \in BOOLEAN
    OBVIOUS
  <2>2. Renumber(db, old, new) = d
    BY <1>1 DEF Renumber
  <2> HIDE DEF free
  <2>3. /\ r \in Database /\ r.names = db.names /\ r.has = db.has /\ r.owner = db.owner
        /\ r.profile = db.profile /\ r.fine = (db.fine /\ free)
    BY <2>1, RequireFields
  <2> HIDE DEF r
  <2>4. /\ d \in Database /\ d.names[old] = NoName /\ d.names[new] = r.names[old]
        /\ \A v \in Versions \ {old, new} : d.names[v] = r.names[v]
        /\ d.has = r.has /\ d.owner = r.owner /\ d.profile = r.profile /\ d.fine = r.fine
    BY <2>3, MoveFields
  <2> HIDE DEF d
  <2> QED BY <1>1, <2>2, <2>3, <2>4 DEF free
<1>2. CASE db.names[old] # new
  BY <1>2 DEF Renumber
<1> QED BY <1>1, <1>2

LEMMA ReclaimFields ==
  ASSUME NEW db \in Database, NEW v \in Versions
  PROVE  LET d == Reclaim(db, v)
         IN /\ d \in Database
            /\ d.names[v] = IF <<v, db.names[v]>> \in Shadows THEN v ELSE db.names[v]
            /\ \A u \in Versions \ {v} : d.names[u] = db.names[u]
            /\ d.has = IF <<v, db.names[v]>> \in Shadows THEN db.has \cup {v} ELSE db.has
            /\ d.owner = db.owner /\ d.profile = db.profile /\ d.fine = db.fine
<1>1. CASE <<v, db.names[v]>> \in Shadows
  <2> DEFINE e == Ensure(db, {v})
             d == [e EXCEPT !.names[v] = v]
  <2>1. Reclaim(db, v) = d
    BY <1>1 DEF Reclaim
  <2>2. /\ e \in Database /\ e.names = db.names /\ e.has = db.has \cup {v}
        /\ e.owner = db.owner /\ e.profile = db.profile /\ e.fine = db.fine
    BY EnsureFields
  <2> HIDE DEF e
  <2>3. /\ d \in Database /\ d.names[v] = v
        /\ \A u \in Versions \ {v} : d.names[u] = e.names[u]
        /\ d.has = e.has /\ d.owner = e.owner /\ d.profile = e.profile /\ d.fine = e.fine
    BY <2>2 DEF Database, Versions, Latest
  <2> HIDE DEF d
  <2> QED BY <1>1, <2>1, <2>2, <2>3
<1>2. CASE <<v, db.names[v]>> \notin Shadows
  BY <1>2 DEF Reclaim
<1> QED BY <1>1, <1>2

\* The mirror's two entries are moved together.
Mirrored(db) ==
  /\ db.names[29] = 31 /\ db.names[30] = 32
  /\ ~Recorded(db, 31) /\ ~Recorded(db, 32)

LEMMA MirrorFields ==
  ASSUME NEW db \in Database
  PROVE  LET d == NormalizeMirror(db)
             mirror == db.names[29] = 31 \/ db.names[30] = 32
         IN /\ d \in Database
            /\ ~mirror => d = db
            /\ mirror /\ Mirrored(db) =>
                 /\ d.names[29] = NoName /\ d.names[30] = NoName
                 /\ d.names[31] = 31 /\ d.names[32] = 32
            /\ \A v \in Versions \ (29..32) : d.names[v] = db.names[v]
            /\ d.has = db.has /\ d.owner = db.owner /\ d.profile = db.profile
            /\ d.fine <=> db.fine /\ (mirror => Mirrored(db))
<1> DEFINE mirror == db.names[29] = 31 \/ db.names[30] = 32
<1>1. CASE mirror
  <2> DEFINE whole == Mirrored(db)
             r == Require(db, whole)
             e == Move(r, 30, 32)
             d == Move(e, 29, 31)
  <2>1. whole \in BOOLEAN
    BY DEF Mirrored
  <2>2. NormalizeMirror(db) = d
    BY <1>1 DEF NormalizeMirror, Mirrored
  <2>3. /\ 29 \in Versions /\ 30 \in Versions /\ 31 \in Versions /\ 32 \in Versions
        /\ 29..32 = {29, 30, 31, 32} /\ 30 # 32 /\ 29 # 31
    BY DEF Versions, Latest
  <2> HIDE DEF whole, mirror
  <2>4. /\ r \in Database /\ r.names = db.names /\ r.has = db.has /\ r.owner = db.owner
        /\ r.profile = db.profile /\ r.fine = (db.fine /\ whole)
    BY <2>1, RequireFields
  <2> HIDE DEF r
  <2>5. /\ e \in Database /\ e.names[30] = NoName /\ e.names[32] = r.names[30]
        /\ \A v \in Versions \ {30, 32} : e.names[v] = r.names[v]
        /\ e.has = r.has /\ e.owner = r.owner /\ e.profile = r.profile /\ e.fine = r.fine
    <3>1. r \in Database /\ 30 \in Versions /\ 32 \in Versions /\ 30 # 32
      BY <2>3, <2>4
    <3> QED BY <3>1, MoveFields
  <2> HIDE DEF e
  <2>6. /\ d \in Database /\ d.names[29] = NoName /\ d.names[31] = e.names[29]
        /\ \A v \in Versions \ {29, 31} : d.names[v] = e.names[v]
        /\ d.has = e.has /\ d.owner = e.owner /\ d.profile = e.profile /\ d.fine = e.fine
    BY <2>3, <2>5, MoveFields
  <2> HIDE DEF d
  <2>7. \A v \in Versions \ (29..32) : d.names[v] = db.names[v]
    BY <2>3, <2>4, <2>5, <2>6
  <2>8. whole => d.names[29] = NoName /\ d.names[30] = NoName
                 /\ d.names[31] = 31 /\ d.names[32] = 32
    BY <2>3, <2>4, <2>5, <2>6 DEF whole, Mirrored
  <2>9. d.fine <=> db.fine /\ whole
    BY <2>4, <2>5, <2>6
  <2> QED BY <1>1, <2>2, <2>4, <2>5, <2>6, <2>7, <2>8, <2>9 DEF whole, mirror
<1>2. CASE ~mirror
  BY <1>2 DEF NormalizeMirror
<1> QED BY <1>1, <1>2

\* What the execution profiles ask of the entries 11, 12 and 25.
ProfilesFit(db) ==
  LET legacy == \/ db.names[11] = ScanProfiles
                \/ db.names[12] \in {ScanProfiles, DynamicProfiles}
  IN legacy \/ db.profile =>
       /\ db.profile
       /\ db.names[11] \in {NoName, 11, ScanProfiles}
       /\ db.names[12] \in {NoName, 12, ScanProfiles, DynamicProfiles}
       /\ db.names[25] \in {NoName, 25, DynamicProfiles}

LEMMA ProfilesFields ==
  ASSUME NEW db \in Database
  PROVE  LET d == NormalizeProfiles(db)
         IN /\ d \in Database
            /\ ProfilesFit(db) =>
                 /\ d.names[11] = IF db.names[11] = ScanProfiles THEN NoName ELSE db.names[11]
                 /\ d.names[12] = IF db.names[12] \in {ScanProfiles, DynamicProfiles} THEN NoName
                                  ELSE db.names[12]
                 /\ d.names[25] = IF db.profile \/ db.names[25] = DynamicProfiles THEN 25
                                  ELSE db.names[25]
                 /\ ~d.profile
                 /\ d.has = IF db.profile THEN db.has \cup {25} ELSE db.has
            /\ \A v \in Versions \ {11, 12, 25} : d.names[v] = db.names[v]
            /\ d.owner = db.owner
            /\ d.fine <=> db.fine /\ ProfilesFit(db)
<1> DEFINE b == IF db.names[25] = DynamicProfiles THEN [db EXCEPT !.names[25] = 25] ELSE db
           legacy == \/ b.names[11] = ScanProfiles
                     \/ b.names[12] \in {ScanProfiles, DynamicProfiles}
           fit == /\ b.names[11] \in {NoName, 11, ScanProfiles}
                  /\ b.names[12] \in {NoName, 12, ScanProfiles, DynamicProfiles}
                  /\ legacy => b.profile
                  /\ b.names[25] \in {NoName, 25}
           r == Require(b, fit)
           e == Ensure(r, {25})
           renamed == [e EXCEPT !.profile = FALSE]
           Cleared(v, names) == IF renamed.names[v] \in names THEN NoName ELSE renamed.names[v]
           cleared == [renamed EXCEPT !.names[11] = Cleared(11, {ScanProfiles}),
                                      !.names[12] = Cleared(12, {ScanProfiles, DynamicProfiles}),
                                      !.names[25] = 25]
<1>0. 11 \in Versions /\ 12 \in Versions /\ 25 \in Versions
  BY DEF Versions, Latest
<1>1. NormalizeProfiles(db) = IF legacy \/ b.profile THEN cleared ELSE b
  BY DEF NormalizeProfiles
<1>2. /\ b \in Database /\ b.has = db.has /\ b.owner = db.owner /\ b.profile = db.profile
      /\ b.fine = db.fine
      /\ b.names[25] = IF db.names[25] = DynamicProfiles THEN 25 ELSE db.names[25]
      /\ \A v \in Versions \ {25} : b.names[v] = db.names[v]
  BY <1>0 DEF Database, DynamicProfiles
<1>3. fit \in BOOLEAN
  BY DEF Database
<1>4. (legacy \/ b.profile => fit) <=> ProfilesFit(db)
  <2>1. b.names[11] = db.names[11] /\ b.names[12] = db.names[12] /\ b.profile = db.profile
    BY <1>0, <1>2
  <2>2. b.names[25] \in {NoName, 25} <=> db.names[25] \in {NoName, 25, DynamicProfiles}
    BY <1>2 DEF DynamicProfiles, NoName
  <2> HIDE DEF b
  <2> QED BY <2>1, <2>2 DEF ProfilesFit
<1>5. legacy <=> \/ db.names[11] = ScanProfiles
                 \/ db.names[12] \in {ScanProfiles, DynamicProfiles}
  <2> HIDE DEF b
  <2> QED BY <1>0, <1>2
<1> HIDE DEF fit, legacy, b
<1>6. /\ r \in Database /\ r.names = b.names /\ r.has = b.has /\ r.owner = b.owner
      /\ r.profile = b.profile /\ r.fine = (b.fine /\ fit)
  BY <1>2, <1>3, RequireFields
<1> HIDE DEF r
<1>7. /\ e \in Database /\ e.names = b.names /\ e.has = b.has \cup {25} /\ e.owner = b.owner
      /\ e.profile = b.profile /\ e.fine = (b.fine /\ fit)
  BY <1>0, <1>6, EnsureFields
<1> HIDE DEF e
<1>8. /\ renamed \in Database /\ renamed.names = b.names /\ renamed.has = b.has \cup {25}
      /\ renamed.owner = b.owner /\ ~renamed.profile /\ renamed.fine = (b.fine /\ fit)
  BY <1>7 DEF Database
<1> HIDE DEF renamed
<1> DEFINE x == Cleared(11, {ScanProfiles})
           y == Cleared(12, {ScanProfiles, DynamicProfiles})
<1>9. x \in Nat /\ y \in Nat
  BY <1>0, <1>8 DEF Database, NoName
<1>10. cleared = [renamed EXCEPT !.names[11] = x, !.names[12] = y, !.names[25] = 25]
  OBVIOUS
<1>11. /\ x = IF b.names[11] = ScanProfiles THEN NoName ELSE b.names[11]
       /\ y = IF b.names[12] \in {ScanProfiles, DynamicProfiles} THEN NoName ELSE b.names[12]
  BY <1>8
<1> HIDE DEF x, y, cleared, Cleared
<1> DEFINE c1 == [renamed EXCEPT !.names[11] = x]
           c2 == [c1 EXCEPT !.names[12] = y]
           c3 == [c2 EXCEPT !.names[25] = 25]
<1>12. cleared = c3
  BY <1>10
<1>13. /\ c1 \in Database /\ c1.names = [renamed.names EXCEPT ![11] = x]
       /\ c1.has = renamed.has /\ c1.owner = renamed.owner /\ c1.profile = renamed.profile
       /\ c1.fine = renamed.fine
  BY <1>0, <1>8, <1>9 DEF Database
<1> HIDE DEF c1
<1>14. /\ c2 \in Database /\ c2.names = [c1.names EXCEPT ![12] = y]
       /\ c2.has = c1.has /\ c2.owner = c1.owner /\ c2.profile = c1.profile
       /\ c2.fine = c1.fine
  BY <1>0, <1>9, <1>13 DEF Database
<1> HIDE DEF c2
<1>15. /\ c3 \in Database /\ c3.names = [c2.names EXCEPT ![25] = 25]
       /\ c3.has = c2.has /\ c3.owner = c2.owner /\ c3.profile = c2.profile
       /\ c3.fine = c2.fine
  BY <1>0, <1>14 DEF Database
<1> HIDE DEF c3
<1>16. /\ cleared \in Database
       /\ cleared.names[11] = x /\ cleared.names[12] = y /\ cleared.names[25] = 25
       /\ \A v \in Versions \ {11, 12, 25} : cleared.names[v] = b.names[v]
       /\ cleared.has = b.has \cup {25} /\ cleared.owner = b.owner /\ ~cleared.profile
       /\ cleared.fine = (b.fine /\ fit)
  <2>1. renamed.names \in [Versions -> Nat]
    BY <1>8 DEF Database
  <2> QED BY <1>0, <1>8, <1>12, <1>13, <1>14, <1>15, <2>1
<1>17. CASE legacy \/ b.profile
  <2>1. NormalizeProfiles(db) = cleared
    BY <1>1, <1>17
  <2>2. ProfilesFit(db) => b.profile
    BY <1>2, <1>5, <1>17 DEF ProfilesFit
  <2>3. ProfilesFit(db) <=> fit
    BY <1>4, <1>17
  <2>4. b.names[11] = db.names[11] /\ b.names[12] = db.names[12]
    BY <1>0, <1>2
  <2>5. \A v \in Versions \ {11, 12, 25} : cleared.names[v] = db.names[v]
    BY <1>2, <1>16
  <2>6. cleared.fine <=> db.fine /\ ProfilesFit(db)
    BY <1>2, <1>16, <2>3
  <2>7. cleared.has = db.has \cup {25} /\ cleared.owner = db.owner
    BY <1>2, <1>16
  <2> HIDE DEF ProfilesFit
  <2> QED BY <1>2, <1>11, <1>16, <2>1, <2>2, <2>4, <2>5, <2>6, <2>7
<1>18. CASE ~legacy /\ ~b.profile
  <2>1. NormalizeProfiles(db) = b
    BY <1>1, <1>18
  <2>2. ProfilesFit(db)
    BY <1>4, <1>18
  <2>3. /\ db.names[11] # ScanProfiles /\ db.names[12] \notin {ScanProfiles, DynamicProfiles}
        /\ ~db.profile
    BY <1>2, <1>5, <1>18
  <2>4. b.names[11] = db.names[11] /\ b.names[12] = db.names[12]
    BY <1>0, <1>2
  <2> QED BY <1>2, <2>1, <2>2, <2>3, <2>4
<1> QED BY <1>17, <1>18

\* The entries 2 to 5 of the management lineage.
Managed(db) == \A v \in 3..5 : Recorded(db, v) => <<v, db.names[v]>> \in Strays

LEMMA ManagementFields ==
  ASSUME NEW db \in Database
  PROVE  LET d == NormalizeManagement(db)
         IN /\ d \in Database
            /\ db.names[2] # 3 => d = db
            /\ db.names[2] = 3 =>
                 /\ d.names[2] = 2 /\ d.names[3] = 3
                 /\ d.names[4] = IF db.names[3] = 4 THEN 4 ELSE NoName
                 /\ d.names[5] = IF db.names[4] = 5 THEN 5 ELSE NoName
                 /\ d.has = db.has \cup {2}
            /\ \A v \in Versions \ (2..5) : d.names[v] = db.names[v]
            /\ d.owner = db.owner /\ d.profile = db.profile
            /\ d.fine <=> db.fine /\ (db.names[2] = 3 => Managed(db))
<1>0. /\ 2 \in Versions /\ 3 \in Versions /\ 4 \in Versions /\ 5 \in Versions
      /\ 2..5 = {2, 3, 4, 5} /\ 3..5 = {3, 4, 5}
  BY DEF Versions, Latest
<1>1. CASE db.names[2] = 3
  <2> DEFINE lineage == [v \in 2..5 |-> IF v = 5 THEN SnapshotDigests ELSE v + 1]
             At(v) == IF db.names[v] = lineage[v] THEN db.names[v] ELSE NoName
             fit == \A v \in 2..5 : db.names[v] \in {NoName, lineage[v]}
             r == Require(db, fit)
             e == Ensure(r, {2})
             p3 == At(2)
             p4 == At(3)
             p5 == At(4)
             c1 == [e EXCEPT !.names[5] = p5]
             c2 == [c1 EXCEPT !.names[4] = p4]
             c3 == [c2 EXCEPT !.names[3] = p3]
             c4 == [c3 EXCEPT !.names[2] = 2]
  <2>1. NormalizeManagement(db) = c4
    BY <1>1 DEF NormalizeManagement
  <2>2. fit \in BOOLEAN
    OBVIOUS
  <2>3. lineage[2] = 3 /\ lineage[3] = 4 /\ lineage[4] = 5 /\ lineage[5] = SnapshotDigests
    BY <1>0
  <2>4. fit <=> Managed(db)
    BY <1>0, <1>1, <2>3 DEF Managed, Strays, Moved, Recorded, NoName, SnapshotDigests,
                            ScanProfiles, DynamicProfiles
  <2>5. /\ p3 = 3 /\ p4 = (IF db.names[3] = 4 THEN 4 ELSE NoName)
        /\ p5 = (IF db.names[4] = 5 THEN 5 ELSE NoName)
    BY <1>0, <1>1, <2>3
  <2>6. p3 \in Nat /\ p4 \in Nat /\ p5 \in Nat
    BY <2>5 DEF NoName
  <2> HIDE DEF fit, p3, p4, p5, lineage, At
  <2>7. /\ r \in Database /\ r.names = db.names /\ r.has = db.has /\ r.owner = db.owner
        /\ r.profile = db.profile /\ r.fine = (db.fine /\ fit)
    BY <2>2, RequireFields
  <2> HIDE DEF r
  <2>8. /\ e \in Database /\ e.names = db.names /\ e.has = db.has \cup {2} /\ e.owner = db.owner
        /\ e.profile = db.profile /\ e.fine = (db.fine /\ fit)
    BY <1>0, <2>7, EnsureFields
  <2> HIDE DEF e
  <2>9. /\ c1 \in Database /\ c1.names = [e.names EXCEPT ![5] = p5]
        /\ c1.has = e.has /\ c1.owner = e.owner /\ c1.profile = e.profile /\ c1.fine = e.fine
    BY <1>0, <2>6, <2>8 DEF Database
  <2> HIDE DEF c1
  <2>10. /\ c2 \in Database /\ c2.names = [c1.names EXCEPT ![4] = p4]
         /\ c2.has = c1.has /\ c2.owner = c1.owner /\ c2.profile = c1.profile /\ c2.fine = c1.fine
    BY <1>0, <2>6, <2>9 DEF Database
  <2> HIDE DEF c2
  <2>11. /\ c3 \in Database /\ c3.names = [c2.names EXCEPT ![3] = p3]
         /\ c3.has = c2.has /\ c3.owner = c2.owner /\ c3.profile = c2.profile /\ c3.fine = c2.fine
    BY <1>0, <2>6, <2>10 DEF Database
  <2> HIDE DEF c3
  <2>12. /\ c4 \in Database /\ c4.names = [c3.names EXCEPT ![2] = 2]
         /\ c4.has = c3.has /\ c4.owner = c3.owner /\ c4.profile = c3.profile /\ c4.fine = c3.fine
    BY <1>0, <2>11 DEF Database
  <2> HIDE DEF c4
  <2>13. /\ c4.names[2] = 2 /\ c4.names[3] = p3 /\ c4.names[4] = p4 /\ c4.names[5] = p5
         /\ \A v \in Versions \ (2..5) : c4.names[v] = db.names[v]
    <3>1. e.names \in [Versions -> Nat]
      BY <2>8 DEF Database
    <3> QED BY <1>0, <2>8, <2>9, <2>10, <2>11, <2>12, <3>1
  <2>14. /\ c4.has = db.has \cup {2} /\ c4.owner = db.owner /\ c4.profile = db.profile
         /\ c4.fine <=> db.fine /\ Managed(db)
    BY <2>4, <2>8, <2>9, <2>10, <2>11, <2>12
  <2> QED BY <1>1, <2>1, <2>5, <2>12, <2>13, <2>14
<1>2. CASE db.names[2] # 3
  BY <1>2 DEF NormalizeManagement
<1> QED BY <1>1, <1>2

\* The sets of entries, entry by entry.
LEMMA Entries ==
  \A v, name :
    /\ <<v, name>> \in Moved <=>
         \/ v = 2 /\ name = 3
         \/ v = 3 /\ name = 4
         \/ v = 4 /\ name = 5
         \/ v = 12 /\ name = 20
         \/ v = 13 /\ name = 21
         \/ v = 25 /\ name = 26
         \/ v = 29 /\ name = 31
         \/ v = 30 /\ name = 32
    /\ <<v, name>> \in Strays <=>
         \/ <<v, name>> \in Moved
         \/ v = 5 /\ name = SnapshotDigests
         \/ v = 11 /\ name = ScanProfiles
         \/ v = 12 /\ name \in {ScanProfiles, DynamicProfiles}
    /\ <<v, name>> \in Shadows =>
         v \in 18..22 /\ name \in {17, GuidanceContext, LifecycleRequests, RetainRequests,
                                   ThreatReceipts, ProgressProjection, ManifestReceipts,
                                   DynamicProfiles}
BY DEF Moved, Strays, Shadows

\* The five numbers that another build may have used for something else.
LEMMA ReclaimAll ==
  ASSUME NEW db \in Database
  PROVE  LET d == Reclaim(Reclaim(Reclaim(Reclaim(Reclaim(db, 18), 19), 20), 21), 22)
         IN /\ d \in Database
            /\ \A v \in Versions :
                 d.names[v] = IF <<v, db.names[v]>> \in Shadows THEN v ELSE db.names[v]
            /\ \A v \in Versions : v \in d.has <=> v \in db.has \/ <<v, db.names[v]>> \in Shadows
            /\ d.owner = db.owner /\ d.profile = db.profile /\ d.fine = db.fine
<1> DEFINE a == Reclaim(db, 18)
           b == Reclaim(a, 19)
           c == Reclaim(b, 20)
           e == Reclaim(c, 21)
           f == Reclaim(e, 22)
           Step(x, y, n) ==
             /\ y \in Database
             /\ y.names[n] = IF <<n, x.names[n]>> \in Shadows THEN n ELSE x.names[n]
             /\ \A u \in Versions \ {n} : y.names[u] = x.names[u]
             /\ y.has = IF <<n, x.names[n]>> \in Shadows THEN x.has \cup {n} ELSE x.has
             /\ y.owner = x.owner /\ y.profile = x.profile /\ y.fine = x.fine
<1>1. 18 \in Versions /\ 19 \in Versions /\ 20 \in Versions /\ 21 \in Versions /\ 22 \in Versions
  BY DEF Versions, Latest
<1>2. Step(db, a, 18)
  BY <1>1, ReclaimFields
<1> HIDE DEF a
<1>3. Step(a, b, 19)
  BY <1>1, <1>2, ReclaimFields
<1> HIDE DEF b
<1>4. Step(b, c, 20)
  BY <1>1, <1>3, ReclaimFields
<1> HIDE DEF c
<1>5. Step(c, e, 21)
  BY <1>1, <1>4, ReclaimFields
<1> HIDE DEF e
<1>6. Step(e, f, 22)
  BY <1>1, <1>5, ReclaimFields
<1> HIDE DEF f
<1>7. \A v \in Versions : <<v, db.names[v]>> \in Shadows => v \in {18, 19, 20, 21, 22}
  BY Entries
<1>8. ASSUME NEW v \in Versions
      PROVE  /\ f.names[v] = IF <<v, db.names[v]>> \in Shadows THEN v ELSE db.names[v]
             /\ v \in f.has <=> v \in db.has \/ <<v, db.names[v]>> \in Shadows
  <2>1. CASE v = 18
    BY <1>2, <1>3, <1>4, <1>5, <1>6, <2>1, <1>1
  <2>2. CASE v = 19
    BY <1>2, <1>3, <1>4, <1>5, <1>6, <2>2, <1>1
  <2>3. CASE v = 20
    BY <1>2, <1>3, <1>4, <1>5, <1>6, <2>3, <1>1
  <2>4. CASE v = 21
    BY <1>2, <1>3, <1>4, <1>5, <1>6, <2>4, <1>1
  <2>5. CASE v = 22
    BY <1>2, <1>3, <1>4, <1>5, <1>6, <2>5, <1>1
  <2>6. CASE v \notin {18, 19, 20, 21, 22}
    BY <1>2, <1>3, <1>4, <1>5, <1>6, <1>7, <2>6
  <2> QED BY <2>1, <2>2, <2>3, <2>4, <2>5, <2>6
<1>9. f \in Database /\ f.owner = db.owner /\ f.profile = db.profile /\ f.fine = db.fine
  BY <1>2, <1>3, <1>4, <1>5, <1>6
<1> QED BY <1>8, <1>9 DEF f, e, c, b, a

\* The entry at v after the bookkeeping is rewritten.
Renamed(db, v) ==
  LET n == db.names[v]
      mirror == db.names[29] = 31 \/ db.names[30] = 32
  IN CASE v \in {29, 30} -> IF mirror THEN NoName ELSE n
       [] v \in {31, 32} -> IF mirror THEN v ELSE n
       [] v = 11 -> IF n = ScanProfiles THEN NoName ELSE n
       [] v = 12 -> IF n \in {20, ScanProfiles, DynamicProfiles} THEN NoName ELSE n
       [] v = 13 -> IF n = 21 THEN NoName ELSE n
       [] v \in {18, 19, 22} -> IF <<v, n>> \in Shadows THEN v ELSE n
       [] v = 20 -> IF <<v, n>> \in Shadows \/ db.names[12] = 20 THEN v ELSE n
       [] v = 21 -> IF <<v, n>> \in Shadows \/ db.names[13] = 21 THEN v ELSE n
       [] v = 25 -> IF db.profile \/ n = DynamicProfiles THEN v ELSE IF n = 26 THEN NoName ELSE n
       [] v = 26 -> IF db.names[25] = 26 THEN v ELSE n
       [] v = 2 -> IF n = 3 THEN v ELSE n
       [] v = 3 -> IF db.names[2] = 3 THEN v ELSE n
       [] v \in {4, 5} -> IF db.names[2] = 3
                          THEN IF db.names[v - 1] = v THEN v ELSE NoName ELSE n
       [] OTHER -> n

LEMMA NormalizeFields ==
  ASSUME NEW db \in Database
  PROVE  LET d == Normalize(db)
         IN /\ d \in Database
            /\ d.owner = db.owner
            /\ d.fine <=> db.fine /\ ~Conflicting(db)
            /\ ~Conflicting(db) =>
                 /\ ~d.profile
                 /\ \A v \in Versions :
                      v \in d.has <=> \/ v \in db.has \/ <<v, db.names[v]>> \in Shadows
                                      \/ v = 25 /\ db.profile
                                      \/ v = 2 /\ db.names[2] = 3
                 /\ \A v \in Versions : d.names[v] = Renamed(db, v)
<1> DEFINE mirror == db.names[29] = 31 \/ db.names[30] = 32
           m == NormalizeMirror(db)
           a == Renumber(m, 25, 26)
           b == Renumber(a, 12, 20)
           p == NormalizeProfiles(b)
           q == Renumber(p, 13, 21)
           s == Reclaim(Reclaim(Reclaim(Reclaim(Reclaim(q, 18), 19), 20), 21), 22)
           d == NormalizeManagement(s)
<1>1. Normalize(db) = d
  BY DEF Normalize
<1>2. /\ 11 \in Versions /\ 12 \in Versions /\ 13 \in Versions /\ 20 \in Versions
      /\ 21 \in Versions /\ 25 \in Versions /\ 26 \in Versions
      /\ 2 \in Versions /\ 3 \in Versions /\ 4 \in Versions /\ 5 \in Versions
      /\ 29 \in Versions /\ 30 \in Versions /\ 31 \in Versions /\ 32 \in Versions
      /\ 29..32 = {29, 30, 31, 32} /\ 2..5 = {2, 3, 4, 5} /\ 3..5 = {3, 4, 5}
  BY DEF Versions, Latest
<1>3. /\ m \in Database
      /\ ~mirror => m = db
      /\ mirror /\ Mirrored(db) =>
           m.names[29] = NoName /\ m.names[30] = NoName /\ m.names[31] = 31 /\ m.names[32] = 32
      /\ \A v \in Versions \ {29, 30, 31, 32} : m.names[v] = db.names[v]
      /\ m.has = db.has /\ m.owner = db.owner /\ m.profile = db.profile
      /\ m.fine <=> db.fine /\ (mirror => Mirrored(db))
  BY <1>2, MirrorFields
<1> HIDE DEF m
<1>4. /\ a \in Database
      /\ m.names[25] # 26 => a = m
      /\ m.names[25] = 26 => a.names[25] = NoName /\ a.names[26] = 26
      /\ \A v \in Versions \ {25, 26} : a.names[v] = m.names[v]
      /\ a.has = m.has /\ a.owner = m.owner /\ a.profile = m.profile
      /\ a.fine <=> m.fine /\ (m.names[25] = 26 => ~Recorded(m, 26))
  BY <1>2, <1>3, RenumberFields
<1> HIDE DEF a
<1>5. /\ b \in Database
      /\ a.names[12] # 20 => b = a
      /\ a.names[12] = 20 => b.names[12] = NoName /\ b.names[20] = 20
      /\ \A v \in Versions \ {12, 20} : b.names[v] = a.names[v]
      /\ b.has = a.has /\ b.owner = a.owner /\ b.profile = a.profile
      /\ b.fine <=> a.fine /\ (a.names[12] = 20 => ~Recorded(a, 20))
  BY <1>2, <1>4, RenumberFields
<1> HIDE DEF b
<1>6. /\ p \in Database
      /\ ProfilesFit(b) =>
           /\ p.names[11] = IF b.names[11] = ScanProfiles THEN NoName ELSE b.names[11]
           /\ p.names[12] = IF b.names[12] \in {ScanProfiles, DynamicProfiles} THEN NoName
                            ELSE b.names[12]
           /\ p.names[25] = IF b.profile \/ b.names[25] = DynamicProfiles THEN 25
                            ELSE b.names[25]
           /\ ~p.profile
           /\ p.has = IF b.profile THEN b.has \cup {25} ELSE b.has
      /\ \A v \in Versions \ {11, 12, 25} : p.names[v] = b.names[v]
      /\ p.owner = b.owner
      /\ p.fine <=> b.fine /\ ProfilesFit(b)
  BY <1>5, ProfilesFields
<1> HIDE DEF p
<1>7. /\ q \in Database
      /\ p.names[13] # 21 => q = p
      /\ p.names[13] = 21 => q.names[13] = NoName /\ q.names[21] = 21
      /\ \A v \in Versions \ {13, 21} : q.names[v] = p.names[v]
      /\ q.has = p.has /\ q.owner = p.owner /\ q.profile = p.profile
      /\ q.fine <=> p.fine /\ (p.names[13] = 21 => ~Recorded(p, 21))
  BY <1>2, <1>6, RenumberFields
<1> HIDE DEF q
<1>8. /\ s \in Database
      /\ \A v \in Versions :
           s.names[v] = IF <<v, q.names[v]>> \in Shadows THEN v ELSE q.names[v]
      /\ \A v \in Versions : v \in s.has <=> v \in q.has \/ <<v, q.names[v]>> \in Shadows
      /\ s.owner = q.owner /\ s.profile = q.profile /\ s.fine = q.fine
  BY <1>7, ReclaimAll
<1> HIDE DEF s
<1>9. /\ d \in Database
      /\ s.names[2] # 3 => d = s
      /\ s.names[2] = 3 =>
           /\ d.names[2] = 2 /\ d.names[3] = 3
           /\ d.names[4] = IF s.names[3] = 4 THEN 4 ELSE NoName
           /\ d.names[5] = IF s.names[4] = 5 THEN 5 ELSE NoName
           /\ d.has = s.has \cup {2}
      /\ \A v \in Versions \ {2, 3, 4, 5} : d.names[v] = s.names[v]
      /\ d.owner = s.owner /\ d.profile = s.profile
      /\ d.fine <=> s.fine /\ (s.names[2] = 3 => Managed(s))
  BY <1>2, <1>8, ManagementFields
<1> HIDE DEF d
\* the lineage of finding management is still as it was found
<1>10. \A v \in {2, 3, 4, 5} : s.names[v] = db.names[v]
  <2>1. \A v \in {2, 3, 4, 5} : q.names[v] = db.names[v]
    BY <1>2, <1>3, <1>4, <1>5, <1>6, <1>7
  <2>2. \A v \in {2, 3, 4, 5} : v \in Versions /\ <<v, q.names[v]>> \notin Shadows
    BY <1>2, Entries
  <2>3. \A v \in {2, 3, 4, 5} : s.names[v] = q.names[v]
    BY <1>8, <2>2
  <2> QED BY <2>1, <2>3
<1>11. Managed(s) <=> Managed(db)
  BY <1>2, <1>10 DEF Managed, Recorded
\* and the other entries when their turn comes
<1>12. /\ m.names[25] = db.names[25] /\ m.names[26] = db.names[26]
       /\ a.names[12] = db.names[12] /\ a.names[20] = db.names[20]
       /\ p.names[13] = db.names[13] /\ p.names[21] = db.names[21]
       /\ b.names[11] = db.names[11] /\ b.profile = db.profile
       /\ b.names[12] = IF db.names[12] = 20 THEN NoName ELSE db.names[12]
       /\ b.names[25] = IF db.names[25] = 26 THEN NoName ELSE db.names[25]
  BY <1>2, <1>3, <1>4, <1>5, <1>6
<1>13. ProfilesFit(b) <=>
         (LET legacy == \/ db.names[11] = ScanProfiles
                        \/ db.names[12] \in {ScanProfiles, DynamicProfiles}
          IN legacy \/ db.profile =>
               /\ db.profile
               /\ db.names[11] \in {NoName, 11, ScanProfiles}
               /\ db.names[12] \in {NoName, 12, 20, ScanProfiles, DynamicProfiles}
               /\ db.names[25] \in {NoName, 25, 26, DynamicProfiles})
  BY <1>12 DEF ProfilesFit, NoName, ScanProfiles, DynamicProfiles
<1>14. d.fine <=> /\ db.fine
                  /\ mirror => Mirrored(db)
                  /\ db.names[25] = 26 => ~Recorded(db, 26)
                  /\ db.names[12] = 20 => ~Recorded(db, 20)
                  /\ ProfilesFit(b)
                  /\ db.names[13] = 21 => ~Recorded(db, 21)
                  /\ db.names[2] = 3 => Managed(db)
  <2> HIDE DEF mirror
  <2> QED BY <1>3, <1>4, <1>5, <1>6, <1>7, <1>8, <1>9, <1>10, <1>11, <1>12 DEF Recorded
<1>15. Conflicting(db) <=> ~ /\ mirror => Mirrored(db)
                             /\ db.names[25] = 26 => ~Recorded(db, 26)
                             /\ db.names[12] = 20 => ~Recorded(db, 20)
                             /\ ProfilesFit(b)
                             /\ db.names[13] = 21 => ~Recorded(db, 21)
                             /\ db.names[2] = 3 => Managed(db)
  <2>1. (\E v \in {29, 30} : <<v, db.names[v]>> \in Moved) <=> mirror
    BY Entries
  <2>2. (\E e \in {<<12, 20>>, <<13, 21>>, <<25, 26>>} :
           db.names[e[1]] = e[2] /\ Recorded(db, e[2]))
        <=> \/ db.names[12] = 20 /\ Recorded(db, 20)
            \/ db.names[13] = 21 /\ Recorded(db, 21)
            \/ db.names[25] = 26 /\ Recorded(db, 26)
    OBVIOUS
  <2>3. Legacy(db) <=> \/ db.names[11] = ScanProfiles
                       \/ db.names[12] \in {ScanProfiles, DynamicProfiles}
    BY Entries DEF Legacy, ScanProfiles, DynamicProfiles
  <2>4. (\E v \in {11, 12, 25} :
           /\ db.names[v] \notin {NoName, v}
           /\ <<v, db.names[v]>> \notin Strays \cup {<<25, DynamicProfiles>>})
        <=> \/ db.names[11] \notin {NoName, 11, ScanProfiles}
            \/ db.names[12] \notin {NoName, 12, 20, ScanProfiles, DynamicProfiles}
            \/ db.names[25] \notin {NoName, 25, 26, DynamicProfiles}
    BY Entries
  <2>5. (\E v \in 3..5 : Recorded(db, v) /\ <<v, db.names[v]>> \notin Strays) <=> ~Managed(db)
    BY DEF Managed
  <2> HIDE DEF mirror
  <2> QED BY <1>13, <2>1, <2>2, <2>3, <2>4, <2>5 DEF Conflicting, Mirrored
<1>16. d.owner = db.owner
  BY <1>3, <1>4, <1>5, <1>6, <1>7, <1>8, <1>9
<1>17. ASSUME ~Conflicting(db)
       PROVE  /\ ~d.profile
              /\ \A v \in Versions :
                   v \in d.has <=> \/ v \in db.has \/ <<v, db.names[v]>> \in Shadows
                                   \/ v = 25 /\ db.profile
                                   \/ v = 2 /\ db.names[2] = 3
              /\ \A v \in Versions : d.names[v] = Renamed(db, v)
  <2>1. /\ mirror => Mirrored(db)
        /\ db.names[25] = 26 => ~Recorded(db, 26)
        /\ db.names[12] = 20 => ~Recorded(db, 20)
        /\ ProfilesFit(b)
        /\ db.names[13] = 21 => ~Recorded(db, 21)
    BY <1>15, <1>17
  <2>2. ~d.profile
    BY <1>6, <1>7, <1>8, <1>9, <2>1
  <2>3. \A v \in Versions : <<v, q.names[v]>> \in Shadows <=> <<v, db.names[v]>> \in Shadows
    <3>1. \A v \in Versions \ {20, 21} : v \in 18..22 => q.names[v] = db.names[v]
      BY <1>2, <1>3, <1>4, <1>5, <1>6, <1>7
    <3>2. q.names[20] = IF db.names[12] = 20 THEN 20 ELSE db.names[20]
      BY <1>2, <1>3, <1>4, <1>5, <1>6, <1>7, <1>12
    <3>3. q.names[21] = IF db.names[13] = 21 THEN 21 ELSE db.names[21]
      BY <1>2, <1>3, <1>4, <1>5, <1>6, <1>7, <1>12
    <3>4. \A v \in Versions : <<v, NoName>> \notin Shadows /\ <<20, 20>> \notin Shadows
                              /\ <<21, 21>> \notin Shadows
      BY DEF Shadows, NoName, GuidanceContext, LifecycleRequests, RetainRequests,
             ThreatReceipts, ProgressProjection, ManifestReceipts, DynamicProfiles
    <3>5. db.names[12] = 20 => db.names[20] = NoName
      BY <2>1 DEF Recorded
    <3>6. db.names[13] = 21 => db.names[21] = NoName
      BY <2>1 DEF Recorded
    <3> QED BY <1>2, <3>1, <3>2, <3>3, <3>4, <3>5, <3>6, Entries
  <2>4. \A v \in Versions : v \in q.has <=> v \in db.has \/ (v = 25 /\ db.profile)
    BY <1>3, <1>4, <1>5, <1>6, <1>7, <1>12, <2>1
  <2>5. \A v \in Versions :
          v \in d.has <=> \/ v \in db.has \/ <<v, db.names[v]>> \in Shadows
                          \/ v = 25 /\ db.profile
                          \/ v = 2 /\ db.names[2] = 3
    <3>1. ASSUME NEW v \in Versions
          PROVE  v \in s.has <=> \/ v \in db.has \/ <<v, db.names[v]>> \in Shadows
                                 \/ v = 25 /\ db.profile
      <4>1. v \in s.has <=> v \in q.has \/ <<v, q.names[v]>> \in Shadows
        BY <1>8
      <4>2. <<v, q.names[v]>> \in Shadows <=> <<v, db.names[v]>> \in Shadows
        BY <2>3
      <4>3. v \in q.has <=> v \in db.has \/ (v = 25 /\ db.profile)
        BY <2>4
      <4> HIDE DEF q, s
      <4> QED BY <4>1, <4>2, <4>3
    <3>2. s.names[2] = db.names[2]
      BY <1>10
    <3>3. ASSUME NEW v \in Versions
          PROVE  v \in d.has <=> v \in s.has \/ (v = 2 /\ db.names[2] = 3)
      BY <1>9, <3>2
    <3> QED BY <3>1, <3>3
  <2>6. ASSUME NEW v \in Versions
        PROVE  s.names[v] = IF <<v, db.names[v]>> \in Shadows THEN v ELSE q.names[v]
    <3>1. s.names[v] = IF <<v, q.names[v]>> \in Shadows THEN v ELSE q.names[v]
      BY <1>8
    <3>2. <<v, q.names[v]>> \in Shadows <=> <<v, db.names[v]>> \in Shadows
      BY <2>3
    <3> QED BY <3>1, <3>2
  <2>7. ASSUME NEW v \in Versions PROVE d.names[v] = Renamed(db, v)
    <3>1. CASE v \in {29, 30, 31, 32}
      <4>1. <<v, q.names[v]>> \notin Shadows
        BY <3>1, Entries
      <4>2. d.names[v] = m.names[v]
        BY <1>4, <1>5, <1>6, <1>7, <1>8, <1>9, <3>1, <4>1
      <4> QED BY <1>3, <2>1, <3>1, <4>2 DEF Renamed
    <3>2. CASE v \in {11, 12}
      <4>1. <<v, q.names[v]>> \notin Shadows
        BY <3>2, Entries
      <4>2. d.names[v] = p.names[v]
        BY <1>7, <1>8, <1>9, <3>2, <4>1
      <4> QED BY <1>6, <1>12, <2>1, <3>2, <4>2
              DEF Renamed, NoName, ScanProfiles, DynamicProfiles
    <3>3. CASE v = 13
      <4>1. <<v, q.names[v]>> \notin Shadows
        BY <3>3, Entries
      <4>2. d.names[v] = q.names[v]
        BY <1>8, <1>9, <3>3, <4>1
      <4> QED BY <1>7, <1>12, <3>3, <4>2 DEF Renamed
    <3>4. CASE v \in {18, 19, 22}
      <4>1. d.names[v] = IF <<v, db.names[v]>> \in Shadows THEN v ELSE q.names[v]
        BY <1>9, <2>6, <3>4
      <4>2. q.names[v] = db.names[v]
        BY <1>3, <1>4, <1>5, <1>6, <1>7, <3>4
      <4> QED BY <3>4, <4>1, <4>2 DEF Renamed
    <3>5. CASE v = 20
      <4>1. d.names[v] = IF <<v, db.names[v]>> \in Shadows THEN v ELSE q.names[v]
        BY <1>9, <2>6, <3>5
      <4>2. q.names[v] = IF db.names[12] = 20 THEN 20 ELSE db.names[v]
        BY <1>2, <1>3, <1>4, <1>5, <1>6, <1>7, <1>12, <3>5
      <4> QED BY <3>5, <4>1, <4>2 DEF Renamed
    <3>6. CASE v = 21
      <4>1. d.names[v] = IF <<v, db.names[v]>> \in Shadows THEN v ELSE q.names[v]
        BY <1>9, <2>6, <3>6
      <4>2. q.names[v] = IF db.names[13] = 21 THEN 21 ELSE db.names[v]
        BY <1>2, <1>3, <1>4, <1>5, <1>6, <1>7, <1>12, <3>6
      <4> QED BY <3>6, <4>1, <4>2 DEF Renamed
    <3>7. CASE v = 25
      <4>1. <<v, q.names[v]>> \notin Shadows
        BY <3>7, Entries
      <4>2. d.names[v] = p.names[v]
        BY <1>7, <1>8, <1>9, <3>7, <4>1
      <4> QED BY <1>6, <1>12, <2>1, <3>7, <4>2 DEF Renamed, NoName, DynamicProfiles
    <3>8. CASE v = 26
      <4>1. <<v, q.names[v]>> \notin Shadows
        BY <3>8, Entries
      <4>2. d.names[v] = a.names[v]
        BY <1>5, <1>6, <1>7, <1>8, <1>9, <3>8, <4>1
      <4> QED BY <1>4, <1>12, <3>8, <4>2 DEF Renamed
    <3>9. CASE v \in {2, 3, 4, 5}
      BY <1>9, <1>10, <3>9 DEF Renamed
    <3>10. CASE v \notin {29, 30, 31, 32, 11, 12, 13, 18, 19, 22, 20, 21, 25, 26, 2, 3, 4, 5}
      <4>1. <<v, q.names[v]>> \notin Shadows
        BY <3>10, Entries
      <4>2. d.names[v] = db.names[v]
        BY <1>3, <1>4, <1>5, <1>6, <1>7, <1>8, <1>9, <3>10, <4>1
      <4> QED BY <3>10, <4>2 DEF Renamed
    <3> QED BY <3>1, <3>2, <3>3, <3>4, <3>5, <3>6, <3>7, <3>8, <3>9, <3>10
  <2> QED BY <2>2, <2>5, <2>7
<1>18. d.fine <=> db.fine /\ ~Conflicting(db)
  <2> HIDE DEF mirror
  <2> QED BY <1>14, <1>15
<1> QED BY <1>1, <1>9, <1>16, <1>17, <1>18

-----------------------------------------------------------------------------
(* What is supported opens, and nothing else does. *)

\* The entry at v is one that some build leaves there.
Known(db, v) ==
  /\ \/ db.names[v] \in {NoName, v}
     \/ <<v, db.names[v]>> \in Strays \cup Shadows \cup {<<25, DynamicProfiles>>}
  /\ v \in 3..5 /\ db.names[2] # 3 => db.names[v] \in {NoName, v}

\* No conflict, entry by entry.
LEMMA Agreeing ==
  ASSUME NEW db \in Database, ~Conflicting(db)
  PROVE  /\ db.names[29] = 31 \/ db.names[30] = 32 =>
              /\ db.names[29] = 31 /\ db.names[30] = 32
              /\ db.names[31] = NoName /\ db.names[32] = NoName
         /\ db.names[12] = 20 => db.names[20] = NoName
         /\ db.names[13] = 21 => db.names[21] = NoName
         /\ db.names[25] = 26 => db.names[26] = NoName
         /\ db.names[11] = ScanProfiles \/ db.names[12] \in {ScanProfiles, DynamicProfiles}
              => db.profile
         /\ db.profile => /\ db.names[11] \in {NoName, 11, ScanProfiles}
                          /\ db.names[12] \in {NoName, 12, 20, ScanProfiles, DynamicProfiles}
                          /\ db.names[25] \in {NoName, 25, 26, DynamicProfiles}
         /\ db.names[2] = 3 => /\ db.names[3] \in {NoName, 4}
                               /\ db.names[4] \in {NoName, 5}
                               /\ db.names[5] \in {NoName, SnapshotDigests}
<1>1. db.names[29] = 31 \/ db.names[30] = 32 =>
              /\ db.names[29] = 31 /\ db.names[30] = 32
              /\ db.names[31] = NoName /\ db.names[32] = NoName
  <2>1. db.names[29] = 31 \/ db.names[30] = 32 =>
          \E v \in {29, 30} : <<v, db.names[v]>> \in Moved
    BY DEF Moved
  <2> QED BY <2>1 DEF Conflicting, Recorded
<1>2. ASSUME NEW old, NEW new, <<old, new>> \in {<<12, 20>>, <<13, 21>>, <<25, 26>>},
             db.names[old] = new
      PROVE  db.names[new] = NoName
  <2> DEFINE e == <<old, new>>
  <2>1. e[1] = old /\ e[2] = new /\ e \in {<<12, 20>>, <<13, 21>>, <<25, 26>>}
    BY <1>2
  <2> HIDE DEF e
  <2> QED BY <1>2, <2>1 DEF Conflicting, Recorded
<1>3. Legacy(db) <=> \/ db.names[11] = ScanProfiles
                     \/ db.names[12] \in {ScanProfiles, DynamicProfiles}
  BY Entries DEF Legacy, ScanProfiles, DynamicProfiles
<1>4. ASSUME NEW v \in {11, 12, 25}, db.profile
      PROVE  \/ db.names[v] \in {NoName, v}
             \/ <<v, db.names[v]>> \in Strays \cup {<<25, DynamicProfiles>>}
  BY <1>4 DEF Conflicting
<1>5. db.profile => /\ db.names[11] \in {NoName, 11, ScanProfiles}
                    /\ db.names[12] \in {NoName, 12, 20, ScanProfiles, DynamicProfiles}
                    /\ db.names[25] \in {NoName, 25, 26, DynamicProfiles}
  BY <1>4, Entries
<1>6. ASSUME NEW v \in 3..5, db.names[2] = 3
      PROVE  db.names[v] = NoName \/ <<v, db.names[v]>> \in Strays
  BY <1>6 DEF Conflicting, Recorded
<1>7. db.names[2] = 3 => /\ db.names[3] \in {NoName, 4}
                         /\ db.names[4] \in {NoName, 5}
                         /\ db.names[5] \in {NoName, SnapshotDigests}
  BY <1>6, Entries
<1>8. Legacy(db) => db.profile
  BY DEF Conflicting
<1> QED BY <1>1, <1>2, <1>3, <1>5, <1>7, <1>8

LEMMA MovedHere ==
  ASSUME NEW db \in Database, NEW m \in Versions
  PROVE  (\E u \in Versions : <<u, m>> \in Moved /\ db.names[u] = m)
         <=> \/ m = 3 /\ db.names[2] = 3
             \/ m = 4 /\ db.names[3] = 4
             \/ m = 5 /\ db.names[4] = 5
             \/ m = 20 /\ db.names[12] = 20
             \/ m = 21 /\ db.names[13] = 21
             \/ m = 26 /\ db.names[25] = 26
             \/ m = 31 /\ db.names[29] = 31
             \/ m = 32 /\ db.names[30] = 32
<1>1. \A v : <<v, m>> \in Moved => v \in Versions
  BY Entries DEF Versions, Latest
<1>2. ASSUME NEW u, <<u, m>> \in Moved, db.names[u] = m
      PROVE  \/ m = 3 /\ db.names[2] = 3
             \/ m = 4 /\ db.names[3] = 4
             \/ m = 5 /\ db.names[4] = 5
             \/ m = 20 /\ db.names[12] = 20
             \/ m = 21 /\ db.names[13] = 21
             \/ m = 26 /\ db.names[25] = 26
             \/ m = 31 /\ db.names[29] = 31
             \/ m = 32 /\ db.names[30] = 32
  BY <1>2, Entries
<1>3. \A u, n : <<u, n>> \in Moved /\ db.names[u] = n /\ m = n =>
        \E v \in Versions : <<v, m>> \in Moved /\ db.names[v] = m
  BY <1>1
<1>4. /\ <<2, 3>> \in Moved /\ <<3, 4>> \in Moved /\ <<4, 5>> \in Moved
      /\ <<12, 20>> \in Moved /\ <<13, 21>> \in Moved /\ <<25, 26>> \in Moved
      /\ <<29, 31>> \in Moved /\ <<30, 32>> \in Moved
  BY DEF Moved
<1> QED BY <1>2, <1>3, <1>4

\* The rewritten entries say what the entries found said.
LEMMA RenamedReads ==
  ASSUME NEW db \in Database, ~Conflicting(db), NEW v \in Versions
  PROVE  /\ Renamed(db, v) \in {NoName, v} <=> Known(db, v)
         /\ ~Known(db, v) => /\ Renamed(db, v) = db.names[v]
                             /\ v \notin 3..5 => <<v, Renamed(db, v)>> \notin Strays
         /\ (\A u \in 3..5 : Known(db, u)) =>
              (Renamed(db, v) # NoName <=> Reads(db, v) \/ (v = 2 /\ db.names[2] = 3))
<1> DEFINE Claim == /\ Renamed(db, v) \in {NoName, v} <=> Known(db, v)
                    /\ ~Known(db, v) => /\ Renamed(db, v) = db.names[v]
                                        /\ v \notin 3..5 => <<v, Renamed(db, v)>> \notin Strays
                    /\ (\A u \in 3..5 : Known(db, u)) =>
                         (Renamed(db, v) # NoName
                          <=> Reads(db, v) \/ (v = 2 /\ db.names[2] = 3))
<1> SUFFICES Claim
  OBVIOUS
<1> DEFINE n == db.names[v]
           new == Renamed(db, v)
<1>1. /\ db.names[29] = 31 \/ db.names[30] = 32 =>
           /\ db.names[29] = 31 /\ db.names[30] = 32
           /\ db.names[31] = NoName /\ db.names[32] = NoName
      /\ db.names[12] = 20 => db.names[20] = NoName
      /\ db.names[13] = 21 => db.names[21] = NoName
      /\ db.names[25] = 26 => db.names[26] = NoName
      /\ db.names[11] = ScanProfiles \/ db.names[12] \in {ScanProfiles, DynamicProfiles}
           => db.profile
      /\ db.profile => /\ db.names[11] \in {NoName, 11, ScanProfiles}
                       /\ db.names[12] \in {NoName, 12, 20, ScanProfiles, DynamicProfiles}
                       /\ db.names[25] \in {NoName, 25, 26, DynamicProfiles}
      /\ db.names[2] = 3 => /\ db.names[3] \in {NoName, 4}
                            /\ db.names[4] \in {NoName, 5}
                            /\ db.names[5] \in {NoName, SnapshotDigests}
  BY Agreeing
<1>2. /\ <<v, n>> \in Moved <=>
           \/ v = 2 /\ n = 3
           \/ v = 3 /\ n = 4
           \/ v = 4 /\ n = 5
           \/ v = 12 /\ n = 20
           \/ v = 13 /\ n = 21
           \/ v = 25 /\ n = 26
           \/ v = 29 /\ n = 31
           \/ v = 30 /\ n = 32
      /\ <<v, n>> \in Strays <=>
           \/ <<v, n>> \in Moved
           \/ v = 5 /\ n = SnapshotDigests
           \/ v = 11 /\ n = ScanProfiles
           \/ v = 12 /\ n \in {ScanProfiles, DynamicProfiles}
      /\ <<v, n>> \in Shadows =>
           v \in 18..22 /\ n \in {17, GuidanceContext, LifecycleRequests, RetainRequests,
                                  ThreatReceipts, ProgressProjection, ManifestReceipts,
                                  DynamicProfiles}
      /\ <<v, n>> = <<25, DynamicProfiles>> <=> v = 25 /\ n = DynamicProfiles
  <2> HIDE DEF n
  <2> QED BY Entries
<1>3. Reads(db, v) <=>
        \/ v = 3 /\ db.names[2] = 3
        \/ v = 4 /\ db.names[3] = 4
        \/ v = 5 /\ db.names[4] = 5
        \/ v = 20 /\ db.names[12] = 20
        \/ v = 21 /\ db.names[13] = 21
        \/ v = 26 /\ db.names[25] = 26
        \/ v = 31 /\ db.names[29] = 31
        \/ v = 32 /\ db.names[30] = 32
        \/ n # NoName /\ <<v, n>> \notin Strays
        \/ v = 25 /\ db.profile
  <2>1. (\E u \in Versions : <<u, v>> \in Moved /\ db.names[u] = v) <=>
          \/ v = 3 /\ db.names[2] = 3
          \/ v = 4 /\ db.names[3] = 4
          \/ v = 5 /\ db.names[4] = 5
          \/ v = 20 /\ db.names[12] = 20
          \/ v = 21 /\ db.names[13] = 21
          \/ v = 26 /\ db.names[25] = 26
          \/ v = 31 /\ db.names[29] = 31
          \/ v = 32 /\ db.names[30] = 32
    BY MovedHere
  <2> QED BY <2>1 DEF Reads, Recorded
<1>4. Known(db, v) <=> /\ \/ n \in {NoName, v}
                          \/ <<v, n>> \in Strays
                          \/ <<v, n>> \in Shadows
                          \/ v = 25 /\ n = DynamicProfiles
                       /\ v \in {3, 4, 5} /\ db.names[2] # 3 => n \in {NoName, v}
  <2>1. v \in 3..5 <=> v \in {3, 4, 5}
    BY DEF Versions, Latest
  <2> QED BY <1>2, <2>1 DEF Known
<1>5. v \in Versions /\ n \in Nat /\ (v \in 18..22 <=> v \in {18, 19, 20, 21, 22})
      /\ (v \in 3..5 <=> v \in {3, 4, 5}) /\ v > 0
  BY DEF Database, Versions, Latest
<1>6. SUFFICES
        /\ new \in {NoName, v} <=> Known(db, v)
        /\ ~Known(db, v) => new = n
        /\ ~Known(db, v) /\ v \notin {3, 4, 5} => <<v, n>> \notin Strays
        /\ (db.names[2] # 3 => \A u \in {3, 4, 5} : db.names[u] \in {NoName, u}) =>
             (new # NoName <=> Reads(db, v) \/ (v = 2 /\ db.names[2] = 3))
  <2>1. 3..5 = {3, 4, 5}
    OBVIOUS
  <2>2. (\A u \in 3..5 : Known(db, u)) =>
          (db.names[2] # 3 => \A u \in {3, 4, 5} : db.names[u] \in {NoName, u})
    BY <2>1 DEF Known
  <2> HIDE DEF new, n
  <2> QED BY <1>5, <2>2 DEF new, n
<1>7. CASE v = 29
  <2>1. new = Renamed(db, 29) /\ n = db.names[29]
    BY <1>7
  <2> QED BY <1>1, <1>2, <1>3, <1>4, <1>5, <1>7, <2>1
          DEF Renamed, NoName, ScanProfiles, DynamicProfiles, SnapshotDigests
<1>8. CASE v = 30
  <2>1. new = Renamed(db, 30) /\ n = db.names[30]
    BY <1>8
  <2> QED BY <1>1, <1>2, <1>3, <1>4, <1>5, <1>8, <2>1
          DEF Renamed, NoName, ScanProfiles, DynamicProfiles, SnapshotDigests
<1>9. CASE v = 31
  <2>1. new = Renamed(db, 31) /\ n = db.names[31]
    BY <1>9
  <2> QED BY <1>1, <1>2, <1>3, <1>4, <1>5, <1>9, <2>1
          DEF Renamed, NoName, ScanProfiles, DynamicProfiles, SnapshotDigests
<1>10. CASE v = 32
  <2>1. new = Renamed(db, 32) /\ n = db.names[32]
    BY <1>10
  <2> QED BY <1>1, <1>2, <1>3, <1>4, <1>5, <1>10, <2>1
          DEF Renamed, NoName, ScanProfiles, DynamicProfiles, SnapshotDigests
<1>11. CASE v = 11
  <2>1. new = Renamed(db, 11) /\ n = db.names[11]
    BY <1>11
  <2> QED BY <1>1, <1>2, <1>3, <1>4, <1>5, <1>11, <2>1
          DEF Renamed, NoName, ScanProfiles, DynamicProfiles, SnapshotDigests
<1>12. CASE v = 12
  <2>1. new = Renamed(db, 12) /\ n = db.names[12]
    BY <1>12
  <2> QED BY <1>1, <1>2, <1>3, <1>4, <1>5, <1>12, <2>1
          DEF Renamed, NoName, ScanProfiles, DynamicProfiles, SnapshotDigests
<1>13. CASE v = 13
  <2>1. new = Renamed(db, 13) /\ n = db.names[13]
    BY <1>13
  <2> QED BY <1>1, <1>2, <1>3, <1>4, <1>5, <1>13, <2>1
          DEF Renamed, NoName, ScanProfiles, DynamicProfiles, SnapshotDigests
<1>14. CASE v = 18
  <2>1. new = Renamed(db, 18) /\ n = db.names[18]
    BY <1>14
  <2> QED BY <1>1, <1>2, <1>3, <1>4, <1>5, <1>14, <2>1
          DEF Renamed, NoName, ScanProfiles, DynamicProfiles, SnapshotDigests,
              GuidanceContext, LifecycleRequests, RetainRequests, ThreatReceipts,
              ProgressProjection, ManifestReceipts
<1>15. CASE v = 19
  <2>1. new = Renamed(db, 19) /\ n = db.names[19]
    BY <1>15
  <2> QED BY <1>1, <1>2, <1>3, <1>4, <1>5, <1>15, <2>1
          DEF Renamed, NoName, ScanProfiles, DynamicProfiles, SnapshotDigests,
              GuidanceContext, LifecycleRequests, RetainRequests, ThreatReceipts,
              ProgressProjection, ManifestReceipts
<1>16. CASE v = 20
  <2>1. new = Renamed(db, 20) /\ n = db.names[20]
    BY <1>16
  <2> QED BY <1>1, <1>2, <1>3, <1>4, <1>5, <1>16, <2>1
          DEF Renamed, NoName, ScanProfiles, DynamicProfiles, SnapshotDigests,
              GuidanceContext, LifecycleRequests, RetainRequests, ThreatReceipts,
              ProgressProjection, ManifestReceipts
<1>17. CASE v = 21
  <2>1. new = Renamed(db, 21) /\ n = db.names[21]
    BY <1>17
  <2> QED BY <1>1, <1>2, <1>3, <1>4, <1>5, <1>17, <2>1
          DEF Renamed, NoName, ScanProfiles, DynamicProfiles, SnapshotDigests,
              GuidanceContext, LifecycleRequests, RetainRequests, ThreatReceipts,
              ProgressProjection, ManifestReceipts
<1>18. CASE v = 22
  <2>1. new = Renamed(db, 22) /\ n = db.names[22]
    BY <1>18
  <2> QED BY <1>1, <1>2, <1>3, <1>4, <1>5, <1>18, <2>1
          DEF Renamed, NoName, ScanProfiles, DynamicProfiles, SnapshotDigests,
              GuidanceContext, LifecycleRequests, RetainRequests, ThreatReceipts,
              ProgressProjection, ManifestReceipts
<1>19. CASE v = 25
  <2>1. new = Renamed(db, 25) /\ n = db.names[25]
    BY <1>19
  <2> QED BY <1>1, <1>2, <1>3, <1>4, <1>5, <1>19, <2>1
          DEF Renamed, NoName, ScanProfiles, DynamicProfiles, SnapshotDigests
<1>20. CASE v = 26
  <2>1. new = Renamed(db, 26) /\ n = db.names[26]
    BY <1>20
  <2> QED BY <1>1, <1>2, <1>3, <1>4, <1>5, <1>20, <2>1
          DEF Renamed, NoName, ScanProfiles, DynamicProfiles, SnapshotDigests
<1>21. CASE v = 2
  <2>1. new = Renamed(db, 2) /\ n = db.names[2]
    BY <1>21
  <2> QED BY <1>1, <1>2, <1>3, <1>4, <1>5, <1>21, <2>1
          DEF Renamed, NoName, ScanProfiles, DynamicProfiles, SnapshotDigests
<1>22. CASE v = 3
  <2>1. new = Renamed(db, 3) /\ n = db.names[3]
    BY <1>22
  <2> QED BY <1>1, <1>2, <1>3, <1>4, <1>5, <1>22, <2>1
          DEF Renamed, NoName, ScanProfiles, DynamicProfiles, SnapshotDigests
<1>23. CASE v = 4
  <2>1. /\ new = IF db.names[2] = 3 THEN IF db.names[3] = 4 THEN 4 ELSE NoName ELSE n
        /\ n = db.names[4]
    BY <1>23 DEF Renamed
  <2> QED BY <1>1, <1>2, <1>3, <1>4, <1>5, <1>23, <2>1
          DEF NoName, ScanProfiles, DynamicProfiles, SnapshotDigests
<1>24. CASE v = 5
  <2>1. /\ new = IF db.names[2] = 3 THEN IF db.names[4] = 5 THEN 5 ELSE NoName ELSE n
        /\ n = db.names[5]
    BY <1>24 DEF Renamed
  <2> QED BY <1>1, <1>2, <1>3, <1>4, <1>5, <1>24, <2>1
          DEF NoName, ScanProfiles, DynamicProfiles, SnapshotDigests
<1>25. CASE v \notin {29, 30, 31, 32, 11, 12, 13, 18, 19, 20, 21, 22, 25, 26, 2, 3, 4, 5}
  <2>1. new = n
    BY <1>25 DEF Renamed
  <2> QED BY <1>2, <1>3, <1>4, <1>5, <1>25, <2>1 DEF NoName
<1> QED BY <1>7, <1>8, <1>9, <1>10, <1>11, <1>12, <1>13, <1>14, <1>15,
          <1>16, <1>17, <1>18, <1>19, <1>20, <1>21, <1>22, <1>23, <1>24, <1>25

\* The database after the whole transaction, in terms of the rewritten one.
LEMMA UpgradedFields ==
  ASSUME NEW db \in Database, db.fine
  PROVE  LET d == Normalize(db)
             u == Upgraded(db)
         IN /\ u \in Database
            /\ \A v \in Versions : u.names[v] = IF Recorded(d, v) THEN d.names[v] ELSE v
            /\ \A v \in Versions :
                 v \in u.has <=> \/ v \in d.has
                                 \/ Recorded(d, v) => v \in Repaired \cup {11, 27}
            /\ u.owner
            /\ u.profile = d.profile
            /\ u.fine <=> d.fine /\ \A v \in Versions : Recorded(d, v) \/ Clear(d, v)
<1> DEFINE d == Normalize(db)
           t == Through(d, Latest)
           u == Upgraded(db)
<1>1. [db EXCEPT !.fine = TRUE] = db
  <2> DEFINE e == [db EXCEPT !.fine = TRUE]
  <2>1. /\ e \in Database /\ e.names = db.names /\ e.has = db.has /\ e.owner = db.owner
        /\ e.profile = db.profile /\ e.fine = TRUE
    BY DEF Database
  <2>2. db.fine = TRUE
    BY DEF Database
  <2> HIDE DEF e
  <2>3. e = db
    BY <2>1, <2>2, SameDatabase
  <2> QED BY <2>3 DEF e
<1>2. d \in Database
  BY NormalizeFields
<1>3. u = IF Recorded(d, 27) THEN Ensure(t, {27}) ELSE t
  BY <1>1, <1>2, MigratedIs DEF Upgraded
<1> HIDE DEF d, u, t
<1>4. Latest \in 0..Latest /\ 27 \in Versions /\ Latest >= 11 /\ \A v \in Versions : v <= Latest
  BY DEF Versions, Latest
<1>5. /\ t \in Database
      /\ \A v \in Versions :
           t.names[v] = IF v <= Latest /\ ~Recorded(d, v) THEN v ELSE d.names[v]
      /\ \A v \in Versions :
           v \in t.has <=> \/ v \in d.has
                           \/ v <= Latest /\ (Recorded(d, v) => v \in Repaired \cup {11})
      /\ t.owner = (d.owner \/ Latest >= 11)
      /\ t.profile = d.profile
      /\ t.fine = (d.fine /\ \A v \in Versions : v <= Latest => Recorded(d, v) \/ Clear(d, v))
  BY <1>2, <1>4, ThroughFields DEF t
<1> DEFINE e == Ensure(t, {27})
<1>6. /\ e \in Database /\ e.names = t.names /\ e.has = t.has \cup {27} /\ e.owner = t.owner
      /\ e.profile = t.profile /\ e.fine = t.fine
  BY <1>4, <1>5, EnsureFields
<1> HIDE DEF e
<1>7. /\ u \in Database /\ u.names = t.names /\ u.owner = t.owner /\ u.profile = t.profile
      /\ u.fine = t.fine
  BY <1>3, <1>5, <1>6 DEF e
<1>8. t.owner /\ (t.fine <=> d.fine /\ \A v \in Versions : Recorded(d, v) \/ Clear(d, v))
  BY <1>4, <1>5
<1>9. \A v \in Versions : t.names[v] = IF Recorded(d, v) THEN d.names[v] ELSE v
  BY <1>4, <1>5
<1>10. ASSUME NEW v \in Versions
       PROVE  v \in u.has <=> \/ v \in d.has
                              \/ Recorded(d, v) => v \in Repaired \cup {11, 27}
  <2>1. v \in t.has <=> v \in d.has \/ (Recorded(d, v) => v \in Repaired \cup {11})
    BY <1>4, <1>5
  <2>2. CASE Recorded(d, 27)
    <3>1. u.has = t.has \cup {27}
      BY <1>3, <1>6, <2>2 DEF e
    <3> QED BY <2>1, <2>2, <3>1
  <2>3. CASE ~Recorded(d, 27)
    <3>1. u.has = t.has
      BY <1>3, <2>3
    <3> QED BY <2>1, <2>3, <3>1
  <2> QED BY <2>2, <2>3
<1> QED BY <1>5, <1>7, <1>8, <1>9, <1>10 DEF d, u

\* A database opens with the whole schema of this build exactly if it is
\* supported, said of the entries and the schema it was found with: which
\* numbers its builds used, in which lineages, makes no difference
\* (apply_migrations, normalize_pre_release_migrations and the repairs).
THEOREM OpensExactlyTheSupported ==
  ASSUME NEW db \in Database, db.fine
  PROVE  Supported(db) <=> Upgraded(db).fine /\ Whole(Upgraded(db), db)
<1> DEFINE d == Normalize(db)
           u == Upgraded(db)
           Ensured(v) == \/ <<v, db.names[v]>> \in Shadows
                         \/ v = 25 /\ db.profile
                         \/ v = 2 /\ db.names[2] = 3
           Undone(v) == v \in d.has => v \in {6, 16, 18}
<1>1. /\ u \in Database
      /\ \A v \in Versions : u.names[v] = IF Recorded(d, v) THEN d.names[v] ELSE v
      /\ \A v \in Versions :
           v \in u.has <=> \/ v \in d.has
                           \/ Recorded(d, v) => v \in Repaired \cup {11, 27}
      /\ u.owner
      /\ u.profile = d.profile
      /\ u.fine <=> d.fine /\ \A v \in Versions : Recorded(d, v) \/ Clear(d, v)
  BY UpgradedFields
<1>2. /\ d \in Database /\ d.owner = db.owner
      /\ d.fine <=> ~Conflicting(db)
      /\ ~Conflicting(db) =>
           /\ ~d.profile
           /\ \A v \in Versions : v \in d.has <=> v \in db.has \/ Ensured(v)
           /\ \A v \in Versions : d.names[v] = Renamed(db, v)
  BY NormalizeFields
<1> HIDE DEF d, u
<1>3. CASE Conflicting(db)
  BY <1>1, <1>2, <1>3 DEF Supported, u
<1>4. CASE ~Conflicting(db)
  <2>1. \A v \in Versions :
          /\ d.names[v] \in {NoName, v} <=> Known(db, v)
          /\ ~Known(db, v) => d.names[v] = db.names[v]
    <3>1. ASSUME NEW v \in Versions
          PROVE  /\ Renamed(db, v) \in {NoName, v} <=> Known(db, v)
                 /\ ~Known(db, v) => Renamed(db, v) = db.names[v]
      BY <1>4, RenamedReads
    <3> QED BY <1>2, <1>4, <3>1
  <2>2. (\A v \in Versions \ AnyName : Known(db, v))
        <=> /\ \A v \in Versions \ AnyName :
                 \/ db.names[v] \in {NoName, v}
                 \/ <<v, db.names[v]>> \in Strays \cup Shadows \cup {<<25, DynamicProfiles>>}
            /\ db.names[2] # 3 => \A v \in 3..5 : db.names[v] \in {NoName, v}
    <3>1. \A v \in 3..5 : v \in Versions \ AnyName
      BY DEF Versions, Latest, AnyName
    <3> QED BY <3>1 DEF Known
  <2>3. (\A v \in Versions : \/ u.names[v] = v
                             \/ v \in AnyName /\ Recorded(db, v) /\ u.names[v] = db.names[v])
        <=> \A v \in Versions \ AnyName : Known(db, v)
    <3>1. ASSUME NEW v \in Versions PROVE u.names[v] = v <=> Known(db, v)
      BY <1>1, <2>1 DEF Recorded, NoName, Versions
    <3>2. ASSUME NEW v \in Versions, v \in AnyName, ~Known(db, v)
          PROVE  Recorded(db, v) /\ u.names[v] = db.names[v]
      <4>1. db.names[v] # NoName /\ d.names[v] = db.names[v]
        BY <2>1, <3>2 DEF Known
      <4> QED BY <1>1, <4>1 DEF Recorded
    <3> QED BY <3>1, <3>2
  <2>4. SUFFICES ASSUME \A v \in Versions \ AnyName : Known(db, v)
                 PROVE  Supported(db) <=> Upgraded(db).fine /\ Whole(Upgraded(db), db)
    BY <2>2, <2>3 DEF Supported, Whole, u
  <2>5. ASSUME NEW v \in Versions
        PROVE  Recorded(d, v) <=> Reads(db, v) \/ (v = 2 /\ db.names[2] = 3)
    <3>1. \A w \in 3..5 : Known(db, w)
      BY <2>4 DEF Versions, Latest, AnyName
    <3>2. Renamed(db, v) # NoName <=> Reads(db, v) \/ (v = 2 /\ db.names[2] = 3)
      BY <1>4, <3>1, RenamedReads
    <3> QED BY <1>2, <1>4, <3>2 DEF Recorded
  <2>6. ASSUME NEW v \in Versions
        PROVE  v \in u.has <=> \/ v \in db.has \/ Ensured(v)
                               \/ Recorded(d, v) => v \in Repaired \cup {11, 27}
    BY <1>1, <1>2, <1>4
  <2>7. u.fine <=> \A v \in Versions : Recorded(d, v) \/ Clear(d, v)
    BY <1>1, <1>2, <1>4
  <2>8. u.has = Versions <=> \A v \in Versions : v \in u.has
    BY <1>1 DEF Database
  <2> DEFINE Fits(m) ==
               IF Reads(db, m)
               THEN \/ m \in db.has \cup Repaired \cup {11, 27}
                    \/ <<m, db.names[m]>> \in Shadows
                    \/ m = 25 /\ db.profile
               ELSE \/ m \notin db.has \/ m \in {6, 16, 18}
                    \/ m = 2 /\ db.names[2] = 3
             Placed(m) == m \in u.has /\ (Recorded(d, m) \/ Clear(d, m))
  <2>9. ASSUME NEW m \in Versions
        PROVE  Placed(m) <=> Fits(m) /\ (m = 11 /\ ~Reads(db, 11) => ~db.owner)
    <3>1. Reads(db, m) \/ m # 25 \/ ~db.profile
      BY DEF Reads
    <3>2. <<m, db.names[m]>> \in Shadows => Reads(db, m)
      <4>1. <<m, db.names[m]>> \in Shadows =>
              m \in 18..22 /\ <<m, db.names[m]>> \notin Strays /\ db.names[m] # NoName
        <5>1. <<m, NoName>> \notin Shadows
          BY DEF Shadows, NoName, GuidanceContext, LifecycleRequests, RetainRequests,
                 ThreatReceipts, ProgressProjection, ManifestReceipts, DynamicProfiles
        <5> QED BY <5>1, Entries
      <4> QED BY <4>1 DEF Reads, Recorded
    <3>3. 2 \in Repaired /\ 2 \notin {6, 16, 18}
      BY DEF Repaired
    <3>4. CASE Reads(db, m)
      <4>1. Recorded(d, m)
        BY <2>5, <3>4
      <4> QED BY <2>6, <3>3, <3>4, <4>1
    <3>5. CASE ~Reads(db, m) /\ m = 2 /\ db.names[2] = 3
      <4>1. Recorded(d, m)
        BY <2>5, <3>5
      <4>2. m \in u.has
        BY <2>6, <3>5
      <4>3. Fits(m) /\ m # 11
        BY <3>5
      <4> QED BY <4>1, <4>2, <4>3
    <3>6. CASE ~Reads(db, m) /\ ~(m = 2 /\ db.names[2] = 3)
      <4>1. ~Recorded(d, m)
        BY <2>5, <3>6
      <4>2. m \in d.has <=> m \in db.has
        BY <1>2, <1>4, <3>1, <3>2, <3>6
      <4>3. Clear(d, m) <=> (m \in db.has => m \in {6, 16, 18}) /\ (m = 11 => ~db.owner)
        BY <1>2, <1>4, <4>2 DEF Clear
      <4>4. m \in u.has
        BY <2>6, <4>1
      <4> HIDE DEF Ensured
      <4> QED BY <3>6, <4>1, <4>3, <4>4
    <3> QED BY <3>4, <3>5, <3>6
  <2>10. Supported(db) <=> (\A m \in Versions : Fits(m)) /\ (~Reads(db, 11) => ~db.owner)
    BY <1>4, <2>2, <2>4 DEF Supported
  <2>11. u.fine /\ Whole(u, db) <=> \A m \in Versions : Placed(m)
    <3>1. u.owner /\ ~u.profile
      BY <1>1, <1>2, <1>4
    <3>2. Whole(u, db) <=> u.has = Versions
      BY <2>3, <2>4, <3>1 DEF Whole
    <3> HIDE DEF Ensured
    <3> QED BY <2>7, <2>8, <3>2
  <2>12. 11 \in Versions
    BY DEF Versions, Latest
  <2> HIDE DEF Fits, Placed
  <2> QED BY <2>9, <2>10, <2>11, <2>12 DEF u
<1> QED BY <1>3, <1>4

\* What entries of different histories contradict is refused before a single
\* migration runs.
THEOREM ConflictsAreRefused ==
  ASSUME NEW db \in Database, db.fine, Conflicting(db)
  PROVE  ~Normalize(db).fine /\ ~Upgraded(db).fine
<1>1. ~Normalize(db).fine
  BY NormalizeFields
<1> QED BY <1>1, UpgradedFields

\* A database that this build has opened.
Settled(db) ==
  /\ db \in Database /\ db.fine
  /\ db.has = Versions /\ db.owner /\ ~db.profile
  /\ \A v \in Versions :
       \/ db.names[v] = v
       \/ v \in AnyName /\ Recorded(db, v) /\ <<v, db.names[v]>> \notin Strays

LEMMA FirstOpening ==
  ASSUME NEW db, Supported(db)
  PROVE  Settled(Upgraded(db)) /\ Whole(Upgraded(db), db)
<1> DEFINE d == Normalize(db)
           u == Upgraded(db)
<1>1. db \in Database /\ db.fine /\ ~Conflicting(db)
  BY DEF Supported
<1>2. u.fine /\ Whole(u, db)
  BY <1>1, OpensExactlyTheSupported
<1>3. /\ u \in Database
      /\ \A v \in Versions : u.names[v] = IF Recorded(d, v) THEN d.names[v] ELSE v
  BY <1>1, UpgradedFields
<1>4. \A v \in Versions : d.names[v] = Renamed(db, v)
  BY <1>1, NormalizeFields
<1> HIDE DEF d, u
<1>5. ASSUME NEW v \in Versions, u.names[v] # v
      PROVE  v \in AnyName /\ Recorded(u, v) /\ <<v, u.names[v]>> \notin Strays
  <2>1. v \in AnyName
    BY <1>2, <1>5 DEF Whole
  <2>2. Recorded(d, v) /\ u.names[v] = Renamed(db, v)
    BY <1>3, <1>4, <1>5
  <2>3. u.names[v] # NoName
    BY <1>3, <1>5, <2>2 DEF Recorded
  <2>4. ~Known(db, v)
    <3>1. Renamed(db, v) \in {NoName, v} <=> Known(db, v)
      BY <1>1, RenamedReads
    <3> QED BY <1>5, <2>2, <2>3, <3>1
  <2>5. v \notin 3..5 => <<v, Renamed(db, v)>> \notin Strays
    BY <1>1, <2>4, RenamedReads
  <2>6. v \notin 3..5
    BY <2>1 DEF AnyName
  <2> QED BY <2>1, <2>2, <2>3, <2>5, <2>6 DEF Recorded
<1>6. Settled(u)
  BY <1>2, <1>3, <1>5 DEF Settled, Whole
<1> QED BY <1>2, <1>6 DEF u

\* A database that this build has opened is opened again as it is: a later
\* process finds nothing to rewrite, to apply or to repair.
THEOREM OpensAgainAsItIs ==
  ASSUME NEW db, Settled(db)
  PROVE  Upgraded(db) = db
<1> DEFINE d == Normalize(db)
           u == Upgraded(db)
<1>0. /\ db \in Database /\ db.fine /\ db.has = Versions /\ db.owner /\ ~db.profile
      /\ \A v \in Versions : v \notin {2, 13, 26} => db.names[v] = v
      /\ \A v \in Versions : db.names[v] # NoName
  <2>1. \A v \in Versions : v # NoName
    BY DEF Versions, NoName
  <2> QED BY <2>1 DEF Settled, AnyName, Recorded
<1>1. /\ 11 \in Versions /\ 12 \in Versions /\ 13 \in Versions
      /\ 25 \in Versions /\ 26 \in Versions /\ 2 \in Versions /\ 3 \in Versions
      /\ 4 \in Versions /\ 5 \in Versions
      /\ 29 \in Versions /\ 30 \in Versions /\ 31 \in Versions /\ 32 \in Versions
  BY DEF Versions, Latest
<1>2. /\ db.names[11] = 11 /\ db.names[12] = 12 /\ db.names[25] = 25 /\ db.names[29] = 29
      /\ db.names[30] = 30 /\ db.names[2] # 3 /\ db.names[13] # 21
  <2>1. <<2, 3>> \in Strays /\ <<13, 21>> \in Strays
    BY DEF Strays, Moved
  <2>2. db.names[2] # 3
    BY <1>1, <2>1 DEF Settled
  <2>3. db.names[13] # 21
    BY <1>1, <2>1 DEF Settled
  <2> QED BY <1>0, <1>1, <2>2, <2>3
<1>3. ~Conflicting(db)
  <2>1. <<29, 29>> \notin Moved /\ <<30, 30>> \notin Moved /\ <<11, 11>> \notin Strays
        /\ <<12, 12>> \notin Strays
    BY DEF Moved, Strays, ScanProfiles, DynamicProfiles
  <2>2. ~Legacy(db)
    BY <1>2, <2>1 DEF Legacy
  <2>3. ~ \E v \in {29, 30} : <<v, db.names[v]>> \in Moved
    BY <1>2, <2>1
  <2>4. ~ \E e \in {<<12, 20>>, <<13, 21>>, <<25, 26>>} :
            db.names[e[1]] = e[2] /\ Recorded(db, e[2])
    BY <1>2
  <2> QED BY <1>0, <1>2, <2>2, <2>3, <2>4 DEF Conflicting
<1>4. /\ d \in Database /\ d.owner = db.owner /\ d.fine /\ ~d.profile
      /\ \A v \in Versions :
           v \in d.has <=> \/ v \in db.has \/ <<v, db.names[v]>> \in Shadows
                           \/ v = 25 /\ db.profile
                           \/ v = 2 /\ db.names[2] = 3
      /\ \A v \in Versions : d.names[v] = Renamed(db, v)
  BY <1>0, <1>3, NormalizeFields
<1>5. ASSUME NEW v \in Versions PROVE Renamed(db, v) = db.names[v] /\ db.names[v] # NoName
  <2>1. db.names[v] # NoName
    BY <1>0
  <2>2. <<v, db.names[v]>> \in Shadows => db.names[v] = v
    <3>1. <<v, db.names[v]>> \in Shadows => v \in 18..22
      BY Entries
    <3> QED BY <1>0, <3>1
  <2>3. CASE v \in {18, 19, 20, 21, 22}
    <3>1. db.names[v] = v
      BY <1>0, <2>3
    <3> QED BY <1>2, <2>1, <2>3, <3>1 DEF Renamed
  <2>4. CASE v \in {2, 3, 4, 5}
    BY <1>2, <2>1, <2>4 DEF Renamed
  <2>5. CASE v \in {29, 30, 31, 32, 11, 12, 13, 25, 26}
    BY <1>0, <1>2, <2>1, <2>5 DEF Renamed, ScanProfiles, DynamicProfiles
  <2>6. CASE v \notin {29, 30, 31, 32, 11, 12, 13, 18, 19, 20, 21, 22, 25, 26, 2, 3, 4, 5}
    BY <2>1, <2>6 DEF Renamed
  <2> QED BY <2>3, <2>4, <2>5, <2>6
<1>6. /\ u \in Database
      /\ \A v \in Versions : u.names[v] = IF Recorded(d, v) THEN d.names[v] ELSE v
      /\ \A v \in Versions :
           v \in u.has <=> \/ v \in d.has
                           \/ Recorded(d, v) => v \in Repaired \cup {11, 27}
      /\ u.owner
      /\ u.profile = d.profile
      /\ u.fine <=> d.fine /\ \A v \in Versions : Recorded(d, v) \/ Clear(d, v)
  BY <1>0, UpgradedFields
<1> HIDE DEF d, u
<1>7. ASSUME NEW v \in Versions
      PROVE  Recorded(d, v) /\ u.names[v] = db.names[v] /\ v \in u.has
  <2>1. d.names[v] = db.names[v] /\ Recorded(d, v)
    BY <1>4, <1>5 DEF Recorded
  <2>2. v \in d.has
    BY <1>0, <1>4
  <2> QED BY <1>6, <2>1, <2>2
<1>8. u.has = db.has
  BY <1>0, <1>6, <1>7 DEF Database
<1>9. u.fine = db.fine /\ u.owner = db.owner /\ u.profile = db.profile
  <2>1. u.fine /\ ~u.profile
    BY <1>4, <1>6, <1>7
  <2> QED BY <1>0, <1>6, <2>1 DEF Database
<1>10. u = db
  <2>1. \A v \in Versions : u.names[v] = db.names[v]
    BY <1>7
  <2>2. db \in Database /\ u \in Database
    BY <1>0, <1>6
  <2> QED BY <1>8, <1>9, <2>1, <2>2, SameDatabase
<1> QED BY <1>10 DEF u

MigrationSpec == MigrationInit /\ [][MigrationNext]_migrationVars

MigrationInv ==
  /\ found \in Histories \cup Foreign
  /\ opened \in {"no", "yes", "refused"}
  /\ opened # "yes" => database = found
  /\ opened = "yes" => found \in Histories /\ Settled(database) /\ Whole(database, found)
  /\ opened = "refused" => found \in Foreign

\* The databases of earlier builds are upgraded whole, however often they are
\* opened, and the others are refused and left as they were.
THEOREM EveryHistoryIsUpgraded == MigrationSpec => []EveryHistoryUpgrades
<1>1. MigrationInit => MigrationInv
  BY DEF MigrationInit, MigrationInv
<1>2. ASSUME MigrationInv, [MigrationNext]_migrationVars PROVE MigrationInv'
  <2>1. CASE UNCHANGED migrationVars
    BY <1>2, <2>1 DEF MigrationInv, migrationVars, Settled, Whole, Recorded
  <2>2. CASE Connect
    <3> DEFINE result == Upgraded(database)
    <3>1. /\ opened # "refused" /\ found' = found
          /\ IF result.fine THEN opened' = "yes" /\ database' = result
             ELSE opened' = "refused" /\ database' = database
      BY <2>2 DEF Connect
    <3>2. CASE opened = "no" /\ found \in Histories
      <4>1. Supported(found) /\ database = found
        BY <1>2, <3>2, MigrationAssumption DEF MigrationInv
      <4>2. Settled(result) /\ Whole(result, found) /\ result.fine
        BY <4>1, FirstOpening DEF Settled
      <4> HIDE DEF result
      <4> QED BY <1>2, <3>1, <3>2, <4>2 DEF MigrationInv
    <3>3. CASE opened = "no" /\ found \notin Histories
      <4>1. /\ found \in Foreign /\ database = found
            /\ found \in Database /\ found.fine /\ Conflicting(found)
        BY <1>2, <3>3, MigrationAssumption DEF MigrationInv
      <4>2. ~result.fine
        BY <4>1, ConflictsAreRefused
      <4> HIDE DEF result
      <4> QED BY <1>2, <3>1, <4>1, <4>2 DEF MigrationInv
    <3>4. CASE opened = "yes"
      <4>1. Settled(database) /\ Whole(database, found) /\ found \in Histories
        BY <1>2, <3>4 DEF MigrationInv
      <4>2. result = database /\ database.fine
        BY <4>1, OpensAgainAsItIs DEF Settled
      <4> HIDE DEF result
      <4>3. opened' = "yes" /\ database' = database /\ found' = found
        BY <3>1, <4>2
      <4> QED BY <1>2, <4>1, <4>3 DEF MigrationInv, Settled, Whole, Recorded
    <3> QED BY <1>2, <3>1, <3>2, <3>3, <3>4 DEF MigrationInv
  <2> QED BY <1>2, <2>1, <2>2 DEF MigrationNext
<1>3. MigrationInv => EveryHistoryUpgrades
  <2> SUFFICES ASSUME MigrationInv PROVE EveryHistoryUpgrades
    OBVIOUS
  <2>1. ~(found \in Histories /\ found \in Foreign)
    BY MigrationAssumption DEF Supported
  <2> QED BY <2>1 DEF MigrationInv, EveryHistoryUpgrades
<1> QED BY <1>1, <1>2, <1>3, PTL DEF MigrationSpec

=============================================================================
