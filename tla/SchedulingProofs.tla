-------------------------- MODULE SchedulingProofs --------------------------
(***************************************************************************)
(* Proofs about the scheduling loop, for every graph, every order and      *)
(* every degree of parallelism.                                            *)
(***************************************************************************)
EXTENDS Scheduler, WellFoundedInduction, FiniteSetTheorems, TLAPS

-----------------------------------------------------------------------------
(* The loop: which executions are under way *)

\* Executions at work are among those the loop still waits for, and when it
\* is over it waits for none that is at work.
WaitsForAll ==
  /\ execution \in [Phase -> Result \cup {"none", "busy"}]
  /\ \A p \in Phase : execution[p] = "busy" => p \in active
  /\ control \in {"idle", "returned"} => active = {}
  /\ control = "threw" => \A p \in active : execution[p] \in Result

\* What the synchronous part of the loop leaves behind, whichever await it
\* reaches.
LEMMA ProceedEffect ==
  ASSUME NEW st, NEW begun, Proceed(st, begun)
  PROVE  /\ active' = begun
         /\ control' \in {"starting", "racing", "returned", "stalled"}
         /\ control' = "returned" => begun = {}
  BY DEF Proceed, Dispatch, Race, Return

LEMMA ContinueEffect ==
  ASSUME NEW st, NEW begun, Continue(st, begun)
  PROVE  /\ active' = begun
         /\ control' \in {"starting", "racing", "returned", "stalled"}
         /\ control' = "returned" => begun = {}
  BY ProceedEffect DEF Continue

\* Every step of the loop keeps track of the executions it has begun.
LEMMA WaitsForAllStep ==
  ASSUME WaitsForAll, [Next]_schedule
  PROVE  WaitsForAll'
<1>1. ASSUME NEW completed \in Prefix, Begin(completed)
      PROVE  WaitsForAll'
  <2>1. /\ active' = {} /\ execution' = execution
        /\ control' \notin {"idle", "threw"}
    BY <1>1, ContinueEffect DEF Begin
  <2> QED BY <2>1, <1>1 DEF WaitsForAll, Begin
<1>2. ASSUME Started
      PROVE  WaitsForAll'
  <2>1. CASE aborted
    BY <2>1, <1>2 DEF Started, WaitsForAll
  <2>2. CASE ~aborted
    <3>1. /\ execution' = [execution EXCEPT ![at] = "busy"]
          /\ Proceed(state, active \cup {at})
      BY <2>2, <1>2 DEF Started
    <3>2. /\ active' = active \cup {at}
          /\ control' \notin {"idle", "threw", "returned"}
      BY <3>1, ProceedEffect
    <3> QED BY <3>1, <3>2 DEF WaitsForAll
  <2> QED BY <2>1, <2>2
<1>3. ASSUME Retracted
      PROVE  WaitsForAll'
  <2>1. /\ execution' = execution /\ active' = active
        /\ control' \notin {"idle", "threw"}
        /\ control' = "returned" => active = {}
    BY <1>3, ProceedEffect DEF Retracted
  <2> QED BY <2>1 DEF WaitsForAll
<1>4. ASSUME Settled
      PROVE  WaitsForAll'
  <2>1. /\ execution' = execution /\ active' = active
        /\ control' \notin {"idle", "threw"}
        /\ control' = "returned" => active = {}
    BY <1>4, ContinueEffect DEF Settled
  <2> QED BY <2>1 DEF WaitsForAll
<1>5. ASSUME CallbackThrows
      PROVE  WaitsForAll'
  BY <1>5 DEF CallbackThrows, WaitsForAll
<1>6. ASSUME NEW p \in Phase, Take(p)
      PROVE  WaitsForAll'
  <2>1. p \notin {q \in Phase : execution[q] = "busy"}
    BY <1>6 DEF Take, Result
  <2> QED BY <2>1, <1>6 DEF Take, WaitsForAll
<1>7. ASSUME NEW p \in Phase, NEW result \in Result, Execute(p, result)
      PROVE  WaitsForAll'
  <2>1. p \in active
    BY <1>7 DEF Execute, WaitsForAll
  <2>2. result # "busy"
    BY DEF Result
  <2> QED BY <2>1, <2>2, <1>7 DEF Execute, WaitsForAll
<1>8. ASSUME Throw
      PROVE  WaitsForAll'
  BY <1>8 DEF Throw, WaitsForAll
<1>9. ASSUME Abort \/ UNCHANGED schedule
      PROVE  WaitsForAll'
  BY <1>9 DEF Abort, WaitsForAll, schedule
<1> QED
  BY <1>1, <1>2, <1>3, <1>4, <1>5, <1>6, <1>7, <1>8, <1>9 DEF Next, Callback

\* Whatever the callbacks and executors do, when the call is over none of its
\* executors is still at work: an execution is never forgotten between its
\* start and the race that takes it, nor when a callback throws
\* (scheduler.ts:155-185, 240-244).
THEOREM NoExecutorSurvives == Spec => []NothingLeftRunning
<1>1. Idle => WaitsForAll
  BY DEF Idle, WaitsForAll
<1>2. WaitsForAll => NothingLeftRunning
  BY DEF WaitsForAll, NothingLeftRunning, Result
<1> QED
  BY <1>1, <1>2, WaitsForAllStep, PTL DEF Spec

\* An aborted signal is final for dispatching, in every interleaving of the
\* abort with the callbacks (scheduler.ts:130, 141, 150).
THEOREM AbortIsFinal == Spec => AbortStopsDispatch
<1>1. ASSUME WaitsForAll, [Next]_schedule, aborted
      PROVE  \A p \in Phase : execution'[p] = "busy" => execution[p] = "busy"
  <2>1. CASE \E p \in Phase, result \in Result : Execute(p, result)
    <3>1. PICK p \in Phase, result \in Result : Execute(p, result)
      BY <2>1
    <3> QED BY <3>1, <1>1 DEF Execute, WaitsForAll, Result
  <2>2. CASE ~(\E p \in Phase, result \in Result : Execute(p, result))
    BY <2>2, <1>1 DEF Next, Callback, Begin, Started, Retracted, Settled,
                      CallbackThrows, Take, Throw, Abort, schedule
  <2> QED BY <2>1, <2>2
<1>2. Idle => WaitsForAll
  BY DEF Idle, WaitsForAll
<1>3. WaitsForAll /\ [Next]_schedule
        => [aborted => \A p \in Phase :
              execution'[p] = "busy" => execution[p] = "busy"]_schedule
  BY <1>1
<1> QED
  BY <1>2, <1>3, WaitsForAllStep, PTL DEF Spec, AbortStopsDispatch

-----------------------------------------------------------------------------
(* Induction, on sets of numbers *)

\* Every set of natural numbers has a least one.
LEMMA LeastNatural ==
  ASSUME NEW T, T \subseteq Nat, T # {}
  PROVE  \E m \in T : \A k \in T : m <= k
<1> DEFINE R == {ss \in Nat \X Nat : ss[1] < ss[2]}
<1>1. IsWellFoundedOn(R, Nat)
  BY NatLessThanWellFounded DEF OpToRel
<1>2. PICK m \in T : \A k \in T : ~(<<k, m>> \in R)
  <2> HIDE DEF R
  <2> QED BY <1>1, WFMin
<1>3. ASSUME NEW k \in T PROVE m <= k
  <2>1. ~(<<k, m>> \in R)
    BY <1>2
  <2> QED BY <2>1
<1> QED BY <1>3

\* What holds of 0, and of n + 1 if it holds of n, holds of every number.
LEMMA InductionUpTo ==
  ASSUME NEW n \in Nat, NEW S, 0 \in S,
         \A m \in Nat : m < n /\ m \in S => m + 1 \in S
  PROVE  0..n \subseteq S
<1> DEFINE T == (0..n) \ S
<1>1. SUFFICES ASSUME T # {} PROVE FALSE
  OBVIOUS
<1>2. PICK m \in T : \A k \in T : m <= k
  <2>1. T \subseteq Nat
    OBVIOUS
  <2> HIDE DEF T
  <2> QED BY <1>1, <2>1, LeastNatural
<1>3. m # 0 /\ m - 1 \in Nat /\ m - 1 < n /\ m - 1 \in S
  BY <1>2
<1> QED BY <1>2, <1>3

-----------------------------------------------------------------------------
(* updateReadyAndSkipped *)

\* Nothing has been canceled; a phase is skipped only behind a failure, and
\* ready, or further, only with its dependencies completed.
Justified(st) ==
  /\ st \in [Phase -> State]
  /\ \A p \in Phase : st[p] # "canceled"
  /\ \A p \in Phase : st[p] = "skipped" =>
       \E d \in Deps[p] : st[d] \in {"failed", "skipped"}
  /\ \A p \in Phase : st[p] \in {"ready", "running", "completed", "failed"} =>
       Satisfied(st, p)

OnlyPendingMoved(st, new) ==
  \A p \in Phase : st[p] # "pending" => new[p] = st[p]

LEMMA UpdateJustified ==
  ASSUME NEW st, Justified(st), NEW q \in Phase
  PROVE  Justified(Update(st, q)) /\ OnlyPendingMoved(st, Update(st, q))
<1>0. st \in [Phase -> State] /\ \A p \in Phase : Deps[p] \subseteq Phase
  BY OrderAssumption DEF Justified
<1>1. CASE st[q] # "pending" \/ (~Blocked(st, q) /\ ~Satisfied(st, q))
  BY <1>1 DEF Update, OnlyPendingMoved
<1>2. CASE st[q] = "pending" /\ Blocked(st, q)
  <2>1. PICK d \in Deps[q] : st[d] \in {"failed", "skipped"}
    BY <1>0, <1>2 DEF Blocked, Blocking, Justified
  <2> DEFINE new == [st EXCEPT ![q] = "skipped"]
  <2>2. new = Update(st, q)
    BY <1>2 DEF Update
  <2>3. /\ new \in [Phase -> State] /\ new[q] = "skipped"
        /\ \A p \in Phase \ {q} : new[p] = st[p]
    BY <1>0 DEF State
  <2>4. ASSUME NEW p \in Phase, st[p] = "skipped"
        PROVE  \E e \in Deps[p] : new[e] \in {"failed", "skipped"}
    <3>1. PICK e \in Deps[p] : st[e] \in {"failed", "skipped"}
      BY <2>4 DEF Justified
    <3> QED BY <1>0, <1>2, <2>3, <3>1
  <2>5. new[d] \in {"failed", "skipped"}
    BY <1>0, <1>2, <2>1, <2>3
  <2>6. ASSUME NEW p \in Phase,
               new[p] \in {"ready", "running", "completed", "failed"}
        PROVE  Satisfied(new, p)
    <3>1. Satisfied(st, p)
      BY <2>3, <2>6 DEF Justified
    <3> QED BY <1>0, <1>2, <2>3, <3>1 DEF Satisfied
  <2> HIDE DEF new
  <2>7. Justified(new)
    BY <1>2, <2>3, <2>4, <2>5, <2>6 DEF Justified
  <2> QED BY <1>2, <2>2, <2>3, <2>7 DEF OnlyPendingMoved
<1>3. CASE st[q] = "pending" /\ ~Blocked(st, q) /\ Satisfied(st, q)
  <2> DEFINE new == [st EXCEPT ![q] = "ready"]
  <2>1. new = Update(st, q)
    BY <1>3 DEF Update
  <2>2. /\ new \in [Phase -> State] /\ new[q] = "ready"
        /\ \A p \in Phase \ {q} : new[p] = st[p]
    BY <1>0 DEF State
  <2>3. ASSUME NEW p \in Phase, new[p] = "skipped"
        PROVE  \E e \in Deps[p] : new[e] \in {"failed", "skipped"}
    <3>1. PICK e \in Deps[p] : st[e] \in {"failed", "skipped"}
      BY <2>2, <2>3 DEF Justified
    <3> QED BY <1>0, <1>3, <2>2, <3>1
  <2>4. ASSUME NEW p \in Phase,
               new[p] \in {"ready", "running", "completed", "failed"}
        PROVE  Satisfied(new, p)
    <3>1. Satisfied(st, p)
      BY <1>3, <2>2, <2>4 DEF Justified
    <3> QED BY <1>0, <1>3, <2>2, <3>1 DEF Satisfied
  <2> HIDE DEF new
  <2>5. Justified(new)
    BY <2>2, <2>3, <2>4 DEF Justified
  <2> QED BY <1>3, <2>1, <2>2, <2>5 DEF OnlyPendingMoved
<1> QED BY <1>1, <1>2, <1>3

\* The pass over the topological order is well defined: each of its states is
\* the update of the one before.
LEMMA PassIsDefined ==
  ASSUME NEW st, NEW n \in Nat
  PROVE  \E g : g = [k \in 0..n |->
                       IF k = 0 THEN st ELSE Update(g[k - 1], Order[k])]
<1> DEFINE Pass(g, m) == [k \in 0..m |->
                            IF k = 0 THEN st ELSE Update(g[k - 1], Order[k])]
           S == {m \in Nat : \E g : g = Pass(g, m)}
<1>1. 0 \in S
  <2> DEFINE g == [k \in 0..0 |-> st]
  <2>1. g = Pass(g, 0)
    OBVIOUS
  <2> QED BY <2>1
<1>2. ASSUME NEW m \in Nat, m \in S PROVE m + 1 \in S
  <2>1. PICK g : g = Pass(g, m)
    BY <1>2
  <2> DEFINE h == [k \in 0..(m + 1) |->
                     IF k <= m THEN g[k] ELSE Update(g[m], Order[m + 1])]
  <2>2. h = Pass(h, m + 1)
    <3>1. ASSUME NEW k \in 0..(m + 1)
          PROVE  h[k] = IF k = 0 THEN st ELSE Update(h[k - 1], Order[k])
      <4>1. CASE k = 0
        BY <2>1, <4>1
      <4>2. CASE k # 0 /\ k <= m
        <5>1. k \in 0..m /\ k - 1 \in 0..(m + 1) /\ k - 1 <= m
          BY <4>2
        <5>2. h[k] = g[k] /\ h[k - 1] = g[k - 1]
          BY <4>2, <5>1
        <5>3. g[k] = Update(g[k - 1], Order[k])
          BY <2>1, <4>2, <5>1
        <5> QED BY <4>2, <5>2, <5>3
      <4>3. CASE k = m + 1
        <5>1. h[k] = Update(g[m], Order[m + 1]) /\ h[k - 1] = g[m] /\ k # 0
          BY <4>3
        <5> QED BY <4>3, <5>1
      <4> QED BY <4>1, <4>2, <4>3
    <3> QED BY <3>1
  <2>3. \E f : f = Pass(f, m + 1)
    BY <2>2
  <2> HIDE DEF Pass
  <2> QED BY <2>3
<1>3. 0..n \subseteq S
  <2> HIDE DEF S
  <2> QED BY <1>1, <1>2, InductionUpTo
<1>4. n \in S
  BY <1>3
<1> QED BY <1>4

\* Marking what is ready and what is skipped keeps every mark justified.
LEMMA RefreshJustified ==
  ASSUME NEW st, Justified(st)
  PROVE  Justified(Refresh(st)) /\ OnlyPendingMoved(st, Refresh(st))
<1> DEFINE n == Len(Order)
           pass == CHOOSE g : g = [k \in 0..n |->
                     IF k = 0 THEN st ELSE Update(g[k - 1], Order[k])]
           S == {m \in Nat : m <= n =>
                   Justified(pass[m]) /\ OnlyPendingMoved(st, pass[m])}
<1>1. n \in Nat /\ \A k \in 1..n : Order[k] \in Phase
  BY OrderAssumption
<1>2. pass = [k \in 0..n |->
                IF k = 0 THEN st ELSE Update(pass[k - 1], Order[k])]
  <2> HIDE DEF n
  <2> QED BY <1>1, PassIsDefined
<1>3. Refresh(st) = [p \in Phase |-> pass[n][p]]
  BY DEF Refresh
<1> HIDE DEF pass
<1>4. 0 \in S
  BY <1>1, <1>2 DEF OnlyPendingMoved
<1>5. ASSUME NEW m \in Nat, m < n, m \in S PROVE m + 1 \in S
  <2>1. pass[m + 1] = Update(pass[m], Order[m + 1])
    BY <1>1, <1>2, <1>5
  <2>2. Justified(pass[m]) /\ OnlyPendingMoved(st, pass[m])
    BY <1>1, <1>5
  <2>3. Order[m + 1] \in Phase
    BY <1>1, <1>5
  <2>4. /\ Justified(pass[m + 1])
        /\ OnlyPendingMoved(pass[m], pass[m + 1])
    BY <2>1, <2>2, <2>3, UpdateJustified
  <2>5. OnlyPendingMoved(st, pass[m + 1])
    BY <2>2, <2>4 DEF OnlyPendingMoved
  <2> QED BY <2>4, <2>5
<1>6. n \in S
  <2> HIDE DEF S, n
  <2>1. 0..n \subseteq S
    BY <1>1, <1>4, <1>5, InductionUpTo
  <2> QED BY <1>1, <2>1
<1>7. Justified(pass[n]) /\ OnlyPendingMoved(st, pass[n])
  BY <1>1, <1>6
<1>8. Refresh(st) = pass[n]
  <2> HIDE DEF n
  <2> QED BY <1>3, <1>7 DEF Justified
<1> QED BY <1>7, <1>8

\* The phase the loop dispatches is a ready one: the order holds them all.
LEMMA FirstReadyIsReady ==
  ASSUME NEW st, Ready(st) # {}
  PROVE  FirstReady(st) \in Ready(st)
<1> DEFINE T == {k \in DOMAIN Order : Order[k] \in Ready(st)}
<1>1. T \subseteq Nat /\ T # {}
  BY OrderAssumption DEF Ready
<1>2. PICK k \in T : \A j \in T : k <= j
  BY <1>1, LeastNatural
<1>3. \A j \in 1..(k - 1) : Order[j] \notin Ready(st)
  BY <1>2, OrderAssumption
<1>4. \E p \in Ready(st) :
        \E i \in DOMAIN Order :
          /\ Order[i] = p
          /\ \A j \in 1..(i - 1) : Order[j] \notin Ready(st)
  BY <1>2, <1>3
<1> QED BY <1>4 DEF FirstReady

-----------------------------------------------------------------------------
(* Containment of failure *)

\* While the signal is not aborted, every mark is justified, what is under way
\* is marked running, and the verdict awaited is the mark to come.
LoopInv ==
  /\ active \subseteq Phase
  /\ control = "retracting" => aborted
  /\ ~aborted =>
       /\ Justified(state)
       /\ \A p \in active : state[p] = "running"
       /\ control = "starting" =>
            at \in Phase \ active /\ state[at] = "running"
       /\ control = "settling" =>
            /\ at \in Phase \ active
            /\ verdict \in {"completed", "failed"}
            /\ \/ state[at] = "running"
               \/ state[at] = "failed" /\ verdict = "failed"
  /\ control \in {"starting", "settling"} => at \in Phase
  /\ FailureIsContained

\* A phase that is dispatched has its dependencies completed.
LEMMA DispatchJustified ==
  ASSUME NEW st, Justified(st), NEW p \in Phase, st[p] = "ready"
  PROVE  Justified([st EXCEPT ![p] = "running"])
<1> DEFINE new == [st EXCEPT ![p] = "running"]
<1>1. /\ new \in [Phase -> State] /\ new[p] = "running"
      /\ \A q \in Phase \ {p} : new[q] = st[q]
      /\ \A q \in Phase : Deps[q] \subseteq Phase
  BY OrderAssumption DEF Justified, State
<1> HIDE DEF new
<1>2. ASSUME NEW q \in Phase, new[q] = "skipped"
      PROVE  \E d \in Deps[q] : new[d] \in {"failed", "skipped"}
  <2>1. PICK d \in Deps[q] : st[d] \in {"failed", "skipped"}
    BY <1>1, <1>2 DEF Justified
  <2> QED BY <1>1, <2>1
<1>3. ASSUME NEW q \in Phase,
             new[q] \in {"ready", "running", "completed", "failed"}
      PROVE  Satisfied(new, q)
  <2>1. Satisfied(st, q)
    BY <1>1, <1>3 DEF Justified
  <2> QED BY <1>1, <2>1 DEF Satisfied
<1>4. Justified(new)
  BY <1>1, <1>2, <1>3 DEF Justified
<1> QED BY <1>4 DEF new

\* A phase that ends while it is running keeps every mark justified.
LEMMA SettleJustified ==
  ASSUME NEW st, Justified(st), NEW p \in Phase, NEW end \in {"completed", "failed"},
         st[p] = "running" \/ (st[p] = "failed" /\ end = "failed")
  PROVE  Justified([st EXCEPT ![p] = end])
<1> DEFINE new == [st EXCEPT ![p] = end]
<1>1. /\ new \in [Phase -> State] /\ new[p] = end
      /\ \A q \in Phase \ {p} : new[q] = st[q]
      /\ \A q \in Phase : Deps[q] \subseteq Phase
  BY OrderAssumption DEF Justified, State
<1> HIDE DEF new
<1>2. ASSUME NEW q \in Phase, new[q] = "skipped"
      PROVE  \E d \in Deps[q] : new[d] \in {"failed", "skipped"}
  <2>1. PICK d \in Deps[q] : st[d] \in {"failed", "skipped"}
    BY <1>1, <1>2 DEF Justified
  <2> QED BY <1>1, <2>1
<1>3. ASSUME NEW q \in Phase,
             new[q] \in {"ready", "running", "completed", "failed"}
      PROVE  Satisfied(new, q)
  <2>1. Satisfied(st, q)
    BY <1>1, <1>3 DEF Justified
  <2> QED BY <1>1, <2>1 DEF Satisfied
<1>4. Justified(new)
  BY <1>1, <1>2, <1>3 DEF Justified
<1> QED BY <1>4 DEF new

\* When every mark is justified and nothing is unfinished, exactly the phases
\* behind a failure are skipped.
LEMMA FinishedIsContained ==
  ASSUME NEW st, Justified(st), Unfinished(st) = {}
  PROVE  \A p \in Phase :
           st[p] = "skipped" <=> \E d \in Deps[p] : st[d] \in {"failed", "skipped"}
<1> SUFFICES ASSUME NEW p \in Phase, NEW d \in Deps[p],
                    st[d] \in {"failed", "skipped"}
             PROVE  st[p] = "skipped"
  BY DEF Justified
<1>1. ~Satisfied(st, p)
  BY DEF Satisfied
<1>2. st[p] \in State /\ st[p] \notin {"pending", "ready", "running"}
  BY DEF Justified, Unfinished
<1> QED BY <1>1, <1>2 DEF Justified, State

LEMMA ProceedKeeps ==
  ASSUME NEW st, NEW begun, begun \subseteq Phase,
         ~aborted => Justified(st) /\ \A p \in begun : st[p] = "running",
         Proceed(st, begun), aborted' = aborted
  PROVE  LoopInv'
<1>1. active' = begun
  BY DEF Proceed
<1>2. CASE Dispatch(st, begun)
  <2>1. ~aborted /\ Ready(st) # {} /\ Justified(st)
    BY <1>2 DEF Dispatch, CanDispatch
  <2> DEFINE f == FirstReady(st)
  <2>2. f \in Phase /\ st[f] = "ready" /\ f \notin begun
    BY <2>1, FirstReadyIsReady DEF Ready
  <2>3. /\ state' = [st EXCEPT ![f] = "running"] /\ at' = f
        /\ control' = "starting"
    BY <1>2 DEF Dispatch
  <2> HIDE DEF f
  <2>4. Justified(state')
    BY <2>1, <2>2, <2>3, DispatchJustified
  <2>5. state'[f] = "running" /\ \A p \in begun : state'[p] = "running"
    BY <2>1, <2>2, <2>3 DEF Justified
  <2>6. Justified(state)'
    BY <2>4 DEF Justified, Satisfied
  <2> QED BY <1>1, <2>1, <2>2, <2>3, <2>5, <2>6 DEF LoopInv, FailureIsContained
<1>3. CASE Race(st, begun)
  <2>1. state' = st /\ control' = "racing"
    BY <1>3 DEF Race
  <2>2. ~aborted => Justified(state)'
    BY <2>1 DEF Justified, Satisfied
  <2> QED BY <1>1, <2>1, <2>2 DEF LoopInv, FailureIsContained
<1>4. CASE Return(st, begun)
  <2>1. /\ begun = {} /\ control' \in {"returned", "stalled"}
        /\ verdict' = Status(st)
        /\ ~aborted => state' = st
        /\ control' = "returned" /\ ~aborted => Unfinished(st) = {}
    BY <1>4 DEF Return
  <2>2. ~aborted => Justified(state)'
    BY <2>1 DEF Justified, Satisfied
  <2>3. FailureIsContained'
    <3>1. CASE aborted
      BY <2>1, <3>1 DEF Status, FailureIsContained
    <3>2. CASE ~aborted
      BY <2>1, <3>2, FinishedIsContained DEF FailureIsContained
    <3> QED BY <3>1, <3>2
  <2> QED BY <1>1, <2>1, <2>2, <2>3 DEF LoopInv
<1> QED BY <1>2, <1>3, <1>4 DEF Proceed

LEMMA ContinueKeeps ==
  ASSUME NEW st, NEW begun, begun \subseteq Phase,
         ~aborted => Justified(st) /\ \A p \in begun : st[p] = "running",
         Continue(st, begun), aborted' = aborted
  PROVE  LoopInv'
<1>1. CASE aborted
  BY <1>1, ProceedKeeps DEF Continue
<1>2. CASE ~aborted
  <2>1. Proceed(Refresh(st), begun)
    BY <1>2 DEF Continue
  <2>2. Justified(Refresh(st)) /\ OnlyPendingMoved(st, Refresh(st))
    BY <1>2, RefreshJustified
  <2>3. \A p \in begun : Refresh(st)[p] = "running"
    BY <1>2, <2>2 DEF OnlyPendingMoved
  <2> QED BY <2>1, <2>2, <2>3, ProceedKeeps
<1> QED BY <1>1, <1>2

LEMMA LoopInvStep ==
  ASSUME LoopInv, [Next]_schedule
  PROVE  LoopInv'
<1>1. ASSUME NEW completed \in Prefix, Begin(completed)
      PROVE  LoopInv'
  <2> DEFINE st == [p \in Phase |-> IF p \in completed THEN "completed" ELSE "pending"]
  <2>1. Justified(st)
    <3>1. \A p \in Phase : Deps[p] \subseteq Phase
      BY OrderAssumption
    <3>2. \A p \in completed : Deps[p] \subseteq completed
      BY DEF Prefix
    <3> QED BY <3>1, <3>2 DEF Justified, Satisfied, State
  <2>2. Continue(st, {}) /\ aborted' = aborted
    BY <1>1 DEF Begin
  <2> HIDE DEF st
  <2> QED BY <2>1, <2>2, ContinueKeeps
<1>2. CASE Started
  <2>1. CASE aborted
    BY <1>2, <2>1 DEF Started, LoopInv, FailureIsContained
  <2>2. CASE ~aborted
    BY <1>2, <2>2, ProceedKeeps DEF Started, LoopInv
  <2> QED BY <2>1, <2>2
<1>3. CASE Retracted
  BY <1>3, ProceedKeeps DEF Retracted, LoopInv
<1>4. CASE Settled
  <2>1. /\ Continue([state EXCEPT ![at] = verdict], active)
        /\ aborted' = aborted /\ active \subseteq Phase
    BY <1>4 DEF Settled, LoopInv
  <2>2. ASSUME ~aborted
        PROVE  /\ Justified([state EXCEPT ![at] = verdict])
               /\ \A p \in active : [state EXCEPT ![at] = verdict][p] = "running"
    <3>1. /\ Justified(state) /\ at \in Phase \ active
          /\ verdict \in {"completed", "failed"}
          /\ \/ state[at] = "running"
             \/ state[at] = "failed" /\ verdict = "failed"
          /\ \A p \in active : state[p] = "running"
      BY <1>4, <2>2 DEF Settled, LoopInv
    <3>2. Justified([state EXCEPT ![at] = verdict])
      BY <3>1, SettleJustified
    <3>3. \A p \in active : [state EXCEPT ![at] = verdict][p] = "running"
      BY <2>1, <3>1 DEF Justified
    <3> QED BY <3>2, <3>3
  <2> QED BY <2>1, <2>2, ContinueKeeps
<1>5. CASE CallbackThrows
  <2>1. Justified(state)' <=> Justified(state)
    BY <1>5 DEF CallbackThrows, Justified, Satisfied
  <2> QED BY <1>5, <2>1 DEF CallbackThrows, LoopInv, FailureIsContained
<1>6. ASSUME NEW p \in Phase, Take(p)
      PROVE  LoopInv'
  <2>1. /\ active' = active \ {p} /\ at' = p /\ control' = "settling"
        /\ aborted' = aborted /\ p \in active
    BY <1>6 DEF Take
  <2>2. ASSUME ~aborted
        PROVE  /\ Justified(state)'
               /\ \A q \in active' : state'[q] = "running"
               /\ verdict' \in {"completed", "failed"}
               /\ \/ state'[p] = "running"
                  \/ state'[p] = "failed" /\ verdict' = "failed"
    <3>1. Justified(state) /\ \A q \in active : state[q] = "running"
      BY <2>2 DEF LoopInv
    <3>2. CASE execution[p] = "bad"
      <4>1. state' = [state EXCEPT ![p] = "failed"] /\ verdict' = "failed"
        BY <1>6, <2>2, <3>2 DEF Take
      <4>2. Justified(state')
        BY <2>1, <3>1, <4>1, SettleJustified
      <4>3. Justified(state)'
        BY <4>2 DEF Justified, Satisfied
      <4>4. \A q \in active' : state'[q] = "running"
        BY <2>1, <3>1, <4>1 DEF Justified
      <4>5. state'[p] = "failed"
        BY <3>1, <4>1 DEF Justified
      <4> QED BY <4>1, <4>3, <4>4, <4>5
    <3>3. CASE execution[p] # "bad"
      <4>1. state' = state /\ verdict' \in {"completed", "failed"}
        BY <1>6, <2>2, <3>3 DEF Take
      <4>2. Justified(state)'
        BY <3>1, <4>1 DEF Justified, Satisfied
      <4> QED BY <2>1, <3>1, <4>1, <4>2
    <3> QED BY <3>2, <3>3
  <2> QED BY <2>1, <2>2 DEF LoopInv, FailureIsContained
<1>7. ASSUME NEW p \in Phase, NEW result \in Result, Execute(p, result)
      PROVE  LoopInv'
  <2>1. UNCHANGED <<state, active, control, at, verdict, aborted>>
    BY <1>7 DEF Execute
  <2>2. Justified(state)' <=> Justified(state)
    BY <2>1 DEF Justified, Satisfied
  <2> QED BY <2>1, <2>2 DEF LoopInv, FailureIsContained
<1>8. CASE Throw
  <2>1. Justified(state)' <=> Justified(state)
    BY <1>8 DEF Throw, Justified, Satisfied
  <2> QED BY <1>8, <2>1 DEF Throw, LoopInv, FailureIsContained
<1>9. CASE Abort
  BY <1>9 DEF Abort, LoopInv, FailureIsContained
<1>10. CASE UNCHANGED schedule
  <2>1. Justified(state)' <=> Justified(state)
    BY <1>10 DEF schedule, Justified, Satisfied
  <2> QED BY <1>10, <2>1 DEF schedule, LoopInv, FailureIsContained
<1> QED
  BY <1>1, <1>2, <1>3, <1>4, <1>5, <1>6, <1>7, <1>8, <1>9, <1>10
     DEF Next, Callback

\* In an unaborted schedule that failed, exactly the phases behind a failure
\* were skipped, in whatever order executors settled: the marks that
\* updateReadyAndSkipped makes are justified, and none is missing at the end.
THEOREM ContainsFailure == Spec => []FailureIsContained
<1>1. Idle => LoopInv
  <2> SUFFICES ASSUME Idle PROVE LoopInv
    OBVIOUS
  <2>1. Justified(state)
    BY DEF Idle, Justified, State
  <2> QED BY <2>1 DEF Idle, LoopInv, FailureIsContained
<1>2. LoopInv => FailureIsContained
  BY DEF LoopInv
<1> QED BY <1>1, <1>2, LoopInvStep, PTL DEF Spec

-----------------------------------------------------------------------------
(* The loop is never stalled *)

\* A phase the pass leaves pending waits for one that is not finished.
Waits(st, p) ==
  st[p] = "pending" => \E d \in Deps[p] : st[d] \in {"pending", "ready", "running"}

\* The pass only marks pending phases, ready or skipped.
Marked(st, new) ==
  \A p \in Phase :
    new[p] = st[p] \/ (st[p] = "pending" /\ new[p] \in {"ready", "skipped"})

\* After the update of a phase, the phases before it in the order and itself
\* are pending only if they wait: none of them depends on a later one.
LEMMA UpdateWaits ==
  ASSUME NEW st, st \in [Phase -> State],
         NEW m \in Nat, m + 1 \in DOMAIN Order,
         \A j \in 1..m : Waits(st, Order[j])
  PROVE  /\ Update(st, Order[m + 1]) \in [Phase -> State]
         /\ Marked(st, Update(st, Order[m + 1]))
         /\ \A j \in 1..(m + 1) : Waits(Update(st, Order[m + 1]), Order[j])
<1> DEFINE q == Order[m + 1]
           new == Update(st, q)
<1>1. /\ q \in Phase /\ 1..(m + 1) \subseteq DOMAIN Order
      /\ \A j \in 1..(m + 1) : Order[j] \in Phase
      /\ \A p \in Phase : Deps[p] \subseteq Phase
  BY OrderAssumption
<1>2. /\ new \in [Phase -> State]
      /\ \A p \in Phase \ {q} : new[p] = st[p]
      /\ new[q] = "pending" => new = st /\ ~Blocked(st, q) /\ ~Satisfied(st, q)
      /\ Marked(st, new)
  BY <1>1 DEF Update, State, Marked
<1>3. ASSUME NEW j \in 1..(m + 1), new[Order[j]] = "pending"
      PROVE  \E d \in Deps[Order[j]] : new[d] \in {"pending", "ready", "running"}
  <2>1. CASE Order[j] = q
    <3>1. PICK d \in Deps[q] : st[d] # "completed"
      BY <1>2, <1>3, <2>1 DEF Satisfied
    <3>2. st[d] \notin Blocking /\ st[d] \in State
      BY <1>1, <1>2, <1>3, <2>1, <3>1 DEF Blocked
    <3>3. st[d] \in {"pending", "ready", "running"}
      BY <3>1, <3>2 DEF Blocking, State
    <3> QED BY <1>2, <1>3, <2>1, <3>3
  <2>2. CASE Order[j] # q
    <3>1. j \in 1..m /\ st[Order[j]] = "pending"
      <4>1. j # m + 1
        BY <2>2
      <4>2. j \in 1..m
        BY <4>1
      <4> QED BY <1>1, <1>2, <1>3, <2>2, <4>2
    <3>2. PICK d \in Deps[Order[j]] : st[d] \in {"pending", "ready", "running"}
      BY <3>1 DEF Waits
    <3>3. d # q
      <4>1. SUFFICES ASSUME d = q PROVE FALSE
        OBVIOUS
      <4>2. m + 1 < j
        BY <1>1, <3>1, <3>2, <4>1, OrderAssumption
      <4> QED BY <3>1, <4>2
    <3>4. new[d] = st[d]
      BY <1>1, <1>2, <3>1, <3>2, <3>3
    <3> QED BY <3>2, <3>4
  <2> QED BY <2>1, <2>2
<1> HIDE DEF new
<1>4. \A j \in 1..(m + 1) : Waits(new, Order[j])
  BY <1>3 DEF Waits
<1> QED BY <1>2, <1>4 DEF new

\* After the whole pass every pending phase waits.
LEMMA RefreshWaits ==
  ASSUME NEW st, st \in [Phase -> State]
  PROVE  /\ Refresh(st) \in [Phase -> State]
         /\ Marked(st, Refresh(st))
         /\ \A p \in Phase : Waits(Refresh(st), p)
<1> DEFINE n == Len(Order)
           pass == CHOOSE g : g = [k \in 0..n |->
                     IF k = 0 THEN st ELSE Update(g[k - 1], Order[k])]
           S == {m \in Nat : m <= n =>
                   /\ pass[m] \in [Phase -> State] /\ Marked(st, pass[m])
                   /\ \A j \in 1..m : Waits(pass[m], Order[j])}
<1>1. n \in Nat /\ DOMAIN Order = 1..n
  BY OrderAssumption
<1>2. pass = [k \in 0..n |->
                IF k = 0 THEN st ELSE Update(pass[k - 1], Order[k])]
  <2> HIDE DEF n
  <2> QED BY <1>1, PassIsDefined
<1>3. Refresh(st) = [p \in Phase |-> pass[n][p]]
  BY DEF Refresh
<1> HIDE DEF pass, n
<1>4. 0 \in S
  BY <1>1, <1>2 DEF Marked
<1>5. ASSUME NEW m \in Nat, m < n, m \in S PROVE m + 1 \in S
  <2>1. pass[m + 1] = Update(pass[m], Order[m + 1])
    BY <1>1, <1>2, <1>5
  <2>2. /\ pass[m] \in [Phase -> State] /\ Marked(st, pass[m])
        /\ \A j \in 1..m : Waits(pass[m], Order[j])
    BY <1>1, <1>5
  <2>3. m + 1 \in DOMAIN Order
    BY <1>1, <1>5
  <2>4. /\ pass[m + 1] \in [Phase -> State] /\ Marked(pass[m], pass[m + 1])
        /\ \A j \in 1..(m + 1) : Waits(pass[m + 1], Order[j])
    BY <2>1, <2>2, <2>3, UpdateWaits
  <2>5. Marked(st, pass[m + 1])
    BY <2>2, <2>4 DEF Marked
  <2> QED BY <2>4, <2>5
<1>6. n \in S
  <2> HIDE DEF S
  <2>1. 0..n \subseteq S
    BY <1>1, <1>4, <1>5, InductionUpTo
  <2> QED BY <1>1, <2>1
<1>7. /\ pass[n] \in [Phase -> State] /\ Marked(st, pass[n])
      /\ \A j \in 1..n : Waits(pass[n], Order[j])
  BY <1>1, <1>6
<1>8. Refresh(st) = pass[n]
  BY <1>3, <1>7
<1>9. ASSUME NEW p \in Phase PROVE Waits(pass[n], p)
  <2>1. PICK k \in 1..n : Order[k] = p
    BY <1>1, OrderAssumption
  <2> QED BY <1>7, <2>1
<1> QED BY <1>7, <1>8, <1>9

\* With every pending phase waiting, and none ready or running, all are
\* finished: the first pending phase of the order would wait for an earlier one.
LEMMA WaitingEnds ==
  ASSUME NEW st, st \in [Phase -> State],
         \A p \in Phase : Waits(st, p),
         \A p \in Phase : st[p] \notin {"ready", "running"}
  PROVE  Unfinished(st) = {}
<1> DEFINE T == {k \in DOMAIN Order : st[Order[k]] = "pending"}
<1>1. SUFFICES ASSUME NEW p \in Phase, st[p] = "pending" PROVE FALSE
  BY DEF Unfinished
<1>2. T \subseteq Nat /\ T # {}
  BY <1>1, OrderAssumption
<1>3. PICK k \in T : \A j \in T : k <= j
  BY <1>2, LeastNatural
<1>4. Order[k] \in Phase
  BY OrderAssumption
<1>5. PICK e \in Deps[Order[k]] : st[e] \in {"pending", "ready", "running"}
  BY <1>3, <1>4 DEF Waits
<1>6. e \in Phase
  BY <1>4, <1>5, OrderAssumption
<1>7. PICK j \in DOMAIN Order : Order[j] = e
  BY <1>6, OrderAssumption
<1>8. j \in T /\ j < k
  BY <1>5, <1>6, <1>7, OrderAssumption
<1> QED BY <1>2, <1>3, <1>8

\* Types; a callback is about a phase, and a settled phase is told how it ended.
LoopTyped ==
  /\ TypeOK
  /\ control \in {"starting", "retracting", "settling"} => at \in Phase
  /\ control = "settling" => verdict # "none"

LEMMA RefreshIsTyped ==
  ASSUME NEW st, st \in [Phase -> State]
  PROVE  /\ Refresh(st) \in [Phase -> State]
         /\ CancelWaiting(st) \in [Phase -> State]
<1>1. CancelWaiting(st) \in [Phase -> State]
  BY DEF CancelWaiting, State
<1> QED BY <1>1, RefreshWaits

LEMMA ProceedTyped ==
  ASSUME NEW st, st \in [Phase -> State], NEW begun, begun \subseteq Phase,
         Proceed(st, begun), aborted' = aborted, LoopTyped,
         execution' \in [Phase -> Result \cup {"none", "busy"}]
  PROVE  LoopTyped'
<1>1. active' \subseteq Phase /\ aborted' \in BOOLEAN
  BY DEF Proceed, LoopTyped, TypeOK
<1>2. CASE Dispatch(st, begun)
  <2>1. FirstReady(st) \in Phase
    BY <1>2, FirstReadyIsReady DEF Dispatch, CanDispatch, Ready
  <2>2. state' \in [Phase -> State]
    BY <1>2, <2>1 DEF Dispatch, State
  <2> QED BY <1>1, <1>2, <2>1, <2>2 DEF Dispatch, LoopTyped, TypeOK, Control
<1>3. CASE Race(st, begun)
  BY <1>1, <1>3 DEF Race, LoopTyped, TypeOK, Control
<1>4. CASE Return(st, begun)
  <2>1. state' \in [Phase -> State]
    BY <1>4, RefreshIsTyped DEF Return
  <2>2. Status(st) \in {"none", "completed", "failed", "canceled"}
    BY DEF Status
  <2>3. control' \in Control /\ control' \notin {"starting", "retracting", "settling"}
    BY <1>4 DEF Return, Control
  <2> QED BY <1>1, <1>4, <2>1, <2>2, <2>3 DEF Return, LoopTyped, TypeOK
<1> QED BY <1>2, <1>3, <1>4 DEF Proceed

LEMMA ContinueTyped ==
  ASSUME NEW st, st \in [Phase -> State], NEW begun, begun \subseteq Phase,
         Continue(st, begun), aborted' = aborted, LoopTyped, execution' = execution
  PROVE  LoopTyped'
<1>1. execution' \in [Phase -> Result \cup {"none", "busy"}]
  BY DEF LoopTyped, TypeOK
<1> QED BY <1>1, RefreshIsTyped, ProceedTyped DEF Continue

LEMMA LoopTypedStep ==
  ASSUME LoopTyped, [Next]_schedule
  PROVE  LoopTyped'
<1> USE DEF LoopTyped, TypeOK
<1>1. ASSUME NEW completed \in Prefix, Begin(completed)
      PROVE  LoopTyped'
  <2> DEFINE st == [p \in Phase |-> IF p \in completed THEN "completed" ELSE "pending"]
  <2>1. st \in [Phase -> State]
    BY DEF State
  <2>2. Continue(st, {}) /\ aborted' = aborted /\ execution' = execution
    BY <1>1 DEF Begin
  <2> HIDE DEF st, LoopTyped
  <2> QED BY <2>1, <2>2, ContinueTyped
<1>2. CASE Started
  <2>1. CASE aborted
    BY <1>2, <2>1 DEF Started, Control
  <2>2. CASE ~aborted
    <3>1. /\ execution' = [execution EXCEPT ![at] = "busy"]
          /\ Proceed(state, active \cup {at}) /\ at \in Phase /\ aborted' = aborted
      BY <1>2, <2>2 DEF Started
    <3>2. execution' \in [Phase -> Result \cup {"none", "busy"}]
      BY <3>1
    <3>3. state \in [Phase -> State] /\ active \cup {at} \subseteq Phase
      BY <3>1
    <3> HIDE DEF LoopTyped
    <3> QED BY <3>1, <3>2, <3>3, ProceedTyped
  <2> QED BY <2>1, <2>2
<1>3. CASE Retracted
  <2>1. /\ Proceed([state EXCEPT ![at] = "canceled"], active) /\ active \subseteq Phase
        /\ aborted' = aborted /\ execution' = execution
    BY <1>3 DEF Retracted
  <2>2. [state EXCEPT ![at] = "canceled"] \in [Phase -> State]
    BY <1>3 DEF Retracted, State
  <2>3. execution' \in [Phase -> Result \cup {"none", "busy"}]
    BY <2>1
  <2> HIDE DEF LoopTyped
  <2> QED BY <2>1, <2>2, <2>3, ProceedTyped
<1>4. CASE Settled
  <2>1. /\ Continue([state EXCEPT ![at] = verdict], active) /\ active \subseteq Phase
        /\ aborted' = aborted /\ execution' = execution
    BY <1>4 DEF Settled
  <2>2. [state EXCEPT ![at] = verdict] \in [Phase -> State]
    BY <1>4 DEF Settled, State
  <2> HIDE DEF LoopTyped
  <2> QED BY <2>1, <2>2, ContinueTyped
<1>5. CASE CallbackThrows
  BY <1>5 DEF CallbackThrows, Control
<1>6. ASSUME NEW p \in Phase, Take(p)
      PROVE  LoopTyped'
  <2>1. state' \in [Phase -> State]
    BY <1>6 DEF Take, State
  <2>2. verdict' \in {"completed", "failed", "canceled"}
    BY <1>6 DEF Take
  <2> QED BY <1>6, <2>1, <2>2 DEF Take, Control
<1>7. ASSUME NEW p \in Phase, NEW result \in Result, Execute(p, result)
      PROVE  LoopTyped'
  BY <1>7 DEF Execute
<1>8. CASE Throw \/ Abort \/ UNCHANGED schedule
  BY <1>8 DEF Throw, Abort, schedule, Control
<1> QED
  BY <1>1, <1>2, <1>3, <1>4, <1>5, <1>6, <1>7, <1>8 DEF Next, Callback

\* The promises the loop waits for are of executions begun, it races only when
\* there is one, what is marked running is under way, and it is not stalled.
Tracked ==
  /\ control # "stalled"
  /\ control = "idle" => \A p \in Phase : state[p] = "pending"
  /\ \A p \in active : execution[p] \in Result \cup {"busy"}
  /\ control = "racing" => active # {}
  /\ ~aborted /\ control \in {"starting", "racing", "settling"} =>
       \A p \in Phase : state[p] = "running" =>
         p \in active \/ (control # "racing" /\ p = at)

LEMMA ProceedTracks ==
  ASSUME NEW st, st \in [Phase -> State], NEW begun,
         Proceed(st, begun), aborted' = aborted,
         ~aborted => \A p \in Phase : st[p] = "running" => p \in begun,
         ~aborted /\ begun = {} => \A p \in Phase : Waits(st, p),
         \A p \in begun : execution'[p] \in Result \cup {"busy"}
  PROVE  Tracked'
<1>1. active' = begun /\ \A p \in active' : execution'[p] \in Result \cup {"busy"}
  BY DEF Proceed
<1>2. CASE Dispatch(st, begun)
  <2> DEFINE f == FirstReady(st)
  <2>1. /\ state' = [st EXCEPT ![f] = "running"] /\ at' = f
        /\ control' = "starting" /\ ~aborted
    BY <1>2 DEF Dispatch, CanDispatch
  <2> HIDE DEF f
  <2>2. \A p \in Phase : state'[p] = "running" => p \in begun \/ p = f
    BY <2>1
  <2> QED BY <1>1, <2>1, <2>2 DEF Tracked
<1>3. CASE Race(st, begun)
  BY <1>1, <1>3 DEF Race, Tracked
<1>4. CASE Return(st, begun)
  <2>1. control' = "returned"
    <3>1. CASE aborted
      BY <1>4, <3>1 DEF Return
    <3>2. CASE ~aborted
      <4>1. begun = {} /\ Ready(st) = {}
        <5>1. begun = {} /\ ~CanDispatch(st, begun)
          BY <1>4 DEF Return
        <5>2. Cardinality(begun) < MaxParallel
          BY <5>1, FS_EmptySet, ParallelAssumption
        <5> QED BY <3>2, <5>1, <5>2 DEF CanDispatch
      <4>2. \A p \in Phase : st[p] \notin {"ready", "running"}
        BY <3>2, <4>1 DEF Ready
      <4>3. Unfinished(st) = {}
        BY <3>2, <4>1, <4>2, WaitingEnds
      <4> QED BY <1>4, <4>3 DEF Return
    <3> QED BY <3>1, <3>2
  <2> QED BY <1>1, <2>1 DEF Tracked
<1> QED BY <1>2, <1>3, <1>4 DEF Proceed

LEMMA ContinueTracks ==
  ASSUME NEW st, st \in [Phase -> State], NEW begun,
         Continue(st, begun), aborted' = aborted,
         ~aborted => \A p \in Phase : st[p] = "running" => p \in begun,
         \A p \in begun : execution'[p] \in Result \cup {"busy"}
  PROVE  Tracked'
<1>1. CASE aborted
  <2>1. Proceed(CancelWaiting(st), begun)
    BY <1>1 DEF Continue
  <2> QED BY <1>1, <2>1, RefreshIsTyped, ProceedTracks
<1>2. CASE ~aborted
  <2>1. Proceed(Refresh(st), begun)
    BY <1>2 DEF Continue
  <2>2. /\ Refresh(st) \in [Phase -> State]
        /\ \A p \in Phase : Waits(Refresh(st), p)
    BY RefreshWaits
  <2>3. \A p \in Phase : Refresh(st)[p] = "running" => p \in begun
    BY <1>2, RefreshWaits DEF Marked
  <2> QED BY <1>2, <2>1, <2>2, <2>3, ProceedTracks
<1> QED BY <1>1, <1>2

LEMMA TrackedStep ==
  ASSUME LoopTyped, LoopInv, Tracked, [Next]_schedule
  PROVE  Tracked'
<1> USE DEF LoopTyped, TypeOK
<1>1. ASSUME NEW completed \in Prefix, Begin(completed)
      PROVE  Tracked'
  <2> DEFINE st == [p \in Phase |-> IF p \in completed THEN "completed" ELSE "pending"]
  <2>1. st \in [Phase -> State] /\ \A p \in Phase : st[p] # "running"
    BY DEF State
  <2>2. Continue(st, {}) /\ aborted' = aborted
    BY <1>1 DEF Begin
  <2> HIDE DEF st, LoopTyped
  <2> QED BY <2>1, <2>2, ContinueTracks
<1>2. CASE Started
  <2>1. CASE aborted
    BY <1>2, <2>1 DEF Started, Tracked
  <2>2. CASE ~aborted
    <3>1. /\ execution' = [execution EXCEPT ![at] = "busy"]
          /\ Proceed(state, active \cup {at}) /\ at \in Phase /\ aborted' = aborted
      BY <1>2, <2>2 DEF Started
    <3>2. \A p \in active \cup {at} : execution'[p] \in Result \cup {"busy"}
      BY <3>1 DEF Tracked
    <3>3. \A p \in Phase : state[p] = "running" => p \in active \cup {at}
      BY <1>2, <2>2 DEF Started, Tracked
    <3> QED BY <3>1, <3>2, <3>3, ProceedTracks
  <2> QED BY <2>1, <2>2
<1>3. CASE Retracted
  <2>1. /\ Proceed([state EXCEPT ![at] = "canceled"], active)
        /\ aborted' = aborted /\ execution' = execution /\ aborted
    BY <1>3 DEF Retracted, LoopInv
  <2>2. [state EXCEPT ![at] = "canceled"] \in [Phase -> State]
    BY <1>3 DEF Retracted, State
  <2> QED BY <2>1, <2>2, ProceedTracks DEF Tracked
<1>4. CASE Settled
  <2> DEFINE st == [state EXCEPT ![at] = verdict]
  <2>1. /\ Continue(st, active) /\ aborted' = aborted /\ execution' = execution
    BY <1>4 DEF Settled
  <2>2. st \in [Phase -> State]
    BY <1>4 DEF Settled, State
  <2>3. ~aborted => \A p \in Phase : st[p] = "running" => p \in active
    BY <1>4 DEF Settled, Tracked
  <2> HIDE DEF st
  <2> QED BY <2>1, <2>2, <2>3, ContinueTracks DEF Tracked
<1>5. CASE CallbackThrows
  BY <1>5 DEF CallbackThrows, Tracked
<1>6. ASSUME NEW p \in Phase, Take(p)
      PROVE  Tracked'
  <2>1. /\ active' = active \ {p} /\ at' = p /\ control' = "settling"
        /\ aborted' = aborted /\ execution' = execution
        /\ state' = state \/ state' = [state EXCEPT ![p] = "failed"]
    BY <1>6 DEF Take
  <2>2. ASSUME NEW q \in Phase, state'[q] = "running", ~aborted
        PROVE  q \in active' \/ q = at'
    BY <1>6, <2>1, <2>2 DEF Take, Tracked
  <2> QED BY <2>1, <2>2 DEF Tracked
<1>7. ASSUME NEW p \in Phase, NEW result \in Result, Execute(p, result)
      PROVE  Tracked'
  BY <1>7 DEF Execute, Tracked
<1>8. CASE Throw \/ Abort \/ UNCHANGED schedule
  BY <1>8 DEF Throw, Abort, schedule, Tracked
<1> QED
  BY <1>1, <1>2, <1>3, <1>4, <1>5, <1>6, <1>7, <1>8 DEF Next, Callback

\* What the call waits for is due: a callback that returns or throws, an
\* executor that settles, the race that takes one, the drain that ends.
StepIsDue ==
  \/ control \in {"idle", "starting", "retracting", "settling"}
  \/ \E p \in active : execution[p] = "busy"
  \/ control = "racing" /\ \E p \in active : execution[p] \in Result
  \/ control = "draining" /\ \A p \in active : execution[p] \in Result

LEMMA LoopInvariants == Spec => [](LoopTyped /\ LoopInv /\ Tracked)
<1>1. Idle => LoopTyped /\ LoopInv /\ Tracked
  <2> SUFFICES ASSUME Idle PROVE LoopTyped /\ LoopInv /\ Tracked
    OBVIOUS
  <2>1. Justified(state)
    BY DEF Idle, Justified, State
  <2>2. LoopTyped
    BY DEF Idle, LoopTyped, TypeOK, State, Control
  <2> QED BY <2>1, <2>2 DEF Idle, LoopInv, FailureIsContained, Tracked
<1> QED BY <1>1, LoopTypedStep, LoopInvStep, TrackedStep, PTL DEF Spec

\* The loop's variables keep their types.
THEOREM LoopIsTyped == Spec => []TypeOK
<1>1. LoopTyped => TypeOK
  BY DEF LoopTyped
<1> QED BY <1>1, LoopInvariants, PTL

\* The loop never finds itself with nothing running and something unfinished,
\* for any graph, whatever callbacks and executors do: the error of
\* scheduler.ts:181 is not reached.
THEOREM NeverStalls == Spec => [](control # "stalled")
<1>1. Tracked => control # "stalled"
  BY DEF Tracked
<1> QED BY <1>1, LoopInvariants, PTL

\* Until the call is over somebody owes a step: a callback, an executor at work,
\* or the loop itself, whose race or drain has what it waits for.  It never
\* awaits a promise that nobody will settle (scheduler.ts:183, 240).
THEOREM NeverWaitsForNothing ==
  Spec => [](control \notin {"returned", "threw"} => StepIsDue)
<1>1. LoopTyped /\ Tracked => (control \notin {"returned", "threw"} => StepIsDue)
  <2> SUFFICES ASSUME LoopTyped, Tracked, control \notin {"returned", "threw"},
                      ~StepIsDue
               PROVE  FALSE
    OBVIOUS
  <2>1. control \in {"racing", "draining"}
    BY DEF LoopTyped, TypeOK, Control, Tracked, StepIsDue
  <2>2. \A p \in active : execution[p] \in Result
    BY DEF StepIsDue, Tracked
  <2>3. control = "racing" /\ active # {}
    BY <2>1, <2>2 DEF StepIsDue, Tracked
  <2> QED BY <2>2, <2>3 DEF StepIsDue
<1> QED BY <1>1, LoopInvariants, PTL

-----------------------------------------------------------------------------
(* Every step of the loop spends of a budget *)

Waiting(st) == {p \in Phase : st[p] \in {"pending", "ready"}}

AtWork(ex) == {p \in Phase : ex[p] = "busy"}

\* What the loop has left to do at each await.
Stage == [idle |-> 7, starting |-> 6, settling |-> 3, retracting |-> 3,
          racing |-> 2, draining |-> 1, returned |-> 0, threw |-> 0, stalled |-> 0]

Budget ==
  4 * Cardinality(Waiting(state)) + Cardinality(AtWork(execution))
    + 2 * Cardinality(active) + Stage[control] + (IF aborted THEN 0 ELSE 1)

LEMMA PhasesAreFinite == IsFiniteSet(Phase)
<1>1. Len(Order) \in Nat /\ Order \in [1..Len(Order) -> Phase]
  BY OrderAssumption
<1>2. IsFiniteSet(1..Len(Order))
  BY <1>1, FS_Interval
<1>3. Order \in Surjection(1..Len(Order), Phase)
  BY <1>1, OrderAssumption DEF Surjection
<1> QED BY <1>2, <1>3, FS_Surjection

LEMMA PhasesCount ==
  ASSUME NEW T, T \subseteq Phase
  PROVE  IsFiniteSet(T) /\ Cardinality(T) \in Nat
<1>1. IsFiniteSet(T)
  BY PhasesAreFinite, FS_Subset
<1> QED BY <1>1, FS_CardinalityType

LEMMA FewerPhases ==
  ASSUME NEW T, T \subseteq Phase, NEW U, U \subseteq T
  PROVE  Cardinality(U) <= Cardinality(T)
BY PhasesCount, FS_Subset

LEMMA OnePhaseFewer ==
  ASSUME NEW T, T \subseteq Phase, NEW p \in T
  PROVE  Cardinality(T \ {p}) = Cardinality(T) - 1
BY PhasesCount, FS_RemoveElement

\* What the loop does up to its next await costs it two at most: it pays for a
\* start with a phase that waits no more.
LEMMA ProceedSpends ==
  ASSUME NEW st, st \in [Phase -> State], NEW begun, Proceed(st, begun)
  PROVE  4 * Cardinality(Waiting(state')) + Stage[control']
           <= 4 * Cardinality(Waiting(st)) + 2
<1>1. Cardinality(Waiting(st)) \in Nat /\ IsFiniteSet(Waiting(st))
  BY PhasesCount DEF Waiting
<1>2. CASE Dispatch(st, begun)
  <2> DEFINE f == FirstReady(st)
  <2>1. f \in Phase /\ st[f] = "ready"
    BY <1>2, FirstReadyIsReady DEF Dispatch, CanDispatch, Ready
  <2>2. state' = [st EXCEPT ![f] = "running"] /\ control' = "starting"
    BY <1>2 DEF Dispatch
  <2> HIDE DEF f
  <2>3. f \in Waiting(st) /\ Waiting(state') = Waiting(st) \ {f}
    BY <2>1, <2>2 DEF Waiting
  <2>4. Cardinality(Waiting(state')) = Cardinality(Waiting(st)) - 1
    BY <1>1, <2>3, FS_RemoveElement
  <2> QED BY <1>1, <2>2, <2>4 DEF Stage
<1>3. CASE Race(st, begun)
  BY <1>1, <1>3 DEF Race, Stage
<1>4. CASE Return(st, begun)
  <2>1. Waiting(state') \subseteq Waiting(st)
    BY <1>4 DEF Return, CancelWaiting, Waiting
  <2>2. /\ Cardinality(Waiting(state')) <= Cardinality(Waiting(st))
        /\ Cardinality(Waiting(state')) \in Nat
    BY <2>1, FewerPhases, PhasesCount DEF Waiting
  <2>3. Stage[control'] = 0
    BY <1>4 DEF Return, Stage
  <2> QED BY <1>1, <2>2, <2>3
<1> QED BY <1>2, <1>3, <1>4 DEF Proceed

LEMMA ContinueSpends ==
  ASSUME NEW st, st \in [Phase -> State], NEW begun, Continue(st, begun)
  PROVE  4 * Cardinality(Waiting(state')) + Stage[control']
           <= 4 * Cardinality(Waiting(st)) + 2
<1> DEFINE new == IF aborted THEN CancelWaiting(st) ELSE Refresh(st)
<1>1. new \in [Phase -> State] /\ Proceed(new, begun)
  BY RefreshIsTyped DEF Continue
<1>2. Waiting(new) \subseteq Waiting(st)
  <2>1. Waiting(CancelWaiting(st)) \subseteq Waiting(st)
    BY DEF CancelWaiting, Waiting
  <2>2. Waiting(Refresh(st)) \subseteq Waiting(st)
    BY RefreshWaits DEF Marked, Waiting
  <2> QED BY <2>1, <2>2
<1> HIDE DEF new
<1>3. /\ Cardinality(Waiting(new)) <= Cardinality(Waiting(st))
      /\ Cardinality(Waiting(new)) \in Nat /\ Cardinality(Waiting(st)) \in Nat
  BY <1>2, FewerPhases, PhasesCount DEF Waiting
<1>4. 4 * Cardinality(Waiting(state')) + Stage[control']
        <= 4 * Cardinality(Waiting(new)) + 2
  BY <1>1, ProceedSpends
<1>5. Cardinality(Waiting(state')) \in Nat /\ Stage[control'] \in Nat
  <2>1. control' \in {"starting", "racing", "returned", "stalled"}
    BY <1>1, ProceedEffect
  <2> QED BY <2>1, PhasesCount DEF Waiting, Stage
<1> QED BY <1>3, <1>4, <1>5

LEMMA BudgetParts ==
  ASSUME LoopTyped
  PROVE  /\ Cardinality(Waiting(state)) \in Nat
         /\ Cardinality(AtWork(execution)) \in Nat
         /\ Cardinality(active) \in Nat
         /\ Stage[control] \in Nat
         /\ Budget \in Nat
<1>1. /\ Cardinality(Waiting(state)) \in Nat
      /\ Cardinality(AtWork(execution)) \in Nat
      /\ Cardinality(active) \in Nat
  BY PhasesCount DEF Waiting, AtWork, LoopTyped, TypeOK
<1>2. Stage[control] \in Nat
  BY DEF LoopTyped, TypeOK, Control, Stage
<1> QED BY <1>1, <1>2 DEF Budget

LEMMA BudgetStep ==
  ASSUME LoopTyped, LoopTyped', Tracked, Next
  PROVE  Budget' \in Nat /\ Budget' < Budget
<1> USE DEF LoopTyped, TypeOK
<1> DEFINE w == Cardinality(Waiting(state))
           b == Cardinality(AtWork(execution))
           a == Cardinality(active)
<1>a. w \in Nat /\ b \in Nat /\ a \in Nat /\ Stage[control] \in Nat
  BY BudgetParts
<1>b. w' \in Nat /\ b' \in Nat /\ a' \in Nat /\ Stage[control'] \in Nat
  <2>1. /\ Waiting(state') \subseteq Phase /\ AtWork(execution') \subseteq Phase
        /\ active' \subseteq Phase /\ control' \in Control
    BY DEF Waiting, AtWork
  <2>2. Stage[control'] \in Nat
    BY <2>1 DEF Control, Stage
  <2> QED BY <2>1, <2>2, PhasesCount
<1>c. /\ Budget = 4 * w + b + 2 * a + Stage[control] + (IF aborted THEN 0 ELSE 1)
      /\ Budget' = 4 * w' + b' + 2 * a' + Stage[control'] + (IF aborted' THEN 0 ELSE 1)
  BY DEF Budget
<1>d. ASSUME NEW st, st \in [Phase -> State], Waiting(st) \subseteq Waiting(state)
      PROVE  Cardinality(Waiting(st)) \in Nat /\ Cardinality(Waiting(st)) <= w
  BY <1>d, FewerPhases, PhasesCount DEF Waiting
<1> HIDE DEF w, b, a
<1>e. Budget' \in Nat
  BY <1>b, <1>c
<1>1. ASSUME NEW completed \in Prefix, Begin(completed)
      PROVE  Budget' < Budget
  <2> DEFINE st == [p \in Phase |-> IF p \in completed THEN "completed" ELSE "pending"]
  <2>1. st \in [Phase -> State]
    BY DEF State
  <2>2. /\ Continue(st, {}) /\ aborted' = aborted /\ execution' = execution
        /\ control = "idle"
    BY <1>1 DEF Begin
  <2>3. Waiting(st) \subseteq Waiting(state)
    BY <2>2 DEF Tracked, Waiting
  <2> HIDE DEF st
  <2>4. 4 * w' + Stage[control'] <= 4 * Cardinality(Waiting(st)) + 2
    BY <2>1, <2>2, ContinueSpends DEF w
  <2>5. b' = b /\ a' <= a
    <3>1. active' = {}
      BY <2>2, ContinueEffect
    <3> QED BY <2>2, <3>1, FewerPhases DEF a, b
  <2>6. Stage[control] = 7
    BY <2>2 DEF Stage
  <2> QED BY <1>a, <1>b, <1>c, <1>d, <2>1, <2>2, <2>3, <2>4, <2>5, <2>6
<1>2. CASE Started
  <2>1. CASE aborted
    <3>1. /\ control = "starting" /\ control' = "retracting"
          /\ UNCHANGED <<state, active, execution, aborted>>
      BY <1>2, <2>1 DEF Started
    <3>2. w' = w /\ a' = a /\ b' = b
      BY <3>1 DEF w, a, b
    <3> QED BY <1>a, <1>b, <1>c, <3>1, <3>2 DEF Stage
  <2>2. CASE ~aborted
    <3>1. /\ execution' = [execution EXCEPT ![at] = "busy"] /\ control = "starting"
          /\ Proceed(state, active \cup {at}) /\ at \in Phase /\ aborted' = aborted
      BY <1>2, <2>2 DEF Started
    <3>2. 4 * w' + Stage[control'] <= 4 * w + 2
      BY <3>1, ProceedSpends DEF w
    <3>3. a' <= a + 1
      <4>1. active' = active \cup {at}
        BY <3>1, ProceedEffect
      <4> QED BY <1>a, <4>1, PhasesCount, FS_AddElement DEF a
    <3>4. b' <= b + 1
      <4>1. AtWork(execution') = AtWork(execution) \cup {at}
        BY <3>1 DEF AtWork
      <4>2. IsFiniteSet(AtWork(execution))
        BY PhasesCount DEF AtWork
      <4>3. b' = Cardinality(AtWork(execution) \cup {at})
        BY <4>1 DEF b
      <4>4. \/ b' = Cardinality(AtWork(execution))
            \/ b' = Cardinality(AtWork(execution)) + 1
        BY <4>2, <4>3, FS_AddElement
      <4> QED BY <1>a, <4>4 DEF b
    <3>5. Stage[control] = 6
      BY <3>1 DEF Stage
    <3> QED BY <1>a, <1>b, <1>c, <3>1, <3>2, <3>3, <3>4, <3>5
  <2> QED BY <2>1, <2>2
<1>3. CASE Retracted
  <2> DEFINE st == [state EXCEPT ![at] = "canceled"]
  <2>1. /\ Proceed(st, active) /\ control = "retracting"
        /\ aborted' = aborted /\ execution' = execution
    BY <1>3 DEF Retracted
  <2>2. st \in [Phase -> State] /\ Waiting(st) \subseteq Waiting(state)
    BY <1>3 DEF Retracted, State, Waiting
  <2> HIDE DEF st
  <2>3. 4 * w' + Stage[control'] <= 4 * Cardinality(Waiting(st)) + 2
    BY <2>1, <2>2, ProceedSpends DEF w
  <2>4. a' = a /\ b' = b
    BY <2>1, ProceedEffect DEF a, b
  <2>5. Stage[control] = 3
    BY <2>1 DEF Stage
  <2> QED BY <1>a, <1>b, <1>c, <1>d, <2>1, <2>2, <2>3, <2>4, <2>5
<1>4. CASE Settled
  <2> DEFINE st == [state EXCEPT ![at] = verdict]
  <2>1. /\ Continue(st, active) /\ control = "settling"
        /\ aborted' = aborted /\ execution' = execution
    BY <1>4 DEF Settled
  <2>2. st \in [Phase -> State] /\ Waiting(st) \subseteq Waiting(state)
    BY <1>4 DEF Settled, State, Waiting
  <2> HIDE DEF st
  <2>3. 4 * w' + Stage[control'] <= 4 * Cardinality(Waiting(st)) + 2
    BY <2>1, <2>2, ContinueSpends DEF w
  <2>4. a' = a /\ b' = b
    BY <2>1, ContinueEffect DEF a, b
  <2>5. Stage[control] = 3
    BY <2>1 DEF Stage
  <2> QED BY <1>a, <1>b, <1>c, <1>d, <2>1, <2>2, <2>3, <2>4, <2>5
<1>5. CASE CallbackThrows
  <2>1. /\ control \in {"starting", "retracting", "settling"}
        /\ control' = "draining" /\ UNCHANGED <<state, active, execution, aborted>>
    BY <1>5 DEF CallbackThrows
  <2>2. w' = w /\ a' = a /\ b' = b
    BY <2>1 DEF w, a, b
  <2> QED BY <1>a, <1>b, <1>c, <2>1, <2>2 DEF Stage
<1>6. ASSUME NEW p \in Phase, Take(p)
      PROVE  Budget' < Budget
  <2>1. /\ p \in active /\ active' = active \ {p} /\ control = "racing"
        /\ control' = "settling" /\ aborted' = aborted /\ execution' = execution
        /\ state' = state \/ state' = [state EXCEPT ![p] = "failed"]
    BY <1>6 DEF Take
  <2>2. state' \in [Phase -> State] /\ Waiting(state') \subseteq Waiting(state)
    BY <2>1 DEF Waiting
  <2>3. Stage[control] = 2 /\ Stage[control'] = 3
    BY <2>1 DEF Stage
  <2>4. 4 * w' + Stage[control'] <= 4 * w + 3
    <3>1. Cardinality(Waiting(state')) \in Nat /\ Cardinality(Waiting(state)) \in Nat
      BY PhasesCount DEF Waiting
    <3>2. Cardinality(Waiting(state')) <= Cardinality(Waiting(state))
      BY <2>2, FewerPhases DEF Waiting
    <3> QED BY <2>3, <3>1, <3>2 DEF w
  <2>5. a' = a - 1
    BY <2>1, PhasesCount, FS_RemoveElement DEF a
  <2>6. b' = b
    BY <2>1 DEF b
  <2>7. Stage[control] = 2 /\ aborted' = aborted
    BY <2>1, <2>3
  <2> QED BY <1>a, <1>b, <1>c, <2>4, <2>5, <2>6, <2>7
<1>7. ASSUME NEW p \in Phase, NEW result \in Result, Execute(p, result)
      PROVE  Budget' < Budget
  <2>1. /\ execution[p] = "busy" /\ execution' = [execution EXCEPT ![p] = result]
        /\ UNCHANGED <<state, active, control, aborted>>
    BY <1>7 DEF Execute
  <2>2. p \in AtWork(execution) /\ AtWork(execution') = AtWork(execution) \ {p}
    BY <2>1 DEF AtWork, Result
  <2>3. b' = b - 1
    <3>1. IsFiniteSet(AtWork(execution))
      BY PhasesCount DEF AtWork
    <3>2. Cardinality(AtWork(execution) \ {p}) = Cardinality(AtWork(execution)) - 1
      BY <2>2, <3>1, FS_RemoveElement
    <3>3. b' = Cardinality(AtWork(execution) \ {p})
      BY <2>2 DEF b
    <3> QED BY <3>2, <3>3 DEF b
  <2>4. w' = w /\ a' = a
    BY <2>1 DEF w, a
  <2> QED BY <1>a, <1>b, <1>c, <2>1, <2>3, <2>4
<1>8. CASE Throw
  <2>1. /\ control = "draining" /\ control' = "threw"
        /\ UNCHANGED <<state, active, execution, aborted>>
    BY <1>8 DEF Throw
  <2>2. w' = w /\ a' = a /\ b' = b
    BY <2>1 DEF w, a, b
  <2> QED BY <1>a, <1>b, <1>c, <2>1, <2>2 DEF Stage
<1>9. CASE Abort
  <2>1. /\ ~aborted /\ aborted'
        /\ UNCHANGED <<state, active, execution, control>>
    BY <1>9 DEF Abort
  <2>2. w' = w /\ a' = a /\ b' = b
    BY <2>1 DEF w, a, b
  <2> QED BY <1>a, <1>b, <1>c, <2>1, <2>2
<1> QED
  BY <1>e, <1>1, <1>2, <1>3, <1>4, <1>5, <1>6, <1>7, <1>8, <1>9 DEF Next, Callback

\* A loop that has not begun has all of its budget.
LEMMA BudgetOfIdle ==
  ASSUME LoopTyped, control = "idle", active = {}, \A p \in Phase : execution[p] = "none"
  PROVE  Budget <= 4 * Cardinality(Phase) + 8
<1>1. AtWork(execution) = {} /\ Cardinality({}) = 0
  BY FS_EmptySet DEF AtWork
<1>2. /\ Cardinality(Waiting(state)) <= Cardinality(Phase)
      /\ Cardinality(Waiting(state)) \in Nat /\ Cardinality(Phase) \in Nat
  BY FewerPhases, PhasesCount DEF Waiting
<1>3. Stage[control] = 7
  BY DEF Stage
<1> QED BY <1>1, <1>2, <1>3 DEF Budget

\* The call takes at most 4 * Cardinality(Phase) + 8 steps, whatever the
\* graph: each spends of a budget of natural numbers.  With NeverWaitsForNothing,
\* what is left of Ends is that a step that is due is taken.
THEOREM StepsAreBounded ==
  Spec => /\ Budget <= 4 * Cardinality(Phase) + 8
          /\ [][Budget' \in Nat /\ Budget' < Budget]_schedule
<1>1. Idle => Budget <= 4 * Cardinality(Phase) + 8
  BY BudgetOfIdle DEF Idle, LoopTyped, TypeOK, State, Control
<1>2. LoopTyped /\ LoopTyped' /\ Tracked /\ [Next]_schedule
        => [Budget' \in Nat /\ Budget' < Budget]_schedule
  BY BudgetStep
<1> QED BY <1>1, <1>2, LoopInvariants, PTL DEF Spec

=============================================================================
