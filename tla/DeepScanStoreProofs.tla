------------------------- MODULE DeepScanStoreProofs -------------------------
(***************************************************************************)
(* The store of a Deep Scan, for any number of workers, coordinators,      *)
(* take-overs and deaths of helpers: what it merges it merges once, what   *)
(* it counts it has earned, its rows implement DeepScanContract, and what  *)
(* it merged stays on disk while a take-over can tell publications apart.  *)
(***************************************************************************)
EXTENDS DeepScanStore, FiniteSetTheorems, SequenceTheorems, TLAPS

\* Only accepted discoveries have a place in a merge.
WorkersHold ==
  \A w \in Worker : Exists(w) /\ worker[w].merge # None =>
    w \in Discoveries /\ worker[w].status = "succeeded"

OneActive ==
  \A r, s \in Reducers : HasStatus(r, ActiveStatus) /\ HasStatus(s, ActiveStatus) => r = s

\* A reducer took each of its inputs once, and they were accepted.
InputsHold ==
  \A r \in Reducers : Exists(r) =>
    /\ inputs[r] # <<>>
    /\ \A i, j \in 1..Len(inputs[r]) : inputs[r][i] = inputs[r][j] => i = j
    /\ \A d \in InputsOf(r) : Exists(d) /\ worker[d].merge # None

MergeHolds ==
  /\ \A d \in Discoveries :
       InMerge(d, "merged") <=> \E r \in Succeeded(Reducers) : d \in InputsOf(r)
  /\ \A r, s \in Succeeded(Reducers) : InputsOf(r) \cap InputsOf(s) # {} => r = s

\* The row operations of a publication that has begun are still what they were.
HelperHolds ==
  /\ helper # None /\ helper.stage # "committed" =>
       /\ Running /\ HasStatus(helper.reducer, ActiveStatus)
       /\ \A d \in InputsOf(helper.reducer) : InMerge(d, "merging")
  /\ helper # None /\ helper.old # None => backups # <<>>

SequenceHolds ==
  \A d \in Discoveries : HasStatus(d, {"succeeded"}) => run.sequence > 0

\* the discoveries that the budget still pays for
Charged == {d \in Discoveries : HasStatus(d, ActiveStatus \cup {"succeeded"}) \/ ShutDown(d)}
BudgetHolds == Cardinality(Charged) <= run.dispatched /\ run.dispatched <= MaxDiscoveries

\* The inductive invariant.
StoreInv ==
  /\ TypeOK
  /\ WorkersHold /\ OneActive /\ InputsHold /\ MergeHolds
  /\ HelperHolds /\ SequenceHolds /\ BudgetHolds
  /\ StreakIsEarned

-----------------------------------------------------------------------------

LEMMA InitStore == Init => StoreInv
<1> SUFFICES ASSUME Init PROVE StoreInv
  OBVIOUS
<1>1. \A w \in Worker : ~Exists(w)
  BY DEF Init, Exists
<1>2. \A d \in Discoveries : d \in Worker
  BY DEF Worker
<1>3. \A r \in Reducers : r \in Worker
  BY DEF Worker
<1>4. Merged = {} /\ Charged = {} /\ Succeeded(Reducers) = {}
  BY <1>1, <1>2, <1>3 DEF Merged, Charged, Succeeded, InMerge, HasStatus, ShutDown
<1>5. TypeOK
  <2>1. run \in RunRow
    BY BudgetAssumption DEF Init, RunRow
  <2>2. inputs \in [Reducers -> Seq(Discoveries)] /\ backups \in Seq(SUBSET Candidate)
    BY DEF Init
  <2> QED BY <2>1, <2>2 DEF Init, TypeOK, Copy
<1>6. Cardinality({}) = 0
  BY FS_EmptySet
<1>7. BudgetHolds /\ StreakIsEarned
  BY <1>4, <1>6, BudgetAssumption DEF Init, BudgetHolds, StreakIsEarned
<1>8. WorkersHold /\ OneActive /\ InputsHold /\ MergeHolds /\ SequenceHolds
  BY <1>1, <1>2, <1>3, <1>4
     DEF WorkersHold, OneActive, InputsHold, MergeHolds, SequenceHolds, HasStatus, InMerge
<1>9. HelperHolds
  BY DEF Init, HelperHolds
<1> QED BY <1>5, <1>7, <1>8, <1>9 DEF StoreInv

\* A step in which no reducer becomes or stops being a success, none becomes
\* active, and nothing becomes merged.
LEMMA MergesKeep ==
  ASSUME StoreInv, UNCHANGED inputs, run'.noNew = run.noNew,
         \A r \in Reducers : /\ HasStatus(r, {"succeeded"})' <=> HasStatus(r, {"succeeded"})
                             /\ HasStatus(r, ActiveStatus)' => HasStatus(r, ActiveStatus)
                             /\ Exists(r)' <=> Exists(r),
         \A w \in Worker : Exists(w)' /\ worker'[w].merge # None =>
                             w \in Discoveries /\ worker'[w].status = "succeeded",
         \A d \in Discoveries : /\ InMerge(d, "merged")' <=> InMerge(d, "merged")
                                /\ Exists(d) /\ worker[d].merge # None =>
                                     Exists(d)' /\ worker'[d].merge # None
  PROVE  /\ WorkersHold' /\ OneActive' /\ InputsHold' /\ MergeHolds' /\ StreakIsEarned'
         /\ Merged' = Merged
<1>1. Merged' = Merged /\ Succeeded(Reducers)' = Succeeded(Reducers)
  BY DEF Merged, Succeeded
<1>2. \A r : InputsOf(r)' = InputsOf(r)
  BY DEF InputsOf
<1>3. WorkersHold' /\ OneActive'
  BY DEF StoreInv, WorkersHold, OneActive
<1>4. InputsHold'
  <2> SUFFICES ASSUME NEW r \in Reducers, Exists(r)
               PROVE  /\ inputs[r] # <<>>
                      /\ \A i, j \in 1..Len(inputs[r]) : inputs[r][i] = inputs[r][j] => i = j
                      /\ \A d \in InputsOf(r) : Exists(d)' /\ worker'[d].merge # None
    BY <1>2 DEF InputsHold
  <2>1. \A d \in InputsOf(r) : d \in Discoveries
    BY DEF StoreInv, TypeOK, InputsOf, ToSet
  <2> QED BY <2>1 DEF StoreInv, InputsHold
<1>5. MergeHolds'
  BY <1>1, <1>2 DEF StoreInv, MergeHolds
<1>6. StreakIsEarned'
  BY <1>1 DEF StoreInv, StreakIsEarned, Content
<1> QED BY <1>1, <1>3, <1>4, <1>5, <1>6

\* Nothing is charged that was not.
LEMMA BudgetKeeps ==
  ASSUME StoreInv, Charged' \subseteq Charged, run'.dispatched = run.dispatched
  PROVE  BudgetHolds'
<1>1. IsFiniteSet(Charged)
  BY FoundAssumption, FS_Subset DEF Charged
<1>2. Cardinality(Charged') <= Cardinality(Charged) /\ Cardinality(Charged) \in Nat
      /\ Cardinality(Charged') \in Nat
  BY <1>1, FS_Subset, FS_CardinalityType
<1>3. run.dispatched \in Nat /\ MaxDiscoveries \in Nat
  BY BudgetAssumption DEF StoreInv, TypeOK, RunRow
<1> QED BY <1>2, <1>3 DEF StoreInv, BudgetHolds

\* A step that leaves the rows alone.
LEMMA RowsKeep ==
  ASSUME StoreInv, UNCHANGED rows, TypeOK', HelperHolds'
  PROVE  StoreInv'
<1>1. Merged' = Merged /\ Succeeded(Reducers)' = Succeeded(Reducers) /\ Charged' = Charged
  BY DEF rows, Merged, Succeeded, Charged, InMerge, HasStatus, Exists, ShutDown
<1>2. WorkersHold' /\ OneActive' /\ InputsHold' /\ MergeHolds' /\ SequenceHolds'
  BY <1>1 DEF rows, StoreInv, WorkersHold, OneActive, InputsHold, MergeHolds, SequenceHolds,
              HasStatus, InMerge, Exists, InputsOf
<1>3. BudgetHolds' /\ StreakIsEarned'
  BY <1>1 DEF rows, StoreInv, BudgetHolds, StreakIsEarned, Content
<1> QED BY <1>2, <1>3 DEF StoreInv

-----------------------------------------------------------------------------
(* The steps that leave the rows alone *)

LEMMA ContentIs == ASSUME NEW W \in SUBSET Discoveries PROVE Content(W) \in SUBSET Candidate
BY DEF Content, Candidate

LEMMA FilesKeep ==
  ASSUME StoreInv,
         \/ \E r \in Reducers : WriteSnapshot(r)
         \/ \E c \in Coordinators, r \in Reducers : BeginPublication(c, r)
         \/ PromoteLedger \/ FinishStaged \/ RollbackPublication \/ HelperDies
  PROVE  StoreInv' /\ UNCHANGED rows
<1>1. TypeOK
  BY DEF StoreInv
<1>2. ASSUME NEW r \in Reducers, WriteSnapshot(r) PROVE TypeOK' /\ HelperHolds' /\ UNCHANGED rows
  <2>1. Content(Merged \cup InputsOf(r)) \in Copy
    <3>1. Merged \cup InputsOf(r) \in SUBSET Discoveries
      BY <1>1 DEF TypeOK, Merged, InputsOf, ToSet
    <3> QED BY <3>1, ContentIs DEF Copy
  <2>2. UNCHANGED rows /\ UNCHANGED <<ledger, backups, helper>>
        /\ snapshot' = [snapshot EXCEPT ![r] = Content(Merged \cup InputsOf(r))]
    BY <1>2 DEF WriteSnapshot
  <2>3. snapshot' \in [Reducers -> Copy]
    BY <1>1, <2>1, <2>2 DEF TypeOK
  <2>4. TypeOK'
    BY <1>1, <2>2, <2>3 DEF TypeOK, rows
  <2>5. HelperHolds'
    BY <2>2 DEF StoreInv, HelperHolds, Running, HasStatus, Exists, InputsOf, InMerge, rows
  <2> QED BY <2>2, <2>4, <2>5
<1>3. ASSUME NEW c, NEW r \in Reducers, BeginPublication(c, r)
      PROVE  TypeOK' /\ HelperHolds' /\ UNCHANGED rows
  <2>1. UNCHANGED rows /\ CanCommit(c, r) /\ UNCHANGED snapshot
        /\ helper' = [reducer |-> r, stage |-> "moved", old |-> ledger] /\ ledger' = None
        /\ backups' = IF ledger = None THEN backups ELSE <<ledger>> \o backups
    BY <1>3 DEF BeginPublication
  <2>2. helper' \in HelperRow
    BY <1>1, <2>1 DEF TypeOK, HelperRow
  <2>3. backups' \in Seq(SUBSET Candidate) /\ (ledger # None => backups' # <<>>)
    <3>1. PICK b \in Seq(SUBSET Candidate) : b = backups
      BY <1>1 DEF TypeOK
    <3>2. CASE ledger = None
      BY <2>1, <3>1, <3>2
    <3>3. CASE ledger # None
      <4>1. PICK l \in SUBSET Candidate : l = ledger
        BY <1>1, <3>3 DEF TypeOK, Copy
      <4>2. <<l>> \in Seq(SUBSET Candidate) /\ Len(<<l>>) = 1
        OBVIOUS
      <4>3. <<l>> \o b \in Seq(SUBSET Candidate) /\ Len(<<l>> \o b) = 1 + Len(b)
        BY <4>2, ConcatProperties
      <4>4. <<l>> \o b # <<>>
        BY <4>3
      <4> QED BY <2>1, <3>1, <3>3, <4>1, <4>3, <4>4
    <3> QED BY <3>2, <3>3
  <2>4. TypeOK'
    BY <1>1, <2>1, <2>2, <2>3 DEF TypeOK, rows, Copy
  <2>5. HelperHolds'
    BY <2>1, <2>3 DEF HelperHolds, CanCommit, Running, HasStatus, Exists, InputsOf, InMerge, rows
  <2> QED BY <2>1, <2>4, <2>5
<1>4. CASE PromoteLedger
  <2>1. UNCHANGED rows /\ UNCHANGED <<backups, snapshot>> /\ helper # None
        /\ helper.stage = "moved" /\ ledger' = snapshot[helper.reducer]
        /\ helper' = [helper EXCEPT !.stage = "promoted"]
    BY <1>4 DEF PromoteLedger
  <2>2. helper \in HelperRow
    BY <1>1, <2>1 DEF TypeOK
  <2>3. helper' \in HelperRow /\ helper'.reducer = helper.reducer /\ helper'.stage = "promoted"
        /\ helper'.old = helper.old
    BY <2>1, <2>2 DEF HelperRow
  <2>4. ledger' \in Copy
    BY <1>1, <2>1, <2>2 DEF TypeOK, HelperRow
  <2>5. TypeOK'
    BY <1>1, <2>1, <2>3, <2>4 DEF TypeOK, rows
  <2>6. HelperHolds'
    BY <2>1, <2>3 DEF StoreInv, HelperHolds, Running, HasStatus, Exists, InputsOf, InMerge, rows
  <2> QED BY <2>1, <2>5, <2>6, RowsKeep
<1>5. CASE FinishStaged \/ RollbackPublication
  <2>1. UNCHANGED rows /\ UNCHANGED snapshot /\ helper # None /\ helper' = None
        /\ ledger' \in {ledger, helper.old}
        /\ backups' = IF helper.old = None THEN backups ELSE Tail(backups)
    BY <1>5 DEF FinishStaged, RollbackPublication
  <2>2. helper.old \in Copy
    BY <1>1, <2>1 DEF TypeOK, HelperRow
  <2>3. backups' \in Seq(SUBSET Candidate)
    <3>1. helper.old # None => backups # <<>>
      BY <2>1 DEF StoreInv, HelperHolds
    <3> QED BY <1>1, <2>1, <3>1, HeadTailProperties DEF TypeOK
  <2>4. TypeOK'
    BY <1>1, <2>1, <2>2, <2>3 DEF TypeOK, rows
  <2>5. HelperHolds'
    BY <2>1 DEF HelperHolds
  <2> QED BY <2>1, <2>4, <2>5, RowsKeep
<1>6. CASE HelperDies
  <2>1. TypeOK' /\ HelperHolds' /\ UNCHANGED rows
    BY <1>1, <1>6 DEF HelperDies, TypeOK, HelperHolds, rows, files
  <2> QED BY <2>1, RowsKeep
<1> QED BY <1>2, <1>3, <1>4, <1>5, <1>6, RowsKeep

\* What a take-over makes of the files.
LEMMA RecoveredFiles ==
  ASSUME TypeOK, RecoverLedger
  PROVE  ledger' \in Copy /\ backups' \in Seq(SUBSET Candidate)
<1>1. backups' \in {<<>>, backups}
      /\ ledger' \in {ledger, IF backups # <<>> THEN Head(backups) ELSE None}
  BY DEF RecoverLedger
<1>2. backups # <<>> => Head(backups) \in SUBSET Candidate
  BY DEF TypeOK
<1>3. backups' \in Seq(SUBSET Candidate)
  <2>1. <<>> \in Seq(SUBSET Candidate)
    OBVIOUS
  <2> QED BY <1>1, <2>1 DEF TypeOK
<1>4. ledger' \in Copy
  BY <1>1, <1>2 DEF TypeOK, Copy
<1> QED BY <1>3, <1>4

LEMMA WorldKeeps ==
  ASSUME StoreInv,
         \/ \E c \in Coordinators : ClaimDies(c) \/ Renew(c) \/ LoseLease(c)
         \/ LeaseExpires \/ DeadlinePasses \/ UNCHANGED vars
  PROVE  StoreInv' /\ UNCHANGED rows
<1>1. UNCHANGED rows /\ UNCHANGED <<helper, snapshot>> /\ (helper # None => UNCHANGED backups)
  BY DEF CanLock, ClaimDies, Renew, LoseLease, LeaseExpires, DeadlinePasses, vars, files
<1>2. HelperHolds'
  BY <1>1 DEF StoreInv, HelperHolds, Running, HasStatus, Exists, InputsOf, InMerge, rows
<1>3. ledger' \in Copy /\ backups' \in Seq(SUBSET Candidate)
  <2>1. CASE \E c \in Coordinators : ClaimDies(c)
    BY <2>1, RecoveredFiles DEF ClaimDies, StoreInv
  <2>2. CASE UNCHANGED files
    BY <2>2 DEF files, StoreInv, TypeOK
  <2> QED BY <2>1, <2>2 DEF Renew, LoseLease, LeaseExpires, DeadlinePasses, vars
<1>4. TypeOK'
  BY <1>1, <1>3 DEF StoreInv, TypeOK, rows
<1> QED BY <1>1, <1>2, <1>4, RowsKeep

-----------------------------------------------------------------------------
(* Rows *)

LEMMA Kinds ==
  /\ \A d \in Discoveries : d \in Worker /\ d \notin Reducers
  /\ \A r \in Reducers : r \in Worker /\ r \notin Discoveries
BY KindsAssumption DEF Worker

\* A row that is there is a row.
LEMMA RowIs ==
  ASSUME TypeOK, NEW w \in Worker, Exists(w) PROVE worker[w] \in WorkerRow
BY DEF TypeOK, Exists

\* A row before and after a step that settles what is at work and gives inputs
\* back, and does nothing else that counts.
Settles(new, row) ==
  /\ new \in WorkerRow /\ row \in WorkerRow /\ new.seq = row.seq
  /\ \/ new.status = row.status
     \/ row.status \in ActiveStatus /\ new.status \in {"failed", "canceled"}
  /\ \/ new.merge = row.merge
     \/ row.merge = "merging" /\ new.merge = "buffered"

\* A step that only settles rows.
LEMMA SettlingKeeps ==
  ASSUME StoreInv, UNCHANGED inputs,
         run' \in RunRow, run'.noNew = run.noNew, run'.sequence = run.sequence,
         worker' \in [Worker -> {None} \cup WorkerRow],
         \A w \in Worker : /\ Exists(w)' <=> Exists(w)
                           /\ Exists(w) => Settles(worker'[w], worker[w]),
         helper = None, UNCHANGED helper, BudgetHolds',
         ledger' \in Copy, UNCHANGED snapshot, backups' \in Seq(SUBSET Candidate)
  PROVE  /\ StoreInv' /\ Merged' = Merged
         /\ Succeeded(Discoveries)' = Succeeded(Discoveries)
<1>1. \A w \in Worker : HasStatus(w, {"succeeded"})' <=> HasStatus(w, {"succeeded"})
  BY DEF HasStatus, Settles, ActiveStatus
<1>2. \A w \in Worker : HasStatus(w, ActiveStatus)' => HasStatus(w, ActiveStatus)
  BY DEF HasStatus, Settles, ActiveStatus
<1>3. \A w \in Worker : Exists(w)' /\ worker'[w].merge # None =>
                          w \in Discoveries /\ worker'[w].status = "succeeded"
  <2> SUFFICES ASSUME NEW w \in Worker, Exists(w), worker'[w].merge # None
               PROVE  w \in Discoveries /\ worker'[w].status = "succeeded"
    OBVIOUS
  <2>1. PICK new, row : new = worker'[w] /\ row = worker[w]
    OBVIOUS
  <2>2. Settles(new, row)
    BY <2>1
  <2>3. "merging" # None
    BY RowsAssumption
  <2>4. row.merge # None
    BY <2>1, <2>2, <2>3 DEF Settles
  <2>5. w \in Discoveries /\ row.status = "succeeded"
    BY <2>1, <2>4 DEF StoreInv, WorkersHold
  <2> QED BY <2>1, <2>2, <2>5 DEF Settles, ActiveStatus
<1>4. \A d \in Discoveries : /\ InMerge(d, "merged")' <=> InMerge(d, "merged")
                             /\ Exists(d) /\ worker[d].merge # None =>
                                  Exists(d)' /\ worker'[d].merge # None
  BY Kinds, RowsAssumption DEF InMerge, Settles
<1>5. /\ WorkersHold' /\ OneActive' /\ InputsHold' /\ MergeHolds' /\ StreakIsEarned'
      /\ Merged' = Merged
  BY <1>1, <1>2, <1>3, <1>4, Kinds, MergesKeep
<1>6. SequenceHolds' /\ Succeeded(Discoveries)' = Succeeded(Discoveries)
  BY <1>1, Kinds DEF StoreInv, SequenceHolds, Succeeded
<1>7. TypeOK'
  BY DEF StoreInv, TypeOK
<1>8. HelperHolds'
  BY DEF HelperHolds
<1> QED BY <1>5, <1>6, <1>7, <1>8 DEF StoreInv

\* What giving inputs back makes of a row.
LEMMA GivenBack ==
  ASSUME TypeOK, NEW rs, NEW w \in Worker
  PROVE  /\ GiveBack(rs)[w] = None <=> worker[w] = None
         /\ Exists(w) => /\ GiveBack(rs)[w].status = worker[w].status
                         /\ GiveBack(rs)[w].error = worker[w].error
                         /\ Settles(GiveBack(rs)[w], worker[w])
<1>1. PICK row : row = worker[w]
  OBVIOUS
<1>2. row \in WorkerRow \/ row = None
  BY <1>1 DEF TypeOK
<1>3. CASE row = None
  BY <1>1, <1>3 DEF GiveBack, InMerge, Exists
<1>4. CASE row \in WorkerRow
  <2>1. row # None
    BY <1>4, RowsAssumption
  <2>2. PICK back : back = [row EXCEPT !.merge = "buffered"]
    OBVIOUS
  <2>3. /\ back \in WorkerRow /\ back.status = row.status /\ back.error = row.error
        /\ back.seq = row.seq /\ back.merge = "buffered"
    BY <1>4, <2>2 DEF WorkerRow
  <2>4. GiveBack(rs)[w] = row \/ (GiveBack(rs)[w] = back /\ row.merge = "merging")
    BY <1>1, <2>2 DEF GiveBack, InMerge
  <2>5. back # None
    BY <2>3, RowsAssumption
  <2> QED BY <1>1, <1>4, <2>1, <2>3, <2>4, <2>5 DEF Settles
<1> QED BY <1>2, <1>3, <1>4

\* Canceling what is at work.
LEMMA Canceled ==
  ASSUME TypeOK, NEW w \in Worker
  PROVE  /\ CancelActive(worker)[w] = None <=> worker[w] = None
         /\ Exists(w) => /\ Settles(CancelActive(worker)[w], worker[w])
                         /\ CancelActive(worker)[w].error = worker[w].error
                         /\ CancelActive(worker)[w].status =
                              IF HasStatus(w, ActiveStatus) THEN "canceled" ELSE worker[w].status
<1>1. PICK row : row = worker[w]
  OBVIOUS
<1>2. row \in WorkerRow \/ row = None
  BY <1>1 DEF TypeOK
<1>3. CASE row = None
  BY <1>1, <1>3 DEF CancelActive, HasStatus, Exists
<1>4. CASE row \in WorkerRow
  <2>1. row # None
    BY <1>4, RowsAssumption
  <2>2. PICK off : off = [row EXCEPT !.status = "canceled"]
    OBVIOUS
  <2>3. /\ off \in WorkerRow /\ off.status = "canceled" /\ off.error = row.error
        /\ off.seq = row.seq /\ off.merge = row.merge
    BY <1>4, <2>2 DEF WorkerRow, SettledStatus
  <2>4. CancelActive(worker)[w] = IF row.status \in ActiveStatus THEN off ELSE row
    BY <1>1, <2>1, <2>2 DEF CancelActive, HasStatus, Exists
  <2>5. off # None
    BY <2>3, RowsAssumption
  <2> QED BY <1>1, <1>4, <2>1, <2>3, <2>4, <2>5 DEF Settles, HasStatus, Exists
<1> QED BY <1>2, <1>3, <1>4

\* Settling rows charges nothing.
LEMMA ChargedSettles ==
  ASSUME run'.gen = run.gen,
         \A d \in Discoveries : /\ Exists(d)' <=> Exists(d)
                                /\ Exists(d) => /\ Settles(worker'[d], worker[d])
                                                /\ worker'[d].error = worker[d].error
  PROVE  Charged' \subseteq Charged
<1> SUFFICES ASSUME NEW d \in Discoveries,
                    (HasStatus(d, ActiveStatus \cup {"succeeded"}) \/ ShutDown(d))'
             PROVE  HasStatus(d, ActiveStatus \cup {"succeeded"}) \/ ShutDown(d)
  BY DEF Charged
<1>1. Exists(d) /\ Settles(worker'[d], worker[d]) /\ worker'[d].error = worker[d].error
  BY DEF HasStatus, ShutDown
<1> QED BY <1>1 DEF HasStatus, ShutDown, Settles, ActiveStatus, Exists

\* The steps that end a scan or its parent.
LEMMA StopsKeep ==
  ASSUME StoreInv,
         \/ \E c \in Coordinators, s \in {"failed", "interrupted"} : FailDeepScan(c, s)
         \/ \E s \in {"failed", "canceled"} : ParentStops(s)
  PROVE  /\ StoreInv' /\ Merged' = Merged /\ Succeeded(Discoveries)' = Succeeded(Discoveries)
         /\ \/ run'.status = run.status
            \/ run.status = "running" /\ run'.status \in {"failed", "interrupted", "canceled"}
            \/ run.status = "succeeded" /\ run'.status = "canceled"
<1>1. run \in RunRow /\ TypeOK
  BY DEF StoreInv, TypeOK
<1>2. /\ worker' = CancelActive(worker) /\ UNCHANGED <<inputs, helper, files>> /\ helper = None
      /\ \/ run' = run
         \/ \E s \in {"failed", "interrupted", "canceled"} :
              /\ run' = [run EXCEPT !.status = s, !.phase = "terminal"]
              /\ run.status = "running" \/ (run.status = "succeeded" /\ s = "canceled")
  <2>1. CASE \E c \in Coordinators, s \in {"failed", "interrupted"} : FailDeepScan(c, s)
    <3>1. PICK s \in {"failed", "interrupted"} : \E c \in Coordinators : FailDeepScan(c, s)
      BY <2>1
    <3>2. /\ run' = [run EXCEPT !.status = s, !.phase = "terminal"] /\ run.status = "running"
          /\ worker' = CancelActive(worker) /\ UNCHANGED <<inputs, helper, files>> /\ helper = None
      BY <3>1 DEF FailDeepScan, CanLock, Running
    <3> QED BY <3>2
  <2>2. CASE \E s \in {"failed", "canceled"} : ParentStops(s)
    <3>1. PICK s \in {"failed", "canceled"} : ParentStops(s)
      BY <2>2
    <3>2. /\ \/ run' = run
             \/ /\ run' = [run EXCEPT !.status = s, !.phase = "terminal"]
                /\ run.status = "running" \/ (run.status = "succeeded" /\ s = "canceled")
          /\ worker' = CancelActive(worker) /\ UNCHANGED <<inputs, helper, files>> /\ helper = None
      BY <3>1 DEF ParentStops, CanLock
    <3> QED BY <3>2
  <2> QED BY <2>1, <2>2
<1>3. /\ run' \in RunRow /\ run'.noNew = run.noNew /\ run'.sequence = run.sequence
      /\ run'.gen = run.gen /\ run'.dispatched = run.dispatched
  BY <1>1, <1>2 DEF RunRow, RunEnd
<1>4. \A w \in Worker : /\ Exists(w)' <=> Exists(w)
                        /\ Exists(w) => /\ Settles(worker'[w], worker[w])
                                        /\ worker'[w].error = worker[w].error
  BY <1>1, <1>2, Canceled DEF Exists
<1>5. worker' \in [Worker -> {None} \cup WorkerRow]
  <2>1. \A w \in Worker : worker'[w] \in {None} \cup WorkerRow
    BY <1>4 DEF Settles, Exists
  <2> QED BY <1>2, <2>1 DEF CancelActive
<1>6. BudgetHolds'
  <2>1. Charged' \subseteq Charged
    BY <1>3, <1>4, Kinds, ChargedSettles
  <2> QED BY <1>3, <2>1, BudgetKeeps
<1>7. ledger' \in Copy /\ UNCHANGED snapshot /\ backups' \in Seq(SUBSET Candidate)
  BY <1>1, <1>2 DEF TypeOK, files
<1>8. \/ run'.status = run.status
      \/ run.status = "running" /\ run'.status \in {"failed", "interrupted", "canceled"}
      \/ run.status = "succeeded" /\ run'.status = "canceled"
  BY <1>1, <1>2 DEF RunRow
<1> QED BY <1>2, <1>3, <1>4, <1>5, <1>6, <1>7, <1>8, SettlingKeeps

\* A scan that succeeds has merged something, or nothing was accepted.
LEMMA FinishKeeps ==
  ASSUME StoreInv, NEW c, NEW reason \in {"saturated", "capped"},
         NEW standard \in BOOLEAN, NEW partial \in BOOLEAN,
         FinishDeepScan(c, reason, standard, partial)
  PROVE  /\ StoreInv' /\ Merged' = Merged /\ Succeeded(Discoveries)' = Succeeded(Discoveries)
         /\ run.status = "running" /\ run'.status = "succeeded"
         /\ Merged # {} \/ Succeeded(Discoveries) = {}
<1>1. run \in RunRow /\ TypeOK
  BY DEF StoreInv, TypeOK
<1>2. /\ UNCHANGED <<inputs, helper, files>> /\ helper = None /\ run.status = "running"
      /\ run' = [run EXCEPT !.status = "succeeded", !.phase = "terminal", !.reason = reason]
      /\ worker' = worker \/ \E rs : worker' = GiveBack(rs)
      /\ Succeeded(Reducers) # {} \/ run.sequence = 0
  BY DEF FinishDeepScan, CanLock, Running, MayEnd, RowsAtEnd
<1>3. /\ run' \in RunRow /\ run'.noNew = run.noNew /\ run'.sequence = run.sequence
      /\ run'.gen = run.gen /\ run'.dispatched = run.dispatched /\ run'.status = "succeeded"
  BY <1>1, <1>2 DEF RunRow, RunEnd
<1>4. \A w \in Worker : /\ Exists(w)' <=> Exists(w)
                        /\ Exists(w) => /\ Settles(worker'[w], worker[w])
                                        /\ worker'[w].error = worker[w].error
  <2>1. CASE worker' = worker
    BY <1>1, <2>1, RowIs DEF Settles, Exists
  <2>2. CASE \E rs : worker' = GiveBack(rs)
    BY <1>1, <2>2, GivenBack DEF Exists
  <2> QED BY <1>2, <2>1, <2>2
<1>5. worker' \in [Worker -> {None} \cup WorkerRow]
  <2>1. \A w \in Worker : worker'[w] \in {None} \cup WorkerRow
    BY <1>4 DEF Settles, Exists
  <2> QED BY <1>1, <1>2, <2>1 DEF GiveBack, TypeOK
<1>6. BudgetHolds'
  <2>1. Charged' \subseteq Charged
    BY <1>3, <1>4, Kinds, ChargedSettles
  <2> QED BY <1>3, <2>1, BudgetKeeps
<1>7. ledger' \in Copy /\ UNCHANGED snapshot /\ backups' \in Seq(SUBSET Candidate)
  BY <1>1, <1>2 DEF TypeOK, files
<1>8. Merged # {} \/ Succeeded(Discoveries) = {}
  <2>1. CASE Succeeded(Reducers) # {}
    <3>1. PICK r \in Reducers : HasStatus(r, {"succeeded"})
      BY <2>1 DEF Succeeded
    <3>2. Exists(r) /\ inputs[r] # <<>> /\ inputs[r] \in Seq(Discoveries)
      BY <1>1, <3>1 DEF StoreInv, InputsHold, HasStatus, TypeOK
    <3>3. inputs[r][1] \in InputsOf(r) /\ inputs[r][1] \in Discoveries
      BY <3>2, EmptySeq DEF InputsOf, ToSet
    <3>4. InMerge(inputs[r][1], "merged")
      BY <3>1, <3>3 DEF StoreInv, MergeHolds, Succeeded
    <3> QED BY <3>3, <3>4 DEF Merged
  <2>2. CASE run.sequence = 0
    BY <2>2 DEF StoreInv, SequenceHolds, Succeeded
  <2> QED BY <1>2, <2>1, <2>2
<1> QED BY <1>2, <1>3, <1>4, <1>5, <1>6, <1>7, <1>8, SettlingKeeps

-----------------------------------------------------------------------------
(* The take-over *)

LEMMA RecoveredRow ==
  ASSUME NEW row \in WorkerRow, NEW back, Settles(back, row), back.status = row.status,
         NEW s, s = IF row.status \in ActiveStatus THEN [back EXCEPT !.status = "canceled"] ELSE back,
         NEW new, new = s \/ new = [s EXCEPT !.error = "recovered"],
         s.status = "canceled" /\ s.error = "shutdown" => new = [s EXCEPT !.error = "recovered"]
  PROVE  /\ Settles(new, row) /\ new.status \notin ActiveStatus
         /\ ~(new.status = "canceled" /\ new.error = "shutdown")
<1>1. back \in WorkerRow
  BY DEF Settles
<1>2. /\ s \in WorkerRow /\ s.seq = back.seq /\ s.merge = back.merge /\ s.error = back.error
      /\ s.status = IF row.status \in ActiveStatus THEN "canceled" ELSE row.status
  BY <1>1 DEF WorkerRow, SettledStatus
<1>3. PICK r : r = [s EXCEPT !.error = "recovered"]
  OBVIOUS
<1>4. /\ r \in WorkerRow /\ r.seq = s.seq /\ r.merge = s.merge /\ r.status = s.status
      /\ r.error = "recovered"
  BY <1>2, <1>3 DEF WorkerRow
<1>5. /\ new \in WorkerRow /\ new.seq = s.seq /\ new.merge = s.merge /\ new.status = s.status
      /\ ~(new.status = "canceled" /\ new.error = "shutdown")
  BY <1>2, <1>3, <1>4
<1> QED BY <1>2, <1>5 DEF Settles, ActiveStatus

LEMMA RecoveredRows ==
  ASSUME TypeOK, RecoverRows, NEW w \in Worker
  PROVE  /\ Exists(w)' <=> Exists(w)
         /\ Exists(w) => /\ Settles(worker'[w], worker[w])
                         /\ worker'[w].status \notin ActiveStatus
                         /\ ~(worker'[w].status = "canceled" /\ worker'[w].error = "shutdown")
<1> DEFINE abandoned == {r \in Reducers : Interrupted(r) \/ HasStatus(r, {"failed"})}
           back == GiveBack(abandoned)[w]
           settled == IF HasStatus(w, ActiveStatus) THEN [back EXCEPT !.status = "canceled"] ELSE back
           new == worker'[w]
<1>1. new = IF /\ settled # None /\ settled.status = "canceled"
               /\ settled.error = "shutdown" \/ (run.gen = 1 /\ settled.error = "none")
            THEN [settled EXCEPT !.error = "recovered"] ELSE settled
  BY DEF RecoverRows
<1>2. /\ back = None <=> worker[w] = None
      /\ Exists(w) => back.status = worker[w].status /\ Settles(back, worker[w])
  BY GivenBack
<1> HIDE DEF back, new
<1>3. CASE ~Exists(w)
  <2>1. settled = None
    BY <1>2, <1>3 DEF HasStatus, Exists
  <2> QED BY <1>1, <1>3, <2>1 DEF Exists, new
<1>4. CASE Exists(w)
  <2>1. PICK row \in WorkerRow : row = worker[w]
    BY <1>4, RowIs
  <2>2. PICK s : s = settled
    OBVIOUS
  <2>3. s = IF row.status \in ActiveStatus THEN [back EXCEPT !.status = "canceled"] ELSE back
    BY <1>4, <2>1, <2>2 DEF HasStatus
  <2>4. back \in WorkerRow /\ Settles(back, row) /\ back.status = row.status
    BY <1>2, <1>4, <2>1 DEF Settles
  <2>5. s # None
    BY <2>3, <2>4, RowsAssumption DEF WorkerRow, SettledStatus
  <2> HIDE DEF settled
  <2>6. /\ new = s \/ new = [s EXCEPT !.error = "recovered"]
        /\ s.status = "canceled" /\ s.error = "shutdown" => new = [s EXCEPT !.error = "recovered"]
    BY <1>1, <2>2, <2>5
  <2>7. /\ Settles(new, row) /\ new.status \notin ActiveStatus
        /\ ~(new.status = "canceled" /\ new.error = "shutdown")
    BY <2>3, <2>4, <2>6, RecoveredRow
  <2>8. new # None
    BY <2>7, RowsAssumption DEF Settles
  <2> QED BY <1>4, <2>1, <2>7, <2>8 DEF Exists, new
<1> QED BY <1>3, <1>4

\* What a take-over refunds was charged.
LEMMA RefundHolds ==
  ASSUME StoreInv, RecoverRows
  PROVE  /\ BudgetHolds' /\ run'.dispatched \in Nat
<1> DEFINE I == {d \in Discoveries : Interrupted(d)}
           S == Succeeded(Discoveries)
<1>1. TypeOK /\ run \in RunRow
  BY DEF StoreInv, TypeOK
<1>2. run.dispatched \in Nat /\ run.gen \in Nat \ {0} /\ MaxDiscoveries \in Nat
  BY <1>1, BudgetAssumption DEF RunRow
<1>3. run'.dispatched = run.dispatched - Cardinality(I) /\ run'.gen = run.gen + 1
  BY <1>1 DEF RecoverRows, RunRow
<1>4. IsFiniteSet(I) /\ IsFiniteSet(S) /\ IsFiniteSet(Charged)
  BY FoundAssumption, FS_Subset DEF Succeeded, Charged
<1>5. Charged = S \cup I
  BY DEF Charged, Succeeded, Interrupted, HasStatus
<1>6. S \cap I = {}
  BY DEF Succeeded, Interrupted, HasStatus, ActiveStatus, ShutDown
<1>7. /\ Cardinality(Charged) = Cardinality(S) + Cardinality(I)
      /\ Cardinality(S) \in Nat /\ Cardinality(I) \in Nat
  <2>1. Cardinality(S \cup I) = Cardinality(S) + Cardinality(I) - Cardinality(S \cap I)
    BY <1>4, FS_Union
  <2>2. Cardinality(S \cap I) = 0
    BY <1>6, FS_EmptySet
  <2> QED BY <1>4, <1>5, <2>1, <2>2, FS_CardinalityType
<1>8. Cardinality(S) <= run'.dispatched /\ run'.dispatched \in Nat /\ run'.dispatched <= MaxDiscoveries
  BY <1>2, <1>3, <1>7 DEF StoreInv, BudgetHolds
<1>9. Charged' \subseteq S
  <2> SUFFICES ASSUME NEW d \in Discoveries,
                      (HasStatus(d, ActiveStatus \cup {"succeeded"}) \/ ShutDown(d))'
               PROVE  HasStatus(d, {"succeeded"})
    BY DEF Charged, Succeeded
  <2>1. Exists(d) /\ Exists(d)'
    BY <1>1, RecoveredRows, Kinds DEF HasStatus, ShutDown
  <2>2. /\ Settles(worker'[d], worker[d]) /\ worker'[d].status \notin ActiveStatus
        /\ ~(worker'[d].status = "canceled" /\ worker'[d].error = "shutdown")
    BY <1>1, <2>1, RecoveredRows, Kinds
  <2>3. run'.gen # 1
    BY <1>2, <1>3
  <2>4. worker'[d].status = "succeeded"
    BY <2>2, <2>3 DEF HasStatus, ShutDown
  <2> QED BY <2>1, <2>2, <2>4 DEF HasStatus, Settles
<1>10. Cardinality(Charged') <= Cardinality(S) /\ Cardinality(Charged') \in Nat
  BY <1>4, <1>9, FS_Subset, FS_CardinalityType
<1> QED BY <1>2, <1>7, <1>8, <1>10 DEF BudgetHolds

LEMMA ClaimCoordinatorKeeps ==
  ASSUME StoreInv, NEW c \in Coordinators, NEW told \in BOOLEAN, ClaimCoordinator(c, told)
  PROVE  /\ StoreInv' /\ Merged' = Merged /\ Succeeded(Discoveries)' = Succeeded(Discoveries)
         /\ run'.status = run.status
<1>1. run \in RunRow /\ TypeOK
  BY DEF StoreInv, TypeOK
<1>2. /\ helper = None /\ UNCHANGED <<inputs, scan, snapshot, helper>> /\ run.gen < MaxGeneration
      /\ \/ RecoverRows /\ RecoverLedger
         \/ run' = [run EXCEPT !.gen = run.gen + 1] /\ UNCHANGED <<worker, ledger, backups>>
  BY DEF ClaimCoordinator, CanLock
<1>3. run.gen \in Nat \ {0} /\ run.gen + 1 \in 1..MaxGeneration
  BY <1>1, <1>2, BudgetAssumption DEF RunRow
<1>4. CASE RecoverRows /\ RecoverLedger
  <2>1. /\ run'.status = run.status /\ run'.noNew = run.noNew /\ run'.sequence = run.sequence
        /\ run'.gen = run.gen + 1
    BY <1>1, <1>4 DEF RecoverRows, RunRow
  <2>2. BudgetHolds' /\ run'.dispatched \in Nat
    BY <1>4, RefundHolds
  <2>3. run' \in RunRow
    BY <1>1, <1>3, <1>4, <2>2 DEF RecoverRows, RunRow
  <2>4. \A w \in Worker : /\ Exists(w)' <=> Exists(w)
                          /\ Exists(w) => Settles(worker'[w], worker[w])
    BY <1>1, <1>4, RecoveredRows
  <2>5. worker' \in [Worker -> {None} \cup WorkerRow]
    <3>1. \A w \in Worker : worker'[w] \in {None} \cup WorkerRow
      BY <2>4 DEF Settles, Exists
    <3> QED BY <1>4, <3>1 DEF RecoverRows
  <2>6. ledger' \in Copy /\ backups' \in Seq(SUBSET Candidate)
    BY <1>1, <1>4, RecoveredFiles
  <2> QED BY <1>2, <2>1, <2>2, <2>3, <2>4, <2>5, <2>6, SettlingKeeps
<1>5. CASE run' = [run EXCEPT !.gen = run.gen + 1] /\ UNCHANGED <<worker, ledger, backups>>
  <2>1. /\ run'.status = run.status /\ run'.noNew = run.noNew /\ run'.sequence = run.sequence
        /\ run'.gen = run.gen + 1 /\ run'.dispatched = run.dispatched
    BY <1>1, <1>5 DEF RunRow
  <2>2. run' \in RunRow
    BY <1>1, <1>3, <1>5 DEF RunRow
  <2>3. BudgetHolds'
    <3>1. Charged' \subseteq Charged
      BY <1>3, <1>5, <2>1 DEF Charged, HasStatus, ShutDown, Exists
    <3> QED BY <2>1, <3>1, BudgetKeeps
  <2>4. \A w \in Worker : /\ Exists(w)' <=> Exists(w)
                          /\ Exists(w) => Settles(worker'[w], worker[w])
    BY <1>1, <1>5, RowIs DEF Exists, Settles
  <2> QED BY <1>1, <1>2, <1>5, <2>1, <2>2, <2>3, <2>4, SettlingKeeps DEF TypeOK
<1> QED BY <1>2, <1>4, <1>5

-----------------------------------------------------------------------------
(* The calls of a coordinator *)

\* Other rows than the one a call is about.
Beside(new, row) ==
  /\ new = None <=> row = None
  /\ row # None => Settles(new, row) /\ new.status = row.status /\ new.error = row.error

\* A call that writes the row of one worker, which nothing was merged from.
LEMMA OneRowKeeps ==
  ASSUME StoreInv, CanWrite, UNCHANGED <<inputs, files, helper>>,
         run' \in RunRow, run'.noNew = run.noNew, run'.sequence >= run.sequence,
         NEW w \in Worker, NEW new \in WorkerRow, worker' \in [Worker -> {None} \cup WorkerRow],
         worker'[w] = new, \A v \in Worker \ {w} : Beside(worker'[v], worker[v]),
         Exists(w) => worker[w].merge = None,
         w \in Reducers => /\ Exists(w) /\ worker[w].status \in ActiveStatus
                           /\ new.status # "succeeded",
         new.merge \in {None, "buffered"},
         new.merge # None => w \in Discoveries /\ new.status = "succeeded",
         w \in Discoveries /\ new.status = "succeeded" => run'.sequence > 0,
         BudgetHolds'
  PROVE  StoreInv' /\ Merged' = Merged
<1>1. TypeOK /\ run \in RunRow /\ new # None
  BY RowsAssumption DEF StoreInv, TypeOK
<1>2. \A v \in Worker \ {w} : /\ Exists(v)' <=> Exists(v)
                              /\ Exists(v) => /\ Settles(worker'[v], worker[v])
                                              /\ worker'[v].status = worker[v].status
  BY DEF Beside, Exists
<1>3. Exists(w)'
  BY <1>1 DEF Exists
<1>4. ASSUME NEW r \in Reducers
      PROVE  /\ HasStatus(r, {"succeeded"})' <=> HasStatus(r, {"succeeded"})
             /\ HasStatus(r, ActiveStatus)' => HasStatus(r, ActiveStatus)
             /\ Exists(r)' <=> Exists(r)
  <2>1. CASE r = w
    BY <1>3, <2>1 DEF HasStatus, ActiveStatus
  <2>2. CASE r # w
    BY <1>2, <2>2, Kinds DEF HasStatus
  <2> QED BY <2>1, <2>2
<1>5. ASSUME NEW v \in Worker, Exists(v)', worker'[v].merge # None
      PROVE  v \in Discoveries /\ worker'[v].status = "succeeded"
  <2>1. CASE v = w
    BY <1>5, <2>1
  <2>2. CASE v # w
    <3>1. Exists(v) /\ worker[v].merge # None /\ worker'[v].status = worker[v].status
      BY <1>2, <1>5, <2>2, RowsAssumption DEF Settles
    <3> QED BY <3>1 DEF StoreInv, WorkersHold
  <2> QED BY <2>1, <2>2
<1>6. ASSUME NEW d \in Discoveries
      PROVE  /\ InMerge(d, "merged")' <=> InMerge(d, "merged")
             /\ Exists(d) /\ worker[d].merge # None => Exists(d)' /\ worker'[d].merge # None
  <2>1. CASE d = w
    BY <1>3, <2>1, RowsAssumption DEF InMerge
  <2>2. CASE d # w
    BY <1>2, <2>2, Kinds, RowsAssumption DEF InMerge, Settles
  <2> QED BY <2>1, <2>2
<1>7. /\ WorkersHold' /\ OneActive' /\ InputsHold' /\ MergeHolds' /\ StreakIsEarned'
      /\ Merged' = Merged
  BY <1>4, <1>5, <1>6, MergesKeep
<1>8. SequenceHolds'
  <2> SUFFICES ASSUME NEW d \in Discoveries, HasStatus(d, {"succeeded"})'
               PROVE  run'.sequence > 0
    BY DEF SequenceHolds
  <2>1. CASE d = w
    BY <2>1 DEF HasStatus
  <2>2. CASE d # w
    <3>1. HasStatus(d, {"succeeded"})
      BY <1>2, <2>2, Kinds DEF HasStatus
    <3>2. run.sequence > 0 /\ run.sequence \in Nat /\ run'.sequence \in Nat
      BY <1>1, <3>1 DEF StoreInv, SequenceHolds, RunRow
    <3> QED BY <3>2
  <2> QED BY <2>1, <2>2
<1>9. TypeOK'
  BY <1>1 DEF TypeOK, files
<1>10. HelperHolds'
  BY DEF StoreInv, HelperHolds, CanWrite, files
<1> QED BY <1>7, <1>8, <1>9, <1>10 DEF StoreInv

LEMMA BesideGiveBack ==
  ASSUME TypeOK, NEW rs, NEW v \in Worker
  PROVE  Beside(GiveBack(rs)[v], worker[v]) /\ Beside(worker[v], worker[v])
BY GivenBack, RowIs DEF Beside, Settles, Exists

LEMMA UpdateWorkerKeeps ==
  ASSUME StoreInv, NEW c, NEW w \in Worker, NEW status \in {"running"} \cup SettledStatus,
         NEW error \in {"none", "message", "shutdown"}, UpdateWorker(c, w, status, error)
  PROVE  /\ StoreInv' /\ Merged' = Merged /\ run.status = "running" /\ run'.status = run.status
         /\ \/ Succeeded(Discoveries)' = Succeeded(Discoveries)
            \/ \E d \in Discoveries \ Succeeded(Discoveries) :
                 Succeeded(Discoveries)' = Succeeded(Discoveries) \cup {d}
<1> DEFINE accepted == AcceptsDiscovery(w, status)
           others == IF ReducerFails(w, status) THEN GiveBack({w}) ELSE worker
<1>1. TypeOK /\ run \in RunRow
  BY DEF StoreInv, TypeOK
<1>2. /\ CanWrite /\ run.status = "running" /\ Exists(w) /\ WorkerMoves(worker[w].status, status)
      /\ ~(w \in Reducers /\ status = "succeeded") /\ UNCHANGED <<inputs, files, helper>>
  BY DEF UpdateWorker, MayUpsert, Running
<1>3. PICK row \in WorkerRow : row = worker[w]
  BY <1>1, <1>2, RowIs
<1>4. row.status \in ActiveStatus /\ row.merge = None
  <2>1. row.status \in ActiveStatus
    BY <1>2, <1>3 DEF WorkerMoves, ActiveStatus
  <2> QED BY <1>2, <1>3, <2>1 DEF StoreInv, WorkersHold, ActiveStatus
<1>5. PICK new : new = [status |-> status,
                        seq |-> IF accepted THEN run.sequence + 1 ELSE row.seq,
                        merge |-> IF accepted THEN "buffered" ELSE row.merge,
                        error |-> error]
  OBVIOUS
<1>6. /\ new.status = status /\ new.merge = (IF accepted THEN "buffered" ELSE None)
      /\ new \in WorkerRow
  BY <1>1, <1>4, <1>5 DEF WorkerRow, RunRow, ActiveStatus
<1>7. /\ run' \in RunRow /\ run'.status = run.status /\ run'.noNew = run.noNew
      /\ run'.gen = run.gen /\ run'.dispatched = run.dispatched
      /\ run'.sequence = IF accepted THEN run.sequence + 1 ELSE run.sequence
  <2>1. PICK x \in RunRow : x = run
    BY <1>1
  <2>2. run' = IF accepted THEN [x EXCEPT !.sequence = x.sequence + 1, !.phase = "discovery"]
               ELSE IF ReducerFails(w, status) THEN [x EXCEPT !.phase = "discovery"] ELSE x
    BY <2>1 DEF UpdateWorker
  <2>3. x.sequence + 1 \in Nat
    BY DEF RunRow
  <2>4. CASE accepted
    BY <2>1, <2>2, <2>3, <2>4 DEF RunRow
  <2>5. CASE ~accepted /\ ReducerFails(w, status)
    <3>1. run' = [x EXCEPT !.phase = "discovery"]
      BY <2>2, <2>5
    <3> QED BY <2>1, <2>5, <3>1 DEF RunRow
  <2>6. CASE ~accepted /\ ~ReducerFails(w, status)
    BY <2>1, <2>2, <2>6
  <2> QED BY <2>4, <2>5, <2>6
<1>8. worker' = [others EXCEPT ![w] = new]
  BY <1>3, <1>5 DEF UpdateWorker
<1>9. others \in [Worker -> {None} \cup WorkerRow] /\ \A v \in Worker : Beside(others[v], worker[v])
  <2>1. \A v \in Worker : Beside(others[v], worker[v])
    BY <1>1, BesideGiveBack
  <2>2. \A v \in Worker : others[v] \in {None} \cup WorkerRow
    BY <1>1, <2>1 DEF Beside, Settles
  <2> QED BY <1>1, <2>1, <2>2 DEF GiveBack, TypeOK
<1> HIDE DEF others
<1>10. /\ worker' \in [Worker -> {None} \cup WorkerRow] /\ worker'[w] = new
       /\ \A v \in Worker \ {w} : Beside(worker'[v], worker[v])
  BY <1>6, <1>8, <1>9
<1>11. BudgetHolds'
  <2>1. Charged' \subseteq Charged
    <3> SUFFICES ASSUME NEW d \in Discoveries,
                        (HasStatus(d, ActiveStatus \cup {"succeeded"}) \/ ShutDown(d))'
                 PROVE  HasStatus(d, ActiveStatus \cup {"succeeded"}) \/ ShutDown(d)
      BY DEF Charged
    <3>1. CASE d = w
      BY <1>2, <1>3, <1>4, <3>1 DEF HasStatus
    <3>2. CASE d # w
      BY <1>7, <1>10, <3>2, Kinds DEF Beside, HasStatus, ShutDown, Exists
    <3> QED BY <3>1, <3>2
  <2> QED BY <1>7, <2>1, BudgetKeeps
<1>12. run.sequence \in Nat
  BY <1>1 DEF RunRow
<1>13. /\ run'.sequence >= run.sequence
       /\ w \in Discoveries /\ new.status = "succeeded" => run'.sequence > 0
       /\ new.merge # None => w \in Discoveries /\ new.status = "succeeded"
       /\ new.merge \in {None, "buffered"}
  BY <1>6, <1>7, <1>12 DEF AcceptsDiscovery
<1>14. StoreInv' /\ Merged' = Merged
  BY <1>2, <1>3, <1>4, <1>6, <1>7, <1>10, <1>11, <1>13, OneRowKeeps
<1>15. \/ Succeeded(Discoveries)' = Succeeded(Discoveries)
       \/ \E d \in Discoveries \ Succeeded(Discoveries) :
            Succeeded(Discoveries)' = Succeeded(Discoveries) \cup {d}
  <2>1. \A d \in Discoveries \ {w} : HasStatus(d, {"succeeded"})' <=> HasStatus(d, {"succeeded"})
    BY <1>10, Kinds DEF Beside, HasStatus, Exists
  <2>2. ~HasStatus(w, {"succeeded"})
    BY <1>3, <1>4 DEF HasStatus, ActiveStatus
  <2>3. CASE w \in Discoveries /\ HasStatus(w, {"succeeded"})'
    BY <2>1, <2>2, <2>3 DEF Succeeded
  <2>4. CASE w \notin Discoveries \/ ~HasStatus(w, {"succeeded"})'
    BY <2>1, <2>2, <2>4 DEF Succeeded
  <2> QED BY <2>3, <2>4
<1> QED BY <1>2, <1>7, <1>14, <1>15

LEMMA CreateWorkerKeeps ==
  ASSUME StoreInv, NEW c, NEW w \in Discoveries \cup Setups, NEW status \in ActiveStatus,
         CreateWorker(c, w, status)
  PROVE  /\ StoreInv' /\ Merged' = Merged /\ run'.status = run.status
         /\ Succeeded(Discoveries)' = Succeeded(Discoveries)
<1>1. TypeOK /\ run \in RunRow /\ w \in Worker /\ w \notin Reducers
  BY KindsAssumption DEF StoreInv, TypeOK, Worker
<1>2. /\ CanWrite /\ ~Exists(w) /\ UNCHANGED <<inputs, files, helper>>
      /\ w \in Discoveries => run.dispatched < MaxDiscoveries
  BY DEF CreateWorker, MayUpsert
<1>3. PICK new : new = [status |-> status, seq |-> 0, merge |-> None, error |-> "none"]
  OBVIOUS
<1>4. new \in WorkerRow /\ new.status = status /\ new.merge = None /\ new.error = "none"
  BY <1>3 DEF WorkerRow
<1>5. worker' = [worker EXCEPT ![w] = new]
  BY <1>3 DEF CreateWorker
<1>6. /\ worker' \in [Worker -> {None} \cup WorkerRow] /\ worker'[w] = new
      /\ \A v \in Worker \ {w} : worker'[v] = worker[v] /\ Beside(worker'[v], worker[v])
  BY <1>1, <1>4, <1>5, BesideGiveBack DEF TypeOK
<1>7. /\ run' \in RunRow /\ run'.status = run.status /\ run'.noNew = run.noNew
      /\ run'.gen = run.gen /\ run'.sequence = run.sequence /\ run.sequence \in Nat
      /\ run'.dispatched = IF w \in Discoveries THEN run.dispatched + 1 ELSE run.dispatched
  <2>1. PICK x \in RunRow : x = run
    BY <1>1
  <2>2. run' = IF w \in Discoveries
               THEN [x EXCEPT !.dispatched = x.dispatched + 1, !.phase = "discovery"] ELSE x
    BY <2>1 DEF CreateWorker
  <2>3. x.dispatched + 1 \in Nat /\ x.sequence \in Nat
    BY DEF RunRow
  <2>4. CASE w \in Discoveries
    BY <2>1, <2>2, <2>3, <2>4 DEF RunRow
  <2>5. CASE w \notin Discoveries
    BY <2>1, <2>2, <2>3, <2>5
  <2> QED BY <2>4, <2>5
<1>8. Charged' \subseteq Charged \cup (IF w \in Discoveries THEN {w} ELSE {})
  BY <1>6, <1>7, Kinds DEF Charged, HasStatus, ShutDown, Exists
<1>9. BudgetHolds'
  <2>1. CASE w \notin Discoveries
    BY <1>7, <1>8, <2>1, BudgetKeeps
  <2>2. CASE w \in Discoveries
    <3>1. IsFiniteSet(Charged)
      BY FoundAssumption, FS_Subset DEF Charged
    <3>2. IsFiniteSet(Charged \cup {w}) /\ Cardinality(Charged \cup {w}) <= Cardinality(Charged) + 1
          /\ Cardinality(Charged) \in Nat /\ Cardinality(Charged \cup {w}) \in Nat
      <4>1. IsFiniteSet(Charged \cup {w}) /\ Cardinality(Charged) \in Nat
        BY <3>1, FS_AddElement, FS_CardinalityType
      <4>2. \/ Cardinality(Charged \cup {w}) = Cardinality(Charged)
            \/ Cardinality(Charged \cup {w}) = Cardinality(Charged) + 1
        BY <3>1, FS_AddElement
      <4> QED BY <4>1, <4>2
    <3>3. Cardinality(Charged') <= Cardinality(Charged \cup {w}) /\ Cardinality(Charged') \in Nat
      BY <1>8, <2>2, <3>2, FS_Subset, FS_CardinalityType
    <3>4. run.dispatched \in Nat /\ MaxDiscoveries \in Nat
      BY <1>1, BudgetAssumption DEF RunRow
    <3> QED BY <1>2, <1>7, <2>2, <3>2, <3>3, <3>4 DEF StoreInv, BudgetHolds
  <2> QED BY <2>1, <2>2
<1>10. new.status # "succeeded"
  BY <1>4 DEF ActiveStatus
<1>11. StoreInv' /\ Merged' = Merged
  BY <1>1, <1>2, <1>4, <1>6, <1>7, <1>9, <1>10, OneRowKeeps
<1>12. Succeeded(Discoveries)' = Succeeded(Discoveries)
  BY <1>2, <1>6, <1>10, Kinds DEF Succeeded, HasStatus, Exists
<1> QED BY <1>7, <1>11, <1>12

LEMMA ClaimDedupKeeps ==
  ASSUME StoreInv, NEW c, NEW r \in Reducers, NEW n \in Nat \ {0}, ClaimDedup(c, r, n)
  PROVE  /\ StoreInv' /\ Merged' = Merged /\ run'.status = run.status
         /\ Succeeded(Discoveries)' = Succeeded(Discoveries)
<1>1. TypeOK /\ run \in RunRow /\ r \in Worker /\ r \notin Discoveries
  BY KindsAssumption DEF StoreInv, TypeOK, Worker
<1>2. CanWrite /\ ~Exists(r) /\ NoReducer /\ UNCHANGED <<files, helper>>
  BY DEF ClaimDedup
<1>3. PICK new : new = [status |-> "queued", seq |-> 0, merge |-> None, error |-> "none"]
  OBVIOUS
<1>4. new \in WorkerRow /\ new.status = "queued" /\ new.merge = None /\ new # None
  BY <1>3, RowsAssumption DEF WorkerRow, ActiveStatus
<1>5. PICK taken \in [1..n -> Buffered] :
        /\ FirstBuffered(taken) /\ inputs' = [inputs EXCEPT ![r] = taken]
        /\ worker' = [w \in Worker |->
                        IF w = r THEN new
                        ELSE IF w \in ToSet(taken) THEN [worker[w] EXCEPT !.merge = "merging"]
                        ELSE worker[w]]
  BY <1>3 DEF ClaimDedup
<1>6. /\ taken \in Seq(Discoveries) /\ Len(taken) = n /\ taken # <<>>
      /\ ToSet(taken) \subseteq Buffered
  BY <1>5 DEF Buffered, ToSet
<1>7. \A i, j \in 1..n : taken[i] = taken[j] => i = j
  <2> SUFFICES ASSUME NEW i \in 1..n, NEW j \in 1..n, taken[i] = taken[j], i < j PROVE FALSE
    OBVIOUS
  <2>1. worker[taken[i]].seq < worker[taken[j]].seq
    BY <1>5 DEF FirstBuffered
  <2>2. taken[i] \in Discoveries /\ Exists(taken[i])
    BY <1>5 DEF Buffered, HasStatus
  <2>3. worker[taken[i]].seq \in Nat
    BY <1>1, <2>2, Kinds, RowIs DEF WorkerRow
  <2> QED BY <2>1, <2>3
<1>8. ASSUME NEW w \in Worker \ {r}
      PROVE  /\ Exists(w)' <=> Exists(w)
             /\ Exists(w) => /\ worker'[w] \in WorkerRow
                             /\ worker'[w].status = worker[w].status
                             /\ worker'[w].error = worker[w].error
                             /\ \/ worker'[w].merge = worker[w].merge /\ w \notin ToSet(taken)
                                \/ /\ worker[w].merge = "buffered" /\ worker'[w].merge = "merging"
                                   /\ w \in Discoveries /\ worker[w].status = "succeeded"
  <2>1. CASE w \in ToSet(taken)
    <3>1. w \in Discoveries /\ Exists(w) /\ worker[w].merge = "buffered" /\ worker[w].status = "succeeded"
      BY <1>6, <2>1 DEF Buffered, HasStatus, InMerge
    <3>2. PICK row \in WorkerRow : row = worker[w]
      BY <1>1, <3>1, RowIs
    <3>3. worker'[w] = [row EXCEPT !.merge = "merging"]
      BY <1>5, <2>1, <3>2
    <3>4. /\ worker'[w] \in WorkerRow /\ worker'[w].status = row.status
          /\ worker'[w].error = row.error /\ worker'[w].merge = "merging"
      BY <3>3 DEF WorkerRow
    <3> QED BY <3>1, <3>2, <3>4, RowsAssumption DEF Exists
  <2>2. CASE w \notin ToSet(taken)
    BY <1>1, <1>5, <2>2, RowIs DEF Exists
  <2> QED BY <2>1, <2>2
<1>9. worker'[r] = new /\ Exists(r)'
  BY <1>1, <1>4, <1>5 DEF Exists
<1>10. \A d \in Discoveries : d \in Worker \ {r}
  BY <1>1, Kinds
<1>11. Merged' = Merged /\ Succeeded(Discoveries)' = Succeeded(Discoveries)
       /\ Succeeded(Reducers)' = Succeeded(Reducers)
  <2>1. \A d \in Discoveries : InMerge(d, "merged")' <=> InMerge(d, "merged")
    BY <1>8, <1>10 DEF InMerge
  <2>2. \A w \in Worker : HasStatus(w, {"succeeded"})' <=> HasStatus(w, {"succeeded"})
    BY <1>2, <1>4, <1>8, <1>9 DEF HasStatus
  <2> QED BY <2>1, <2>2, Kinds DEF Merged, Succeeded
<1>12. TypeOK'
  <2>1. \A w \in Worker : worker'[w] \in {None} \cup WorkerRow
    BY <1>4, <1>8, <1>9 DEF Exists
  <2>2. worker' \in [Worker -> {None} \cup WorkerRow]
    BY <1>5, <2>1
  <2>3. run' \in RunRow /\ inputs' \in [Reducers -> Seq(Discoveries)]
    BY <1>1, <1>5, <1>6 DEF ClaimDedup, RunRow, TypeOK
  <2> QED BY <1>1, <1>2, <2>2, <2>3 DEF TypeOK, files
<1>13. WorkersHold'
  BY <1>4, <1>8, <1>9, RowsAssumption DEF StoreInv, WorkersHold
<1>14. OneActive'
  BY <1>2, <1>8, Kinds DEF NoReducer, OneActive, HasStatus
<1>15. InputsOf(r)' = ToSet(taken) /\ \A s \in Reducers \ {r} : inputs'[s] = inputs[s]
  BY <1>1, <1>5 DEF InputsOf, TypeOK
<1>16. InputsHold'
  <2> SUFFICES ASSUME NEW s \in Reducers, Exists(s)'
               PROVE  /\ inputs'[s] # <<>>
                      /\ \A i, j \in 1..Len(inputs'[s]) : inputs'[s][i] = inputs'[s][j] => i = j
                      /\ \A d \in ToSet(inputs'[s]) : Exists(d)' /\ worker'[d].merge # None
    BY DEF InputsHold, InputsOf
  <2>1. CASE s = r
    <3>1. inputs'[s] = taken
      BY <1>1, <1>5, <2>1 DEF TypeOK
    <3>2. \A d \in ToSet(taken) : d \in Worker \ {r} /\ Exists(d)
      BY <1>6, <1>10 DEF Buffered, HasStatus
    <3> QED BY <1>6, <1>7, <1>8, <3>1, <3>2, RowsAssumption
  <2>2. CASE s # r
    <3>1. Exists(s) /\ inputs'[s] = inputs[s] /\ inputs[s] \in Seq(Discoveries)
      BY <1>1, <1>8, <1>15, <2>2, Kinds DEF TypeOK
    <3>2. \A d \in ToSet(inputs[s]) : d \in Discoveries /\ Exists(d) /\ worker[d].merge # None
      BY <3>1 DEF StoreInv, InputsHold, InputsOf, ToSet
    <3> QED BY <1>8, <1>10, <3>1, <3>2, RowsAssumption DEF StoreInv, InputsHold
  <2> QED BY <2>1, <2>2
<1>17. MergeHolds'
  <2>1. r \notin Succeeded(Reducers)
    BY <1>2 DEF Succeeded, HasStatus
  <2>2. \A s \in Succeeded(Reducers) : InputsOf(s)' = InputsOf(s)
    BY <1>15, <2>1 DEF InputsOf, Succeeded
  <2>3. \A d \in Discoveries : InMerge(d, "merged")' <=> InMerge(d, "merged")
    BY <1>11 DEF Merged
  <2> QED BY <1>11, <2>2, <2>3 DEF StoreInv, MergeHolds
<1>18. /\ run'.status = run.status /\ run'.noNew = run.noNew /\ run'.gen = run.gen
       /\ run'.dispatched = run.dispatched /\ run'.sequence = run.sequence
  BY <1>1 DEF ClaimDedup, RunRow
<1>19. BudgetHolds'
  <2>1. Charged' \subseteq Charged
    BY <1>8, <1>10, <1>18 DEF Charged, HasStatus, ShutDown
  <2> QED BY <1>18, <2>1, BudgetKeeps
<1>20. SequenceHolds' /\ StreakIsEarned' /\ HelperHolds'
  <2>1. SequenceHolds'
    BY <1>11, <1>18 DEF StoreInv, SequenceHolds, Succeeded
  <2>2. StreakIsEarned'
    BY <1>11, <1>18 DEF StoreInv, StreakIsEarned, Content
  <2>3. HelperHolds'
    BY <1>2 DEF StoreInv, HelperHolds, CanWrite, files
  <2> QED BY <2>1, <2>2, <2>3
<1> QED BY <1>11, <1>12, <1>13, <1>14, <1>16, <1>17, <1>18, <1>19, <1>20 DEF StoreInv

\* The inputs of a reducer are as many as they are different.
LEMMA InputsCount ==
  ASSUME StoreInv, NEW r \in Reducers, Exists(r)
  PROVE  IsFiniteSet(InputsOf(r)) /\ Cardinality(InputsOf(r)) = Len(inputs[r])
<1>1. PICK s \in Seq(Discoveries) : s = inputs[r] /\ \A i, j \in 1..Len(s) : s[i] = s[j] => i = j
  BY DEF StoreInv, TypeOK, InputsHold
<1>2. DOMAIN s = 1..Len(s) /\ Len(s) \in Nat
  OBVIOUS
<1>3. s \in [1..Len(s) -> ToSet(s)]
  BY <1>2 DEF ToSet
<1>4. \A t \in ToSet(s) : \E i \in 1..Len(s) : s[i] = t
  BY <1>2 DEF ToSet
<1>5. s \in Surjection(1..Len(s), ToSet(s))
  BY <1>3, <1>4 DEF Surjection
<1>6. s \in Injection(1..Len(s), ToSet(s))
  BY <1>1, <1>2, <1>3 DEF Injection, IsInjective
<1>7. IsFiniteSet(1..Len(s)) /\ Cardinality(1..Len(s)) = Len(s)
  BY <1>2, FS_Interval
<1>8. IsFiniteSet(ToSet(s)) /\ Cardinality(ToSet(s)) = Cardinality(1..Len(s))
  BY <1>5, <1>6, <1>7, FS_Surjection
<1> QED BY <1>1, <1>7, <1>8 DEF InputsOf

\* A batch that brings nothing new lengthens the streak by its size.
LEMMA StreakGrows ==
  ASSUME NEW M, NEW S \in SUBSET M, NEW B, B \cap M = {},
         Content(M \ S) = Content(M), Content(B) \subseteq Content(M),
         IsFiniteSet(S), IsFiniteSet(B)
  PROVE  /\ S \cup B \in SUBSET (M \cup B)
         /\ Cardinality(S \cup B) = Cardinality(S) + Cardinality(B)
         /\ Content((M \cup B) \ (S \cup B)) = Content(M \cup B)
<1>1. S \cap B = {} /\ (M \cup B) \ (S \cup B) = M \ S
  OBVIOUS
<1>2. Cardinality(S \cup B) = Cardinality(S) + Cardinality(B)
  <2>1. Cardinality(S \cup B) = Cardinality(S) + Cardinality(B) - Cardinality(S \cap B)
    BY FS_Union
  <2>2. Cardinality(S \cap B) = 0
    BY <1>1, FS_EmptySet
  <2> QED BY <2>1, <2>2, FS_CardinalityType
<1>3. Content(M \cup B) = Content(M) \cup Content(B)
  BY DEF Content
<1> QED BY <1>1, <1>2, <1>3

\* The rows of a commit: the inputs become merged and the reducer a success.
LEMMA MergeInputsKeeps ==
  ASSUME StoreInv, NEW r \in Reducers, Running, HasStatus(r, ActiveStatus),
         \A d \in InputsOf(r) : InMerge(d, "merging"),
         MergeInputs(r), UNCHANGED files,
         helper' \in {None} \cup HelperRow,
         helper' # None => helper'.stage = "committed" /\ (helper'.old # None => backups' # <<>>)
  PROVE  /\ StoreInv' /\ run.status = "running" /\ run'.status = run.status
         /\ Succeeded(Discoveries)' = Succeeded(Discoveries)
         /\ \E batch \in SUBSET (Succeeded(Discoveries) \ Merged) :
              batch # {} /\ Merged' = Merged \cup batch
<1> DEFINE B == InputsOf(r)
<1>1. /\ TypeOK /\ run \in RunRow /\ r \in Worker /\ r \notin Discoveries /\ Exists(r)
      /\ inputs[r] \in Seq(Discoveries) /\ inputs[r] # <<>>
  BY KindsAssumption DEF StoreInv, TypeOK, Worker, HasStatus, InputsHold
<1>2. B \in SUBSET Discoveries /\ B # {}
  <2>1. PICK s \in Seq(Discoveries) : s = inputs[r] /\ s # <<>>
    BY <1>1
  <2>2. ToSet(s) \in SUBSET Discoveries /\ s[1] \in ToSet(s)
    BY <2>1 DEF ToSet
  <2> QED BY <2>1, <2>2 DEF InputsOf
<1>3. ASSUME NEW d \in B
      PROVE  /\ Exists(d) /\ worker[d].merge = "merging" /\ worker[d].status = "succeeded"
             /\ Exists(d)' /\ worker'[d] \in WorkerRow /\ worker'[d].merge = "merged"
             /\ worker'[d].status = worker[d].status /\ worker'[d].error = worker[d].error
  <2>1. d \in Worker /\ Exists(d) /\ worker[d].merge = "merging"
    BY <1>2, Kinds DEF InMerge
  <2>2. worker[d].status = "succeeded"
    BY <2>1, RowsAssumption DEF StoreInv, WorkersHold
  <2>3. PICK row \in WorkerRow : row = worker[d]
    BY <1>1, <2>1, RowIs
  <2>4. worker'[d] = [row EXCEPT !.merge = "merged"]
    BY <2>1, <2>3 DEF MergeInputs
  <2>5. /\ worker'[d] \in WorkerRow /\ worker'[d].merge = "merged"
        /\ worker'[d].status = row.status /\ worker'[d].error = row.error
    BY <2>4 DEF WorkerRow
  <2> QED BY <2>1, <2>2, <2>3, <2>5, RowsAssumption DEF Exists
<1>4. /\ Exists(r)' /\ worker'[r] \in WorkerRow /\ worker'[r].status = "succeeded"
      /\ worker'[r].merge = None
  <2>1. PICK row \in WorkerRow : row = worker[r]
    BY <1>1, RowIs
  <2>2. worker'[r] = [row EXCEPT !.status = "succeeded", !.error = "none"]
    BY <1>1, <1>2, <2>1 DEF MergeInputs
  <2>3. worker'[r] \in WorkerRow /\ worker'[r].status = "succeeded" /\ worker'[r].merge = row.merge
    BY <2>2 DEF WorkerRow, SettledStatus
  <2>4. row.merge = None
    BY <1>1, <2>1 DEF StoreInv, WorkersHold
  <2> QED BY <2>3, <2>4, RowsAssumption DEF Exists
<1>5. \A w \in Worker : w \notin B /\ w # r => worker'[w] = worker[w]
  BY DEF MergeInputs
<1>6. \A d \in Discoveries : d \in Worker /\ d # r
  BY <1>1, Kinds
<1>7. Merged' = Merged \cup B /\ B \cap Merged = {} /\ B \subseteq Succeeded(Discoveries)
  BY <1>2, <1>3, <1>5, <1>6 DEF Merged, InMerge, Exists, Succeeded, HasStatus
<1>8. /\ Succeeded(Discoveries)' = Succeeded(Discoveries)
      /\ Succeeded(Reducers)' = Succeeded(Reducers) \cup {r} /\ r \notin Succeeded(Reducers)
  <2>1. \A w \in Worker \ {r} : HasStatus(w, {"succeeded"})' <=> HasStatus(w, {"succeeded"})
    BY <1>3, <1>5 DEF HasStatus, Exists
  <2>2. HasStatus(r, {"succeeded"})' /\ ~HasStatus(r, {"succeeded"})
    BY <1>4 DEF HasStatus, ActiveStatus
  <2>3. \A s \in Reducers : s \in Worker
    BY Kinds
  <2> QED BY <1>6, <2>1, <2>2, <2>3 DEF Succeeded
<1>9. PICK streak :
        streak = IF Content(B) \subseteq Content(Merged) THEN run.noNew + Len(inputs[r]) ELSE 0
  OBVIOUS
<1>9a. streak \in Nat
  <2>1. run.noNew \in Nat /\ Len(inputs[r]) \in Nat
    BY <1>1 DEF RunRow
  <2> QED BY <1>9, <2>1
<1>9b. run' = [run EXCEPT !.phase = "discovery", !.noNew = streak]
  <2>1. PICK x \in RunRow : x = run
    BY <1>1
  <2>2. run' = [x EXCEPT !.phase = "discovery",
                         !.noNew = IF Content(B) \subseteq Content(Merged)
                                   THEN @ + Len(inputs[r]) ELSE 0]
    BY <2>1 DEF MergeInputs
  <2> QED BY <1>9, <2>1, <2>2 DEF RunRow
<1>10. /\ run' \in RunRow /\ run'.noNew = streak /\ run'.status = run.status /\ run'.gen = run.gen
       /\ run'.dispatched = run.dispatched /\ run'.sequence = run.sequence
  BY <1>1, <1>9a, <1>9b DEF RunRow
<1>11. UNCHANGED inputs /\ \A s : InputsOf(s)' = InputsOf(s)
  BY DEF MergeInputs, InputsOf
<1>12. TypeOK'
  <2>1. \A w \in Worker : worker'[w] \in {None} \cup WorkerRow
    BY <1>1, <1>3, <1>4, <1>5 DEF TypeOK
  <2>2. worker' \in [Worker -> {None} \cup WorkerRow]
    BY <2>1 DEF MergeInputs
  <2> QED BY <1>1, <1>10, <1>11, <2>2 DEF TypeOK, files
<1>13. WorkersHold'
  <2> SUFFICES ASSUME NEW w \in Worker, Exists(w)', worker'[w].merge # None
               PROVE  w \in Discoveries /\ worker'[w].status = "succeeded"
    BY DEF WorkersHold
  <2>1. CASE w \in B
    BY <1>2, <1>3, <2>1
  <2>2. CASE w \notin B
    BY <1>4, <1>5, <2>2 DEF StoreInv, WorkersHold, Exists
  <2> QED BY <2>1, <2>2
<1>14. OneActive'
  <2>1. \A s \in Reducers : HasStatus(s, ActiveStatus)' => HasStatus(s, ActiveStatus)
    BY <1>2, <1>4, <1>5, Kinds DEF HasStatus, Exists, ActiveStatus
  <2> QED BY <2>1 DEF StoreInv, OneActive
<1>15. InputsHold'
  <2>1. \A d \in Discoveries : Exists(d) /\ worker[d].merge # None =>
                                 Exists(d)' /\ worker'[d].merge # None
    BY <1>3, <1>5, <1>6, RowsAssumption DEF Exists
  <2> SUFFICES ASSUME NEW s \in Reducers, Exists(s)'
               PROVE  /\ inputs[s] # <<>>
                      /\ \A i, j \in 1..Len(inputs[s]) : inputs[s][i] = inputs[s][j] => i = j
                      /\ \A d \in InputsOf(s) : Exists(d)' /\ worker'[d].merge # None
    BY <1>11 DEF InputsHold
  <2>2. Exists(s)
    BY <1>1, <1>2, <1>5, Kinds DEF Exists
  <2>3. \A d \in InputsOf(s) : d \in Discoveries
    BY <1>1 DEF TypeOK, InputsOf, ToSet
  <2> QED BY <2>1, <2>2, <2>3 DEF StoreInv, InputsHold
<1>16. MergeHolds'
  <2>1. \A s \in Succeeded(Reducers) : InputsOf(s) \cap B = {}
    BY <1>2, <1>7 DEF StoreInv, MergeHolds, Merged
  <2>2. \A d \in Discoveries :
          InMerge(d, "merged")' <=> \E s \in Succeeded(Reducers)' : d \in InputsOf(s)
    BY <1>7, <1>8 DEF StoreInv, MergeHolds, Merged
  <2> QED BY <1>8, <1>11, <2>1, <2>2 DEF StoreInv, MergeHolds
<1>17. SequenceHolds'
  BY <1>8, <1>10 DEF StoreInv, SequenceHolds, Succeeded
<1>18. BudgetHolds'
  <2>1. Charged' \subseteq Charged
    BY <1>3, <1>5, <1>6, <1>10 DEF Charged, HasStatus, ShutDown, Exists
  <2> QED BY <1>10, <2>1, BudgetKeeps
<1>19. StreakIsEarned'
  <2>1. CASE Content(B) \subseteq Content(Merged)
    <3>1. PICK S \in SUBSET Merged :
            Cardinality(S) = run.noNew /\ Content(Merged \ S) = Content(Merged)
      BY DEF StoreInv, StreakIsEarned
    <3>2. IsFiniteSet(S)
      BY FoundAssumption, FS_Subset DEF Merged
    <3>3. IsFiniteSet(B) /\ Cardinality(B) = Len(inputs[r])
      BY <1>1, InputsCount
    <3> HIDE DEF B
    <3>3a. /\ S \cup B \in SUBSET (Merged \cup B)
           /\ Cardinality(S \cup B) = Cardinality(S) + Cardinality(B)
           /\ Content((Merged \cup B) \ (S \cup B)) = Content(Merged \cup B)
      BY <1>7, <2>1, <3>1, <3>2, <3>3, StreakGrows
    <3>4. /\ S \cup B \in SUBSET Merged' /\ Cardinality(S \cup B) = run.noNew + Len(inputs[r])
          /\ Content(Merged' \ (S \cup B)) = Content(Merged')
      BY <1>7, <3>1, <3>3, <3>3a
    <3>5. run'.noNew = Cardinality(S \cup B)
      BY <1>9, <1>10, <2>1, <3>4
    <3> QED BY <3>4, <3>5 DEF StreakIsEarned, Content
  <2>2. CASE ~(Content(B) \subseteq Content(Merged))
    <3>1. run'.noNew = 0 /\ Cardinality({}) = 0
      BY <1>9, <1>10, <2>2, FS_EmptySet
    <3>2. {} \in SUBSET Merged' /\ Merged' \ {} = Merged'
      OBVIOUS
    <3> QED BY <3>1, <3>2 DEF StreakIsEarned, Content
  <2> QED BY <2>1, <2>2
<1>20. HelperHolds'
  BY DEF HelperHolds
<1>21. StoreInv'
  BY <1>12, <1>13, <1>14, <1>15, <1>16, <1>17, <1>18, <1>19, <1>20 DEF StoreInv
<1> QED BY <1>2, <1>7, <1>8, <1>10, <1>21 DEF Running

LEMMA CommitKeeps ==
  ASSUME StoreInv,
         \/ \E c \in Coordinators, r \in Reducers : CommitDedup(c, r)
         \/ CommitPublication
  PROVE  /\ StoreInv' /\ run.status = "running" /\ run'.status = run.status
         /\ Succeeded(Discoveries)' = Succeeded(Discoveries)
         /\ \E batch \in SUBSET (Succeeded(Discoveries) \ Merged) :
              batch # {} /\ Merged' = Merged \cup batch
<1>1. CASE \E c \in Coordinators, r \in Reducers : CommitDedup(c, r)
  <2>1. PICK c \in Coordinators, r \in Reducers : CommitDedup(c, r)
    BY <1>1
  <2>2. /\ Running /\ HasStatus(r, ActiveStatus) /\ \A d \in InputsOf(r) : InMerge(d, "merging")
        /\ MergeInputs(r) /\ UNCHANGED files /\ helper' = None
    BY <2>1 DEF CommitDedup, CanLock, CanCommit
  <2> QED BY <2>2, MergeInputsKeeps
<1>2. CASE CommitPublication
  <2>1. /\ helper # None /\ helper.stage = "promoted" /\ MergeInputs(helper.reducer)
        /\ helper' = [helper EXCEPT !.stage = "committed"] /\ UNCHANGED files
    BY <1>2 DEF CommitPublication
  <2>2. helper \in HelperRow
    BY <2>1 DEF StoreInv, TypeOK
  <2>3. helper.reducer \in Reducers /\ helper' \in HelperRow /\ helper'.stage = "committed"
        /\ helper'.old = helper.old
    BY <2>1, <2>2 DEF HelperRow
  <2>4. PICK r \in Reducers : r = helper.reducer
    BY <2>3
  <2>5. /\ Running /\ HasStatus(r, ActiveStatus) /\ \A d \in InputsOf(r) : InMerge(d, "merging")
        /\ helper.old # None => backups # <<>>
    BY <2>1, <2>4 DEF StoreInv, HelperHolds
  <2>6. MergeInputs(r) /\ (helper'.old # None => backups' # <<>>)
    BY <2>1, <2>3, <2>4, <2>5 DEF files
  <2> QED BY <2>1, <2>3, <2>5, <2>6, MergeInputsKeeps
<1> QED BY <1>1, <1>2

\* The parent is completed after the run: only scan changes.
LEMMA ParentCompletesKeeps ==
  ASSUME StoreInv, ParentCompletes
  PROVE  /\ StoreInv' /\ Merged' = Merged /\ Succeeded(Discoveries)' = Succeeded(Discoveries)
         /\ run' = run
<1>1. UNCHANGED <<run, worker, inputs, files, helper>> /\ helper = None
  BY DEF ParentCompletes, CanLock
<1>2. Merged' = Merged /\ Succeeded(Reducers)' = Succeeded(Reducers) /\ Charged' = Charged
      /\ Succeeded(Discoveries)' = Succeeded(Discoveries)
  BY <1>1 DEF Merged, Succeeded, Charged, InMerge, HasStatus, Exists, ShutDown
<1>3. WorkersHold' /\ OneActive' /\ InputsHold' /\ MergeHolds' /\ SequenceHolds'
  BY <1>1, <1>2 DEF StoreInv, WorkersHold, OneActive, InputsHold, MergeHolds, SequenceHolds,
                    HasStatus, InMerge, Exists, InputsOf
<1>4. BudgetHolds' /\ StreakIsEarned'
  BY <1>1, <1>2 DEF StoreInv, BudgetHolds, StreakIsEarned, Content
<1>5. TypeOK'
  BY <1>1 DEF StoreInv, TypeOK, files
<1>6. HelperHolds'
  BY <1>1 DEF HelperHolds
<1> QED BY <1>1, <1>2, <1>3, <1>4, <1>5, <1>6 DEF StoreInv

-----------------------------------------------------------------------------
(* The theorems *)

\* What a step may do to the results and to the status of the run.
NothingHappens ==
  /\ Merged' = Merged /\ Succeeded(Discoveries)' = Succeeded(Discoveries)
  /\ run'.status = run.status
OneIsAccepted ==
  /\ run.status = "running" /\ run'.status = run.status /\ Merged' = Merged
  /\ \E d \in Discoveries \ Succeeded(Discoveries) :
       Succeeded(Discoveries)' = Succeeded(Discoveries) \cup {d}
BatchIsMerged ==
  /\ run.status = "running" /\ run'.status = run.status
  /\ Succeeded(Discoveries)' = Succeeded(Discoveries)
  /\ \E batch \in SUBSET (Succeeded(Discoveries) \ Merged) :
       batch # {} /\ Merged' = Merged \cup batch
RunEnds ==
  /\ Merged' = Merged /\ Succeeded(Discoveries)' = Succeeded(Discoveries)
  /\ \/ run.status = "running" /\ run'.status \in {"failed", "interrupted", "canceled"}
     \/ run.status = "succeeded" /\ run'.status = "canceled"
     \/ /\ run.status = "running" /\ run'.status = "succeeded"
        /\ Merged # {} \/ Succeeded(Discoveries) = {}

LEMMA StoreStep ==
  ASSUME StoreInv, [Next]_vars
  PROVE  StoreInv' /\ (NothingHappens \/ OneIsAccepted \/ BatchIsMerged \/ RunEnds)
<1>1. ASSUME StoreInv', UNCHANGED rows PROVE NothingHappens
  BY <1>1 DEF rows, NothingHappens, Merged, Succeeded, InMerge, HasStatus, Exists
<1>2. CASE UNCHANGED vars
  BY <1>1, <1>2, WorldKeeps
<1>3. ASSUME NEW c \in Coordinators, Lease(c)
      PROVE  StoreInv' /\ NothingHappens
  <2>1. CASE \E told \in BOOLEAN : ClaimCoordinator(c, told)
    BY <2>1, ClaimCoordinatorKeeps DEF NothingHappens
  <2>2. CASE ClaimDies(c) \/ Renew(c) \/ LoseLease(c)
    BY <1>1, <2>2, WorldKeeps
  <2> QED BY <1>3, <2>1, <2>2 DEF Lease
<1>4. ASSUME NEW c \in Coordinators, Coordinator(c)
      PROVE  StoreInv' /\ (NothingHappens \/ OneIsAccepted \/ BatchIsMerged \/ RunEnds)
  <2>1. CASE \E w \in Discoveries \cup Setups, s \in ActiveStatus : CreateWorker(c, w, s)
    BY <2>1, CreateWorkerKeeps DEF NothingHappens
  <2>2. CASE \E w \in Worker, s \in {"running"} \cup SettledStatus, e \in {"none", "message", "shutdown"} :
               UpdateWorker(c, w, s, e)
    BY <2>2, UpdateWorkerKeeps DEF NothingHappens, OneIsAccepted
  <2>3. CASE \E r \in Reducers, n \in 1..Cardinality(Discoveries) : ClaimDedup(c, r, n)
    <3>1. Cardinality(Discoveries) \in Nat
      BY FoundAssumption, FS_CardinalityType
    <3>2. PICK r \in Reducers, n \in 1..Cardinality(Discoveries) : ClaimDedup(c, r, n)
      BY <2>3
    <3>3. n \in Nat \ {0}
      BY <3>1
    <3> QED BY <3>2, <3>3, ClaimDedupKeeps DEF NothingHappens
  <2>4. CASE \E r \in Reducers : CommitDedup(c, r)
    BY <2>4, CommitKeeps DEF BatchIsMerged
  <2>5. CASE \E r \in Reducers : BeginPublication(c, r)
    BY <1>1, <2>5, FilesKeep
  <2>6. CASE \E reason \in {"saturated", "capped"}, standard, partial \in BOOLEAN :
               FinishDeepScan(c, reason, standard, partial)
    BY <2>6, FinishKeeps DEF RunEnds
  <2>7. CASE \E s \in {"failed", "interrupted"} : FailDeepScan(c, s)
    BY <2>7, StopsKeep DEF RunEnds, NothingHappens
  <2> QED BY <1>4, <2>1, <2>2, <2>3, <2>4, <2>5, <2>6, <2>7 DEF Coordinator
<1>5. CASE Publication
  <2>1. CASE CommitPublication
    BY <2>1, CommitKeeps DEF BatchIsMerged
  <2>2. CASE \/ PromoteLedger \/ FinishStaged \/ RollbackPublication \/ HelperDies
             \/ \E r \in Reducers : WriteSnapshot(r)
    BY <1>1, <2>2, FilesKeep
  <2> QED BY <1>5, <2>1, <2>2 DEF Publication
<1>6. CASE Outside
  <2>1. CASE LeaseExpires \/ DeadlinePasses
    BY <1>1, <2>1, WorldKeeps
  <2>2. CASE \E s \in {"failed", "canceled"} : ParentStops(s)
    BY <2>2, StopsKeep DEF RunEnds, NothingHappens
  <2>3. CASE ParentCompletes
    BY <2>3, ParentCompletesKeeps DEF NothingHappens
  <2> QED BY <1>6, <2>1, <2>2, <2>3 DEF Outside
<1> QED BY <1>2, <1>3, <1>4, <1>5, <1>6 DEF Next

\* The inductive invariant holds of the store.
THEOREM StoreInvariant == Spec => []StoreInv
<1>1. Init => StoreInv
  BY InitStore
<1>2. StoreInv /\ [Next]_vars => StoreInv'
  BY StoreStep
<1> QED BY <1>1, <1>2, PTL DEF Spec

\* Its rows and files keep their types.
THEOREM StoreTypes == Spec => []TypeOK
<1>1. StoreInv => TypeOK
  BY DEF StoreInv
<1> QED BY <1>1, StoreInvariant, PTL

\* However coordinators are replaced, the discoveries that are at work or accepted
\* are paid for, within the configured maximum (recover_expired_coordinator).
THEOREM BudgetIsKept == Spec => []BudgetCoversWork
<1>1. StoreInv => BudgetCoversWork
  <2> SUFFICES ASSUME StoreInv PROVE BudgetCoversWork
    OBVIOUS
  <2> DEFINE W == {d \in Discoveries : HasStatus(d, ActiveStatus \cup {"succeeded"})}
  <2>1. IsFiniteSet(Charged) /\ W \subseteq Charged
    BY FoundAssumption, FS_Subset DEF Charged
  <2>2. Cardinality(W) <= Cardinality(Charged) /\ Cardinality(W) \in Nat /\ Cardinality(Charged) \in Nat
    BY <2>1, FS_Subset, FS_CardinalityType
  <2>3. run.dispatched \in Nat
    BY DEF StoreInv, TypeOK, RunRow
  <2> QED BY <2>2, <2>3 DEF StoreInv, BudgetHolds, BudgetCoversWork
<1> QED BY <1>1, StoreInvariant, PTL

\* A result counts as merged exactly when one reducer merged it, and never twice
\* (claim-deep-scan-dedup, commit-deep-scan-dedup and the take-over).
THEOREM MergesOnce == Spec => []MergedExactlyOnce
<1>1. StoreInv => MergedExactlyOnce
  <2> SUFFICES ASSUME StoreInv, NEW d \in Discoveries
               PROVE  Cardinality({r \in Succeeded(Reducers) : d \in InputsOf(r)})
                        = IF InMerge(d, "merged") THEN 1 ELSE 0
    BY DEF MergedExactlyOnce
  <2> DEFINE R == {r \in Succeeded(Reducers) : d \in InputsOf(r)}
  <2>1. CASE InMerge(d, "merged")
    <3>1. PICK r \in Succeeded(Reducers) : d \in InputsOf(r)
      BY <2>1 DEF StoreInv, MergeHolds
    <3>2. R = {r}
      BY <3>1 DEF StoreInv, MergeHolds
    <3> QED BY <2>1, <3>2, FS_Singleton
  <2>2. CASE ~InMerge(d, "merged")
    <3>1. R = {}
      BY <2>2 DEF StoreInv, MergeHolds
    <3> QED BY <2>2, <3>1, FS_EmptySet
  <2> QED BY <2>1, <2>2
<1> QED BY <1>1, StoreInvariant, PTL

\* A saturated scan has earned its streak.
THEOREM EarnsItsStreak == Spec => []StreakIsEarned
<1>1. StoreInv => StreakIsEarned
  BY DEF StoreInv
<1> QED BY <1>1, StoreInvariant, PTL

\* The rows implement what a Deep Scan promises: results are accepted and merged
\* once and only while the scan runs, and an end is final but for a cancellation.
THEOREM ImplementsTheDeepContract == Spec => ImplementsDeepContract
<1>1. Init => Contract!Init
  <2> SUFFICES ASSUME Init PROVE Contract!Init
    OBVIOUS
  <2>1. \A d \in Discoveries : d \in Worker /\ ~Exists(d)
    BY Kinds DEF Init, Exists
  <2>2. Merged = {} /\ Succeeded(Discoveries) = {}
    BY <2>1 DEF Merged, Succeeded, InMerge, HasStatus
  <2> QED BY <2>2 DEF Init, Contract!Init
<1>2. StoreInv /\ [Next]_vars => [Contract!Next]_(Contract!cvars)
  <2> SUFFICES ASSUME StoreInv, [Next]_vars PROVE [Contract!Next]_(Contract!cvars)
    OBVIOUS
  <2>1. NothingHappens \/ OneIsAccepted \/ BatchIsMerged \/ RunEnds
    BY StoreStep
  <2>2. CASE NothingHappens
    BY <2>2 DEF NothingHappens, Contract!cvars
  <2>3. CASE OneIsAccepted
    BY <2>3 DEF OneIsAccepted, Contract!Next, Contract!Accept
  <2>4. CASE BatchIsMerged
    BY <2>4 DEF BatchIsMerged, Contract!Next, Contract!Merge
  <2>5. CASE RunEnds
    BY <2>5 DEF RunEnds, Contract!Next, Contract!End
  <2> QED BY <2>1, <2>2, <2>3, <2>4, <2>5
<1> QED BY <1>1, <1>2, StoreInvariant, PTL DEF Spec, ImplementsDeepContract, Contract!Spec

-----------------------------------------------------------------------------
(* The files of a publication *)

\* A copy is there only for a reducer that is, and while the reducer is at work
\* it holds what was merged and what is being merged.
CopiesHold ==
  \A r \in Reducers :
    /\ ~Exists(r) => snapshot[r] = None
    /\ HasStatus(r, ActiveStatus) /\ snapshot[r] # None =>
         snapshot[r] = Content(Merged \cup InputsOf(r))

\* Where a publication stands.
HelperFiles ==
  helper # None =>
    /\ helper.stage # "committed" => snapshot[helper.reducer] # None
    /\ helper.stage = "moved" => ledger = None
    /\ helper.stage = "promoted" => ledger = snapshot[helper.reducer]
    /\ helper.stage = "committed" => ledger = Content(Merged)
    /\ helper.old # None => backups # <<>> /\ Head(backups) = helper.old

FilesInv == StoreInv /\ CopiesHold /\ HelperFiles /\ deaths \in Nat

\* A step that merges nothing and touches no copy and no publication; the ledger
\* and its backups it leaves alone or recovers.
QuietFiles ==
  /\ UNCHANGED <<snapshot, helper, publishes>> /\ Merged' = Merged /\ deaths' \in Nat
  /\ UNCHANGED <<ledger, backups>> \/ (helper = None /\ RecoverLedger /\ Recovering)

\* No reducer comes to work by it.
ReducersSettle ==
  /\ UNCHANGED inputs
  /\ \A r \in Reducers : /\ Exists(r) => Exists(r)'
                         /\ HasStatus(r, ActiveStatus)' => HasStatus(r, ActiveStatus)

\* A quiet step keeps the invariant of the files ...
LEMMA QuietKeeps ==
  ASSUME FilesInv, StoreInv', QuietFiles, ReducersSettle PROVE FilesInv'
<1>1. CopiesHold'
  <2>1. \A r : InputsOf(r)' = InputsOf(r)
    BY DEF ReducersSettle, InputsOf
  <2>2. \A W : Content(W)' = Content(W)
    BY DEF Content
  <2> QED BY <2>1, <2>2 DEF FilesInv, CopiesHold, QuietFiles, ReducersSettle
<1>2. HelperFiles'
  BY DEF FilesInv, HelperFiles, QuietFiles, Content
<1> QED BY <1>1, <1>2 DEF FilesInv, QuietFiles


\* What was merged is a set of candidates, and so is the ledger that covers it.
LEMMA MergedIsNoGap == Content(Merged) \in SUBSET Candidate /\ Content(Merged) # None
<1>1. Merged \in SUBSET Discoveries
  BY DEF Merged
<1> QED BY <1>1, ContentIs, RowsAssumption

\* Where the files are as one expects them, what was merged is in one of them.
LEMMA OnDiskIsMergedOnDisk == ASSUME TypeOK, OnDisk PROVE MergedOnDisk
<1> SUFFICES ASSUME Merged # {}
             PROVE  \E f \in (IF CanWrite THEN {ledger} ELSE {}) \cup ToSet(backups) : Covers(f)
  BY DEF MergedOnDisk
<1>1. CASE CanWrite /\ ledger # None
  BY <1>1 DEF OnDisk
<1>2. CASE ~(CanWrite /\ ledger # None)
  <2>1. backups # <<>> /\ Covers(Head(backups))
    BY <1>2, MergedIsNoGap DEF OnDisk
  <2>2. Head(backups) \in ToSet(backups)
    <3>1. backups \in Seq(SUBSET Candidate)
      BY DEF TypeOK
    <3>2. Head(backups) = backups[1] /\ 1 \in DOMAIN backups
      BY <2>1, <3>1
    <3> QED BY <3>2 DEF ToSet
  <2> QED BY <2>1, <2>2
<1> QED BY <1>1, <1>2

\* A recovery that can tell reducers apart leaves what was merged on disk.
LEMMA RecoveryKeeps ==
  ASSUME TypeOK, OnDisk, ToldApart, helper = None, RecoverLedger,
         UNCHANGED helper, Merged' = Merged
  PROVE  OnDisk'
<1> SUFFICES ASSUME Merged # {} PROVE OnDisk'
  BY DEF OnDisk
<1>1. CanWrite /\ CanWrite' /\ (\A f : Covers(f)' <=> Covers(f)) /\ Content(Merged)' = Content(Merged)
  BY DEF CanWrite, Covers, Content
<1>2. /\ IF ledger # None THEN Covers(ledger) ELSE backups # <<>>
      /\ backups # <<>> /\ ledger # Content(Merged) => Covers(Head(backups))
  BY <1>1 DEF OnDisk
<1>3. CASE /\ ledger' = IF backups # <<>> THEN Head(backups) ELSE None
           /\ backups' = <<>>
           /\ \E r \in Reducers : HasStatus(r, ActiveStatus) /\
                \/ ledger = snapshot[r]
                \/ ledger = None /\ backups # <<>>
  <2>1. ledger # Content(Merged) /\ backups # <<>>
    BY <1>3, MergedIsNoGap DEF ToldApart
  <2>2. Covers(ledger') /\ backups' = <<>>
    BY <1>2, <1>3, <2>1
  <2> QED BY <1>1, <2>2 DEF OnDisk, Covers
<1>4. CASE ledger' = ledger /\ (backups' = backups \/ (backups' = <<>> /\ ledger # None))
  BY <1>1, <1>2, <1>4 DEF OnDisk
<1> QED BY <1>3, <1>4 DEF RecoverLedger

\* ... and what was merged on disk.
LEMMA QuietOnDisk ==
  ASSUME TypeOK, OnDisk, Recovering => ToldApart, QuietFiles PROVE OnDisk'
<1>1. CASE UNCHANGED <<ledger, backups>>
  BY <1>1 DEF QuietFiles, OnDisk, Covers, Content, CanWrite
<1>2. CASE helper = None /\ RecoverLedger /\ Recovering
  BY <1>2, RecoveryKeeps DEF QuietFiles
<1> QED BY <1>1, <1>2 DEF QuietFiles
\* What is defined by the rows alone.
LEMMA RowsMeanTheSame == ASSUME UNCHANGED rows PROVE
  /\ Merged' = Merged /\ UNCHANGED inputs
  /\ \A W : Content(W)' = Content(W)
  /\ \A r : /\ InputsOf(r)' = InputsOf(r)
            /\ Exists(r)' <=> Exists(r)
            /\ HasStatus(r, ActiveStatus)' <=> HasStatus(r, ActiveStatus)
BY DEF rows, Merged, InMerge, Exists, HasStatus, InputsOf, Content

\* The steps that are not about a publication or a reducer that is claimed.
LEMMA OthersAreQuiet ==
  ASSUME FilesInv,
         \/ \E c \in Coordinators : Lease(c)
         \/ \E c \in Coordinators, w \in Discoveries \cup Setups, s \in ActiveStatus :
              CreateWorker(c, w, s)
         \/ \E c \in Coordinators, w \in Worker, s \in {"running"} \cup SettledStatus,
               e \in {"none", "message", "shutdown"} : UpdateWorker(c, w, s, e)
         \/ \E c \in Coordinators, reason \in {"saturated", "capped"},
               standard, partial \in BOOLEAN : FinishDeepScan(c, reason, standard, partial)
         \/ \E c \in Coordinators, s \in {"failed", "interrupted"} : FailDeepScan(c, s)
         \/ Outside \/ UNCHANGED vars
  PROVE  QuietFiles /\ ReducersSettle
<1>1. StoreInv /\ TypeOK /\ deaths \in Nat /\ run \in RunRow
  BY DEF FilesInv, StoreInv, TypeOK
<1>2. ASSUME NEW c \in Coordinators, NEW told \in BOOLEAN, ClaimCoordinator(c, told)
      PROVE  QuietFiles /\ ReducersSettle
  <2>1. Merged' = Merged
    BY <1>1, <1>2, ClaimCoordinatorKeeps
  <2>2. /\ UNCHANGED <<snapshot, helper, publishes, deaths, inputs>> /\ helper = None
        /\ \/ RecoverRows /\ RecoverLedger
           \/ UNCHANGED <<worker, ledger, backups>>
    BY <1>2 DEF ClaimCoordinator, CanLock
  <2>3. CASE RecoverRows /\ RecoverLedger
    <3>1. run'.gen = run.gen + 1 /\ run.gen \in Nat
      BY <1>1, <2>3, BudgetAssumption DEF RecoverRows, RunRow
    <3>2. Recovering
      BY <2>2, <3>1 DEF Recovering
    <3>3. ReducersSettle
      BY <1>1, <2>2, <2>3, RecoveredRows, Kinds DEF ReducersSettle, HasStatus
    <3> QED BY <1>1, <2>1, <2>2, <2>3, <3>2, <3>3 DEF QuietFiles
  <2>4. CASE UNCHANGED <<worker, ledger, backups>>
    BY <1>1, <2>1, <2>2, <2>4 DEF QuietFiles, ReducersSettle, HasStatus, Exists
  <2> QED BY <2>2, <2>3, <2>4
<1>3. ASSUME UNCHANGED rows, UNCHANGED <<snapshot, helper, publishes, deaths, ledger, backups>>
      PROVE  QuietFiles /\ ReducersSettle
  BY <1>1, <1>3, RowsMeanTheSame DEF QuietFiles, ReducersSettle
<1>4. ASSUME NEW c \in Coordinators, ClaimDies(c) PROVE QuietFiles /\ ReducersSettle
  <2>1. /\ UNCHANGED rows /\ UNCHANGED <<snapshot, helper, publishes>> /\ helper = None
        /\ RecoverLedger /\ deaths' = deaths + 1
    BY <1>4 DEF ClaimDies, CanLock
  <2>2. Recovering /\ deaths' \in Nat
    BY <1>1, <2>1 DEF Recovering
  <2> QED BY <2>1, <2>2, RowsMeanTheSame DEF QuietFiles, ReducersSettle
<1>5. CASE \/ \E c \in Coordinators : Renew(c) \/ LoseLease(c)
           \/ LeaseExpires \/ DeadlinePasses \/ UNCHANGED vars
  BY <1>3, <1>5 DEF Renew, LoseLease, LeaseExpires, DeadlinePasses, vars, files
<1>6. ASSUME Merged' = Merged, UNCHANGED <<inputs, files, helper, publishes, deaths>>,
             \A r \in Reducers : /\ Exists(r) => Exists(r)'
                                 /\ HasStatus(r, ActiveStatus)' => HasStatus(r, ActiveStatus)
      PROVE  QuietFiles /\ ReducersSettle
  BY <1>1, <1>6 DEF QuietFiles, ReducersSettle, files
<1>7. ASSUME NEW c \in Coordinators, NEW w \in Discoveries \cup Setups, NEW s \in ActiveStatus,
             CreateWorker(c, w, s)
      PROVE  QuietFiles /\ ReducersSettle
  <2>1. Merged' = Merged
    BY <1>1, <1>7, CreateWorkerKeeps
  <2>2. UNCHANGED <<inputs, files, helper, publishes, deaths>>
    BY <1>7 DEF CreateWorker
  <2>3. \A r \in Reducers : worker'[r] = worker[r]
    BY <1>1, <1>7, Kinds DEF CreateWorker, TypeOK
  <2> QED BY <1>6, <2>1, <2>2, <2>3 DEF HasStatus, Exists
<1>8. ASSUME NEW c \in Coordinators, NEW w \in Worker, NEW s \in {"running"} \cup SettledStatus,
             NEW e \in {"none", "message", "shutdown"}, UpdateWorker(c, w, s, e)
      PROVE  QuietFiles /\ ReducersSettle
  <2>1. Merged' = Merged
    BY <1>1, <1>8, UpdateWorkerKeeps
  <2>2. UNCHANGED <<inputs, files, helper, publishes, deaths>>
    BY <1>8 DEF UpdateWorker
  <2>3. HasStatus(w, ActiveStatus)
    BY <1>8 DEF UpdateWorker, WorkerMoves, HasStatus, ActiveStatus
  <2>4. ASSUME NEW r \in Reducers
        PROVE  /\ Exists(r) => Exists(r)'
               /\ HasStatus(r, ActiveStatus)' => HasStatus(r, ActiveStatus)
    <3> DEFINE others == IF ReducerFails(w, s) THEN GiveBack({w}) ELSE worker
    <3>1. r \in Worker
      BY Kinds
    <3>2. /\ others[r] = None <=> worker[r] = None
          /\ Exists(r) => others[r].status = worker[r].status
      BY <1>1, <3>1, GivenBack DEF Exists
    <3>3. DOMAIN others = Worker
      BY <1>1 DEF TypeOK, GiveBack
    <3>4. r # w => worker'[r] = others[r]
      BY <1>8, <3>1, <3>3 DEF UpdateWorker
    <3>5. CASE r = w
      <4>1. PICK row \in WorkerRow : row = worker[w]
        BY <1>1, <3>1, <3>5, RowIs, <2>3 DEF HasStatus
      <4>2. PICK new : new = [status |-> s, seq |-> row.seq, merge |-> row.merge, error |-> e]
        OBVIOUS
      <4>3. ~AcceptsDiscovery(w, s)
        BY <3>5, Kinds DEF AcceptsDiscovery
      <4>4. worker'[w] = new
        BY <1>8, <3>1, <3>3, <3>5, <4>1, <4>2, <4>3 DEF UpdateWorker
      <4>5. new \in WorkerRow
        BY <4>2 DEF WorkerRow, ActiveStatus
      <4> QED BY <2>3, <3>5, <4>4, <4>5, RowsAssumption DEF Exists
    <3> QED BY <2>3, <3>2, <3>4, <3>5 DEF HasStatus, Exists
  <2> QED BY <1>6, <2>1, <2>2, <2>4
<1>9. ASSUME NEW c \in Coordinators, NEW reason \in {"saturated", "capped"},
             NEW standard \in BOOLEAN, NEW partial \in BOOLEAN,
             FinishDeepScan(c, reason, standard, partial)
      PROVE  QuietFiles /\ ReducersSettle
  <2>1. Merged' = Merged
    BY <1>1, <1>9, FinishKeeps
  <2>2. UNCHANGED <<inputs, files, helper, publishes, deaths>>
        /\ (worker' = worker \/ \E rs : worker' = GiveBack(rs))
    BY <1>9 DEF FinishDeepScan, RowsAtEnd
  <2>3. ASSUME NEW r \in Reducers
        PROVE  /\ Exists(r) => Exists(r)'
               /\ HasStatus(r, ActiveStatus)' => HasStatus(r, ActiveStatus)
    BY <1>1, <2>2, GivenBack, Kinds DEF HasStatus, Exists
  <2> QED BY <1>6, <2>1, <2>2, <2>3
<1>10. CASE \/ \E c \in Coordinators, s \in {"failed", "interrupted"} : FailDeepScan(c, s)
            \/ \E s \in {"failed", "canceled"} : ParentStops(s)
  <2>1. Merged' = Merged
    BY <1>1, <1>10, StopsKeep
  <2>2. UNCHANGED <<inputs, files, helper, publishes, deaths>> /\ worker' = CancelActive(worker)
    BY <1>10 DEF FailDeepScan, ParentStops
  <2>3. ASSUME NEW r \in Reducers
        PROVE  /\ Exists(r) => Exists(r)'
               /\ HasStatus(r, ActiveStatus)' => HasStatus(r, ActiveStatus)
    BY <1>1, <2>2, Canceled, Kinds DEF HasStatus, Exists
  <2> QED BY <1>6, <2>1, <2>2, <2>3
<1>11. CASE ParentCompletes
  <2>1. Merged' = Merged
    BY <1>1, <1>11, ParentCompletesKeeps
  <2>2. UNCHANGED <<worker, inputs, files, helper, publishes, deaths>>
    BY <1>11 DEF ParentCompletes
  <2> QED BY <1>6, <2>1, <2>2 DEF HasStatus, Exists
<1> QED BY <1>2, <1>4, <1>5, <1>7, <1>8, <1>9, <1>10, <1>11 DEF Lease, Outside
\* A claim brings in a reducer that has no copy yet.
LEMMA ClaimDedupFiles ==
  ASSUME FilesInv, NEW c, NEW r \in Reducers, NEW n \in Nat \ {0}, ClaimDedup(c, r, n)
  PROVE  QuietFiles /\ FilesInv'
<1>1. StoreInv' /\ Merged' = Merged
  BY ClaimDedupKeeps DEF FilesInv
<1>2. /\ ~Exists(r) /\ NoReducer /\ UNCHANGED <<ledger, backups, snapshot, helper, deaths, publishes>>
  BY DEF ClaimDedup, files
<1>3. ASSUME NEW s \in Reducers \ {r} PROVE worker'[s] = worker[s]
  <2>1. PICK taken \in [1..n -> Buffered] :
          worker' = [w \in Worker |->
                        IF w = r THEN [status |-> "queued", seq |-> 0, merge |-> None,
                                       error |-> "none"]
                        ELSE IF w \in ToSet(taken) THEN [worker[w] EXCEPT !.merge = "merging"]
                        ELSE worker[w]]
    BY DEF ClaimDedup
  <2>2. s \notin ToSet(taken) /\ s \in Worker
    BY <2>1, Kinds DEF ToSet, Buffered
  <2> QED BY <2>1, <2>2
<1>4. \A s \in Reducers \ {r} : InputsOf(s)' = InputsOf(s)
  BY DEF FilesInv, StoreInv, TypeOK, ClaimDedup, InputsOf
<1>5. CopiesHold'
  <2> SUFFICES ASSUME NEW s \in Reducers
               PROVE  /\ ~Exists(s)' => snapshot'[s] = None
                      /\ HasStatus(s, ActiveStatus)' /\ snapshot'[s] # None =>
                           snapshot'[s] = Content(Merged \cup InputsOf(s))'
    BY DEF CopiesHold
  <2>1. CASE s = r
    BY <1>2, <2>1 DEF FilesInv, CopiesHold
  <2>2. CASE s # r
    BY <1>2, <1>3, <2>2 DEF FilesInv, CopiesHold, NoReducer, HasStatus, Exists
  <2> QED BY <2>1, <2>2
<1>6. HelperFiles'
  BY <1>1, <1>2 DEF FilesInv, HelperFiles, Content
<1> QED BY <1>1, <1>2, <1>5, <1>6 DEF QuietFiles, FilesInv

\* A copy that is there is not written again before its reducer is done.
LEMMA SnapshotFiles ==
  ASSUME FilesInv, NEW r \in Reducers, WriteSnapshot(r)
  PROVE  FilesInv' /\ (OnDisk => OnDisk')
<1>1. StoreInv' /\ UNCHANGED rows
  BY FilesKeep DEF FilesInv
<1>2. /\ snapshot \in [Reducers -> Copy] /\ (helper # None => helper \in HelperRow)
      /\ OneActive /\ HelperHolds
  BY DEF FilesInv, StoreInv, TypeOK
<1>3. /\ HasStatus(r, ActiveStatus) /\ UNCHANGED <<ledger, backups, helper, deaths, publishes>>
      /\ snapshot' = [snapshot EXCEPT ![r] = Content(Merged \cup InputsOf(r))]
      /\ snapshot' # snapshot
  BY DEF WriteSnapshot, HasStatus, ActiveStatus
<1>4. snapshot[r] = None
  <2>1. snapshot[r] # None => snapshot[r] = Content(Merged \cup InputsOf(r))
    BY <1>3 DEF FilesInv, CopiesHold
  <2> QED BY <1>2, <1>3, <2>1
<1>5. CopiesHold'
  <2>1. \A s \in Reducers : s # r => snapshot'[s] = snapshot[s]
    BY <1>2, <1>3
  <2>2. snapshot'[r] = Content(Merged \cup InputsOf(r)) /\ Exists(r)
    BY <1>2, <1>3 DEF HasStatus
  <2> QED BY <1>1, <2>1, <2>2, RowsMeanTheSame DEF FilesInv, CopiesHold
<1>6. HelperFiles'
  <2>1. helper # None /\ helper.stage # "committed" => helper.reducer # r
    BY <1>4 DEF FilesInv, HelperFiles
  <2>2. helper # None /\ helper.stage # "committed" => snapshot'[helper.reducer] = snapshot[helper.reducer]
    BY <1>2, <1>3, <2>1 DEF HelperRow
  <2> QED BY <1>1, <1>3, <2>2, RowsMeanTheSame DEF FilesInv, HelperFiles
<1>7. OnDisk => OnDisk'
  BY <1>1, <1>3, RowsMeanTheSame DEF OnDisk, Covers, CanWrite
<1> QED BY <1>1, <1>3, <1>5, <1>6, <1>7 DEF FilesInv

\* The old ledger becomes the youngest backup.
LEMMA BeginFiles ==
  ASSUME FilesInv, NEW c \in Coordinators, NEW r \in Reducers, BeginPublication(c, r)
  PROVE  FilesInv' /\ (OnDisk => OnDisk')
<1>1. StoreInv' /\ UNCHANGED rows
  BY FilesKeep DEF FilesInv
<1>2. /\ helper = None /\ snapshot[r] # None /\ UNCHANGED <<snapshot, deaths, publishes>>
      /\ helper' = [reducer |-> r, stage |-> "moved", old |-> ledger] /\ ledger' = None
      /\ backups' = IF ledger = None THEN backups ELSE <<ledger>> \o backups
  BY DEF BeginPublication, CanLock
<1>3. ledger # None => /\ backups' # <<>> /\ Head(backups') = ledger /\ Tail(backups') = backups
  <2> SUFFICES ASSUME ledger # None
               PROVE  backups' # <<>> /\ Head(backups') = ledger /\ Tail(backups') = backups
    OBVIOUS
  <2>1. PICK b \in Seq(SUBSET Candidate), l \in SUBSET Candidate : b = backups /\ l = ledger
    BY DEF FilesInv, StoreInv, TypeOK, Copy
  <2>2. <<l>> \in Seq(SUBSET Candidate) /\ Len(<<l>>) = 1 /\ <<l>>[1] = l
    OBVIOUS
  <2>3. /\ <<l>> \o b \in Seq(SUBSET Candidate) /\ Len(<<l>> \o b) = 1 + Len(b)
        /\ \A i \in 1..(1 + Len(b)) : (<<l>> \o b)[i] = IF i <= 1 THEN <<l>>[i] ELSE b[i - 1]
    BY <2>2, ConcatProperties
  <2>4. (<<l>> \o b) # <<>> /\ Head(<<l>> \o b) = l /\ Tail(<<l>> \o b) = b
    BY <2>2, <2>3
  <2> QED BY <1>2, <2>1, <2>4
<1>4. helper' # None /\ helper'.reducer = r /\ helper'.stage = "moved" /\ helper'.old = ledger
  <2>1. helper' \in HelperRow
    BY <1>2 DEF FilesInv, StoreInv, TypeOK, HelperRow
  <2> QED BY <1>2, <2>1, RowsAssumption
<1>5. CopiesHold'
  BY <1>1, <1>2, RowsMeanTheSame DEF FilesInv, CopiesHold
<1>6. HelperFiles'
  BY <1>2, <1>3, <1>4 DEF HelperFiles
<1>7. ASSUME OnDisk, Merged # {} PROVE OnDisk'
  <2>1. CanWrite /\ ~CanWrite' /\ Content(Merged)' = Content(Merged)
        /\ (\A f : Covers(f)' <=> Covers(f))
    BY <1>1, <1>2, <1>4, RowsMeanTheSame DEF CanWrite, Covers
  <2>2. CASE ledger = None
    <3>1. backups' = backups /\ backups # <<>> /\ Covers(Head(backups))
      BY <1>2, <1>7, <2>1, <2>2, MergedIsNoGap DEF OnDisk
    <3> QED BY <1>4, <2>1, <2>2, <3>1 DEF OnDisk
  <2>3. CASE ledger # None
    <3>1. Covers(ledger) /\ (backups # <<>> /\ ledger # Content(Merged) => Covers(Head(backups)))
      BY <1>7, <2>1, <2>3 DEF OnDisk
    <3> QED BY <1>3, <1>4, <2>1, <2>3, <3>1 DEF OnDisk
  <2> QED BY <2>2, <2>3
<1>8. OnDisk => OnDisk'
  BY <1>1, <1>7, RowsMeanTheSame DEF OnDisk
<1> QED BY <1>1, <1>2, <1>5, <1>6, <1>8 DEF FilesInv
\* The copy becomes the ledger.
LEMMA PromoteFiles ==
  ASSUME FilesInv, PromoteLedger
  PROVE  FilesInv' /\ (OnDisk => OnDisk')
<1>1. StoreInv' /\ UNCHANGED rows /\ helper \in HelperRow /\ helper # None
  BY FilesKeep DEF FilesInv, StoreInv, TypeOK, PromoteLedger
<1>2. /\ helper.stage = "moved" /\ UNCHANGED <<backups, snapshot, deaths, publishes>>
      /\ ledger' = snapshot[helper.reducer] /\ helper' = [helper EXCEPT !.stage = "promoted"]
  BY DEF PromoteLedger
<1>3. /\ helper' \in HelperRow /\ helper' # None /\ helper'.stage = "promoted"
      /\ helper'.reducer = helper.reducer /\ helper'.old = helper.old
  BY <1>1, <1>2, RowsAssumption DEF HelperRow
<1>4. CopiesHold'
  BY <1>1, <1>2, RowsMeanTheSame DEF FilesInv, CopiesHold
<1>5. HelperFiles'
  BY <1>1, <1>2, <1>3 DEF FilesInv, HelperFiles
<1>6. OnDisk => OnDisk'
  BY <1>1, <1>2, <1>3, RowsMeanTheSame DEF OnDisk, Covers, CanWrite
<1> QED BY <1>1, <1>2, <1>4, <1>5, <1>6 DEF FilesInv

\* The backup of a publication that is committed goes.
LEMMA FinishFiles ==
  ASSUME FilesInv, FinishStaged
  PROVE  FilesInv' /\ (OnDisk => OnDisk')
<1>1. StoreInv' /\ UNCHANGED rows
  BY FilesKeep DEF FilesInv
<1>2. /\ helper # None /\ helper.stage = "committed" /\ helper' = None
      /\ UNCHANGED <<ledger, snapshot, deaths, publishes>>
  BY DEF FinishStaged
<1>3. ledger = Content(Merged) /\ ledger # None
  BY <1>2, MergedIsNoGap DEF FilesInv, HelperFiles
<1>4. CopiesHold' /\ HelperFiles'
  BY <1>1, <1>2, RowsMeanTheSame DEF FilesInv, CopiesHold, HelperFiles
<1>5. OnDisk'
  BY <1>1, <1>2, <1>3, RowsMeanTheSame DEF OnDisk, Covers, CanWrite
<1> QED BY <1>1, <1>2, <1>4, <1>5 DEF FilesInv

\* The old ledger, which was the youngest backup, is put back.
LEMMA RollbackFiles ==
  ASSUME FilesInv, RollbackPublication
  PROVE  FilesInv' /\ (OnDisk => OnDisk')
<1>1. StoreInv' /\ UNCHANGED rows
  BY FilesKeep DEF FilesInv
<1>2. /\ helper # None /\ helper.stage # "committed" /\ helper' = None
      /\ UNCHANGED <<snapshot, deaths, publishes>> /\ ledger' = helper.old
      /\ backups' = IF helper.old = None THEN backups ELSE Tail(backups)
  BY DEF RollbackPublication
<1>3. CopiesHold' /\ HelperFiles'
  BY <1>1, <1>2, RowsMeanTheSame DEF FilesInv, CopiesHold, HelperFiles
<1>4. helper.old # None => Head(backups) = helper.old
  BY <1>2 DEF FilesInv, HelperFiles
<1>5. ASSUME OnDisk, Merged # {} PROVE OnDisk'
  <2>1. ~CanWrite /\ CanWrite' /\ Content(Merged)' = Content(Merged)
        /\ (\A f : Covers(f)' <=> Covers(f))
    BY <1>1, <1>2, RowsMeanTheSame DEF CanWrite, Covers
  <2>2. backups # <<>> /\ Covers(Head(backups))
        /\ (helper.old \notin {None, Content(Merged)} /\ Tail(backups) # <<>> =>
              Covers(Head(Tail(backups))))
    BY <1>5, <2>1 DEF OnDisk
  <2>3. CASE helper.old = None
    BY <1>2, <2>1, <2>2, <2>3 DEF OnDisk
  <2>4. CASE helper.old # None
    BY <1>2, <1>4, <2>1, <2>2, <2>4 DEF OnDisk
  <2> QED BY <2>3, <2>4
<1>6. OnDisk => OnDisk'
  BY <1>1, <1>5, RowsMeanTheSame DEF OnDisk
<1> QED BY <1>1, <1>2, <1>3, <1>6 DEF FilesInv

\* A helper dies wherever it is.
LEMMA DeathFiles ==
  ASSUME FilesInv, HelperDies
  PROVE  FilesInv' /\ (OnDisk => OnDisk')
<1>1. StoreInv' /\ UNCHANGED rows
  BY FilesKeep DEF FilesInv
<1>2. /\ helper # None /\ helper' = None /\ deaths' = deaths + 1
      /\ UNCHANGED <<ledger, backups, snapshot, publishes>>
  BY DEF HelperDies, files
<1>3. CopiesHold' /\ HelperFiles' /\ deaths' \in Nat
  BY <1>1, <1>2, RowsMeanTheSame DEF FilesInv, CopiesHold, HelperFiles
<1>4. helper.stage = "promoted" => Covers(ledger)
  <2> SUFFICES ASSUME helper.stage = "promoted" PROVE Covers(ledger)
    OBVIOUS
  <2>1. PICK r \in Reducers : r = helper.reducer
    BY <1>2 DEF FilesInv, StoreInv, TypeOK, HelperRow
  <2>2. HasStatus(r, ActiveStatus) /\ ledger = snapshot[r] /\ snapshot[r] # None
    BY <1>2, <2>1 DEF FilesInv, StoreInv, HelperHolds, HelperFiles
  <2>3. ledger = Content(Merged \cup InputsOf(r)) /\ ledger # None
    BY <2>2 DEF FilesInv, CopiesHold
  <2> QED BY <2>3 DEF Covers, Content
<1>5. ASSUME OnDisk, Merged # {} PROVE OnDisk'
  <2>1. CanWrite' /\ Content(Merged)' = Content(Merged) /\ (\A f : Covers(f)' <=> Covers(f))
    BY <1>1, <1>2, RowsMeanTheSame DEF CanWrite, Covers
  <2>2. CASE CanWrite
    BY <1>2, <1>5, <2>1, <2>2 DEF OnDisk
  <2>3. CASE ~CanWrite
    <3>1. backups # <<>> /\ Covers(Head(backups))
      BY <1>5, <2>3 DEF OnDisk
    <3>2. helper.stage \in {"moved", "promoted"}
      BY <1>2, <2>3 DEF FilesInv, StoreInv, TypeOK, HelperRow, CanWrite
    <3>3. ledger # None => Covers(ledger)
      BY <1>2, <1>4, <3>2 DEF FilesInv, HelperFiles
    <3> QED BY <1>2, <2>1, <3>1, <3>3 DEF OnDisk
  <2> QED BY <2>2, <2>3
<1>6. OnDisk => OnDisk'
  BY <1>1, <1>5, RowsMeanTheSame DEF OnDisk
<1> QED BY <1>1, <1>3, <1>6 DEF FilesInv

\* What is committed is what the ledger holds.
LEMMA CommitFiles ==
  ASSUME FilesInv,
         \/ \E c \in Coordinators, r \in Reducers : CommitDedup(c, r)
         \/ CommitPublication
  PROVE  /\ FilesInv' /\ publishes' = publishes
         /\ publishes => OnDisk'
<1>1. StoreInv'
  BY CommitKeeps DEF FilesInv
<1>2. ASSUME NEW r \in Reducers, HasStatus(r, ActiveStatus), MergeInputs(r), UNCHANGED snapshot,
             \A d \in InputsOf(r) : InMerge(d, "merging")
      PROVE  CopiesHold' /\ Merged' = Merged \cup InputsOf(r)
  <2>1. TypeOK /\ inputs \in [Reducers -> Seq(Discoveries)] /\ OneActive
    BY DEF FilesInv, StoreInv, TypeOK
  <2>2. InputsOf(r) \subseteq Discoveries
    BY <2>1 DEF InputsOf, ToSet
  <2>3. /\ worker' = [w \in Worker |->
                  IF w \in InputsOf(r) THEN [worker[w] EXCEPT !.merge = "merged"]
                  ELSE IF w = r THEN [worker[w] EXCEPT !.status = "succeeded", !.error = "none"]
                  ELSE worker[w]]
        /\ inputs' = inputs
    BY <1>2 DEF MergeInputs
  <2>4. \A s \in Reducers : s # r => worker'[s] = worker[s]
    BY <2>2, <2>3, Kinds
  <2>5. Exists(r)' /\ ~HasStatus(r, ActiveStatus)'
    <3>1. PICK row \in WorkerRow : row = worker[r]
      BY <1>2, <2>1, Kinds, RowIs DEF HasStatus
    <3>2. PICK new : new = [row EXCEPT !.status = "succeeded", !.error = "none"]
      OBVIOUS
    <3>3. new \in WorkerRow /\ new.status = "succeeded"
      BY <3>2 DEF WorkerRow, SettledStatus
    <3>4. worker'[r] = new
      BY <2>2, <2>3, <3>1, <3>2, Kinds
    <3> QED BY <3>3, <3>4, RowsAssumption DEF HasStatus, Exists, ActiveStatus
  <2>6. CopiesHold'
    <3>1. \A s \in Reducers : ~HasStatus(s, ActiveStatus)'
      BY <1>2, <2>1, <2>4, <2>5 DEF OneActive, HasStatus, Exists
    <3>2. \A s \in Reducers : ~Exists(s)' => ~Exists(s)
      BY <2>4, <2>5 DEF Exists
    <3> QED BY <1>2, <3>1, <3>2 DEF FilesInv, CopiesHold
  <2>7. Merged' = Merged \cup InputsOf(r)
    <3>1. ASSUME NEW d \in Discoveries
          PROVE  InMerge(d, "merged")' <=> (InMerge(d, "merged") \/ d \in InputsOf(r))
      <4>1. d \in Worker /\ d # r
        BY Kinds
      <4>2. CASE d \in InputsOf(r)
        <5>1. PICK row \in WorkerRow : row = worker[d]
          BY <1>2, <2>1, <4>1, <4>2, RowIs DEF InMerge
        <5>2. PICK new : new = [row EXCEPT !.merge = "merged"]
          OBVIOUS
        <5>3. new \in WorkerRow /\ new.merge = "merged"
          BY <5>2 DEF WorkerRow
        <5>4. worker'[d] = new
          BY <2>3, <4>1, <4>2, <5>1, <5>2
        <5> QED BY <4>2, <5>3, <5>4, RowsAssumption DEF InMerge, Exists
      <4>3. CASE d \notin InputsOf(r)
        BY <2>3, <4>1, <4>3 DEF InMerge, Exists
      <4> QED BY <4>2, <4>3
    <3> QED BY <2>2, <3>1 DEF Merged
  <2> QED BY <2>6, <2>7
<1>3. CASE \E c \in Coordinators, r \in Reducers : CommitDedup(c, r)
  <2>1. PICK c \in Coordinators, r \in Reducers : CommitDedup(c, r)
    BY <1>3
  <2>2. /\ HasStatus(r, ActiveStatus) /\ MergeInputs(r) /\ UNCHANGED files
        /\ helper' = None /\ ~publishes /\ UNCHANGED <<deaths, publishes>>
        /\ \A d \in InputsOf(r) : InMerge(d, "merging")
    BY <2>1 DEF CommitDedup, CanLock, CanCommit
  <2> QED BY <1>1, <1>2, <2>2 DEF files, FilesInv, HelperFiles
<1>4. CASE CommitPublication
  <2>1. /\ helper # None /\ helper \in HelperRow /\ helper.stage = "promoted"
        /\ MergeInputs(helper.reducer) /\ helper' = [helper EXCEPT !.stage = "committed"]
        /\ UNCHANGED files /\ UNCHANGED <<deaths, publishes>>
    BY <1>4 DEF CommitPublication, FilesInv, StoreInv, TypeOK
  <2>2. /\ helper' \in HelperRow /\ helper' # None /\ helper'.stage = "committed"
        /\ helper'.reducer = helper.reducer /\ helper'.old = helper.old
    BY <2>1, RowsAssumption DEF HelperRow
  <2>3. PICK r \in Reducers : r = helper.reducer
    BY <2>1 DEF HelperRow
  <2>4. /\ HasStatus(r, ActiveStatus) /\ \A d \in InputsOf(r) : InMerge(d, "merging")
        /\ ledger = snapshot[r] /\ snapshot[r] # None
    BY <2>1, <2>3 DEF FilesInv, StoreInv, HelperHolds, HelperFiles
  <2>5. CopiesHold' /\ Merged' = Merged \cup InputsOf(r)
    BY <1>2, <2>1, <2>3, <2>4 DEF files
  <2>6. ledger = Content(Merged \cup InputsOf(r)) /\ ledger # None
    BY <2>4 DEF FilesInv, CopiesHold
  <2>7. ledger' = Content(Merged)' /\ ledger' # None
    BY <2>1, <2>5, <2>6 DEF files, Content
  <2>8. HelperFiles'
    BY <2>1, <2>2, <2>7 DEF files, FilesInv, HelperFiles
  <2>9. OnDisk'
    BY <2>2, <2>7 DEF OnDisk, Covers, CanWrite
  <2> QED BY <1>1, <2>1, <2>5, <2>8, <2>9 DEF FilesInv
<1> QED BY <1>3, <1>4
\* Every step keeps the invariant of the files, and what was merged stays on disk
\* unless a take-over meets a reducer that it cannot tell apart.
LEMMA FilesStep ==
  ASSUME FilesInv, [Next]_vars
  PROVE  /\ FilesInv' /\ publishes' = publishes
         /\ publishes /\ OnDisk /\ (Recovering => ToldApart) => OnDisk'
<1>1. StoreInv' /\ TypeOK
  BY StoreStep DEF FilesInv, StoreInv
<1>2. ASSUME QuietFiles, FilesInv'
      PROVE  /\ FilesInv' /\ publishes' = publishes
             /\ OnDisk /\ (Recovering => ToldApart) => OnDisk'
  BY <1>1, <1>2, QuietOnDisk DEF QuietFiles
<1>3. CASE \/ \E c \in Coordinators : Lease(c)
           \/ \E c \in Coordinators, w \in Discoveries \cup Setups, s \in ActiveStatus :
                CreateWorker(c, w, s)
           \/ \E c \in Coordinators, w \in Worker, s \in {"running"} \cup SettledStatus,
                 e \in {"none", "message", "shutdown"} : UpdateWorker(c, w, s, e)
           \/ \E c \in Coordinators, reason \in {"saturated", "capped"},
                 standard, partial \in BOOLEAN : FinishDeepScan(c, reason, standard, partial)
           \/ \E c \in Coordinators, s \in {"failed", "interrupted"} : FailDeepScan(c, s)
           \/ Outside \/ UNCHANGED vars
  BY <1>1, <1>2, <1>3, OthersAreQuiet, QuietKeeps
<1>4. CASE \E c \in Coordinators, r \in Reducers, n \in 1..Cardinality(Discoveries) :
             ClaimDedup(c, r, n)
  <2>1. Cardinality(Discoveries) \in Nat
    BY FoundAssumption, FS_CardinalityType
  <2>2. PICK c \in Coordinators, r \in Reducers, n \in 1..Cardinality(Discoveries) :
          ClaimDedup(c, r, n)
    BY <1>4
  <2>3. n \in Nat \ {0}
    BY <2>1
  <2> QED BY <1>2, <2>2, <2>3, ClaimDedupFiles
<1>5. CASE \/ \E c \in Coordinators, r \in Reducers : CommitDedup(c, r)
           \/ CommitPublication
  BY <1>5, CommitFiles
<1>6. CASE \/ \E c \in Coordinators, r \in Reducers : BeginPublication(c, r)
           \/ \E r \in Reducers : WriteSnapshot(r)
           \/ PromoteLedger \/ FinishStaged \/ RollbackPublication \/ HelperDies
  <2>1. FilesInv' /\ (OnDisk => OnDisk')
    BY <1>6, BeginFiles, SnapshotFiles, PromoteFiles, FinishFiles, RollbackFiles, DeathFiles
  <2>2. publishes' = publishes
    BY <1>6 DEF BeginPublication, WriteSnapshot, PromoteLedger, FinishStaged,
                RollbackPublication, HelperDies
  <2> QED BY <2>1, <2>2
<1>7. ASSUME NEW c \in Coordinators, Coordinator(c)
      PROVE  /\ FilesInv' /\ publishes' = publishes
             /\ publishes /\ OnDisk /\ (Recovering => ToldApart) => OnDisk'
  BY <1>3, <1>4, <1>5, <1>6, <1>7 DEF Coordinator
<1>8. CASE Publication
  BY <1>5, <1>6, <1>8 DEF Publication
<1> QED BY <1>3, <1>7, <1>8 DEF Next

LEMMA InitFiles == Init => FilesInv /\ OnDisk
<1> SUFFICES ASSUME Init PROVE FilesInv /\ OnDisk
  OBVIOUS
<1>1. \A w \in Worker : ~Exists(w)
  BY DEF Init, Exists
<1>2. Merged = {} /\ CopiesHold
  BY <1>1, Kinds DEF Merged, InMerge, Init, CopiesHold, HasStatus
<1> QED BY <1>2, InitStore DEF Init, FilesInv, HelperFiles, OnDisk

\* Wherever a publication or a take-over is cut, what was merged is still on disk and
\* still where the next recovery looks for it, as long as a take-over can tell the
\* publication it meets from an unfinished one (recover_expired_coordinator and the
\* publication in commit-deep-scan-dedup).
THEOREM KeepsWhatIsMerged == Spec => LedgerKeepsMerged
<1>1. Init => FilesInv
  BY InitFiles
<1>2. FilesInv /\ [Next]_vars =>
        /\ FilesInv'
        /\ [publishes /\ OnDisk /\ (Recovering => ToldApart) => OnDisk' /\ MergedOnDisk']_vars
  <2> SUFFICES ASSUME FilesInv, [Next]_vars
               PROVE  FilesInv' /\ (publishes /\ OnDisk /\ (Recovering => ToldApart)
                                      => OnDisk' /\ MergedOnDisk')
    OBVIOUS
  <2>1. FilesInv' /\ (publishes /\ OnDisk /\ (Recovering => ToldApart) => OnDisk')
    BY FilesStep
  <2>2. TypeOK' /\ OnDisk' => MergedOnDisk'
    BY OnDiskIsMergedOnDisk, PTL
  <2> QED BY <2>1, <2>2 DEF FilesInv, StoreInv
<1> QED BY <1>1, <1>2, PTL DEF Spec, LedgerKeepsMerged

\* A store whose take-overs can always tell never loses what it merged.
THEOREM NothingMergedIsLost ==
  Spec /\ [][Recovering => ToldApart]_vars => [](publishes => MergedOnDisk)
<1> DEFINE Kept == FilesInv /\ (publishes => OnDisk)
<1>1. Init => Kept
  BY InitFiles
<1>2. Kept /\ [Next]_vars /\ [Recovering => ToldApart]_vars => Kept'
  <2> SUFFICES ASSUME Kept, [Next]_vars, [Recovering => ToldApart]_vars PROVE Kept'
    OBVIOUS
  <2>1. CASE Recovering => ToldApart
    BY <2>1, FilesStep
  <2>2. CASE UNCHANGED vars
    <3>1. ~Recovering
      BY <2>2 DEF vars, rows, Recovering
    <3> QED BY <3>1, FilesStep
  <2> QED BY <2>1, <2>2
<1>3. Kept => (publishes => MergedOnDisk)
  BY OnDiskIsMergedOnDisk DEF FilesInv, StoreInv
<1> QED BY <1>1, <1>2, <1>3, PTL DEF Spec

=============================================================================
