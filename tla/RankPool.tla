------------------------------- MODULE RankPool -------------------------------
(***************************************************************************)
(* Ranking the files of a target with a pool of workers                    *)
(* (scripts/generate_rank_input.py 751-1170): the input is cut into        *)
(* shards, a plan deals the shards to the workers, each worker writes an   *)
(* answer for each of its shards and asks for a receipt, and the answers   *)
(* are merged into one ranking, whose best part is reviewed in depth.      *)
(* Every command is a process of its own that reads the files again, so    *)
(* the target may be listed anew, and an answer written again, between any *)
(* two of them.  A file is its path and its area, which are compared alike.*)
(***************************************************************************)
EXTENDS Integers, Sequences, FiniteSets, SequencesExt

CONSTANTS
  Inputs,     \* the listings of the target: sequences of distinct files
  Answers,    \* what a worker may write: sequences of [file, include, score]
  Plans,      \* plans the agent that runs the workers may write of its own
  MaxRows,    \* --max-rows
  Slots,      \* --usable-worker-slots
  WorkerCap,  \* RANK_POOL_WORKER_CAP
  TopPercent  \* --top-percent

\* The commands refuse a listing with a path twice (require_unique_paths).
ASSUME PoolAssumption ==
  /\ {MaxRows, Slots, WorkerCap, TopPercent} \subseteq Nat \ {0}
  /\ \A listing \in Inputs :
       /\ listing \in Seq(ToSet(listing))
       /\ \A i, j \in DOMAIN listing : listing[i] = listing[j] => i = j
  /\ \A rows \in Answers : rows \in Seq(ToSet(rows))
  /\ Plans \subseteq Seq(SUBSET Nat)

VARIABLES
  input,    \* rank_input.jsonl
  shards,   \* rank-shard-*.input.jsonl, <<>> before they are made
  plan,     \* the shards of each worker, <<>> before it is made
  answers,  \* rank-shard-*.output.jsonl by shard
  merged,   \* the last ranking and the input it ranks
  selected  \* the files to review in depth

rankVars == <<input, shards, plan, answers, merged, selected>>

Files(rows) == {rows[i].file : i \in DOMAIN rows}

UniqueFiles(rows) == Cardinality(Files(rows)) = Len(rows)

-----------------------------------------------------------------------------

RankInit ==
  /\ input \in Inputs
  /\ shards = <<>> /\ plan = <<>> /\ answers = <<>>
  /\ merged = [of |-> <<>>, rows |-> <<>>] /\ selected = {}

\* The target is listed again, after its shards were made.
ListAgain ==
  /\ input' \in Inputs
  /\ UNCHANGED <<shards, plan, answers, merged, selected>>

\* make_rank_shards; shards that exist are never made again.
MakeShards ==
  /\ shards = <<>> /\ answers = <<>>
  /\ shards' = [n \in 1..((Len(input) + MaxRows - 1) \div MaxRows) |->
                  SubSeq(input, (n - 1) * MaxRows + 1,
                         IF n * MaxRows < Len(input) THEN n * MaxRows ELSE Len(input))]
  /\ UNCHANGED <<input, plan, answers, merged, selected>>

\* The shards of one worker of several: every count-th, from its own on.
Dealt(worker, count) ==
  {n \in DOMAIN shards : n >= worker /\ (n - worker) % count = 0}

Smallest(S) == CHOOSE n \in S : \A other \in S : n <= other

\* make_rank_pool_plan
MakePlan ==
  LET count == Smallest({Len(shards), Slots, WorkerCap})
  IN /\ plan' = [worker \in 1..count |-> Dealt(worker, count)]
     /\ UNCHANGED <<input, shards, answers, merged, selected>>

\* The plan is a file, which the agent that runs the workers may rewrite.
RewritePlan(other) ==
  /\ plan # <<>>
  /\ plan' = other
  /\ UNCHANGED <<input, shards, answers, merged, selected>>

\* Mutant: a plan may leave shards to nobody.
ValidPlanOfDistinct ==
  /\ Len(plan) \in 1..Len(shards) /\ Len(plan) <= WorkerCap
  /\ \A worker \in DOMAIN plan : plan[worker] # {}
  /\ \A v, worker \in DOMAIN plan : v # worker => plan[v] \cap plan[worker] = {}

\* What validate_rank_pool_plan accepts: every shard with exactly one worker,
\* and with the one that the strategy names.
ValidPlan ==
  /\ Len(shards) > 0 => Len(plan) > 0
  /\ Len(plan) <= Len(shards) /\ Len(plan) <= WorkerCap
  /\ UNION ToSet(plan) = DOMAIN shards
  /\ \A worker \in DOMAIN plan :
       plan[worker] # {} /\ plan[worker] = Dealt(worker, Len(plan))

\* A worker writes, or writes again, the answer to a shard of its plan.
Answer(worker, n, rows) ==
  /\ n \in plan[worker]
  /\ answers' = [m \in DOMAIN answers \cup {n} |-> IF m = n THEN rows ELSE answers[m]]
  /\ UNCHANGED <<input, shards, plan, merged, selected>>

\* validate_rank_shard
ValidShard(n) ==
  /\ n \in DOMAIN answers
  /\ UniqueFiles(answers[n])
  /\ Files(answers[n]) = ToSet(shards[n])

\* What a worker's receipt says (validate_rank_worker_command).
ValidWorker(worker) == ValidPlan /\ \A n \in plan[worker] : ValidShard(n)

\* validate_rank_pool_command
ValidPool ==
  /\ ValidPlan
  /\ DOMAIN answers = DOMAIN shards
  /\ \A n \in DOMAIN shards : ValidShard(n)

\* The checks of merge_rank_outputs, which reads neither plan nor receipts.
Mergeable ==
  /\ DOMAIN answers = DOMAIN shards
  /\ \A n \in DOMAIN shards : ValidShard(n)
  /\ \A m, n \in DOMAIN shards : m # n => Files(answers[m]) \cap Files(answers[n]) = {}
  /\ FlattenSeq(shards) = input

Answered == FlattenSeq([n \in DOMAIN shards |-> answers[n]])

Ranking ==
  [i \in DOMAIN input |-> CHOOSE row \in ToSet(Answered) : row.file = input[i]]

\* merge_rank_outputs: the answered rows, in the order of the input.
Merge ==
  /\ Mergeable
  /\ merged' = [of |-> input, rows |-> Ranking]
  /\ UNCHANGED <<input, shards, plan, answers, selected>>

\* The rows of the ranking that selection orders: the included ones, or all.
Candidates ==
  LET included == {i \in DOMAIN merged.rows : merged.rows[i].include}
  IN IF included # {} THEN included ELSE DOMAIN merged.rows

\* Before i in the order of select_deep_review_input, in which rows of one
\* score keep the order of their paths.
Ahead(i) ==
  {j \in Candidates : \/ merged.rows[j].score > merged.rows[i].score
                      \/ merged.rows[j].score = merged.rows[i].score /\ j < i}

\* TopPercent of n rows as the floating-point product comes out: a share that is
\* a whole number may be computed as the next one below.
Shares(n) ==
  LET share == (n * TopPercent) \div 100
  IN {share} \cup (IF (n * TopPercent) % 100 = 0 THEN {share - 1} ELSE {})

\* select_deep_review_input
Select ==
  /\ merged.rows # <<>>
  /\ \E share \in Shares(Cardinality(Candidates)) :
       LET keep == IF share < 1 THEN 1 ELSE share
       IN selected' = {merged.rows[i].file : i \in {j \in Candidates : Cardinality(Ahead(j)) < keep}}
  /\ UNCHANGED <<input, shards, plan, answers, merged>>

RankNext ==
  \/ ListAgain \/ MakeShards \/ MakePlan
  \/ \E other \in Plans : RewritePlan(other)
  \/ \E worker \in DOMAIN plan, n \in DOMAIN shards, rows \in Answers : Answer(worker, n, rows)
  \/ Merge \/ Select

-----------------------------------------------------------------------------

\* The pool ranks every file.  When every worker of the plan holds a receipt for
\* what its shards' files say now, nothing is missing: the pool validates and,
\* unless the target was listed anew, the ranking can be merged.  No worker reads
\* another's shards, so this rests on how the plan deals them.  And a ranking
\* that is merged holds every file of its listing once, in the listing's order,
\* whatever the workers wrote (make_rank_pool_plan, validate_rank_pool_plan,
\* validate_rank_worker_command, merge_rank_outputs).
RankingIsExact ==
  /\ plan # <<>> /\ (\A worker \in DOMAIN plan : ValidWorker(worker)) =>
       ValidPool /\ (FlattenSeq(shards) = input => Mergeable)
  /\ [i \in DOMAIN merged.rows |-> merged.rows[i].file] = merged.of

=============================================================================
