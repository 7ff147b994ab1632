----------------------------- MODULE MCComponents -----------------------------
(***************************************************************************)
(* The smaller components, which share no state: in a behaviour one of     *)
(* them is at work, and the others stay as one of their initial states.    *)
(*                                                                         *)
(* Graphs: every graph of three phases with dependencies listed up to      *)
(* twice, one of which may have an unknown dependency, and one of which    *)
(* expects what every phase offers.                                        *)
(*                                                                         *)
(* Databases: those of earlier builds, as the migration tests set them up, *)
(* at every length of history.                                             *)
(*                                                                         *)
(* Ranking: five files in three shards for two workers, of which some      *)
(* disappear, with answers that miss, repeat and reorder files.            *)
(*                                                                         *)
(* Workflow: two scans, two of every value, scan and dedupe.               *)
(*                                                                         *)
(* Publication: two callers, two issues, two findings of a scan.           *)
(*                                                                         *)
(* Comparison: two findings in each of two scans, matched in every way.    *)
(*                                                                         *)
(* Budget: two candidates with every outcome of validation and attack path,*)
(* one of which a draft may deal with, in every way.                       *)
(***************************************************************************)
EXTENDS WorkflowGraph, Migrations, RankPool, FindingWorkflow, Publication, ScanComparison,
        BudgetDraft

CONSTANTS a, b, c, stray, finding

VARIABLE active  \* the component at work

Phases == {a, b, c}

Declared == [p \in Phases |-> IF p = a THEN 1 ELSE IF p = b THEN 2 ELSE 3]

Inherited == [p \in Phases |-> IF p = c THEN finding ELSE None]

\* What p may list.
ListsOf(p) ==
  {u \in [Phases \cup {stray} -> 0..2] :
     u[p] <= 1 /\ u[stray] <= IF p = a THEN 1 ELSE 0}

Lists ==
  {[p \in Phases |-> IF p = a THEN u ELSE IF p = b THEN v ELSE w] :
     u \in ListsOf(a), v \in ListsOf(b), w \in ListsOf(c)}

BoundTo ==
  {s \in [Phases -> Phases \cup {None}] : s[a] = None /\ s[b] = None}

Outputs == [p \in Phases |-> finding]

-----------------------------------------------------------------------------

Relabel(db, entries) == [db EXCEPT !.names = entries @@ @]

\* A database whose builds recorded 1..n under the canonical names.
Canonical(n) ==
  [names |-> [v \in Versions |-> IF v <= n THEN v ELSE NoName],
   has |-> 1..n, owner |-> n >= 11, profile |-> FALSE, fine |-> TRUE]

Without(db, features) == [db EXCEPT !.has = @ \ features]

WithoutEntries(db, versions) == Relabel(db, [v \in versions |-> NoName])

WithProfile(db) == [db EXCEPT !.profile = TRUE]

\* The numbers other builds used for something else, after which the
\* canonical migrations went on.
Shadowed ==
  LET At(v, names, lost) ==
        {Without(Relabel(Canonical(n), v :> name), lost) :
           n \in v..Latest, name \in names}
  IN At(18, {17}, {}) \cup At(19, {GuidanceContext, LifecycleRequests}, {19})
       \cup At(20, {RetainRequests, ThreatReceipts}, {20})
       \cup At(21, {ProgressProjection, ManifestReceipts}, {21})
       \cup At(22, {DynamicProfiles}, {22}) \cup At(2, {6, Unheard}, {2})
       \cup At(13, {Unheard}, {13}) \cup At(26, {Unheard}, {26})
       \cup {WithoutEntries(db, {6}) : db \in At(2, {6}, {2})}

\* Recorded, but its effect is gone, wholly or in part.
Lossy ==
  UNION {{Without(Canonical(n), {v}) : v \in Repaired \cap 1..n} : n \in Versions}
    \cup {[Canonical(n) EXCEPT !.owner = FALSE] : n \in 11..Latest}
    \cup {Without(Canonical(n), {11} \cup DeepAlterations) : n \in 11..Latest}
    \cup {Without(Canonical(n), {27}) : n \in 27..Latest}

\* The numbering that began with finding management.
Management ==
  {Without(Relabel(Canonical(n), [v \in 2..(IF n < 5 THEN n ELSE 5) |->
                     IF v = 5 THEN SnapshotDigests ELSE v + 1]), {2}) :
     n \in 5..Latest}

\* Entries released under a number that now means something else.
Renumbered ==
  LET eleven == Canonical(11)
      progress == Ensure(Relabel(eleven, 12 :> 20), {20})
      warned(n) == Ensure(Relabel(Canonical(n), 25 :> 26), {26})
      mirrored == Ensure(Relabel(Canonical(28), 29 :> 31 @@ 30 :> 32), {31, 32})
  IN {progress, Ensure(Relabel(progress, 13 :> 21), {21}), warned(24), mirrored}

\* The builds with execution profiles, which came before deep scans.
Profiled ==
  LET ten == WithProfile(Relabel(Canonical(10), 11 :> ScanProfiles))
      warned(db) == Ensure(Relabel(db, 25 :> 26), {26})
      Rest(v, name) == WithProfile(Without(Relabel(Canonical(24), v :> name), {v}))
  IN {ten, warned(ten), Relabel(ten, 12 :> DynamicProfiles),
      warned(Relabel(ten, 12 :> DynamicProfiles)),
      Ensure(Relabel(ten, 12 :> 12), {12}), Ensure(Relabel(ten, 12 :> 20), {20}),
      Rest(12, ScanProfiles), Rest(12, DynamicProfiles), Rest(22, DynamicProfiles),
      Rest(25, DynamicProfiles),
      WithProfile(Ensure(Relabel(Canonical(25), 26 :> 26), {26}))}

Earlier ==
  {Canonical(n) : n \in 0..Latest} \cup Shadowed \cup Lossy \cup Management
    \cup Renumbered \cup Profiled

Unsupported ==
  {WithProfile(Ensure(Relabel(Canonical(10), 11 :> Unheard @@ 12 :> 12), {12})),
   Relabel(Canonical(28), 29 :> 31 @@ 30 :> 30),
   Relabel(Canonical(28), 29 :> 31 @@ 30 :> 32 @@ 31 :> 31),
   Relabel(Canonical(24), 12 :> 20),
   Relabel(Canonical(5), 2 :> 3 @@ 3 :> 4 @@ 4 :> Unheard),
   Relabel(Canonical(10), 11 :> ScanProfiles)}

-----------------------------------------------------------------------------

Listings == {<<"p", "q", "r", "s", "t">>, <<"p", "r", "s">>}

Marked(file) == [file |-> file, include |-> TRUE, score |-> 1]

Dropped(file) == [file |-> file, include |-> FALSE, score |-> 2]

Texts ==
  {<<Marked("p"), Marked("q")>>, <<Dropped("q"), Marked("p")>>, <<Marked("p"), Marked("p")>>,
   <<Marked("r"), Marked("s")>>, <<Dropped("s"), Dropped("r")>>, <<Marked("s")>>,
   <<Marked("t")>>, <<Marked("p"), Marked("r")>>}

\* Plans that name the right workers, leave shards out, or deal them otherwise.
Rewritten == {<<{1}, {2}>>, <<{1, 2, 3}>>, <<{1, 2}, {3}>>}

ScanOf == "o1" :> "x" @@ "o2" :> "x"

-----------------------------------------------------------------------------

Candidate(id) ==
  [id : {id}, validation : {"none", "deferred", "not_applicable", "suppressed"},
   attack : {"none", "deferred", "ignore"}, inScope : {TRUE}]

Outside(row) == [row EXCEPT !.inScope = FALSE]

CandidateLists ==
  LET one == CHOOSE row \in Candidate("k1") : TRUE
  IN {<<row, other>> : row \in Candidate("k1"), other \in Candidate("k2")}
       \cup {<<>>, <<one, one>>, <<Outside(one)>>}

LeftDrafts ==
  [findings : SUBSET {"k1"},
   coverage : [deferred : {<<>>, <<[id |-> "k1", cost |-> FALSE]>>},
               surfaces : {<<>>, "k1" :> "rejected", "k1" :> "needs_follow_up"}]]

-----------------------------------------------------------------------------

\* The components that stand by while another is at work.
GraphAtRest ==
  /\ uses = [p \in Phase |-> [q \in Phase \cup {Stray} |-> 0]]
  /\ source = [p \in Phase |-> None]
  /\ Init

DatabaseAtRest == found = Canonical(0) /\ database = found /\ opened = "no"

RankAtRest == input = <<"p", "r", "s">> /\ RankInit

ComparisonAtRest == complete = TRUE /\ covered = {} /\ ComparisonInit

BudgetAtRest ==
  /\ ledger = <<>>
  /\ draft = [findings |-> Missing, coverage |-> Missing, manifest |-> Missing]
  /\ BudgetInit

ComponentsInit ==
  /\ active \in {"graph", "database", "ranking", "workflow", "publication", "comparison",
                "budget"}
  /\ IF active = "graph" THEN Init ELSE GraphAtRest
  /\ IF active = "database" THEN MigrationInit ELSE DatabaseAtRest
  /\ IF active = "ranking" THEN RankInit ELSE RankAtRest
  /\ IF active = "comparison" THEN ComparisonInit ELSE ComparisonAtRest
  /\ IF active = "budget" THEN BudgetInit ELSE BudgetAtRest
  /\ FlowInit
  /\ PublicationInit

ComponentsNext ==
  /\ UNCHANGED active
  /\ \/ /\ active = "graph" /\ Next
        /\ UNCHANGED <<migrationVars, rankVars, flowVars, publicationVars,
                       comparisonVars, budgetVars>>
     \/ /\ active = "database" /\ MigrationNext
        /\ UNCHANGED <<vars, rankVars, flowVars, publicationVars,
                       comparisonVars, budgetVars>>
     \/ /\ active = "ranking" /\ RankNext
        /\ UNCHANGED <<vars, migrationVars, flowVars, publicationVars,
                       comparisonVars, budgetVars>>
     \/ /\ active = "workflow" /\ FlowNext
        /\ UNCHANGED <<vars, migrationVars, rankVars, publicationVars,
                       comparisonVars, budgetVars>>
     \/ /\ active = "publication" /\ PublicationNext
        /\ UNCHANGED <<vars, migrationVars, rankVars, flowVars,
                       comparisonVars, budgetVars>>
     \/ /\ active = "comparison" /\ ComparisonNext
        /\ UNCHANGED <<vars, migrationVars, rankVars, flowVars,
                       publicationVars, budgetVars>>
     \/ /\ active = "budget" /\ BudgetNext
        /\ UNCHANGED <<vars, migrationVars, rankVars, flowVars,
                       publicationVars, comparisonVars>>

ComponentsSpec ==
  ComponentsInit /\ [][ComponentsNext]_<<active, vars, migrationVars, rankVars, flowVars,
                                         publicationVars, comparisonVars, budgetVars>>

=============================================================================
