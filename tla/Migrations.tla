------------------------------ MODULE Migrations ------------------------------
(***************************************************************************)
(* How the workbench opens a database (scripts/workbench_schema.py,        *)
(* apply_migrations): the bookkeeping left by earlier builds is rewritten  *)
(* into the canonical numbering, the migrations still missing are applied  *)
(* in order, and those recorded without their effect are repaired, all in  *)
(* one immediate transaction that a refusal, an SQL error or a death rolls *)
(* back.  A database is the names its schema_migrations table records and  *)
(* the schema it has; the name of canonical migration v is written v.      *)
(***************************************************************************)
EXTENDS Integers

CONSTANT Histories,  \* the databases earlier builds leave
         Foreign     \* those no build leaves, or that the code does not support

VARIABLES found,     \* the database as the process found it
          database,  \* the database now
          opened     \* "no", "yes", "refused"

migrationVars == <<found, database, opened>>

Latest == 42

Versions == 1..Latest

NoName == 0

\* Names that are not those of a canonical migration.
ScanProfiles == 101
DynamicProfiles == 102
SnapshotDigests == 103
GuidanceContext == 104
LifecycleRequests == 105
RetainRequests == 106
ThreatReceipts == 107
ProgressProjection == 108
ManifestReceipts == 109
Unheard == 110

\* The migrations that alter the tables of deep scans.
DeepAlterations == {27, 28, 32, 40, 41}

(***************************************************************************)
(* One transaction.  A database carries the field fine, FALSE once the     *)
(* transaction has met a refusal or an error.                              *)
(***************************************************************************)
Require(db, condition) == [db EXCEPT !.fine = @ /\ condition]

\* add_column_if_missing, and CREATE ... IF NOT EXISTS.
Ensure(db, features) == [db EXCEPT !.has = @ \cup features]

\* UPDATE schema_migrations SET version = new
Move(db, old, new) == [db EXCEPT !.names[old] = NoName, !.names[new] = db.names[old]]

Recorded(db, v) == db.names[v] # NoName

-----------------------------------------------------------------------------
(***************************************************************************)
(* The lineages of earlier builds.                                         *)
(***************************************************************************)

\* The mirror recorded at 29 and 30 what is now 31 and 32.
NormalizeMirror(db) ==
  LET mirrored == /\ db.names[29] = 31 /\ db.names[30] = 32
                  /\ ~Recorded(db, 31) /\ ~Recorded(db, 32)
  IN IF db.names[29] = 31 \/ db.names[30] = 32
     THEN Move(Move(Require(db, mirrored), 30, 32), 29, 31)
     ELSE db

\* A migration that was released under another number.
Renumber(db, old, new) ==
  IF db.names[old] = new
  THEN Move(Require(db, ~Recorded(db, new)), old, new)
  ELSE db

\* The columns of the execution profiles give way to the model settings.
NormalizeProfiles(before) ==
  LET db == IF before.names[25] = DynamicProfiles
            THEN [before EXCEPT !.names[25] = 25] ELSE before
      legacy == \/ db.names[11] = ScanProfiles
                \/ db.names[12] \in {ScanProfiles, DynamicProfiles}
      checked == Require(db, /\ db.names[11] \in {NoName, 11, ScanProfiles}
                             /\ db.names[12] \in {NoName, 12, ScanProfiles, DynamicProfiles}
                             /\ legacy => db.profile
                             /\ db.names[25] \in {NoName, 25})
      renamed == [Ensure(checked, {25}) EXCEPT !.profile = FALSE]
      Cleared(v, names) == IF renamed.names[v] \in names THEN NoName ELSE renamed.names[v]
  IN IF legacy \/ db.profile
     THEN [renamed EXCEPT !.names[11] = Cleared(11, {ScanProfiles}),
                          !.names[12] = Cleared(12, {ScanProfiles, DynamicProfiles}),
                          !.names[25] = 25]
     ELSE db

\* The numbers that another build used for something else.
Shadows ==
  {<<18, 17>>, <<19, GuidanceContext>>, <<19, LifecycleRequests>>, <<20, RetainRequests>>,
   <<20, ThreatReceipts>>, <<21, ProgressProjection>>, <<21, ManifestReceipts>>,
   <<22, DynamicProfiles>>}

\* What such a number stands for here is done, and the entry renamed.
Reclaim(db, v) ==
  IF <<v, db.names[v]>> \in Shadows THEN [Ensure(db, {v}) EXCEPT !.names[v] = v] ELSE db

\* The lineage that began with finding management, before preflight summaries.
NormalizeManagement(db) ==
  LET lineage == [v \in 2..5 |-> IF v = 5 THEN SnapshotDigests ELSE v + 1]
      At(v) == IF db.names[v] = lineage[v] THEN db.names[v] ELSE NoName
      checked == Require(db, \A v \in 2..5 : db.names[v] \in {NoName, lineage[v]})
  IN IF db.names[2] = 3
     THEN [Ensure(checked, {2}) EXCEPT !.names[5] = At(4), !.names[4] = At(3),
                                       !.names[3] = At(2), !.names[2] = 2]
     ELSE db

\* Mutant: profiles are normalized before the progress entry at 12 moved away.
NormalizeProfilesFirst(db) ==
  LET numbered == Renumber(NormalizeProfiles(NormalizeMirror(db)), 25, 26)
      progress == Reclaim(Reclaim(Renumber(Renumber(numbered, 12, 20), 13, 21), 18), 19)
  IN NormalizeManagement(Reclaim(Reclaim(progress, 21), 22))

Normalize(db) ==
  LET numbered == Renumber(Renumber(NormalizeMirror(db), 25, 26), 12, 20)
      profiled == Renumber(NormalizeProfiles(numbered), 13, 21)
      setup == Reclaim(Reclaim(profiled, 18), 19)
      progress == Reclaim(Reclaim(Reclaim(setup, 20), 21), 22)
  IN NormalizeManagement(progress)

-----------------------------------------------------------------------------
(***************************************************************************)
(* The migrations.                                                         *)
(***************************************************************************)

\* The tables and the owner column of deep scans; tables made again have
\* none of the columns added since.
RepairDeepScan(db) == [Ensure(db, {11}) EXCEPT !.owner = TRUE]

\* The columns whose presence is checked although the migration is recorded.
Repaired == {2, 6, 12, 13, 16, 26, 28, 31, 32, 40, 41}

Repair(db, v) ==
  IF v = 11 THEN RepairDeepScan(db)
  ELSE IF v \in Repaired THEN Ensure(db, {v}) ELSE db

\* ALTER TABLE and CREATE fail on what is there already and on a missing table;
\* 6 and 16 look first, 18 only updates rows.
Apply(db, v) ==
  LET possible == /\ v \notin {6, 16, 18} => v \notin db.has
                  /\ v = 11 => ~db.owner
                  /\ v = 25 => ~db.profile
                  /\ v \in DeepAlterations => 11 \in db.has
      applied == Ensure(Require(db, possible), {v})
  IN [applied EXCEPT !.owner = @ \/ v = 11, !.names[v] = v]

\* What is recorded is read once, before the first migration.
Migrated(db) ==
  LET after[v \in 0..Latest] ==
        IF v = 0 THEN db
        ELSE IF Recorded(db, v) THEN Repair(after[v - 1], v)
        ELSE Apply(after[v - 1], v)
  IN after[Latest]

\* The whole transaction: normalize, migrate, and last the failure counters.
Upgraded(db) ==
  LET normalized == Normalize([db EXCEPT !.fine = TRUE])
      migrated == Migrated(normalized)
  IN IF Recorded(normalized, 27) THEN Ensure(migrated, {27}) ELSE migrated

-----------------------------------------------------------------------------
(***************************************************************************)
(* Which databases are supported, said of the entries a build left.        *)
(***************************************************************************)
Database ==
  [names : [Versions -> Nat], has : SUBSET Versions, owner : BOOLEAN, profile : BOOLEAN,
   fine : BOOLEAN]

\* The migrations that were released under another number.
Moved ==
  {<<2, 3>>, <<3, 4>>, <<4, 5>>, <<12, 20>>, <<13, 21>>, <<25, 26>>, <<29, 31>>, <<30, 32>>}

\* The entries that give way: what their number stands for is not done by them.
Strays ==
  Moved \cup {<<5, SnapshotDigests>>, <<11, ScanProfiles>>, <<12, ScanProfiles>>,
              <<12, DynamicProfiles>>}

\* Some entry says that migration m was applied.
Reads(db, m) ==
  \/ \E v \in Versions : <<v, m>> \in Moved /\ db.names[v] = m
  \/ Recorded(db, m) /\ <<m, db.names[m]>> \notin Strays
  \/ m = 25 /\ db.profile

Legacy(db) == \E v \in {11, 12} : <<v, db.names[v]>> \in Strays \ Moved

\* Entries that cannot come from one history.
Conflicting(db) ==
  \/ \E v \in {29, 30} : <<v, db.names[v]>> \in Moved
     /\ ~(db.names[29] = 31 /\ db.names[30] = 32 /\ ~Recorded(db, 31) /\ ~Recorded(db, 32))
  \/ \E e \in {<<12, 20>>, <<13, 21>>, <<25, 26>>} :
       db.names[e[1]] = e[2] /\ Recorded(db, e[2])
  \/ Legacy(db) /\ ~db.profile
  \/ /\ Legacy(db) \/ db.profile
     /\ \E v \in {11, 12, 25} :
          /\ db.names[v] \notin {NoName, v}
          /\ <<v, db.names[v]>> \notin Strays \cup {<<25, DynamicProfiles>>}
  \/ /\ db.names[2] = 3
     /\ \E v \in 3..5 : Recorded(db, v) /\ <<v, db.names[v]>> \notin Strays

\* The names that only the repairs look past.
AnyName == {2, 13, 26}

\* What the schema has is what the entries say, apart from what is repaired.
Supported(db) ==
  /\ db \in Database /\ db.fine /\ ~Conflicting(db)
  /\ \A v \in Versions \ AnyName :
       \/ db.names[v] \in {NoName, v}
       \/ <<v, db.names[v]>> \in Strays \cup Shadows \cup {<<25, DynamicProfiles>>}
  /\ db.names[2] # 3 => \A v \in 3..5 : db.names[v] \in {NoName, v}
  /\ \A m \in Versions :
       IF Reads(db, m)
       THEN \/ m \in db.has \cup Repaired \cup {11, 27}
            \/ <<m, db.names[m]>> \in Shadows
            \/ m = 25 /\ db.profile
       ELSE \/ m \notin db.has \/ m \in {6, 16, 18}
            \/ m = 2 /\ db.names[2] = 3
  /\ ~Reads(db, 11) => ~db.owner

ASSUME MigrationAssumption ==
  /\ \A db \in Histories : Supported(db)
  /\ \A db \in Foreign : db \in Database /\ db.fine /\ Conflicting(db)

MigrationInit ==
  /\ found \in Histories \cup Foreign
  /\ database = found
  /\ opened = "no"

\* A process opens the database, for the first time or again.
Connect ==
  /\ opened # "refused"
  /\ LET result == Upgraded(database)
     IN IF result.fine
        THEN opened' = "yes" /\ database' = result
        ELSE opened' = "refused" /\ database' = database
  /\ UNCHANGED found

MigrationNext == Connect

-----------------------------------------------------------------------------

\* The schema of this build, every migration recorded: under its own name,
\* unless the database came with another one that only the repairs look past.
Whole(db, left) ==
  /\ db.has = Versions
  /\ db.owner
  /\ ~db.profile
  /\ \A v \in Versions :
       \/ db.names[v] = v
       \/ v \in AnyName /\ Recorded(left, v) /\ db.names[v] = left.names[v]

\* A database any earlier build left opens with the whole schema of this one,
\* the first time and every time after, whatever numbers its builds used; one
\* that is not supported is refused and stays exactly as it was
\* (apply_migrations, normalize_pre_release_migrations and the repairs).
EveryHistoryUpgrades ==
  /\ opened # "no" /\ found \in Histories => opened = "yes" /\ Whole(database, found)
  /\ opened # "no" /\ found \in Foreign => opened = "refused" /\ database = found

=============================================================================
