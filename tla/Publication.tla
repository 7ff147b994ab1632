----------------------------- MODULE Publication -----------------------------
(***************************************************************************)
(* Recording which issue of a tracker was created for which finding of a   *)
(* completed scan (scripts/workbench_publication.py, migrations 29 and 30).*)
(* The issues are created by the callers, who may die before they record   *)
(* them, record them again, or record what another caller recorded         *)
(* meanwhile.  Recording is one immediate transaction, inspecting is one   *)
(* read of the database.                                                   *)
(***************************************************************************)
EXTENDS Naturals, FiniteSets, FiniteSetsExt

CONSTANTS
  Occurrences,   \* what completed scans found
  Scan,          \* the scan of each occurrence
  Destinations,  \* teams with or without a project
  Issues,        \* identifiers of issues, in each destination
  Urls,          \* their addresses
  NoUrl,
  Callers

ASSUME PublicationAssumption == NoUrl \notin Urls

VARIABLES
  rows,      \* finding_publications
  reported,  \* what a caller was told is recorded
  created,   \* the issues that exist, by what they were created for
  planned    \* what each caller means to publish: nothing, or its scan,
             \* destination and the occurrences it saw no issue of

publicationVars == <<rows, reported, created, planned>>

ScanIds == {Scan[o] : o \in Occurrences}

Idle == [scan |-> {}, destination |-> {}, missing |-> {}]

PublicationInit ==
  /\ rows = {} /\ reported = {} /\ created = {}
  /\ planned = [c \in Callers |-> Idle]

\* The findings in the request are exactly those of the completed scan
\* (verify_linear_publication_scan), so its scan stands for them.
FindingsOf(scan) == {o \in Occurrences : Scan[o] = scan}

\* inspect_linear_publication: the caller learns what is recorded.
Inspect(c, scan, d) ==
  /\ planned' = [planned EXCEPT ![c] =
       [scan |-> {scan}, destination |-> {d},
        missing |-> {o \in FindingsOf(scan) :
                       ~\E r \in rows : r.occurrence = o /\ r.destination = d}]]
  /\ UNCHANGED <<rows, reported, created>>

\* The caller creates the issue of a finding that has none, as far as it knows.
CreateIssue(c, o, issue, url) ==
  /\ o \in planned[c].missing
  /\ \E d \in planned[c].destination :
       /\ ~\E i \in created : i.destination = d /\ i.issue = issue
       /\ created' = created \cup {[occurrence |-> o, destination |-> d,
                                    issue |-> issue, url |-> url]}
  /\ planned' = [planned EXCEPT ![c].missing = @ \ {o}]
  /\ UNCHANGED <<rows, reported>>

\* Two rows for one issue are not possible: the unique indices of the table,
\* for a destination with a project and for one without.
SameIssue(r, p) == r.destination = p.destination /\ r.issue = p.issue

\* Mutant: an address that changed is not noticed.
ConflictsOverFinding(p) ==
  \E r \in rows : SameIssue(r, p) /\ r.occurrence # p.occurrence

Conflicts(p) ==
  \E r \in rows :
    /\ SameIssue(r, p)
    /\ r.occurrence # p.occurrence \/ (p.url # NoUrl /\ r.url # p.url)

\* Associations of one scan with one destination, no issue and no finding twice.
WellFormed(publications) ==
  /\ publications # {}
  /\ \E scan \in ScanIds, d \in Destinations :
       \A p \in publications : p.destination = d /\ p.occurrence \in FindingsOf(scan)
  /\ \A p, q \in publications :
       p # q => p.issue # q.issue /\ p.occurrence # q.occurrence

\* record_linear_publications: all of the associations or none; what is recorded
\* already stays.
Record(c, publications) ==
  /\ WellFormed(publications)
  /\ \A p \in publications : ~Conflicts(p)
  /\ rows' = rows \cup {p \in publications : ~\E r \in rows : SameIssue(r, p)}
  /\ reported' = reported \cup publications
  /\ planned' = [planned EXCEPT ![c] = Idle]
  /\ UNCHANGED created

\* What a caller may report: issues that exist, with the address it knows or
\* without, or, by mistake, for another finding.
Reports ==
  {[occurrence |-> o, destination |-> i.destination, issue |-> i.issue, url |-> u] :
     o \in Occurrences, i \in created, u \in Urls \cup {NoUrl}}

PublicationNext ==
  \E c \in Callers :
    \/ \E scan \in ScanIds, d \in Destinations : Inspect(c, scan, d)
    \/ \E o \in Occurrences, issue \in Issues, url \in Urls : CreateIssue(c, o, issue, url)
    \/ \E publications \in kSubset(1, Reports) \cup kSubset(2, Reports) :
         Record(c, publications)

-----------------------------------------------------------------------------

\* What a caller is told it has recorded stays true: the issue belongs to that
\* finding and to no other, at the address it gave, however many callers
\* record, repeat and correct at the same time (record_linear_publications).
RecordedAsReported ==
  /\ \A p \in reported : \E r \in rows :
       SameIssue(r, p) /\ r.occurrence = p.occurrence /\ (p.url # NoUrl => r.url = p.url)
  /\ \A r, s \in rows : SameIssue(r, s) => r = s

=============================================================================
