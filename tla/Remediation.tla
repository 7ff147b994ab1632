----------------------------- MODULE Remediation -----------------------------
(***************************************************************************)
(* The remediation of one finding: its attempts, the host action each one  *)
(* waits for, the claims of the panels and workers that carry it out, and  *)
(* the triage that closes the finding (scripts/workbench_db.py 2008-2648,  *)
(* scripts/workbench_remediation.py).  Three operations inspect the        *)
(* checkout before they open their transaction: each is a read, which keeps*)
(* what it saw in call, and a commit that compares version and claim again;*)
(* to record applied the checkout is read twice, digested and then copied. *)
(* A call that is refused is no step; the scan is complete.  A patch is the *)
(* change Apply makes to a checkout; paths, digests, summaries are left out.*)
(***************************************************************************)
EXTENDS Naturals, FiniteSets, Sequences, SequencesExt

CONSTANTS
  Requests,    \* identifiers of remediation requests
  Tokens,      \* action tokens of panels and workers
  Callers,     \* helper processes at work at the same time
  Contents,    \* what the selected checkout may contain
  Apply,       \* the content a reviewed patch makes of a content
  MaxVersion,  \* bound: versions of an attempt
  None

ASSUME ApplyAssumption ==
  Apply \in [Contents -> Contents] /\ \A c \in Contents : Apply[c] # c
ASSUME NoneAssumption ==
  None \notin Tokens \cup Contents \cup Requests \cup {"generate", "apply", "verify"}
ASSUME VersionAssumption == MaxVersion \in Nat \ {0}

VARIABLES
  attempt,  \* rows of finding_remediation_attempts, None where there is none
  order,    \* the requests that have a row, the oldest first
  closed,   \* whether finding_triage says closed
  content,  \* the checkout, which its owner changes at any time
  call      \* what each caller has read and not yet committed

vars == <<attempt, order, closed, content, call>>

Row ==
  [state : {"requested", "generated", "applied", "verifying", "verified", "failed", "superseded"},
   version : 1..MaxVersion, base : Contents, applied : Contents \cup {None},
   pending : {"generate", "apply", "verify", None},
   token : Tokens \cup {None}, stale : BOOLEAN,
   torn : BOOLEAN]   \* history, no column: the checkout changed between the two
                     \* readings of the call that recorded what was applied

ASSUME RowAssumption == None \notin Row

Exists(q) == attempt[q] # None
Latest == IF order = <<>> THEN None ELSE Last(order)

\* A claim counts until its lease is over.  The lease is a longer one after the
\* action was delivered to a worker, which is all the delivery is good for.
ClaimIsActive(row) == row.token # None /\ ~row.stale

Unclaimed(row) == [row EXCEPT !.token = None, !.stale = FALSE]
Claimed(row, t) == [row EXCEPT !.token = t, !.stale = FALSE]
Settled(row) == [Unclaimed(row) EXCEPT !.pending = None]
Bumped(row) == [row EXCEPT !.version = row.version + 1]
MayBump(q) == attempt[q].version < MaxVersion

\* what may follow a state, and what a worker may record for its action
Transitions ==
  [requested  |-> {"requested", "generated", "failed"},
   generated  |-> {"generated", "applied", "failed"},
   applied    |-> {"applied", "verifying", "failed"},
   verifying  |-> {"verifying", "verified", "failed"},
   verified   |-> {"verifying", "verified"},
   failed     |-> {"generated", "applied", "verifying", "verified", "failed"},
   superseded |-> {}]

RecordedBy ==
  [generate |-> {"generated", "failed"},
   apply    |-> {"applied", "failed"},
   verify   |-> {"verifying", "verified", "failed"}]

ActionFrom == [apply |-> "generated", verify |-> "applied"]

\* what the checkout must contain when a state other than applied is recorded
CheckoutAgrees(row, to) ==
  /\ to = "generated" => content = row.base
  /\ to \in {"verifying", "verified"} => content = row.applied

Ends(p) == call' = [call EXCEPT ![p] = None]
Reads(p, read) == call[p] = None /\ call' = [call EXCEPT ![p] = read]
Stays == UNCHANGED <<order, closed, content>>

-----------------------------------------------------------------------------
(* request-finding-remediation *)

ReadRequest(p, q, t) ==
  /\ ~closed /\ ~Exists(q)
  /\ Reads(p, [op |-> "request", q |-> q, token |-> t, saw |-> [base |-> content]])
  /\ UNCHANGED <<attempt, order, closed, content>>

\* A latest attempt at work keeps others out, unless it failed and nobody
\* carries its action out again.
AtWork(row) ==
  /\ row.pending # None \/ row.state \in {"requested", "verifying"}
  /\ row.state # "failed" \/ ClaimIsActive(row)

Superseded(row) ==
  CASE row.state = "failed" -> Settled(row)
    [] row.state \in {"generated", "applied"} -> [Bumped(Settled(row)) EXCEPT !.state = "superseded"]
    [] OTHER -> row

CommitRequest(p) ==
  /\ call[p] # None /\ call[p].op = "request" /\ ~closed
  /\ LET q == call[p].q
         new == [state |-> "requested", version |-> 1, base |-> call[p].saw.base, applied |-> None,
                 pending |-> "generate", token |-> call[p].token, stale |-> FALSE,
                 torn |-> FALSE]
     IN /\ ~Exists(q)
        /\ Latest # None =>
             /\ ~AtWork(attempt[Latest])
             /\ attempt[Latest].state \in {"generated", "applied"} => MayBump(Latest)
        /\ attempt' = [r \in Requests |-> IF r = q THEN new
                                          ELSE IF r = Latest THEN Superseded(attempt[r])
                                          ELSE attempt[r]]
        /\ order' = Append(order, q)
  /\ Ends(p)
  /\ UNCHANGED <<closed, content>>

-----------------------------------------------------------------------------
(* request-finding-remediation-action *)

ReadAction(p, q, t, action) ==
  /\ ~closed /\ Exists(q)
  /\ attempt[q].pending = None /\ attempt[q].state = ActionFrom[action]
  /\ content = (IF action = "apply" THEN attempt[q].base ELSE attempt[q].applied)
  /\ Reads(p, [op |-> action, q |-> q, token |-> t, saw |-> [version |-> attempt[q].version]])
  /\ UNCHANGED <<attempt, order, closed, content>>

CommitActionUnfenced(p) ==      \* MUTANT: the version is not compared
  /\ call[p] # None /\ call[p].op \in {"apply", "verify"} /\ ~closed
  /\ LET q == call[p].q
     IN /\ Exists(q) /\ attempt[q].pending = None /\ MayBump(q)
        /\ attempt' = [attempt EXCEPT ![q] =
                         Claimed(Bumped([attempt[q] EXCEPT !.pending = call[p].op]), call[p].token)]
  /\ Ends(p) /\ Stays

CommitAction(p) ==
  /\ call[p] # None /\ call[p].op \in {"apply", "verify"} /\ ~closed
  /\ LET q == call[p].q
     IN /\ Exists(q) /\ attempt[q].version = call[p].saw.version
        /\ attempt[q].pending = None /\ MayBump(q)
        /\ attempt' = [attempt EXCEPT ![q] =
                         Claimed(Bumped([attempt[q] EXCEPT !.pending = call[p].op]), call[p].token)]
  /\ Ends(p) /\ Stays

-----------------------------------------------------------------------------
(* set-finding-remediation *)

MayRecord(q, t, to) ==
  /\ ~closed /\ Exists(q)
  /\ attempt[q].token = t
  /\ to \in Transitions[attempt[q].state] \cap RecordedBy[attempt[q].pending]

ReadSet(p, q, t, to) ==
  /\ MayRecord(q, t, to)
  /\ CheckoutAgrees(attempt[q], to)
  /\ Reads(p, [op |-> to, q |-> q, token |-> t,
               saw |-> [version |-> attempt[q].version, applied |-> attempt[q].applied,
                        torn |-> attempt[q].torn]])
  /\ UNCHANGED <<attempt, order, closed, content>>

\* For applied the digest that will be recorded is taken first.  Whether the
\* reviewed patch, taken back, leaves the base is seen on a copy made later.
ReadDigest(p, q, t) ==
  /\ MayRecord(q, t, "applied")
  /\ content # attempt[q].base
  /\ Reads(p, [op |-> "digest", q |-> q, token |-> t,
               saw |-> [version |-> attempt[q].version, base |-> attempt[q].base,
                        applied |-> content, torn |-> FALSE]])
  /\ UNCHANGED <<attempt, order, closed, content>>

CopyCheckout(p) ==
  /\ call[p] # None /\ call[p].op = "digest"
  /\ content = Apply[call[p].saw.base]
  /\ call' = [call EXCEPT ![p].op = "applied"]
  /\ UNCHANGED <<attempt, order, closed, content>>

\* A verification keeps its action and its worker, a failure keeps the action
\* for a worker to come.
Recorded(row, saw, to) ==
  LET kept == [Bumped(row) EXCEPT !.state = to, !.applied = saw.applied,
                               !.torn = saw.torn]
  IN CASE to = "verifying" -> kept
       [] to = "failed" -> Unclaimed(kept)
       [] OTHER -> Settled(kept)

CommitSetThoughClosed(p) ==     \* MUTANT: the finding is not looked at again
  /\ call[p] # None /\ call[p].op \in UNION {RecordedBy[a] : a \in DOMAIN RecordedBy}
  /\ LET q == call[p].q
     IN /\ Exists(q) /\ MayBump(q)
        /\ attempt[q].version = call[p].saw.version /\ attempt[q].token = call[p].token
        /\ attempt' = [attempt EXCEPT ![q] = Recorded(attempt[q], call[p].saw, call[p].op)]
  /\ Ends(p) /\ Stays

CommitSet(p) ==
  /\ call[p] # None /\ call[p].op \in UNION {RecordedBy[a] : a \in DOMAIN RecordedBy}
  /\ ~closed
  /\ LET q == call[p].q
     IN /\ Exists(q) /\ MayBump(q)
        /\ attempt[q].version = call[p].saw.version /\ attempt[q].token = call[p].token
        /\ attempt' = [attempt EXCEPT ![q] = Recorded(attempt[q], call[p].saw, call[p].op)]
  /\ Ends(p) /\ Stays

\* the commit of a call is refused, or its process dies
GiveUp(p) == call[p] # None /\ Ends(p) /\ UNCHANGED <<attempt, order, closed, content>>

-----------------------------------------------------------------------------
(* The claims *)

OwnsClaim(q, t) == Exists(q) /\ attempt[q].pending # None /\ attempt[q].token = t

\* claim-finding-remediation-resend
Resend(q, t) ==
  /\ ~closed /\ Exists(q) /\ attempt[q].pending # None /\ attempt[q].token # t
  /\ attempt[q].token = None \/ attempt[q].stale
  /\ attempt' = [attempt EXCEPT ![q] = Claimed(attempt[q], t)]
  /\ Stays /\ UNCHANGED call

\* mark-finding-remediation-delivered, which does not ask whether the finding
\* is open
MarkDelivered(q, t) ==
  /\ OwnsClaim(q, t)
  /\ attempt[q].stale /\ attempt' = [attempt EXCEPT ![q] = [attempt[q] EXCEPT !.stale = FALSE]]
  /\ Stays /\ UNCHANGED call

\* release-finding-remediation-claim
Release(q, t) ==
  /\ OwnsClaim(q, t)
  /\ attempt' = [attempt EXCEPT ![q] = Unclaimed(attempt[q])]
  /\ Stays /\ UNCHANGED call

ClaimExpires(q) ==
  /\ Exists(q) /\ ClaimIsActive(attempt[q])
  /\ attempt' = [attempt EXCEPT ![q] = [attempt[q] EXCEPT !.stale = TRUE]]
  /\ Stays /\ UNCHANGED call

-----------------------------------------------------------------------------
(* cancel-finding-remediation-request *)

\* A canceled generation leaves no row; what it superseded comes back.
Restored(row) ==
  IF row # None /\ row.state = "superseded"
  THEN [Bumped(row) EXCEPT !.state = IF row.applied # None THEN "applied" ELSE "generated"]
  ELSE row

CancelGeneration(q, t) ==
  /\ OwnsClaim(q, t) /\ attempt[q].state = "requested"
  /\ LET rest == RemoveAt(order, CHOOSE i \in DOMAIN order : order[i] = q)
         previous == IF rest = <<>> THEN None ELSE Last(rest)
     IN /\ previous # None => MayBump(previous)
        /\ attempt' = [r \in Requests |-> IF r = q THEN None
                                          ELSE IF r = previous THEN Restored(attempt[r])
                                          ELSE attempt[r]]
        /\ order' = rest
  /\ UNCHANGED <<closed, content, call>>

CancelAction(q, t) ==
  /\ OwnsClaim(q, t) /\ attempt[q].state # "failed" /\ attempt[q].pending # "generate"
  /\ MayBump(q)
  /\ attempt' = [attempt EXCEPT ![q] = Bumped(Settled(attempt[q]))]
  /\ Stays /\ UNCHANGED call

CancelRetry(q, t) ==
  /\ OwnsClaim(q, t) /\ attempt[q].state = "failed"
  /\ attempt' = [attempt EXCEPT ![q] = Unclaimed(attempt[q])]
  /\ Stays /\ UNCHANGED call

-----------------------------------------------------------------------------
(* set-finding-triage *)

CloseFindingAnyway(alreadyFixed) ==      \* MUTANT: pending work is not waited for
  /\ ~closed /\ closed' = TRUE
  /\ UNCHANGED <<attempt, order, content, call>>

CloseFinding(alreadyFixed) ==
  /\ Latest # None =>
       LET row == attempt[Latest]
       IN /\ row.pending # None => row.state = "failed" /\ ~ClaimIsActive(row)
          /\ alreadyFixed /\ row.state = "verified" => content = row.applied
  /\ ~closed /\ closed' = TRUE
  /\ UNCHANGED <<attempt, order, content, call>>

ReopenFinding ==
  /\ closed /\ closed' = FALSE
  /\ UNCHANGED <<attempt, order, content, call>>

\* A call between its two readings has missed the edit in the first of them.
Overtaken(c) ==
  [c EXCEPT !.saw = [version |-> c.saw.version, base |-> c.saw.base,
                     applied |-> c.saw.applied, torn |-> TRUE]]

EditCheckout ==
  /\ \E c \in Contents : c # content /\ content' = c
  /\ call' = [p \in Callers |-> IF call[p] # None /\ call[p].op = "digest"
                                THEN Overtaken(call[p]) ELSE call[p]]
  /\ UNCHANGED <<attempt, order, closed>>

-----------------------------------------------------------------------------
Init ==
  /\ attempt = [q \in Requests |-> None] /\ order = <<>>
  /\ closed = FALSE /\ content \in Contents
  /\ call = [p \in Callers |-> None]

Inspecting ==
  \E p \in Callers, q \in Requests, t \in Tokens :
    \/ ReadRequest(p, q, t)
    \/ \E action \in {"apply", "verify"} : ReadAction(p, q, t, action)
    \/ \E to \in {"generated", "verifying", "verified", "failed"} : ReadSet(p, q, t, to)
    \/ ReadDigest(p, q, t)
    \/ CopyCheckout(p)

Committing ==
  \E p \in Callers : CommitRequest(p) \/ CommitAction(p) \/ CommitSet(p) \/ GiveUp(p)

Claiming ==
  \E q \in Requests :
    \/ ClaimExpires(q)
    \/ \E t \in Tokens :
         \/ Resend(q, t) \/ MarkDelivered(q, t) \/ Release(q, t)
         \/ CancelGeneration(q, t) \/ CancelAction(q, t) \/ CancelRetry(q, t)

Triaging == (\E fixed \in BOOLEAN : CloseFinding(fixed)) \/ ReopenFinding

Next == Inspecting \/ Committing \/ Claiming \/ Triaging \/ EditCheckout

Spec == Init /\ [][Next]_vars

-----------------------------------------------------------------------------
(* Properties *)

\* The rows have their types.
TypeOK ==
  /\ attempt \in [Requests -> Row \cup {None}]
  /\ order \in Seq(Requests)
  /\ closed \in BOOLEAN /\ content \in Contents

\* However calls that were checked long ago commit, and whatever was canceled
\* and restored in between, the finding has one attempt that may still move,
\* its latest; of a closed finding nothing waits but a failed action.
OneLiveAttempt ==
  \A q \in Requests : Exists(q) =>
    /\ attempt[q].state \in {"requested", "generated", "applied", "verifying"}
         \/ attempt[q].pending # None => q = Latest
    /\ attempt[q].token # None => attempt[q].pending # None
    /\ closed /\ attempt[q].pending # None => attempt[q].state = "failed"

\* A closed finding is quiet: no call checked before it was closed moves an
\* attempt of it, adds one or takes one back.
ClosedIsQuiet ==
  [][ closed => /\ order' = order
                /\ \A q \in Requests : Exists(q) =>
                     attempt'[q].state = attempt[q].state /\ attempt'[q].version = attempt[q].version ]_vars

\* What counts as applied or verified is never the attempt's base, and is its
\* patched form unless the checkout was edited between the two readings of the
\* call that recorded it; so it stays through failures, retries, supersession
\* and calls checked long ago, and no action waits on other content.
VerifiedWasApplied ==
  \A q \in Requests : Exists(q) =>
    /\ attempt[q].state \in {"applied", "verifying", "verified"} \/ attempt[q].pending = "verify"
         => /\ attempt[q].applied \notin {None, attempt[q].base}
            /\ ~attempt[q].torn => attempt[q].applied = Apply[attempt[q].base]
    /\ attempt[q].pending \in {"generate", "apply"} => attempt[q].applied = None

=============================================================================
